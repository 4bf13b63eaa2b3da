----------------------------- MODULE CodexHome ------------------------------
(***************************************************************************)
(* The homes of Codex app-servers: codexhome.Prepare and the cleanup it    *)
(* returns.  Attempts of several Nodes of one user run at the same time.   *)
(* Each gets a directory of its own, in which the rollouts and the login   *)
(* are links to what the attempts share; an API key from the environment   *)
(* is a private file instead.  The client refreshes its login while it     *)
(* runs, the operator may log in or out, and a Node may crash.             *)
(***************************************************************************)
EXTENDS Naturals

CONSTANTS
    Attempts,     \* one per home directory
    MaxIssued,    \* bound: credentials the service issues
    MaxRollouts   \* bound: rollouts clients record

VARIABLES
    login,        \* auth.json of the native home: 0 for none, else a credential
    issued,       \* the newest credential the service has issued
    rollouts,     \* rollouts in the shared session directories
    recorded,     \* how many rollouts clients have recorded
    step,         \* per attempt: how far Prepare or the attempt has come
    home,         \* per attempt: its directory exists
    auth,         \* per attempt: auth.json in it: "none", "link", "key"
    linked        \* per attempt: the shared session directories are linked

shared == <<login, issued, rollouts, recorded>>
vars == <<shared, step, home, auth, linked>>

Init == /\ login \in {0, 1} /\ issued = 1
        /\ rollouts = 0 /\ recorded = 0
        /\ step = [a \in Attempts |-> "idle"]
        /\ home = [a \in Attempts |-> FALSE]
        /\ auth = [a \in Attempts |-> "none"]
        /\ linked = [a \in Attempts |-> FALSE]

-----------------------------------------------------------------------------
Goes(a, next) == step' = [step EXCEPT ![a] = next]

\* RemoveAll takes the links away, not what they point at.  Its error is ignored,
\* and it is taken not to have one.
Removed(a) == /\ home' = [home EXCEPT ![a] = FALSE]
              /\ auth' = [auth EXCEPT ![a] = "none"]
              /\ linked' = [linked EXCEPT ![a] = FALSE]

\* The checks of the native home, the state directory and the shared session
\* directories fail before there is anything to remove.
PrepareRefuses(a) == /\ step[a] = "idle"
                     /\ Goes(a, "failed")
                     /\ UNCHANGED <<shared, home, auth, linked>>

MkdirTemp(a) == /\ step[a] = "idle"
                /\ home' = [home EXCEPT ![a] = TRUE]
                /\ Goes(a, "made")
                /\ UNCHANGED <<shared, auth, linked>>

LinkRollouts(a) == /\ step[a] = "made"
                   /\ linked' = [linked EXCEPT ![a] = TRUE]
                   /\ Goes(a, "linked")
                   /\ UNCHANGED <<shared, home, auth>>

\* A mutant: the login is copied into the directory.
PrepareAuthCopies(a) ==
    /\ step[a] = "linked"
    /\ \/ auth' = [auth EXCEPT ![a] = "key"]
       \/ auth' = [auth EXCEPT ![a] = IF login = 0 THEN "none" ELSE "copy"]
    /\ Goes(a, "running")
    /\ UNCHANGED <<shared, home, linked>>

\* A private file for an API key; otherwise a link to the login, if there is one.
PrepareAuth(a) ==
    /\ step[a] = "linked"
    /\ \/ auth' = [auth EXCEPT ![a] = "key"]
       \/ auth' = [auth EXCEPT ![a] = IF login = 0 THEN "none" ELSE "link"]
    /\ Goes(a, "running")
    /\ UNCHANGED <<shared, home, linked>>

\* A mutant: an unsafe auth file is refused without removing the directory.
PrepareFailsEarly(a) == /\ step[a] \in {"made", "linked"}
                        /\ Goes(a, "failed")
                        /\ UNCHANGED <<shared, home, auth, linked>>

\* Any later failure removes the directory first.
PrepareFails(a) == /\ step[a] \in {"made", "linked"}
                   /\ Removed(a)
                   /\ Goes(a, "failed")
                   /\ UNCHANGED shared

\* The client exchanges its credential for a new one, which invalidates the old
\* one, and writes it in place: into the login file only where it has a link.
Refresh(a) == /\ step[a] = "running" /\ auth[a] \notin {"none", "key"}
              /\ login # 0 /\ issued < MaxIssued
              /\ issued' = issued + 1
              /\ login' = IF auth[a] = "link" THEN issued + 1 ELSE login
              /\ UNCHANGED <<rollouts, recorded, step, home, auth, linked>>

\* The client records a rollout; without the links it would be in the directory
\* that Cleanup removes.
Record(a) == /\ step[a] = "running" /\ recorded < MaxRollouts
             /\ recorded' = recorded + 1
             /\ rollouts' = IF linked[a] THEN rollouts + 1 ELSE rollouts
             /\ UNCHANGED <<login, issued, step, home, auth, linked>>

\* codexturn.Run calls Cleanup when the app-server is gone.
Cleanup(a) == /\ step[a] = "running"
              /\ Removed(a)
              /\ Goes(a, "done")
              /\ UNCHANGED shared

\* The Node ends without running its deferred calls.
Crash(a) == /\ step[a] \in {"made", "linked", "running"}
            /\ Goes(a, "crashed")
            /\ UNCHANGED <<shared, home, auth, linked>>

\* The operator logs in, which replaces the file, or out, which removes it.
Operator == /\ \/ /\ issued < MaxIssued
                  /\ issued' = issued + 1 /\ login' = issued + 1
               \/ login' = 0 /\ UNCHANGED issued
            /\ UNCHANGED <<rollouts, recorded, step, home, auth, linked>>

Attempt(a) == \/ PrepareRefuses(a) \/ MkdirTemp(a) \/ LinkRollouts(a)
              \/ PrepareAuth(a) \/ PrepareFails(a)
              \/ Refresh(a) \/ Record(a) \/ Cleanup(a) \/ Crash(a)

Next == (\E a \in Attempts : Attempt(a)) \/ Operator

Spec == Init /\ [][Next]_vars

-----------------------------------------------------------------------------
TypeOK ==
    /\ login \in Nat /\ issued \in Nat /\ rollouts \in Nat /\ recorded \in Nat
    /\ step \in [Attempts -> {"idle", "made", "linked", "running",
                              "failed", "done", "crashed"}]
    /\ home \in [Attempts -> BOOLEAN] /\ linked \in [Attempts -> BOOLEAN]
    /\ auth \in [Attempts -> {"none", "link", "key"}]

\* Attempts come and go, fail half-way or crash, and what they share stays good:
\* the operator's login file holds the newest credential, every recorded rollout
\* is kept, and only an attempt that is under way or crashed has a directory; a
\* client only ever starts in a complete one.
HomesKeepState ==
    /\ login \in {0, issued}
    /\ rollouts = recorded
    /\ \A a \in Attempts :
          /\ home[a] => step[a] \in {"made", "linked", "running", "crashed"}
          /\ ~home[a] => auth[a] = "none" /\ ~linked[a]
          /\ step[a] = "running" => home[a] /\ linked[a]
=============================================================================
