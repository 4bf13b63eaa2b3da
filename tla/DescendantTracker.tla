------------------------- MODULE DescendantTracker --------------------------
(***************************************************************************)
(* providerprocess.TrackDescendants (descendants_darwin.go): the processes *)
(* a provider client leaves behind are found by repeated snapshots of the  *)
(* process table and killed when the client has been stopped, while        *)
(* processes fork, exit, are reparented and reuse process ids.             *)
(*                                                                         *)
(* A process is known by [pid, start, uid]; a start time is never used     *)
(* twice.  The lookup of killMatching and its kill(2) are one step here:   *)
(* the source documents the window between them as not closable on macOS.  *)
(***************************************************************************)
EXTENDS Naturals, FiniteSets

CONSTANTS
    Pids,              \* process ids above 1
    Root,              \* the pid of the provider client
    DescendantLimit,   \* descendantLimit
    MaxStart           \* bound: how many processes are ever started

ASSUME RootAssumption ==
    /\ Root \in Pids /\ IsFiniteSet(Pids) /\ 1 \notin Pids
    /\ DescendantLimit \in Nat /\ MaxStart \in Nat \ {0}

None == 0
Starts == 1 .. MaxStart

VARIABLES
    table,     \* the kernel's process table, by pid
    clock,     \* the last start time given out
    owned,     \* start times of the root's true descendants, and its own
    phase,     \* of the tracking goroutine
    list,      \* its last snapshot
    known,     \* descendantSet.known: pid to identity
    result,    \* its error, if any
    observed,  \* start times seen to descend from the root
    killed     \* start times of the processes it signalled

kernel == <<table, clock, owned>>
vars == <<kernel, phase, list, known, result, observed, killed>>

NoProcess == [start |-> None, parent |-> None, uid |-> "none", zombie |-> FALSE]
Exists(p) == table[p] # NoProcess
Running(p) == Exists(p) /\ ~table[p].zombie

Process(parent) ==
    [start |-> clock + 1, parent |-> parent, uid |-> "self", zombie |-> FALSE]

\* The root is started, its identity read, and it may have forked already.
Init ==
    /\ clock = 1 /\ owned = {1}
    /\ table = [p \in Pids |-> IF p = Root
                   THEN [start |-> 1, parent |-> 1, uid |-> "self", zombie |-> FALSE]
                   ELSE NoProcess]
    /\ phase = "start"
    /\ list = [p \in Pids |-> NoProcess]
    /\ known = [p \in Pids |-> IF p = Root THEN table[p] ELSE NoProcess]
    /\ result = "nil" /\ observed = {} /\ killed = {}

-----------------------------------------------------------------------------
(* The kernel.                                                             *)

\* A free pid is given out again: to a child of a process, or of launchd.
Fork(parent, p) ==
    /\ phase # "returned"
    /\ clock < MaxStart /\ ~Exists(p) /\ p # Root
    /\ parent \in Pids => Running(parent)
    /\ clock' = clock + 1
    /\ table' = [table EXCEPT ![p] = Process(parent)]
    /\ owned' = IF parent \in Pids /\ table[parent].start \in owned
                THEN owned \cup {clock + 1} ELSE owned
    /\ UNCHANGED <<phase, list, known, result, observed, killed>>

\* Children of a process that ends are handed to launchd.
Ended(p, entry) ==
    [q \in Pids |-> IF q = p THEN entry
                    ELSE IF table[q].parent = p THEN [table[q] EXCEPT !.parent = 1]
                    ELSE table[q]]

Exit(p) ==
    /\ phase # "returned"
    /\ Running(p)
    /\ table' = Ended(p, [table[p] EXCEPT !.zombie = TRUE])
    /\ UNCHANGED <<clock, owned, phase, list, known, result, observed, killed>>

\* The root stays a zombie: Cmd.Wait comes after the cleanup.
Reap(p) ==
    /\ phase # "returned"
    /\ Exists(p) /\ table[p].zombie /\ p # Root
    /\ table' = [table EXCEPT ![p] = NoProcess]
    /\ UNCHANGED <<clock, owned, phase, list, known, result, observed, killed>>

ChangeUid(p) ==
    /\ phase # "returned"
    /\ Running(p) /\ p # Root
    /\ table' = [table EXCEPT ![p].uid = "other"]
    /\ UNCHANGED <<clock, owned, phase, list, known, result, observed, killed>>

-----------------------------------------------------------------------------
(* The tracking goroutine.                                                 *)

sameProcess(a, b) == a.start = b.start /\ a.uid = b.uid

\* processSnapshot lists the processes of the Node's own user.
Snapshot(next) ==
    /\ list' = [p \in Pids |-> IF table[p].uid = "self" THEN table[p] ELSE NoProcess]
    /\ phase' = next
    /\ UNCHANGED <<kernel, known, result, observed, killed>>

Begin == phase = "start" /\ Snapshot("first")
Tick == phase = "tracking" /\ Snapshot("capture")
Stop == phase = "tracking" /\ Snapshot("last")

\* The snapshot fails; what is known stays.
SnapshotFails ==
    /\ phase \in {"start", "tracking"}
    /\ result' = "tracking"
    /\ \/ phase = "start" /\ phase' = "returned"
       \/ phase = "tracking" /\ phase' \in {"tracking", "finish"}
    /\ UNCHANGED <<kernel, list, known, observed, killed>>

\* A mutant: whatever the snapshot does not list is forgotten.
pruneUnlisted ==
    [p \in Pids |->
        IF p # Root /\ list[p].start # known[p].start THEN NoProcess ELSE known[p]]

\* What is listed with another birth time has ended.  What is not listed is
\* looked up, and dropped when it is gone or its pid was reused.
prune ==
    [p \in Pids |->
        IF known[p] = NoProcess \/ p = Root THEN known[p]
        ELSE IF list[p] # NoProcess
        THEN IF list[p].start = known[p].start THEN known[p] ELSE NoProcess
        ELSE IF table[p].start = known[p].start THEN known[p] ELSE NoProcess]

\* A child is admitted under a parent that is known, listed, alive and older.
Admits(k, p) ==
    /\ list[p] # NoProcess /\ ~list[p].zombie
    /\ ~(k[p] # NoProcess /\ sameProcess(k[p], list[p]))
    /\ LET parent == list[p].parent
       IN  /\ parent \in Pids /\ k[parent] # NoProcess
           /\ sameProcess(k[parent], list[parent]) /\ ~list[parent].zombie
           /\ list[p].start >= k[parent].start

Size(k) == Cardinality({p \in Pids : k[p] # NoProcess})

\* capture goes over the list until nothing is added; the order of the list
\* does not matter, except for which processes fill a set at its limit.
Captured(k) ==
    LET Grow[n \in 0 .. Cardinality(Pids)] ==
            IF n = 0 THEN k
            ELSE LET before == Grow[n - 1]
                 IN  [p \in Pids |-> IF Admits(before, p) THEN list[p] ELSE before[p]]
    IN  Grow[Cardinality(Pids)]

Starting(k) == {k[p].start : p \in {q \in Pids \ {Root} : k[q] # NoProcess}}

NoList == [p \in Pids |-> NoProcess]

\* An error of the first capture is TrackDescendants' own; later ones are kept.
After(outcome) ==
    /\ list' = NoList
    /\ phase' = CASE phase = "first" -> IF outcome = "nil" THEN "tracking" ELSE "returned"
                  [] phase = "capture" -> "tracking"
                  [] phase = "last" -> "finish"

CaptureAll ==
    /\ phase \in {"first", "capture", "last"}
    /\ LET all == Captured(prune)
       IN  Size(all) <= DescendantLimit /\ known' = all
    /\ observed' = observed \cup Starting(known')
    /\ After("nil")
    /\ UNCHANGED <<kernel, result, killed>>

\* At the limit capture gives up with some of the processes admitted.
CaptureOverflows ==
    /\ phase \in {"first", "capture", "last"}
    /\ LET before == prune
           all == Captured(before)
       IN  /\ Size(all) > DescendantLimit
           /\ \E S \in SUBSET Pids :
                 /\ known' = [p \in Pids |-> IF p \in S THEN all[p] ELSE before[p]]
                 /\ Size(known') <= DescendantLimit
           /\ observed' = observed \cup Starting(all)
    /\ result' = "tracking"
    /\ After("tracking")
    /\ UNCHANGED <<kernel, killed>>

-----------------------------------------------------------------------------
(* finish.                                                                 *)

Recorded(p) == known[p] # NoProcess /\ p # Root
Match(p) == Recorded(p) /\ Running(p) /\ table[p].start = known[p].start
Killable(p) == Match(p) /\ table[p].uid = known[p].uid

\* A mutant: the pid is signalled, whoever has it.
killPid(p) ==
    /\ phase = "finish" /\ Recorded(p) /\ Running(p) /\ table[p].uid = known[p].uid
    /\ killed' = killed \cup {table[p].start}
    /\ table' = Ended(p, [table[p] EXCEPT !.zombie = TRUE])
    /\ UNCHANGED <<clock, owned, phase, list, known, result, observed>>

\* The identity is read again before each signal.
killMatching(p) ==
    /\ phase = "finish" /\ Killable(p)
    /\ killed' = killed \cup {table[p].start}
    /\ table' = Ended(p, [table[p] EXCEPT !.zombie = TRUE])
    /\ UNCHANGED <<clock, owned, phase, list, known, result, observed>>

\* A pass that finds nothing left to signal ends the cleanup; a process that
\* runs under another user by now is reported, not signalled.
Finish ==
    /\ phase = "finish"
    /\ \A p \in Pids : ~Killable(p)
    /\ result' = IF \E p \in Pids : Match(p) THEN "cleanup" ELSE result
    /\ phase' = "returned"
    /\ UNCHANGED <<kernel, list, known, observed, killed>>

\* A second has passed, or a lookup or a signal has failed.
FinishIncomplete ==
    /\ phase = "finish"
    /\ \E p \in Pids : Recorded(p)
    /\ result' = "cleanup"
    /\ phase' = "returned"
    /\ UNCHANGED <<kernel, list, known, observed, killed>>

-----------------------------------------------------------------------------
Next ==
    \/ \E parent \in Pids \cup {1}, p \in Pids : Fork(parent, p)
    \/ \E p \in Pids : Exit(p) \/ Reap(p) \/ ChangeUid(p)
    \/ Begin \/ Tick \/ Stop \/ SnapshotFails \/ CaptureAll \/ CaptureOverflows
    \/ \E p \in Pids : killMatching(p)
    \/ Finish \/ FinishIncomplete

Spec == Init /\ [][Next]_vars

-----------------------------------------------------------------------------
\* "PID reuse alone never admits a new tree", and "ESRCH and replacement are
\* completion, never a reason to signal the newly occupying process": only
\* processes that descend from the root are recorded and killed, whatever exits,
\* is reparented or takes over a recorded pid between two looks.
KillsOnlyDescendants == observed \subseteq owned /\ killed \subseteq owned

\* When the cleanup reports success no process that was seen to descend from
\* the root is running: not one that left the snapshots by changing its user,
\* and not one that a full set had no room for.
CleanupTruthful ==
    phase = "returned" /\ result = "nil" =>
        \A p \in Pids : Running(p) => table[p].start \notin observed
=============================================================================
