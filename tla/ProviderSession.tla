-------------------------- MODULE ProviderSession ---------------------------
(***************************************************************************)
(* A provider run (CodexProvider.Run, ClaudeProvider.Run) and the private  *)
(* client session it reuses: the locks it takes, the session it resumes,   *)
(* the part of the conversation it repeats to the client, the single retry *)
(* with a new session, and the store that remembers the result.  Runs of   *)
(* several Node processes share the store file and the host's lock files;  *)
(* session locks and the store mutex belong to one process (SessionLock    *)
(* shows that the former behave as the plain mutexes used here).           *)
(***************************************************************************)
EXTENDS Naturals, Sequences, SequencesExt

CONSTANTS
    Nodes, Runs,
    Keys,          \* session scopes: Agent, principal and conversation
    Modes,         \* client modes: tool policy, delegation, skill packages
    Messages,      \* contents of conversation messages (as HistoryKey tells them apart)
    Histories,     \* histories a run can be given
    Saved,         \* scopes of which an earlier run may have left a session
    Configs,       \* configurations of a host and its Nodes, see below
    SeenLimit,     \* how many messages a record remembers (512)
    MaxSessions,   \* bound on the client sessions created
    Free, None

ASSUME ConfigAssumption ==
    Configs \subseteq [native : BOOLEAN,    \* SESSION_ISOLATION=native
                      serial : BOOLEAN,    \* HOST_AUTH_CONCURRENCY is not "client-managed"
                      provider : {"codex", "claude"},
                      nodes : SUBSET Nodes]   \* the processes that run
ASSUME SavedAssumption == Saved \subseteq Keys
ASSUME LimitAssumption == SeenLimit \in Nat \ {0} /\ MaxSessions \in Nat \ {0}

Sessions == 1 .. MaxSessions
Record == [id : Sessions, mode : Modes, seen : Seq(Messages)]
Store == [Keys -> Record \cup {None}]
Stages == {"idle", "open", "load", "permit", "waiting", "admitted", "lock", "read",
           "prompt", "client", "forget", "forgetting", "save", "saving",
           "unlock", "release", "close", "done"}

VARIABLES
    pc,             \* where each run is
    run,            \* its RunContext and the local variables of Run
    store,          \* the session file(s), by key
    storeMu,        \* providersession.storeMu, one in each process
    sessionLock,    \* providersession.Lock, one per process and key
    sandboxLock,    \* <session>/session.lock, by key, across processes
    permit,         \* the host-auth lock file, across processes
    told, origin,   \* the client's own sessions: what each heard, whose it is
    config          \* the configuration, which never changes

world == <<told, origin, config>>
vars == <<pc, run, store, storeMu, sessionLock, sandboxLock, permit, world>>

\* No invocation: nothing given, nothing known.
Blank == [node |-> None, key |-> None, mode |-> None, history |-> <<>>,
          cancelled |-> FALSE,   \* the request context is done
          session |-> None,      \* the session id to resume (None: a new one)
          recovered |-> FALSE,   \* the one retry is spent
          prompt |-> <<>>,       \* the history sent to the client
          observed |-> None,     \* the session id the client reported
          result |-> None,       \* None, "error" or "success"
          snapshot |-> None]     \* the store as the Update in progress read it

\* RememberHistory: insertion order, oldest keys dropped beyond the limit.
RememberOne(keys, message) ==
    LET added == IF Contains(keys, message) THEN keys ELSE Append(keys, message)
    IN  IF Len(added) > SeenLimit
           THEN SubSeq(added, Len(added) - SeenLimit + 1, Len(added))
           ELSE added
RememberHistory(keys, history) == FoldLeft(RememberOne, keys, history)

\* The store is empty, or an earlier run of a conversation has left its session.
Init == /\ pc = [r \in Runs |-> "idle"]
        /\ run = [r \in Runs |-> Blank]
        /\ storeMu = [n \in Nodes |-> Free]
        /\ sessionLock = [n \in Nodes |-> [k \in Keys |-> Free]]
        /\ sandboxLock = [k \in Keys |-> Free]
        /\ permit = Free
        /\ config \in Configs
        /\ \/ store = [k \in Keys |-> None] /\ told = <<>> /\ origin = <<>>
           \/ \E k \in Saved, m \in Modes, h \in Histories :
                 /\ told = <<ToSet(h)>> /\ origin = <<[key |-> k, mode |-> m]>>
                 /\ store = [j \in Keys |->
                       IF j = k THEN [id |-> 1, mode |-> m, seen |-> RememberHistory(<<>>, h)]
                       ELSE None]

-----------------------------------------------------------------------------
Native == config.native
Provider == config.provider
Key(r) == run[r].key
Node(r) == run[r].node
Reuses(r) == Key(r) # None

Goto(r, stage) == pc' = [pc EXCEPT ![r] = stage]

\* Return an error: the deferred calls, from the given one, run next.
Fail(r, stage) == /\ run' = [run EXCEPT ![r].result = "error"]
                  /\ Goto(r, stage)

\* Run has returned.
Return(r) == /\ run' = [run EXCEPT ![r] = Blank]
             /\ Goto(r, "done")

UnseenHistory(history, seen) == SelectSeq(history, LAMBDA m : ~Contains(seen, m))

\* The files of two scopes: one shared store, or one per native session.
SameFile(j, k) == ~Native \/ j = k

NeedsPermit == Native /\ config.serial

-----------------------------------------------------------------------------
(* Admission: sandbox, skill packages, host-auth permit, session lock.     *)
(* Steps that touch nothing shared are taken with the next one that does.  *)

Begin(r) ==
    /\ pc[r] = "idle"
    /\ \E n \in config.nodes, k \in Keys \cup {None}, m \in Modes, h \in Histories :
          run' = [run EXCEPT ![r].node = n, ![r].key = k, ![r].mode = m, ![r].history = h]
    /\ Goto(r, IF Native THEN "open" ELSE "load")
    /\ UNCHANGED <<store, storeMu, sessionLock, sandboxLock, permit, world>>

\* openSession: the session's ownership lock is taken without waiting.
OpenNative(r) ==
    /\ pc[r] = "open" /\ Reuses(r) /\ ~run[r].cancelled
    /\ sandboxLock[Key(r)] = Free
    /\ sandboxLock' = [sandboxLock EXCEPT ![Key(r)] = r]
    /\ Goto(r, "load")
    /\ UNCHANGED <<run, store, storeMu, sessionLock, permit, world>>

\* No trusted scope, a context already done, or a busy session.
OpenRefuses(r) ==
    /\ pc[r] = "open"
    /\ Reuses(r) => run[r].cancelled \/ sandboxLock[Key(r)] # Free
    /\ Return(r)
    /\ UNCHANGED <<store, storeMu, sessionLock, sandboxLock, permit, world>>

\* The rest of openSession, the tool policy and the skill packages: any of
\* them may fail, and the sandbox is closed.  Without the serial policy
\* acquireHostAuthPermit only looks at the context.
Prepare(r) ==
    /\ pc[r] = "load"
    /\ \/ IF Native THEN Fail(r, "close") ELSE Return(r)
       \/ NeedsPermit /\ Goto(r, "permit") /\ UNCHANGED run
       \/ ~NeedsPermit /\ ~run[r].cancelled /\ Goto(r, "lock") /\ UNCHANGED run
    /\ UNCHANGED <<store, storeMu, sessionLock, sandboxLock, permit, world>>

\* Take the lock file; the context is looked at again afterwards.
PermitTake(r) ==
    /\ pc[r] \in {"permit", "waiting"} /\ ~run[r].cancelled
    /\ permit = Free
    /\ permit' = r
    /\ Goto(r, "admitted")
    /\ UNCHANGED <<run, store, storeMu, sessionLock, sandboxLock, world>>

\* Busy: report it once (the report can fail), then poll.
PermitBusy(r) ==
    /\ pc[r] = "permit" /\ ~run[r].cancelled
    /\ permit # Free
    /\ \/ Goto(r, "waiting") /\ UNCHANGED run
       \/ Fail(r, "close")
    /\ UNCHANGED <<store, storeMu, sessionLock, sandboxLock, permit, world>>

PermitCancelled(r) ==
    /\ pc[r] \in {"permit", "waiting"} /\ run[r].cancelled
    /\ Fail(r, "close")
    /\ UNCHANGED <<store, storeMu, sessionLock, sandboxLock, permit, world>>

\* A mutant: a run that gives up after taking the permit keeps it.
PermitCheckKeeps(r) ==
    /\ pc[r] = "admitted"
    /\ IF run[r].cancelled THEN Fail(r, "close") ELSE Goto(r, "lock") /\ UNCHANGED run
    /\ UNCHANGED <<store, storeMu, sessionLock, sandboxLock, permit, world>>

PermitCheck(r) ==
    /\ pc[r] = "admitted"
    /\ IF run[r].cancelled
          THEN Fail(r, "close") /\ permit' = Free
          ELSE Goto(r, "lock") /\ UNCHANGED <<run, permit>>
    /\ UNCHANGED <<store, storeMu, sessionLock, sandboxLock, world>>

\* A mutant: the session is never locked.
LockSessionSkipped(r) ==
    /\ pc[r] = "lock"
    /\ Goto(r, IF Reuses(r) THEN "read" ELSE "prompt")
    /\ UNCHANGED <<run, store, storeMu, sessionLock, sandboxLock, permit, world>>

\* lockSession: only without a sandbox; waits whatever the context says.
LockSession(r) ==
    /\ pc[r] = "lock"
    /\ IF Native \/ ~Reuses(r)
          THEN UNCHANGED sessionLock
          ELSE /\ sessionLock[Node(r)][Key(r)] = Free
               /\ sessionLock' = [sessionLock EXCEPT ![Node(r)][Key(r)] = r]
    /\ Goto(r, IF Reuses(r) THEN "read" ELSE "prompt")
    /\ UNCHANGED <<run, store, storeMu, sandboxLock, permit, world>>

Admission(r) == \/ Begin(r) \/ OpenNative(r) \/ OpenRefuses(r) \/ Prepare(r)
                \/ PermitTake(r) \/ PermitBusy(r) \/ PermitCancelled(r) \/ PermitCheck(r)
                \/ LockSession(r)

-----------------------------------------------------------------------------
(* The session: what is resumed, what is said, and the one retry.          *)

\* A mutant: the stored session is resumed under any client mode.
loadSessionAnyMode(r) ==
    LET record == store[Key(r)] IN IF record = None THEN None ELSE record.id

loadSessionForClientMode(r) ==
    LET record == store[Key(r)]
    IN  IF record = None \/ record.mode # run[r].mode THEN None ELSE record.id

ReadSession(r) ==
    /\ pc[r] = "read" /\ storeMu[Node(r)] = Free
    /\ run' = [run EXCEPT ![r].session = loadSessionForClientMode(r)]
    /\ Goto(r, "prompt")
    /\ UNCHANGED <<store, storeMu, sessionLock, sandboxLock, permit, world>>

\* A mutant: the cursor is applied without comparing session ids.
runWithAnyHistory(r) ==
    LET record == store[Key(r)]
    IN  IF run[r].session = None \/ record = None THEN run[r].history
        ELSE UnseenHistory(run[r].history, record.seen)

\* The cursor counts only for the session it was saved for.
runWithSessionHistory(r) ==
    IF run[r].session = None THEN run[r].history
    ELSE LET record == store[Key(r)]
         IN  IF record = None \/ record.id # run[r].session THEN run[r].history
             ELSE UnseenHistory(run[r].history, record.seen)

StartClient(r) ==
    /\ pc[r] = "prompt" /\ storeMu[Node(r)] = Free
    /\ run' = [run EXCEPT ![r].prompt = runWithSessionHistory(r)]
    /\ Goto(r, "client")
    /\ UNCHANGED <<store, storeMu, sessionLock, sandboxLock, permit, world>>

\* The client (external) hears the prompt and ends in session id: the one it
\* resumed, a fork of it that keeps its context (codexturn.Run rejects forks),
\* or a new one.
Hears(r, id) ==
    LET old == IF run[r].session = None THEN {} ELSE told[run[r].session]
        context == old \cup ToSet(run[r].prompt)
    IN  /\ \/ /\ id = run[r].session
              /\ told' = [told EXCEPT ![id] = context]
              /\ UNCHANGED origin
           \/ /\ id = Len(told) + 1
              /\ Provider = "claude" \/ run[r].session = None
              /\ told' = Append(told, context)
              /\ origin' = Append(origin, [key |-> Key(r), mode |-> run[r].mode])
        /\ UNCHANGED config

\* A client that answers after the context is done answers in vain.
ClientSucceeds(r) ==
    /\ pc[r] = "client"
    /\ \E id \in Sessions :
          /\ Hears(r, id)
          /\ IF run[r].cancelled THEN Fail(r, "unlock")
             ELSE IF Reuses(r) THEN /\ Goto(r, "save")
                                    /\ run' = [run EXCEPT ![r].observed = id]
             ELSE /\ Goto(r, "unlock")
                  /\ run' = [run EXCEPT ![r].result = "success"]
    /\ UNCHANGED <<store, storeMu, sessionLock, sandboxLock, permit>>

\* Claude may succeed without naming its session: nothing to save.
ClientUnnamed(r) ==
    /\ pc[r] = "client" /\ Provider = "claude" /\ ~run[r].cancelled
    /\ \E id \in Sessions : Hears(r, id)
    /\ run' = [run EXCEPT ![r].result = "success"]
    /\ Goto(r, "unlock")
    /\ UNCHANGED <<store, storeMu, sessionLock, sandboxLock, permit>>

\* Codex only: the turn already executed is kept for an explicit next turn.
ClientHitsLimit(r) ==
    /\ pc[r] = "client" /\ Provider = "codex"
    /\ \E id \in Sessions :
          /\ Hears(r, id)
          /\ run' = [run EXCEPT ![r].observed = id, ![r].result = "error"]
    /\ Goto(r, IF Reuses(r) /\ ~run[r].cancelled THEN "save" ELSE "unlock")
    /\ UNCHANGED <<store, storeMu, sessionLock, sandboxLock, permit>>

\* Any other failure, the context's end included: nothing is saved, though
\* the client may have heard the prompt.
ClientFails(r) ==
    /\ pc[r] = "client"
    /\ \/ UNCHANGED world
       \/ \E id \in Sessions : Hears(r, id)
    /\ Fail(r, "unlock")
    /\ UNCHANGED <<store, storeMu, sessionLock, sandboxLock, permit>>

\* The client does not know the session it was asked to resume: try once more
\* without it.
ClientMissesSession(r) ==
    /\ pc[r] = "client" /\ run[r].session # None
    /\ IF run[r].cancelled \/ run[r].recovered THEN Fail(r, "unlock")
       ELSE Goto(r, "forget") /\ UNCHANGED run
    /\ UNCHANGED <<store, storeMu, sessionLock, sandboxLock, permit, world>>

Client(r) == \/ ClientSucceeds(r) \/ ClientUnnamed(r) \/ ClientHitsLimit(r)
             \/ ClientFails(r) \/ ClientMissesSession(r)

-----------------------------------------------------------------------------
(* providersession.Update: read, edit, replace, under the process's mutex. *)

\* A mutant: the store is read without the mutex.
UpdateReadsUnlocked(r) ==
    /\ pc[r] \in {"forget", "save"}
    /\ run' = [run EXCEPT ![r].snapshot = store]
    /\ Goto(r, IF pc[r] = "forget" THEN "forgetting" ELSE "saving")
    /\ UNCHANGED <<store, storeMu, sessionLock, sandboxLock, permit, world>>

UpdateReads(r) ==
    /\ pc[r] \in {"forget", "save"} /\ storeMu[Node(r)] = Free
    /\ storeMu' = [storeMu EXCEPT ![Node(r)] = r]
    /\ run' = [run EXCEPT ![r].snapshot = store]
    /\ Goto(r, IF pc[r] = "forget" THEN "forgetting" ELSE "saving")
    /\ UNCHANGED <<store, sessionLock, sandboxLock, permit, world>>

\* The record saved: the cursor survives only within one session.
SavedRecord(r) ==
    LET previous == run[r].snapshot[Key(r)]
        before == IF previous # None /\ previous.id = run[r].observed
                     THEN previous.seen ELSE <<>>
    IN  [id |-> run[r].observed, mode |-> run[r].mode,
         seen |-> RememberHistory(before, run[r].history)]

\* The file is replaced as a whole: what the snapshot missed is gone.
Replace(r, record) ==
    store' = [k \in Keys |-> IF k = Key(r) THEN record
                             ELSE IF SameFile(k, Key(r)) THEN run[r].snapshot[k]
                             ELSE store[k]]

\* deleteSessionID, then the retry with a new session.  A record that is
\* already gone leaves the file untouched.
Forget(r) ==
    /\ pc[r] = "forgetting"
    /\ IF run[r].snapshot[Key(r)] = None THEN UNCHANGED store ELSE Replace(r, None)
    /\ storeMu' = [storeMu EXCEPT ![Node(r)] = Free]
    /\ run' = [run EXCEPT ![r].snapshot = None, ![r].session = None, ![r].recovered = TRUE]
    /\ Goto(r, "prompt")
    /\ UNCHANGED <<sessionLock, sandboxLock, permit, world>>

\* saveSessionForClientMode, after success or after the message limit.
Save(r) ==
    /\ pc[r] = "saving"
    /\ Replace(r, SavedRecord(r))
    /\ storeMu' = [storeMu EXCEPT ![Node(r)] = Free]
    /\ run' = [run EXCEPT ![r].snapshot = None,
                          ![r].result = IF @ = None THEN "success" ELSE @]
    /\ Goto(r, "unlock")
    /\ UNCHANGED <<sessionLock, sandboxLock, permit, world>>

\* A mutant: a store that cannot be written is not reported.
UpdateFailsQuietly(r) ==
    /\ pc[r] \in {"forgetting", "saving"}
    /\ storeMu' = [storeMu EXCEPT ![Node(r)] = Free]
    /\ run' = [run EXCEPT ![r].snapshot = None, ![r].result = "success"]
    /\ Goto(r, "unlock")
    /\ UNCHANGED <<store, sessionLock, sandboxLock, permit, world>>

\* writeStore fails: the old file is still in place.
UpdateFails(r) ==
    /\ pc[r] \in {"forgetting", "saving"}
    /\ storeMu' = [storeMu EXCEPT ![Node(r)] = Free]
    /\ run' = [run EXCEPT ![r].snapshot = None, ![r].result = "error"]
    /\ Goto(r, "unlock")
    /\ UNCHANGED <<store, sessionLock, sandboxLock, permit, world>>

Update(r) == UpdateReads(r) \/ Forget(r) \/ Save(r) \/ UpdateFails(r)

-----------------------------------------------------------------------------
(* The deferred calls, last in first out; without a sandbox only the first *)
(* has anything to do.                                                     *)

\* A mutant: the session is unlocked only after success.
UnlockSessionOnSuccess(r) ==
    /\ pc[r] = "unlock"
    /\ sessionLock' = IF Native \/ ~Reuses(r) \/ run[r].result # "success" THEN sessionLock
                      ELSE [sessionLock EXCEPT ![Node(r)][Key(r)] = Free]
    /\ IF Native THEN Goto(r, IF NeedsPermit THEN "release" ELSE "close") /\ UNCHANGED run
                 ELSE Return(r)
    /\ UNCHANGED <<store, storeMu, sandboxLock, permit, world>>

UnlockSession(r) ==
    /\ pc[r] = "unlock"
    /\ sessionLock' = IF Native \/ ~Reuses(r) THEN sessionLock
                      ELSE [sessionLock EXCEPT ![Node(r)][Key(r)] = Free]
    /\ IF Native THEN Goto(r, IF NeedsPermit THEN "release" ELSE "close") /\ UNCHANGED run
                 ELSE Return(r)
    /\ UNCHANGED <<store, storeMu, sandboxLock, permit, world>>

ReleaseAuth(r) ==
    /\ pc[r] = "release"
    /\ permit' = Free
    /\ Goto(r, "close")
    /\ UNCHANGED <<run, store, storeMu, sessionLock, sandboxLock, world>>

CloseSandbox(r) ==
    /\ pc[r] = "close"
    /\ sandboxLock' = [sandboxLock EXCEPT ![Key(r)] = Free]
    /\ Return(r)
    /\ UNCHANGED <<store, storeMu, sessionLock, permit, world>>

Deferred(r) == UnlockSession(r) \/ ReleaseAuth(r) \/ CloseSandbox(r)

-----------------------------------------------------------------------------
Step(r) == \/ Admission(r) \/ ReadSession(r) \/ StartClient(r) \/ Client(r)
           \/ Update(r) \/ Deferred(r)

Active == {r \in Runs : pc[r] \notin {"idle", "done"}}

\* The run is cancelled, or its timeout expires, while the context is still
\* looked at: once the client has answered, it no longer is.
Cancel(r) ==
    /\ r \in Active /\ ~run[r].cancelled
    /\ pc[r] \notin {"save", "saving", "unlock", "release", "close"}
    /\ run' = [run EXCEPT ![r].cancelled = TRUE]
    /\ UNCHANGED <<pc, store, storeMu, sessionLock, sandboxLock, permit, world>>

\* A Node process dies: the kernel drops its lock files, its memory is gone
\* and the store keeps the last file that was renamed into place.
Crash(n) ==
    LET dead == {r \in Active : Node(r) = n}
        Survive(lock) == IF lock \in dead THEN Free ELSE lock
    IN  /\ dead # {}
        /\ pc' = [r \in Runs |-> IF r \in dead THEN "done" ELSE pc[r]]
        /\ run' = [r \in Runs |-> IF r \in dead THEN Blank ELSE run[r]]
        /\ storeMu' = [storeMu EXCEPT ![n] = Free]
        /\ sessionLock' = [sessionLock EXCEPT ![n] = [k \in Keys |-> Free]]
        /\ sandboxLock' = [k \in Keys |-> Survive(sandboxLock[k])]
        /\ permit' = Survive(permit)
        /\ UNCHANGED <<store, world>>

Next == \/ \E r \in Runs : Step(r) \/ Cancel(r)
        \/ \E n \in Nodes : Crash(n)

Spec == Init /\ [][Next]_vars

(* Goroutines run; a client ends because its context has a timeout; a Go   *)
(* mutex serves its waiters; polling a lock file promises nothing, so what *)
(* ends the wait for the permit, in the worst case, is the timeout.        *)
Fairness ==
    \A r \in Runs : /\ WF_vars(pc[r] # "idle" /\ Step(r))
                    /\ SF_vars(LockSession(r))
                    /\ SF_vars(ReadSession(r) \/ StartClient(r) \/ UpdateReads(r))
                    /\ WF_vars(pc[r] \notin {"open", "load"} /\ Cancel(r))

FairSpec == Spec /\ Fairness

-----------------------------------------------------------------------------
(* The client is never left without something it has not heard: whatever   *)
(* the run's history holds, the prompt repeats or the resumed session was  *)
(* told before.  history.go: "Eviction can replay old messages but must    *)
(* never omit unseen or corrected content."                                *)
NeverOmits ==
    \A r \in Runs : pc[r] = "client" =>
        ToSet(run[r].history) \subseteq
            ToSet(run[r].prompt) \cup (IF run[r].session = None THEN {} ELSE told[run[r].session])

(* A private session is resumed only for the scope (Agent, principal,      *)
(* conversation) and under the client mode it was created for, whatever    *)
(* other runs save, delete or overwrite meanwhile.                         *)
SessionStaysInScope ==
    \A r \in Runs : pc[r] = "client" /\ run[r].session # None =>
        origin[run[r].session] = [key |-> Key(r), mode |-> run[r].mode]

(* One client at a time works on a private session: providersession.Lock   *)
(* within a process, the session's lock file across processes.  Under the  *)
(* serial host-auth policy no two runs of the host are even between client *)
(* start and persistence (docs/native-session-isolation.md: "The lock      *)
(* covers client startup, exit, retries and session persistence").  And no *)
(* lock outlives the run that took it or its process: no error, cancelled  *)
(* run or crash leaves a conversation busy for ever.                       *)
LocksProtectRuns ==
    /\ \A q, r \in Runs :
          \/ /\ pc[q] = "client" /\ pc[r] = "client"
             /\ run[q].session = run[r].session /\ run[q].session # None
          \/ /\ NeedsPermit
             /\ {pc[q], pc[r]} \subseteq {"prompt", "client", "forget", "forgetting", "save", "saving"}
          => q = r
    /\ {permit} \cup {sandboxLock[k] : k \in Keys} \cup {storeMu[n] : n \in Nodes}
          \cup {sessionLock[n][k] : n \in Nodes, k \in Keys} \subseteq Active \cup {Free}

(* A reported success is remembered: when the run gives up its lock, the   *)
(* store holds the session the client reported, for the next turn.         *)
SuccessIsRemembered ==
    \A r \in Runs :
        /\ pc[r] = "unlock" /\ run[r].result = "success"
        /\ Reuses(r) /\ run[r].observed # None
        => /\ store[Key(r)] # None
           /\ store[Key(r)].id = run[r].observed /\ store[Key(r)].mode = run[r].mode

(* Within one process (or one native session) Update never undoes another  *)
(* conversation's update, and runs without a trusted scope change nothing. *)
OthersRecordsKept ==
    [][\A k \in Keys : store'[k] # store[k] =>
           \E r \in Runs : /\ pc[r] \in {"forgetting", "saving"} /\ pc'[r] # pc[r]
                           /\ Key(r) = k]_vars

(* Every run ends: no order of locks, retries, cancellations and crashes   *)
(* leaves two runs waiting for each other.                                 *)
RunsFinish == \A r \in Runs : r \in Active ~> pc[r] = "done"
=============================================================================
