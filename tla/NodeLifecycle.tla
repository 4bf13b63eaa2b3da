--------------------------- MODULE NodeLifecycle ----------------------------
(***************************************************************************)
(* The life of a Node process (cmd/openlinker-agent-node/main.go and       *)
(* internal/agentnode): main, Node.Start, concurrent calls of Node.Stop,   *)
(* the local helper server with its watcher and serve goroutines, and the  *)
(* runs the SDK worker hands to runtimeAdapterHandler.                     *)
(***************************************************************************)
EXTENDS TLC

CONSTANTS
    Runs,      \* assignments the worker may hand out
    Main,      \* main's call of Node.Stop
    Others     \* further callers of Node.Stop

Callers == {Main} \cup Others

VARIABLES
    signalled,   \* main's signal context is done
    main,        \* where main is
    start,       \* where Node.Start is
    cancelled,   \* node.cancel has been called
    started,     \* the fields of Node
    published,   \* node.worker is set
    worker,      \* the SDK's RuntimeWorker
    stop,        \* the calls of Node.Stop
    helper,      \* the helper's server field is set
    sessions,    \* the runs whose helper token is valid
    listening,   \* the helper's listener accepts
    watcher, serve,   \* the helper's two goroutines
    run,         \* runtimeAdapterHandler.Handle, by run
    crashed      \* a goroutine has panicked

nodeVars == <<start, cancelled, started, published>>
helperVars == <<helper, sessions, listening, watcher, serve>>
vars == <<signalled, main, nodeVars, worker, stop, helperVars, run, crashed>>

LifetimeDone == cancelled \/ signalled

\* The process ends with main and with the first panic of a goroutine.
Alive == main \notin {"exited", "fatal"} /\ ~crashed

NoStop == [step |-> "idle", worker |-> FALSE]

Init ==
    /\ signalled = FALSE /\ main = "wait"
    /\ start = "new" /\ cancelled = FALSE /\ started = FALSE /\ published = FALSE
    /\ worker = "new"
    /\ stop = [c \in Callers |-> NoStop]
    /\ helper = FALSE /\ sessions = {} /\ listening = FALSE
    /\ watcher = "none" /\ serve = "none"
    /\ run = [r \in Runs |-> "todo"]
    /\ crashed = FALSE

-----------------------------------------------------------------------------
(* Node.Start.                                                             *)

Start ==
    /\ Alive
    /\ start = "new"
    /\ start' = "preflight" /\ started' = TRUE
    /\ UNCHANGED <<signalled, main, cancelled, published, worker, stop, helperVars, run, crashed>>

\* Preflight, and the construction of the SDK worker.
Preflight ==
    /\ Alive
    /\ start = "preflight"
    /\ start' = "helper"
    /\ UNCHANGED <<signalled, main, cancelled, started, published, worker, stop, helperVars, run, crashed>>

HelperStart ==
    /\ Alive
    /\ start = "helper"
    /\ helper' = TRUE /\ listening' = TRUE
    /\ watcher' = "watch" /\ serve' = "pending"
    /\ start' = "a2a"
    /\ UNCHANGED <<signalled, main, cancelled, started, published, worker, stop, sessions, run, crashed>>

\* The public A2A server is up: see PublicA2AServer.
Publish ==
    /\ Alive
    /\ start = "a2a"
    /\ published' = TRUE
    /\ start' = "work"
    /\ UNCHANGED <<signalled, main, cancelled, started, worker, stop, helperVars, run, crashed>>

\* An error of any of these steps goes straight to the deferred function.
StartFails ==
    /\ Alive
    /\ start \in {"preflight", "helper", "a2a"}
    /\ start' = "stopAdapters"
    /\ UNCHANGED <<signalled, main, cancelled, started, published, worker, stop, helperVars, run, crashed>>

WorkerStart ==
    /\ Alive
    /\ start = "work" /\ worker = "new"
    /\ worker' = "running"
    /\ UNCHANGED <<signalled, main, nodeVars, stop, helperVars, run, crashed>>

\* worker.Start comes back when its context is done, when it was stopped ...
WorkerEnds ==
    /\ Alive
    /\ worker = "stopping" \/ (worker = "running" /\ LifetimeDone)
    /\ worker' = "ended" /\ start' = "stopAdapters"
    /\ UNCHANGED <<signalled, main, cancelled, started, published, stop, helperVars, run, crashed>>

\* ... or with an error of its own.
WorkerFails ==
    /\ Alive
    /\ worker = "running"
    /\ worker' = "ended" /\ start' = "stopAdapters"
    /\ UNCHANGED <<signalled, main, cancelled, started, published, stop, helperVars, run, crashed>>

\* LocalHelperServer.Stop, up to its unlock.
TakeHelper == helper' = FALSE /\ sessions' = {}

\* A mutant: the deferred function leaves the helper to its watcher.
StopAdaptersCancelsOnly ==
    /\ Alive
    /\ start = "stopAdapters"
    /\ cancelled' = TRUE
    /\ start' = "finish"
    /\ UNCHANGED <<signalled, main, started, published, worker, stop, helperVars, run, crashed>>

StopAdapters ==
    /\ Alive
    /\ start = "stopAdapters"
    /\ cancelled' = TRUE
    /\ TakeHelper
    /\ start' = IF helper THEN "shutdown" ELSE "finish"
    /\ UNCHANGED <<signalled, main, started, published, worker, stop, listening, watcher, serve, run, crashed>>

StartShutsDown ==
    /\ Alive
    /\ start = "shutdown"
    /\ listening' = FALSE
    /\ start' = "finish"
    /\ UNCHANGED <<signalled, main, cancelled, started, published, worker, stop, helper, sessions, watcher, serve, run, crashed>>

\* close(node.done); the fields are cleared.
StartReturns ==
    /\ Alive
    /\ start = "finish"
    /\ started' = FALSE /\ published' = FALSE
    /\ start' = "returned"
    /\ UNCHANGED <<signalled, main, cancelled, worker, stop, helperVars, run, crashed>>

-----------------------------------------------------------------------------
(* Node.Stop.                                                              *)

\* The fields are read under the mutex.  Not started: there is nothing to do.
StopReads(c) ==
    /\ Alive
    /\ stop[c].step = "idle"
    /\ c = Main => main = "stopping"
    /\ stop' = [stop EXCEPT ![c] = [step |-> IF started THEN "cancel" ELSE "skipped",
                                    worker |-> published]]
    /\ UNCHANGED <<signalled, main, nodeVars, worker, helperVars, run, crashed>>

\* A mutant: only the worker is stopped, not the lifetime.
StopWithoutCancel(c) ==
    /\ Alive
    /\ stop[c].step = "cancel"
    /\ stop' = [stop EXCEPT ![c].step = IF stop[c].worker THEN "stopWorker" ELSE "wait"]
    /\ UNCHANGED <<signalled, main, nodeVars, worker, helperVars, run, crashed>>

StopCancels(c) ==
    /\ Alive
    /\ stop[c].step = "cancel"
    /\ cancelled' = TRUE
    /\ stop' = [stop EXCEPT ![c].step = IF stop[c].worker THEN "stopWorker" ELSE "wait"]
    /\ UNCHANGED <<signalled, main, start, started, published, worker, helperVars, run, crashed>>

\* worker.Stop does nothing to a worker that has not entered Start.
StopWorker(c) ==
    /\ Alive
    /\ stop[c].step = "stopWorker"
    /\ worker' = IF worker = "running" THEN "stopping" ELSE worker
    /\ stop' = [stop EXCEPT ![c].step = "drain"]
    /\ UNCHANGED <<signalled, main, nodeVars, helperVars, run, crashed>>

WorkerStopped(c) ==
    /\ Alive
    /\ stop[c].step = "drain" /\ worker \in {"new", "ended"}
    /\ stop' = [stop EXCEPT ![c].step = "wait"]
    /\ UNCHANGED <<signalled, main, nodeVars, worker, helperVars, run, crashed>>

\* node.done is closed.
StopReturns(c) ==
    /\ Alive
    /\ stop[c].step = "wait" /\ start = "returned"
    /\ stop' = [stop EXCEPT ![c].step = "stopped"]
    /\ UNCHANGED <<signalled, main, nodeVars, worker, helperVars, run, crashed>>

\* The caller's context expires, in worker.Stop or in the last wait.
StopExpires(c) ==
    /\ Alive
    /\ stop[c].step \in {"drain", "wait"}
    /\ stop' = [stop EXCEPT ![c].step = "expired"]
    /\ UNCHANGED <<signalled, main, nodeVars, worker, helperVars, run, crashed>>

-----------------------------------------------------------------------------
(* main.                                                                   *)

Signal ==
    /\ Alive
    /\ signalled = FALSE
    /\ signalled' = TRUE
    /\ UNCHANGED <<main, nodeVars, worker, stop, helperVars, run, crashed>>

MainStops ==
    /\ Alive
    /\ main = "wait" /\ signalled
    /\ main' = "stopping"
    /\ UNCHANGED <<signalled, nodeVars, worker, stop, helperVars, run, crashed>>

StopDone(c) == stop[c].step \in {"skipped", "stopped", "expired"}

\* A mutant: main exits when Stop has returned.
MainTrustsStop ==
    /\ Alive
    /\ main = "wait" \/ (main = "stopping" /\ StopDone(Main))
    /\ start = "returned" \/ main = "stopping"
    /\ main' = "exited"
    /\ UNCHANGED <<signalled, nodeVars, worker, stop, helperVars, run, crashed>>

\* errCh delivers what Start returned: at once, or in waitForStop.
MainExits ==
    /\ Alive
    /\ main = "wait" \/ (main = "stopping" /\ StopDone(Main))
    /\ start = "returned"
    /\ main' = "exited"
    /\ UNCHANGED <<signalled, nodeVars, worker, stop, helperVars, run, crashed>>

\* "shutdown timed out".
MainTimesOut ==
    /\ Alive
    /\ main = "stopping" /\ StopDone(Main)
    /\ main' = "fatal"
    /\ UNCHANGED <<signalled, nodeVars, worker, stop, helperVars, run, crashed>>

-----------------------------------------------------------------------------
(* The helper's goroutines and the runs.                                   *)

\* The goroutine that calls s.server.Serve; Stop may have cleared the field.
Serve ==
    /\ Alive
    /\ serve = "pending"
    /\ serve' = IF helper THEN "serving" ELSE "panicked"
    /\ crashed' = ~helper
    /\ UNCHANGED <<signalled, main, nodeVars, worker, stop, helper, sessions, listening, watcher, run>>

WatcherStops ==
    /\ Alive
    /\ watcher = "watch" /\ LifetimeDone
    /\ TakeHelper
    /\ watcher' = IF helper THEN "shutdown" ELSE "done"
    /\ UNCHANGED <<signalled, main, nodeVars, worker, stop, listening, serve, run, crashed>>

WatcherShutsDown ==
    /\ Alive
    /\ watcher = "shutdown"
    /\ listening' = FALSE
    /\ watcher' = "done"
    /\ UNCHANGED <<signalled, main, nodeVars, worker, stop, helper, sessions, serve, run, crashed>>

\* The worker hands a run to the handler, which makes a helper session for it.
Handle(r) ==
    /\ Alive
    /\ worker = "running" /\ run[r] = "todo"
    /\ run' = [run EXCEPT ![r] = "running"]
    /\ sessions' = sessions \cup {r}
    /\ UNCHANGED <<signalled, main, nodeVars, worker, stop, helper, listening, watcher, serve, crashed>>

\* The adapter returns, fails or panics: the deferred Close runs.
HandleEnds(r) ==
    /\ Alive
    /\ run[r] = "running"
    /\ run' = [run EXCEPT ![r] = "done"]
    /\ sessions' = sessions \ {r}
    /\ UNCHANGED <<signalled, main, nodeVars, worker, stop, helper, listening, watcher, serve, crashed>>

-----------------------------------------------------------------------------
Starting ==
    \/ Start \/ Preflight \/ HelperStart \/ Publish \/ WorkerStart \/ WorkerEnds
    \/ StopAdapters \/ StartShutsDown \/ StartReturns

Stopping(c) ==
    StopReads(c) \/ StopCancels(c) \/ StopWorker(c) \/ WorkerStopped(c) \/ StopReturns(c)

Next ==
    \/ Starting \/ StartFails \/ WorkerFails
    \/ \E c \in Callers : Stopping(c) \/ StopExpires(c)
    \/ Signal \/ MainStops \/ MainExits \/ MainTimesOut
    \/ Serve \/ WatcherStops \/ WatcherShutsDown
    \/ \E r \in Runs : Handle(r) \/ HandleEnds(r)

Spec == Init /\ [][Next]_vars

-----------------------------------------------------------------------------
\* Nothing of the helper outlives what it serves.  A token is valid only while
\* its run is handled, also when the adapter panics and when Stop clears the
\* table in between; when Start has returned the server is gone, and a listener
\* still open is in the hands of the watcher that took the server first.
NoHelperLeft ==
    /\ \A r \in sessions : run[r] = "running"
    /\ start = "returned" => ~helper /\ (listening => watcher = "shutdown")

\* A Stop that reports success after finding the Node started has seen Start
\* return, and main exits in order only then, however the signal races with the
\* goroutine that calls Start: nothing of Start runs any more.
StopMeansReturned ==
    /\ \A c \in Callers : stop[c].step = "stopped" => start = "returned" /\ ~started
    /\ main = "exited" => start = "returned" /\ worker # "running"

\* A Stop that found the Node started brings Start back, also one that came
\* before the worker was published: "Cancel the shell lifetime even when the
\* SDK Worker has been constructed but has not yet entered Start".
StopEndsNode ==
    \A c \in Callers : stop[c].step = "cancel" ~> (start = "returned" \/ ~Alive)

\* The helper's goroutines end silently, whenever its context is cancelled.
HelperSilent == ~crashed
=============================================================================
