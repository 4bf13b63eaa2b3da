----------------------------- MODULE CodexTurn -----------------------------
(***************************************************************************)
(* One Codex request: codexturn.Run drives an app-server process through   *)
(* initialize, thread/start or thread/resume and turn/start, waits for the *)
(* turn to end, and shuts the process down; CodexProvider.Run gives a      *)
(* request whose saved session is missing one second attempt.              *)
(*                                                                         *)
(* The app-server is external: it answers or rejects calls, runs at most   *)
(* one turn for each turn/start, reports it and other turns in any order,  *)
(* and may exit or break the protocol at any moment.  The RPC client is    *)
(* seen through what Run uses of it (CodexRpc models its inside).          *)
(***************************************************************************)
EXTENDS Naturals, Sequences

CONSTANTS
    None,
    QueueLimit,   \* capacity of the client's event channel
    MaxNoise      \* bound: notifications of an attempt beyond start and end

VARIABLES
    pc,           \* where the request is
    ctx,          \* the request's context is cancelled or timed out
    attempt,      \* CodexProvider.Run's loop counter
    session,      \* a saved session is being resumed
    turn,         \* Run's results and locals, see Fresh
    prepared,     \* the prepared command's Cleanup has yet to run
    proc,         \* the app-server process
    transport,    \* client.Err(): "open" until the client has failed
    events,       \* the client's event channel
    server,       \* the app-server's turn, see Idle
    dirty,        \* some attempt could not clean up its processes
    outcome       \* what CodexProvider.Run returned

vars == <<pc, ctx, attempt, session, turn, prepared, proc, transport, events,
          server, dirty, outcome>>

request == <<ctx, attempt, session, dirty, outcome>>
process == <<prepared, proc>>

\* Run's named results and locals: result stands for resultErr, cleanup for
\* ErrProcessCleanup joined to it, final for the text of a final message and
\* the turn it came from, id for a known turnID.
Fresh == [result |-> None, cleanup |-> FALSE, final |-> None, id |-> FALSE,
          requested |-> FALSE, interrupted |-> FALSE]

Idle == [stage |-> "none", turns |-> 0, noise |-> 0]

Stages == {"none", "requested", "running", "completed", "failed", "interrupted"}

Results == {None, "ok", "canceled", "limit", "missing", "transport", "error"}

\* own: the event names Run's own thread and turn; text: it carries a final
\* message.
Event(kind, own, text) == [kind |-> kind, own |-> own, text |-> text]

Ends == {"completed", "failed", "interrupted"}

Events == [kind : {"started", "item", "limit", "invalid"} \cup Ends,
           own : BOOLEAN, text : BOOLEAN]

Init ==
    /\ pc = "begin" /\ ctx = FALSE
    /\ attempt = 0 /\ session \in BOOLEAN
    /\ turn = Fresh
    /\ prepared = FALSE /\ proc = "none" /\ transport = "open"
    /\ events = <<>> /\ server = Idle
    /\ dirty = FALSE /\ outcome = None

-----------------------------------------------------------------------------
(* The app-server, and the client's reader.                                *)

Serving == proc = "running" /\ transport = "open"

\* The client fails: its stop function kills the process.
Fail(cause) == /\ transport' = cause
               /\ proc' = "killed"

\* The reader queues an event, and fails the client when the channel is full.
Push(e) == \/ /\ Len(events) < QueueLimit
              /\ events' = Append(events, e)
              /\ UNCHANGED <<transport, proc>>
           \/ /\ Len(events) = QueueLimit
              /\ Fail("broken")
              /\ UNCHANGED events

ServerStartsTurn ==
    /\ Serving /\ server.stage = "requested"
    /\ server' = [server EXCEPT !.stage = "running", !.turns = @ + 1]
    /\ Push(Event("started", TRUE, FALSE))
    /\ UNCHANGED <<pc, turn, prepared, request>>

\* The turn reports an item, or an upstream message limit.
ServerReports ==
    /\ Serving /\ server.stage = "running" /\ server.noise < MaxNoise
    /\ server' = [server EXCEPT !.noise = @ + 1]
    /\ \E kind \in {"item", "limit"} : Push(Event(kind, TRUE, kind = "item"))
    /\ UNCHANGED <<pc, turn, prepared, request>>

\* A turn of another thread is reported, or a notification is malformed.
ServerNoise ==
    /\ Serving /\ server.noise < MaxNoise
    /\ server' = [server EXCEPT !.noise = @ + 1]
    /\ \E kind \in {"started", "item", "completed", "limit", "invalid"} :
          Push(Event(kind, FALSE, kind # "limit"))
    /\ UNCHANGED <<pc, turn, prepared, request>>

ServerEndsTurn ==
    /\ Serving /\ server.stage = "running"
    /\ \E stage \in Ends, text \in BOOLEAN :
          /\ server' = [server EXCEPT !.stage = stage]
          /\ Push(Event(stage, TRUE, text))
    /\ UNCHANGED <<pc, turn, prepared, request>>

\* The process exits (EOF), or the stream is malformed or a write fails.
ServerFails ==
    /\ Serving
    /\ \E cause \in {"EOF", "broken"} : Fail(cause)
    /\ UNCHANGED <<pc, turn, prepared, events, server, request>>

-----------------------------------------------------------------------------
(* Starting the process.                                                   *)

\* Return result to the deferred functions registered so far.
Return(result, next) == /\ turn' = [turn EXCEPT !.result = result]
                        /\ pc' = next

Prepare ==
    /\ pc = "begin"
    /\ \/ ctx /\ Return("canceled", "returned") /\ UNCHANGED prepared
       \/ ~ctx /\ prepared' \in BOOLEAN /\ Return("error", "cleanup")
       \/ ~ctx /\ prepared' \in BOOLEAN /\ pc' = "start" /\ UNCHANGED turn
    /\ UNCHANGED <<proc, transport, events, server, request>>

\* Start fails with no process; TrackDescendants fails with one that is
\* killed and waited for.
Start ==
    /\ pc = "start"
    /\ \/ ctx /\ Return("canceled", "cleanup") /\ UNCHANGED proc
       \/ ~ctx /\ proc' \in {"none", "reaped"} /\ Return("error", "cleanup")
       \/ ~ctx /\ proc' = "running" /\ pc' = "initialize" /\ UNCHANGED turn
    /\ UNCHANGED <<prepared, transport, events, server, request>>

-----------------------------------------------------------------------------
(* The calls that lead to a running turn.                                  *)

Initialize ==
    /\ pc = "initialize" /\ transport = "open"
    /\ pc' = "initialized"
    /\ UNCHANGED <<turn, process, transport, events, server, request>>

\* Notify initialized, then BeforeThread.
Initialized ==
    /\ pc = "initialized"
    /\ pc' = "thread"
    /\ UNCHANGED <<turn, process, transport, events, server, request>>

\* thread/resume answers with the session's own thread, thread/start with a
\* new one; the turn is then requested.
Thread ==
    /\ pc = "thread" /\ transport = "open"
    /\ pc' = "turn"
    /\ turn' = [turn EXCEPT !.requested = TRUE]
    /\ server' = [server EXCEPT !.stage = "requested"]
    /\ UNCHANGED <<process, transport, events, request>>

ThreadMissing ==
    /\ pc = "thread" /\ session /\ transport = "open"
    /\ Return("missing", "deferred")
    /\ UNCHANGED <<process, transport, events, server, request>>

TurnStarted ==
    /\ pc = "turn" /\ transport = "open"
    /\ server.stage \notin {"none", "requested"}
    /\ pc' = "loop"
    /\ turn' = [turn EXCEPT !.id = TRUE]
    /\ UNCHANGED <<process, transport, events, server, request>>

\* A call ends without an answer, or with an error or an answer that names a
\* wrong or unusable thread or turn.
CallFails ==
    /\ pc \in {"initialize", "initialized", "thread", "turn"}
    /\ \/ ctx /\ Return("canceled", "deferred")
       \/ transport # "open" /\ Return("transport", "deferred")
       \/ transport = "open" /\ Return("error", "deferred")
    /\ UNCHANGED <<process, transport, events, server, request>>

-----------------------------------------------------------------------------
(* The event loop.  "loop" is its first select, which only takes an event  *)
(* that is already there; "block" is the second, which waits.              *)

\* A mutant: an item is taken from any thread.
OwnTurnOrItem(e) == e.own \/ e.kind = "item"

\* The event names the run's own thread and turn.
OwnTurn(e) == e.own

\* codexRPCFinal: the event's final message, if it has one.
Final(e) == IF ~e.text THEN turn.final ELSE IF e.own THEN "own" ELSE "other"

\* handle: an event of another thread or turn changes nothing, but one that
\* does not decode ends the run.
Handle(e) ==
    \/ e.kind = "invalid" /\ Return("error", "deferred")
    \/ /\ e.kind # "invalid" /\ (e.kind = "started" \/ ~OwnTurn(e))
       /\ pc' = "loop" /\ UNCHANGED turn
    \/ /\ e.kind = "item" /\ OwnTurn(e)
       /\ turn' = [turn EXCEPT !.final = Final(e)]
       /\ pc' = "loop"
    \/ /\ e.kind = "limit" /\ OwnTurn(e)
       /\ turn' = [turn EXCEPT !.result = "limit", !.final = None]
       /\ pc' = "deferred"
    \/ /\ e.kind = "completed" /\ OwnTurn(e)
       /\ turn' = [turn EXCEPT !.final = Final(e),
                               !.result = IF Final(e) = None THEN "error" ELSE "ok"]
       /\ pc' = "deferred"
    \/ e.kind = "interrupted" /\ OwnTurn(e) /\ Return("canceled", "deferred")
    \/ e.kind = "failed" /\ OwnTurn(e) /\ Return("error", "deferred")

HandleEvent ==
    /\ pc \in {"loop", "block"} /\ events # <<>>
    /\ events' = Tail(events)
    /\ Handle(Head(events))
    /\ UNCHANGED <<process, transport, server, request>>

\* The first select finds nothing.
Block ==
    /\ pc = "loop" /\ events = <<>>
    /\ pc' = "block"
    /\ UNCHANGED <<turn, process, transport, events, server, request>>

\* A mutant: the loop waits for the app-server only.
BlockCancelledNever == pc = "block" /\ FALSE /\ UNCHANGED vars

BlockCancelled ==
    /\ pc = "block" /\ ctx
    /\ Return("canceled", "deferred")
    /\ UNCHANGED <<process, transport, events, server, request>>

\* A mutant: the end of the stream is not checked against queued events.
BlockDoneAtOnce ==
    /\ pc = "block" /\ transport # "open"
    /\ Return("transport", "deferred")
    /\ UNCHANGED <<process, transport, events, server, request>>

\* client.Done() with nothing left in the channel.
BlockDone ==
    /\ pc = "block" /\ transport # "open" /\ events = <<>>
    /\ Return("transport", "deferred")
    /\ UNCHANGED <<process, transport, events, server, request>>

-----------------------------------------------------------------------------
(* The deferred shutdown.                                                  *)

Deferred ==
    /\ pc = "deferred"
    /\ LET interrupted == ctx \/ turn.result = "limit" IN
       /\ turn' = [turn EXCEPT !.interrupted = interrupted]
       /\ pc' = IF interrupted /\ turn.requested
                THEN IF turn.id THEN "interrupt" ELSE "learn"
                ELSE IF turn.result = "ok" \/ interrupted THEN "eof" ELSE "close"
    /\ UNCHANGED <<process, transport, events, server, request>>

\* interruptCodexRPC waits for turn/started to name the turn.
Learn ==
    /\ pc = "learn" /\ events # <<>>
    /\ events' = Tail(events)
    /\ LET found == Head(events).kind = "started" /\ Head(events).own IN
       /\ turn' = [turn EXCEPT !.id = found]
       /\ pc' = IF found THEN "interrupt" ELSE "learn"
    /\ UNCHANGED <<process, transport, server, request>>

\* turn/interrupt is answered: a running turn stops and reports so.
Interrupt ==
    /\ pc = "interrupt" /\ Serving
    /\ pc' = "ack"
    /\ IF server.stage = "running"
       THEN /\ server' = [server EXCEPT !.stage = "interrupted"]
            /\ Push(Event("interrupted", TRUE, FALSE))
       ELSE UNCHANGED <<server, events, transport, proc>>
    /\ UNCHANGED <<turn, prepared, request>>

Ack ==
    /\ pc = "ack" /\ events # <<>>
    /\ events' = Tail(events)
    /\ pc' = IF Head(events).own /\ Head(events).kind \in Ends THEN "eof" ELSE "ack"
    /\ UNCHANGED <<turn, process, transport, server, request>>

\* The interrupt's own timeout, a failed client, or a rejected interrupt.
InterruptOver ==
    /\ pc \in {"learn", "interrupt", "ack"}
    /\ pc' = "eof"
    /\ UNCHANGED <<turn, process, transport, events, server, request>>

\* stdin is closed; the client ends or the grace period does.
Drain ==
    /\ pc = "eof"
    /\ pc' = "close"
    /\ UNCHANGED <<turn, process, transport, events, server, request>>

\* client.Close: the process tree is killed.
Close ==
    /\ pc = "close"
    /\ pc' = "finish"
    /\ IF transport = "open" THEN Fail("EOF") ELSE UNCHANGED <<transport, proc>>
    /\ UNCHANGED <<turn, prepared, events, server, request>>

\* finishDescendants may report processes it could not clean up.
Finish ==
    /\ pc = "finish"
    /\ pc' = "wait"
    /\ \E failed \in BOOLEAN :
          /\ turn' = [turn EXCEPT !.cleanup = failed]
          /\ dirty' = (dirty \/ failed)
    /\ UNCHANGED <<ctx, attempt, session, outcome, process, transport, events, server>>

\* command.Wait, and the check of client.Err() for a run without an error.
Wait ==
    /\ pc = "wait"
    /\ proc' = "reaped"
    /\ Return(IF turn.result = "ok" /\ ~turn.cleanup /\ transport # "EOF"
              THEN "transport" ELSE turn.result, "cleanup")
    /\ UNCHANGED <<prepared, transport, events, server, request>>

Cleanup ==
    /\ pc = "cleanup"
    /\ prepared' = FALSE
    /\ pc' = "returned"
    /\ UNCHANGED <<turn, proc, transport, events, server, request>>

-----------------------------------------------------------------------------
(* CodexProvider.Run's loop over attempts.                                 *)

\* A mutant: any transport failure of a first attempt is retried.
RecoversMoreErrors ==
    session /\ attempt = 0 /\ turn.result \in {"missing", "transport"} /\ ~turn.cleanup

codexRecoversMissingSession ==
    session /\ attempt = 0 /\ turn.result = "missing" /\ ~turn.cleanup

\* A mutant: cancellation is reported without the cleanup failure.
CanceledResultPlain == "canceled"

codexCanceledResult == IF turn.cleanup THEN "cleanup" ELSE "canceled"

Done(result) == outcome' = result /\ pc' = "over"

\* The attempt's result ends the request.
Decide ==
    /\ pc = "returned"
    /\ \/ ctx /\ Done(codexCanceledResult)
       \/ ~ctx /\ turn.result = "ok" /\ ~turn.cleanup /\ Done("success")
       \/ /\ ~ctx /\ (turn.result # "ok" \/ turn.cleanup)
          /\ ~codexRecoversMissingSession
          /\ Done(IF turn.cleanup THEN "cleanup" ELSE turn.result)
       \* deleteSessionID fails
       \/ ~ctx /\ codexRecoversMissingSession /\ Done("error")
    /\ UNCHANGED <<ctx, attempt, session, dirty, turn, process, transport, events, server>>

\* The missing session is forgotten and the request starts a fresh one.
Recover ==
    /\ pc = "returned" /\ ~ctx /\ codexRecoversMissingSession
    /\ pc' = "begin" /\ attempt' = 1 /\ session' = FALSE
    /\ turn' = Fresh /\ proc' = "none" /\ transport' = "open" /\ events' = <<>>
    /\ server' = [server EXCEPT !.stage = "none", !.noise = 0]
    /\ UNCHANGED <<ctx, dirty, outcome, prepared>>

Cancel ==
    /\ ~ctx /\ pc # "over"
    /\ ctx' = TRUE
    /\ UNCHANGED <<pc, attempt, session, dirty, outcome, turn, process, transport,
                   events, server>>

-----------------------------------------------------------------------------
Server == \/ ServerStartsTurn \/ ServerReports \/ ServerNoise
          \/ ServerEndsTurn \/ ServerFails

\* The steps Run takes by itself.
Own == \/ Prepare \/ Start
       \/ Initialized \/ CallFails
       \/ HandleEvent \/ Block \/ BlockCancelled \/ BlockDone
       \/ Deferred \/ Learn \/ Ack \/ InterruptOver \/ Drain \/ Close
       \/ Finish \/ Wait \/ Cleanup \/ Decide \/ Recover

Next == \/ Own \/ Server \/ Cancel
        \/ Initialize \/ Thread \/ ThreadMissing \/ TurnStarted \/ Interrupt

Spec == Init /\ [][Next]_vars

\* What a request is owed (see MCBackends): Run's own steps, and the end of a
\* call that is never answered when its context is cancelled or the client has
\* failed.
CallEnds == CallFails /\ (ctx \/ transport # "open")

Waits == \/ Prepare \/ Start \/ Initialized
         \/ HandleEvent \/ Block \/ BlockCancelled \/ BlockDone
         \/ Deferred \/ InterruptOver \/ Drain \/ Close
         \/ Finish \/ Wait \/ Cleanup \/ Decide \/ Recover

-----------------------------------------------------------------------------
\* The request's own turn decides.  It succeeds only when that turn completed,
\* whatever other turns the app-server reported, with a final message and a
\* cleanly ended stream (handle's thread and turn checks, and the last check of
\* client.Err()); and a run in the event loop does not fail for a lost stream
\* while the end of its turn is waiting in the channel ("Consume already received
\* terminal events before acting on a trailing EOF").
OwnTurnDecides ==
    /\ outcome = "success" =>
          /\ server.stage = "completed" /\ turn.final = "own"
          /\ transport = "EOF"
    /\ turn.id /\ turn.result = "transport" /\ pc = "deferred" =>
          \A i \in DOMAIN events : ~(events[i].own /\ events[i].kind \in Ends)

\* Nothing of a request stays behind silently: Run returns, on every path, with
\* no process left to reap and nothing left to clean up, and a failure to clean
\* up an attempt's processes is what the request reports whatever else happens,
\* cancellation, a missing session and its recovery included
\* (ErrProcessCleanup, codexRecoversMissingSession, codexCanceledResult).
NothingLeftSilently ==
    /\ pc \in {"returned", "over"} => proc \in {"none", "reaped"} /\ ~prepared
    /\ dirty /\ outcome # None => outcome = "cleanup"

\* The prompt is given to at most one turn: a second attempt never follows
\* one that had asked for a turn.
OneTurnPerRequest == server.turns <= 1

\* Every request returns, with an app-server that may fall silent at any
\* point.
RequestReturns == <>(pc = "over")
=============================================================================
