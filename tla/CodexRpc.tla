------------------------------ MODULE CodexRpc ------------------------------
(***************************************************************************)
(* The stdio JSON-RPC client of codexrpc/client.go: concurrent calls, the  *)
(* two I/O pumps, bounded queues, and the once-only failure that ends them *)
(* all.  The app-server is external: it takes any line it is sent, answers *)
(* requests it has taken, at once, late or twice, and sends requests,      *)
(* notifications and garbage of its own.                                   *)
(***************************************************************************)
EXTENDS Naturals, Sequences, FiniteSets

CONSTANTS
    Callers,        \* goroutines that use the client
    PendingLimit, EventLimit, WriteLimit,   \* maxQueuedMessages (128) of each kind
    MaxCalls,       \* bound: the calls made
    MaxTraffic,     \* bound: the calls made and what the server sends beyond its
                    \* answers, together
    None

ASSUME CallersAssumption == IsFiniteSet(Callers) /\ Callers # {}
ASSUME LimitAssumption == {PendingLimit, EventLimit, WriteLimit} \subseteq Nat \ {0}
ASSUME BoundAssumption == {MaxCalls, MaxTraffic} \subseteq Nat
ASSUME NoneAssumption == None \notin {"EOF", "cause", "ok", "error"}

Ids == 1 .. MaxCalls
Pumps == {"reader", "writer"}
Failers == Pumps \cup {"closer"}   \* goroutines that call fail

VARIABLES
    next,       \* the last request id handed out
    made,       \* calls made so far; numbers them (history)
    pending,    \* ids of registered calls
    slot,       \* the buffered response channel of each id
    call,       \* per caller: pc, id, serial number, outcome, answer received
    writes, events,    \* the two bounded channels
    once, err, done,   \* fail: its sync.Once, the cause, the closed channel
    pump,       \* where each goroutine that can fail the client is
    hand,       \* the response the reader is delivering, or the line being written
    taken,      \* (id, serial) of requests the server has taken
    fresh,      \* those it has not answered yet
    owed,       \* server requests read and not yet replied to
    noise       \* messages the server has sent of its own accord

chans == <<writes, events>>
failure == <<once, err, done>>
server == <<taken, fresh, noise>>
vars == <<next, made, pending, slot, call, chans, failure, pump, hand, server, owed>>

Reply == [id |-> 0, serial |-> 0]    \* denyRequest's answer, whatever its form

Idle == [pc |-> "idle", id |-> 0, serial |-> 0, outcome |-> None, got |-> 0]

Init == /\ next = 0 /\ made = 0 /\ pending = {} /\ slot = [i \in Ids |-> None]
        /\ call = [c \in Callers |-> Idle]
        /\ writes = <<>> /\ events = <<>>
        /\ once = "no" /\ err = None /\ done = FALSE
        /\ pump = [p \in Failers |-> IF p \in Pumps THEN "run" ELSE "open"]
        /\ hand = [p \in Pumps |-> None]
        /\ taken = {} /\ fresh = {} /\ noise = 0 /\ owed = 0

-----------------------------------------------------------------------------
MoreCalls == made < MaxCalls /\ made + noise < MaxTraffic
MoreNoise == made + noise < MaxTraffic /\ noise' = noise + 1

(* Call.  Each select of the code is a choice among its ready cases.       *)

\* A mutant: ids are taken from the number of calls in flight.
RegisterReusesIds(c) ==
    /\ call[c].pc = "idle" /\ MoreCalls
    /\ Cardinality(pending) < PendingLimit
    /\ made' = made + 1 /\ next' = Cardinality(pending) + 1
    /\ pending' = pending \cup {next'}
    /\ slot' = [slot EXCEPT ![next'] = None]
    /\ call' = [call EXCEPT ![c] = [Idle EXCEPT !.pc = "send", !.id = next', !.serial = made']]
    /\ UNCHANGED <<chans, failure, pump, hand, server, owed>>

\* A new id and a new response channel, registered under the mutex.
Register(c) ==
    /\ call[c].pc = "idle" /\ MoreCalls
    /\ Cardinality(pending) < PendingLimit
    /\ made' = made + 1 /\ next' = next + 1
    /\ pending' = pending \cup {next'}
    /\ slot' = [slot EXCEPT ![next'] = None]
    /\ call' = [call EXCEPT ![c] = [Idle EXCEPT !.pc = "send", !.id = next', !.serial = made']]
    /\ UNCHANGED <<chans, failure, pump, hand, server, owed>>

\* Too many calls in flight: an error, and nothing registered.
Refuse(c) ==
    /\ call[c].pc = "idle" /\ MoreCalls
    /\ Cardinality(pending) >= PendingLimit
    /\ made' = made + 1
    /\ call' = [call EXCEPT ![c] = [Idle EXCEPT !.outcome = "error"]]
    /\ UNCHANGED <<next, pending, slot, chans, failure, pump, hand, server, owed>>

\* Leave the call with an outcome; the deferred delete comes next.
Leave(c, outcome, got) ==
    call' = [call EXCEPT ![c].pc = "drop", ![c].outcome = outcome, ![c].got = got]

Send(c) ==
    /\ call[c].pc = "send" /\ Len(writes) < WriteLimit
    /\ writes' = Append(writes, [id |-> call[c].id, serial |-> call[c].serial])
    /\ call' = [call EXCEPT ![c].pc = "wait"]
    /\ UNCHANGED <<next, made, pending, slot, events, failure, pump, hand, server, owed>>

\* The caller's context is done, at any moment.
GiveUp(c) ==
    /\ call[c].pc \in {"send", "wait"}
    /\ Leave(c, "error", 0)
    /\ UNCHANGED <<next, made, pending, slot, chans, failure, pump, hand, server, owed>>

\* The client is done: the call returns the recorded cause, whatever it is.
Stopped(c) ==
    /\ call[c].pc \in {"send", "wait"} /\ done
    /\ Leave(c, IF err = None THEN "ok" ELSE "error", 0)
    /\ UNCHANGED <<next, made, pending, slot, chans, failure, pump, hand, server, owed>>

Receive(c) ==
    /\ call[c].pc = "wait" /\ slot[call[c].id] # None
    /\ Leave(c, "ok", slot[call[c].id])
    /\ slot' = [slot EXCEPT ![call[c].id] = None]
    /\ UNCHANGED <<next, made, pending, chans, failure, pump, hand, server, owed>>

Drop(c) ==
    /\ call[c].pc = "drop"
    /\ pending' = pending \ {call[c].id}
    /\ call' = [call EXCEPT ![c].pc = "idle"]
    /\ UNCHANGED <<next, made, slot, chans, failure, pump, hand, server, owed>>

\* The consumer takes an event from the channel (Events()).
TakeEvent == /\ events # <<>>
             /\ events' = Tail(events)
             /\ UNCHANGED <<next, made, pending, slot, call, writes, failure, pump, hand, server, owed>>

CallStep(c) == \/ Register(c) \/ Refuse(c) \/ Send(c) \/ Stopped(c)
               \/ Receive(c) \/ Drop(c)

-----------------------------------------------------------------------------
(* fail: the first caller records the cause, closes done and stops the     *)
(* process; later callers wait for it, as sync.Once makes them.            *)

\* Enter fail (from a pump, or from Close).
Failing(p) == pump' = [pump EXCEPT ![p] = "fail"]

FailRecord(p) ==
    /\ pump[p] = "fail" /\ once = "no"
    /\ once' = p
    /\ err' = IF p = "closer" THEN "EOF" ELSE "cause"
    /\ UNCHANGED <<next, made, pending, slot, call, chans, done, pump, hand, server, owed>>

\* close(done) and stop(): from here on the pipes are closed.
FailStop(p) ==
    /\ pump[p] = "fail" /\ once = p
    /\ once' = "did" /\ done' = TRUE
    /\ pump' = [pump EXCEPT ![p] = "end"]
    /\ UNCHANGED <<next, made, pending, slot, call, chans, err, hand, server, owed>>

FailLater(p) ==
    /\ pump[p] = "fail" /\ once = "did"
    /\ pump' = [pump EXCEPT ![p] = "end"]
    /\ UNCHANGED <<next, made, pending, slot, call, chans, failure, hand, server, owed>>

\* Close: fail(io.EOF), then wait for both pumps.
Close == /\ pump["closer"] = "open"
         /\ Failing("closer")
         /\ UNCHANGED <<next, made, pending, slot, call, chans, failure, hand, server, owed>>

Closed == pump["closer"] = "end" /\ \A p \in Pumps : pump[p] = "end"

Fail(p) == FailRecord(p) \/ FailStop(p) \/ FailLater(p)

-----------------------------------------------------------------------------
(* The writer.                                                             *)

WriterEnds == /\ pump["writer"] = "run" /\ done
              /\ pump' = [pump EXCEPT !["writer"] = "end"]
              /\ UNCHANGED <<next, made, pending, slot, call, chans, failure, hand, server, owed>>

WriterTakes == /\ pump["writer"] = "run" /\ writes # <<>>
               /\ hand' = [hand EXCEPT !["writer"] = Head(writes)]
               /\ writes' = Tail(writes)
               /\ pump' = [pump EXCEPT !["writer"] = "busy"]
               /\ UNCHANGED <<next, made, pending, slot, call, events, failure, server, owed>>

\* The server takes the line; until it does, Encode blocks on the pipe.
Written == /\ pump["writer"] = "busy" /\ once # "did"
           /\ IF hand["writer"] = Reply
                 THEN owed' = owed - 1 /\ UNCHANGED <<taken, fresh>>
                 ELSE /\ taken' = taken \cup {hand["writer"]}
                      /\ fresh' = fresh \cup {hand["writer"]}
                      /\ UNCHANGED owed
           /\ hand' = [hand EXCEPT !["writer"] = None]
           /\ pump' = [pump EXCEPT !["writer"] = "run"]
           /\ UNCHANGED <<next, made, pending, slot, call, chans, failure, noise>>

\* The write fails: the pipe broke, or stop() closed it.
WriteFails == /\ pump["writer"] = "busy"
              /\ hand' = [hand EXCEPT !["writer"] = None]
              /\ Failing("writer")
              /\ UNCHANGED <<next, made, pending, slot, call, chans, failure, server, owed>>

Writer == WriterEnds \/ WriterTakes \/ Written \/ WriteFails

-----------------------------------------------------------------------------
(* The reader: one line of the server's output at a time.                  *)

Reading == pump["reader"] = "run"

\* A response: look the call up under the mutex, deliver afterwards.
ReadResponse(m) ==
    /\ Reading
    /\ IF m \in fresh THEN fresh' = fresh \ {m} /\ UNCHANGED noise
                      ELSE MoreNoise /\ UNCHANGED fresh
    /\ IF m.id \in pending
          THEN /\ pump' = [pump EXCEPT !["reader"] = "busy"]
               /\ hand' = [hand EXCEPT !["reader"] = m]
          ELSE UNCHANGED <<pump, hand>>
    /\ UNCHANGED <<next, made, pending, slot, call, chans, failure, taken, owed>>

\* The channel holds one answer; a second one before it is read is an error.
Deliver == LET m == hand["reader"] IN
    /\ pump["reader"] = "busy"
    /\ IF slot[m.id] = None
          THEN /\ slot' = [slot EXCEPT ![m.id] = m.serial]
               /\ pump' = [pump EXCEPT !["reader"] = "run"]
          ELSE Failing("reader") /\ UNCHANGED slot
    /\ hand' = [hand EXCEPT !["reader"] = None]
    /\ UNCHANGED <<next, made, pending, call, chans, failure, server, owed>>

\* A mutant: a refusal that does not fit in the queue is dropped.
ReadRequestDrops ==
    /\ Reading /\ MoreNoise
    /\ owed' = owed + 1
    /\ writes' = IF Len(writes) < WriteLimit THEN Append(writes, Reply) ELSE writes
    /\ UNCHANGED <<next, made, pending, slot, call, events, failure, pump, hand, taken, fresh>>

\* A request of the server is declined without blocking.
ReadRequest ==
    /\ Reading /\ MoreNoise
    /\ owed' = owed + 1
    /\ \/ /\ Len(writes) < WriteLimit
          /\ writes' = Append(writes, Reply) /\ UNCHANGED pump
       \/ /\ done
          /\ pump' = [pump EXCEPT !["reader"] = "end"] /\ UNCHANGED writes
       \/ /\ Len(writes) = WriteLimit /\ ~done
          /\ Failing("reader") /\ UNCHANGED writes
    /\ UNCHANGED <<next, made, pending, slot, call, events, failure, hand, taken, fresh>>

\* A mutant: the reader waits for room in the event queue.
ReadNotificationBlocks ==
    /\ Reading /\ MoreNoise
    /\ IF Len(events) < EventLimit
          THEN events' = Append(events, "event") /\ UNCHANGED pump
          ELSE pump' = [pump EXCEPT !["reader"] = "full"] /\ UNCHANGED events
    /\ UNCHANGED <<next, made, pending, slot, call, writes, failure, hand, taken, fresh, owed>>

\* A notification is queued without blocking: calls depend on this reader.
ReadNotification ==
    /\ Reading /\ MoreNoise
    /\ \/ /\ Len(events) < EventLimit
          /\ events' = Append(events, "event") /\ UNCHANGED pump
       \/ /\ done
          /\ pump' = [pump EXCEPT !["reader"] = "end"] /\ UNCHANGED events
       \/ /\ Len(events) = EventLimit /\ ~done
          /\ Failing("reader") /\ UNCHANGED events
    /\ UNCHANGED <<next, made, pending, slot, call, writes, failure, hand, taken, fresh, owed>>

\* Oversized, malformed or invalid lines, a read error, the end of output
\* (which stop() brings about).
ReadEnds == /\ Reading
            /\ Failing("reader")
            /\ UNCHANGED <<next, made, pending, slot, call, chans, failure, hand, server, owed>>

Reader == \/ \E m \in taken : ReadResponse(m)
          \/ Deliver \/ ReadRequest \/ ReadNotification \/ ReadEnds

Next == \/ \E c \in Callers : CallStep(c) \/ GiveUp(c)
        \/ TakeEvent \/ Close \/ Writer \/ Reader
        \/ \E p \in Failers : Fail(p)

Spec == Init /\ [][Next]_vars

(* Goroutines run; the server takes and answers what it is sent; a closed  *)
(* pipe fails both pumps.  Nobody is assumed to read the events or to      *)
(* cancel, and the server may send what it likes in between.               *)
Fairness ==
    /\ \A c \in Callers : WF_vars(call[c].pc # "idle" /\ CallStep(c)) /\ SF_vars(Send(c))
    /\ \A p \in Failers : WF_vars(Fail(p))
    /\ WF_vars(WriterEnds \/ WriterTakes) /\ WF_vars(Written \/ (done /\ WriteFails))
    /\ WF_vars(Deliver) /\ WF_vars(done /\ ReadEnds)
    /\ \A s \in Ids : SF_vars(\E m \in fresh : m.serial = s /\ ReadResponse(m))

FairSpec == Spec /\ Fairness

-----------------------------------------------------------------------------
(* A call that returns nil was answered, and by the answer to its own      *)
(* request: neither a late nor a repeated answer to another call, nor the  *)
(* client's failure, can pass for it.  client.go: late responses "cannot   *)
(* be consumed by another call: request IDs are monotonic".                *)
NilMeansOwnAnswer ==
    \A c \in Callers : call[c].outcome = "ok" => call[c].got = call[c].serial

(* Neither side waits for ever.  The reader never waits for the consumer   *)
(* of events, so a call whose request the server answers returns even if   *)
(* nobody takes an event; and every request of the server that was read is *)
(* refused, or the client fails (client.go: never "allow an unanswered     *)
(* request to stall the turn").                                            *)
NobodyWaits ==
    /\ \A c \in Callers : call[c].pc # "idle" ~> call[c].pc = "idle"
    /\ owed > 0 ~> owed = 0 \/ done
=============================================================================
