--------------------------- MODULE CodexRpcProofs ----------------------------
(***************************************************************************)
(* For every number of callers, calls and queue places: a call that returns *)
(* nil was answered, and by its own answer.  The argument follows an id     *)
(* wherever it goes: the calls in flight, the write queue, the two pumps,   *)
(* the server and the response channels never disagree about the call an id *)
(* stands for, because only Register brings in an id, and a new one.        *)
(***************************************************************************)
EXTENDS CodexRpc, SequenceTheorems, TLAPS

Pair == [id : Nat, serial : Nat]
Call == [pc : {"idle", "send", "wait", "drop"}, id : Nat, serial : Nat,
         outcome : {None, "ok", "error"}, got : Nat \cup {None}]

TypeOK ==
    /\ next \in Nat /\ made \in Nat /\ next <= made /\ made <= MaxCalls
    /\ call \in [Callers -> Call]
    /\ slot \in [Ids -> Nat \cup {None}]
    /\ writes \in Seq(Pair)
    /\ pump \in [Failers -> {"run", "busy", "fail", "end", "open"}]
    /\ hand \in [Pumps -> Pair \cup {None}] /\ \A p \in Pumps : pump[p] = "busy" => hand[p] \in Pair
    /\ taken \subseteq Pair

\* Where an id is, with the call it stands for.
Live == {[id |-> call[c].id, serial |-> call[c].serial] :
            c \in {d \in Callers : call[d].pc \in {"send", "wait"}}}
Queued == {writes[i] : i \in 1 .. Len(writes)}
Held == {hand[p] : p \in {q \in Pumps : pump[q] = "busy"}}
Answers == {[id |-> i, serial |-> slot[i]] : i \in {j \in Ids : slot[j] # None}}
Known == (Live \cup Queued \cup Held \cup Answers \cup taken) \ {Reply}

\* An id that is anywhere has been handed out, and stands for one call.
IdsAgree ==
    /\ \A m \in Known : m.id \in 1 .. next
    /\ \A m, n \in Known : m.id = n.id => m.serial = n.serial

\* done is closed only after the cause has been recorded.
CauseFirst == (once # "no" => err # None) /\ (done => once = "did")

IInv == /\ TypeOK /\ IdsAgree /\ CauseFirst /\ NilMeansOwnAnswer
        /\ Reply \notin taken /\ (pump["reader"] = "busy" => hand["reader"] # Reply)
        /\ \A c \in Callers : call[c].pc \in {"send", "wait"} => call[c].id # 0

-----------------------------------------------------------------------------
\* The initial state.
LEMMA InvInit == Init => IInv
<1>. SUFFICES ASSUME Init PROVE IInv
    OBVIOUS
<1>1. TypeOK
    BY BoundAssumption DEF Init, TypeOK, Call, Idle, Failers, Pumps
<1>2. Known = {}
    BY DEF Init, Known, Live, Queued, Held, Answers, Idle, Failers, Pumps
<1>. QED
    BY <1>1, <1>2 DEF Init, IInv, IdsAgree, CauseFirst, NilMeansOwnAnswer, Idle, Failers, Pumps

\* A step that brings in no id keeps IdsAgree.
LEMMA NothingNew ==
    ASSUME IdsAgree, next' = next,
           Live' \subseteq Known \cup {Reply}, Queued' \subseteq Known \cup {Reply},
           Held' \subseteq Known \cup {Reply}, Answers' \subseteq Known \cup {Reply},
           taken' \subseteq Known \cup {Reply}
    PROVE  IdsAgree'
<1>1. Known' \subseteq Known
    BY DEF Known, Reply
<1>. QED
    BY <1>1 DEF IdsAgree

\* Everywhere but in the write queue and the writer, an id is that of a call.
LEMMA Places ==
           /\ Live \subseteq Known \cup {Reply} /\ Queued \subseteq Known \cup {Reply}
           /\ Held \subseteq Known \cup {Reply} /\ Answers \subseteq Known \cup {Reply}
           /\ taken \subseteq Known \cup {Reply}
BY DEF Known

\* The call in flight of a goroutine is known by its own id.
LEMMA LiveKnown ==
    ASSUME IInv, NEW c \in Callers, call[c].pc \in {"send", "wait"}
    PROVE  [id |-> call[c].id, serial |-> call[c].serial] \in Known
<1>1. [id |-> call[c].id, serial |-> call[c].serial] # Reply
    BY DEF IInv, Reply
<1>. QED
    BY <1>1 DEF Known, Live

\* An answer in a response channel is known by the id of the channel.
LEMMA AnswerKnown ==
    ASSUME NEW i \in Ids, slot[i] # None
    PROVE  [id |-> i, serial |-> slot[i]] \in Known
<1>1. i # 0
    BY BoundAssumption DEF Ids
<1>2. [id |-> i, serial |-> slot[i]] # Reply
    BY <1>1 DEF Reply
<1>. QED
    BY <1>2 DEF Known, Answers

-----------------------------------------------------------------------------
\* What each way of changing the state of a call does, caller by caller.
LEMMA Leaving ==
    ASSUME call \in [Callers -> Call], NEW c \in Callers,
           NEW o \in {None, "ok", "error"}, NEW g \in Nat \cup {None}, Leave(c, o, g)
    PROVE  /\ call' \in [Callers -> Call]
           /\ \A d \in Callers \ {c} : call'[d] = call[d]
           /\ call'[c].pc = "drop" /\ call'[c].outcome = o /\ call'[c].got = g
           /\ call'[c].id = call[c].id /\ call'[c].serial = call[c].serial
BY DEF Leave, Call

\* A call that moves on without an outcome of its own.
LEMMA Stepping ==
    ASSUME call \in [Callers -> Call], NEW c \in Callers, NEW s \in {"wait", "idle"},
           call' = [call EXCEPT ![c].pc = s]
    PROVE  /\ call' \in [Callers -> Call]
           /\ \A d \in Callers \ {c} : call'[d] = call[d]
           /\ call'[c].pc = s /\ call'[c].outcome = call[c].outcome /\ call'[c].got = call[c].got
           /\ call'[c].id = call[c].id /\ call'[c].serial = call[c].serial
BY DEF Call

\* A call that Register starts.
LEMMA Starting ==
    ASSUME call \in [Callers -> Call], NEW c \in Callers, NEW i \in Nat, NEW n \in Nat,
           call' = [call EXCEPT ![c] = [Idle EXCEPT !.pc = "send", !.id = i, !.serial = n]]
    PROVE  /\ call' \in [Callers -> Call]
           /\ \A d \in Callers \ {c} : call'[d] = call[d]
           /\ call'[c].pc = "send" /\ call'[c].outcome = None
           /\ call'[c].id = i /\ call'[c].serial = n /\ call'[c].got = 0
BY DEF Call, Idle

\* A call that is no longer in flight brings in no id.
LEMMA Ending ==
    ASSUME IInv, NEW c \in Callers, call' \in [Callers -> Call],
           \A d \in Callers \ {c} : call'[d] = call[d],
           call'[c].pc \in {"idle", "drop"},
           call'[c].outcome = "ok" => call'[c].got = call'[c].serial,
           UNCHANGED <<next, slot, writes, pump, hand, taken, once, err, done>>,
           made' \in Nat, made <= made', made' <= MaxCalls
    PROVE  IInv'
<1>1. TypeOK'
    BY BoundAssumption DEF IInv, TypeOK
<1>2. Live' \subseteq Live
    BY DEF Live
<1>3. Queued' = Queued /\ Held' = Held /\ Answers' = Answers
    BY DEF Queued, Held, Answers
<1>4. IdsAgree'
    BY <1>2, <1>3, Places, NothingNew DEF IInv
<1>. QED
    BY <1>1, <1>4 DEF IInv, CauseFirst, NilMeansOwnAnswer

\* The steps of a call.  Only Register brings in an id.
LEMMA InvCall ==
    ASSUME IInv, NEW c \in Callers, CallStep(c) \/ GiveUp(c)
    PROVE  IInv'
<1>1. UNCHANGED <<pump, hand, taken, once, err, done>> /\ Held' = Held
    BY DEF CallStep, GiveUp, Register, Refuse, Send, Stopped, Receive, Drop, failure, server, Held
<1>2. Live \subseteq Known \cup {Reply} /\ Queued \subseteq Known \cup {Reply}
      /\ Held \subseteq Known \cup {Reply} /\ Answers \subseteq Known \cup {Reply}
      /\ taken \subseteq Known \cup {Reply}
    BY Places
<1>3. CASE Register(c)
    <2>. DEFINE new == [id |-> next', serial |-> made']
    <2>1. /\ next' = next + 1 /\ made' = made + 1 /\ next' \in Ids /\ next \in Nat /\ next' \in Nat
          /\ made' \in Nat /\ next' <= made' /\ made' <= MaxCalls
        BY <1>3, BoundAssumption DEF Register, MoreCalls, IInv, TypeOK, Ids
    <2>2. /\ call' \in [Callers -> Call] /\ \A d \in Callers \ {c} : call'[d] = call[d]
          /\ call'[c].outcome = None /\ call'[c].got = 0 /\ call'[c].id = next' /\ call'[c].serial = made'
        BY <1>3, <2>1, Starting DEF Register, IInv, TypeOK
    <2>3. slot' \in [Ids -> Nat \cup {None}] /\ Answers' \subseteq Answers
        BY <1>3, <2>1 DEF Register, Answers, IInv, TypeOK
    <2>4. TypeOK'
        BY <1>1, <1>3, <2>1, <2>2, <2>3 DEF Register, IInv, TypeOK, chans
    <2>5. Live' \subseteq Live \cup {new}
        BY <2>2 DEF Live
    <2>6. Queued' = Queued
        BY <1>3 DEF Register, chans, Queued
    <2>7. Known' \subseteq Known \cup {new}
        BY <1>1, <2>3, <2>5, <2>6 DEF Known
    <2>8. \A m \in Known : m.id \in 1 .. next
        BY DEF IInv, IdsAgree
    <2>9. new.id = next' /\ \A m \in Known : m.id \in 1 .. next' /\ m.id # next'
        BY <2>1, <2>8
    <2>10. IdsAgree'
        BY <2>1, <2>7, <2>9 DEF IdsAgree, IInv
    <2>11. NilMeansOwnAnswer' /\ \A d \in Callers : call'[d].pc \in {"send", "wait"} => call'[d].id # 0
        BY <2>1, <2>2, NoneAssumption DEF IInv, NilMeansOwnAnswer
    <2>. QED
        BY <1>1, <2>4, <2>10, <2>11 DEF IInv, CauseFirst
<1>4. CASE Refuse(c)
    <2>1. call' \in [Callers -> Call] /\ \A d \in Callers \ {c} : call'[d] = call[d]
        BY <1>4 DEF Refuse, IInv, TypeOK, Idle, Call
    <2>2. call'[c].pc = "idle" /\ call'[c].outcome = "error"
        BY <1>4 DEF Refuse, IInv, TypeOK, Idle, Call
    <2>3. made' = made + 1 /\ made' \in Nat /\ made' <= MaxCalls /\ made <= made'
        BY <1>4, BoundAssumption DEF Refuse, MoreCalls, IInv, TypeOK
    <2>. QED
        BY <1>1, <1>4, <2>1, <2>2, <2>3, Ending DEF Refuse, chans
<1>7. CASE Stopped(c) \/ GiveUp(c)
    <2>1. Leave(c, "error", 0) /\ UNCHANGED <<next, made, slot, writes>>
        BY <1>7 DEF Stopped, GiveUp, IInv, CauseFirst, chans
    <2>2. made \in Nat /\ made <= MaxCalls
        BY DEF IInv, TypeOK
    <2>3. call \in [Callers -> Call]
        BY DEF IInv, TypeOK
    <2>4. /\ call' \in [Callers -> Call] /\ \A d \in Callers \ {c} : call'[d] = call[d]
          /\ call'[c].pc = "drop" /\ call'[c].outcome = "error"
        BY <2>1, <2>3, Leaving
    <2>. QED
        BY <1>1, <2>1, <2>2, <2>4, Ending
<1>8. CASE Drop(c)
    <2>1. call \in [Callers -> Call] /\ made \in Nat /\ made <= MaxCalls
        BY DEF IInv, TypeOK
    <2>2. /\ call' \in [Callers -> Call] /\ \A d \in Callers \ {c} : call'[d] = call[d]
          /\ call'[c].pc = "idle" /\ call'[c].outcome = call[c].outcome
          /\ call'[c].got = call[c].got /\ call'[c].serial = call[c].serial
        BY <1>8, <2>1, Stepping DEF Drop
    <2>3. call'[c].outcome = "ok" => call'[c].got = call'[c].serial
        BY <2>2 DEF IInv, NilMeansOwnAnswer
    <2>4. UNCHANGED <<next, made, slot, writes>>
        BY <1>8 DEF Drop, chans
    <2>. QED
        BY <1>1, <2>1, <2>2, <2>3, <2>4, Ending
<1>5. CASE Send(c)
    <2>. DEFINE own == [id |-> call[c].id, serial |-> call[c].serial]
    <2>1. own \in Known /\ own \in Pair
        BY <1>5, LiveKnown DEF Send, IInv, TypeOK, Call, Pair
    <2>2. writes' = Append(writes, own) /\ writes \in Seq(Pair)
        BY <1>5 DEF Send, IInv, TypeOK
    <2>3. Queued' \subseteq Queued \cup {own} /\ writes' \in Seq(Pair)
        BY <2>1, <2>2 DEF Queued
    <2>7. /\ call' \in [Callers -> Call] /\ \A d \in Callers \ {c} : call'[d] = call[d]
          /\ call'[c].outcome = call[c].outcome /\ call'[c].got = call[c].got
          /\ call'[c].id = call[c].id /\ call'[c].serial = call[c].serial
        BY <1>5, Stepping DEF Send, IInv, TypeOK
    <2>4. TypeOK'
        BY <1>1, <1>5, <2>3, <2>7 DEF Send, IInv, TypeOK
    <2>5. Live' \subseteq Live /\ Answers' = Answers /\ next' = next
        BY <1>5, <2>7 DEF Send, Live, Answers
    <2>6. IdsAgree'
        BY <1>1, <1>2, <2>1, <2>3, <2>5, NothingNew DEF IInv
    <2>. QED
        BY <1>1, <1>5, <2>4, <2>6, <2>7 DEF IInv, Send, CauseFirst, NilMeansOwnAnswer
<1>6. CASE Receive(c)
    <2>. DEFINE own == [id |-> call[c].id, serial |-> call[c].serial]
    <2>1. own \in Known
        BY <1>6, LiveKnown DEF Receive
    <2>2. call[c].id \in Ids
        BY <2>1, BoundAssumption DEF IInv, IdsAgree, TypeOK, Ids
    <2>3. [id |-> call[c].id, serial |-> slot[call[c].id]] \in Known
        BY <1>6, <2>2, AnswerKnown DEF Receive
    <2>4. slot[call[c].id] = call[c].serial
        BY <2>1, <2>3 DEF IInv, IdsAgree
    <2>9. /\ call' \in [Callers -> Call] /\ \A d \in Callers \ {c} : call'[d] = call[d]
          /\ call'[c].pc = "drop" /\ call'[c].got = call[c].serial /\ call'[c].serial = call[c].serial
        BY <1>6, <2>2, <2>4, Leaving DEF Receive, IInv, TypeOK
    <2>10. slot' \in [Ids -> Nat \cup {None}] /\ Answers' \subseteq Answers
        BY <1>6, <2>2 DEF Receive, Answers, IInv, TypeOK
    <2>5. TypeOK'
        BY <1>1, <1>6, <2>9, <2>10 DEF Receive, IInv, TypeOK, chans
    <2>6. Live' \subseteq Live /\ Queued' = Queued /\ next' = next
        BY <1>6, <2>9 DEF Receive, Live, Queued, chans
    <2>7. IdsAgree'
        BY <1>1, <1>2, <2>6, <2>10, NothingNew DEF IInv
    <2>8. NilMeansOwnAnswer'
        BY <2>9 DEF NilMeansOwnAnswer, IInv
    <2>. QED
        BY <1>1, <2>5, <2>7, <2>8, <2>9 DEF IInv, CauseFirst
<1>. QED
    BY <1>3, <1>4, <1>5, <1>6, <1>7, <1>8 DEF CallStep

\* fail, Close and the consumer of events move no id.
LEMMA InvQuiet ==
    ASSUME IInv, UNCHANGED <<next, made, slot, call, hand, taken>>,
           writes' \in {writes, Append(writes, Reply)},
           pump' \in [Failers -> {"run", "busy", "fail", "end", "open"}],
           \A p \in Pumps : pump'[p] = "busy" => pump[p] = "busy", CauseFirst'
    PROVE  IInv'
<1>1. writes' \in Seq(Pair) /\ Queued' \subseteq Queued \cup {Reply}
    <2>1. Reply \in Pair /\ writes \in Seq(Pair)
        BY DEF IInv, TypeOK, Reply, Pair
    <2>. QED
        BY <2>1 DEF Queued
<1>2. TypeOK'
    BY <1>1 DEF IInv, TypeOK
<1>3. Held' \subseteq Held /\ Live' = Live /\ Answers' = Answers
    BY DEF Held, Live, Answers
<1>4. IdsAgree'
    BY <1>1, <1>3, Places, NothingNew DEF IInv
<1>. QED
    BY <1>2, <1>4 DEF IInv, NilMeansOwnAnswer, Pumps

\* The steps of fail and of Close record the cause before done is closed.
LEMMA InvFail ==
    ASSUME IInv, TakeEvent \/ Close \/ \E p \in Failers : Fail(p)
    PROVE  IInv'
<1>1. UNCHANGED <<next, made, slot, call, hand, taken, writes>>
    BY DEF TakeEvent, Close, Fail, FailRecord, FailStop, FailLater, chans, server
<1>2. /\ pump' \in [Failers -> {"run", "busy", "fail", "end", "open"}]
      /\ \A p \in Pumps : pump'[p] = "busy" => pump[p] = "busy"
    BY DEF TakeEvent, Close, Failing, Fail, FailRecord, FailStop, FailLater, IInv, TypeOK, Failers
<1>3. CauseFirst'
    BY NoneAssumption DEF TakeEvent, Close, Fail, FailRecord, FailStop, FailLater, failure, IInv, CauseFirst, Failers, Pumps
<1>. QED
    BY <1>1, <1>2, <1>3, InvQuiet

\* The writer hands an id on to the server.
LEMMA InvWriter ==
    ASSUME IInv, Writer
    PROVE  IInv'
<1>1. UNCHANGED <<next, made, slot, call, once, err, done>> /\ CauseFirst'
    BY DEF Writer, WriterEnds, WriterTakes, Written, WriteFails, failure, IInv, CauseFirst
<1>2. Live' = Live /\ Answers' = Answers
    BY <1>1 DEF Live, Answers
<1>3. CASE WriterEnds
    <2>1. UNCHANGED <<hand, taken, writes>>
        BY <1>3 DEF WriterEnds, chans, server
    <2>2. /\ pump' \in [Failers -> {"run", "busy", "fail", "end", "open"}]
          /\ \A p \in Pumps : pump'[p] = "busy" => pump[p] = "busy"
        BY <1>3 DEF WriterEnds, IInv, TypeOK, Failers
    <2>. QED
        BY <1>1, <2>1, <2>2, InvQuiet
<1>4. CASE WriterTakes
    <2>. DEFINE m == writes[1]
    <2>1. m \in Pair /\ m \in Queued /\ Tail(writes) \in Seq(Pair)
        BY <1>4 DEF WriterTakes, IInv, TypeOK, Queued
    <2>2. Queued' \subseteq Queued
        BY <1>4 DEF WriterTakes, IInv, TypeOK, Queued
    <2>3. hand' = [hand EXCEPT !["writer"] = m]
        BY <1>4 DEF WriterTakes, IInv, TypeOK
    <2>4. Held' \subseteq Held \cup {m}
        BY <1>4, <2>3 DEF WriterTakes, Held, IInv, TypeOK, Pumps, Failers
    <2>5. TypeOK'
        BY <1>1, <1>4, <2>1, <2>3 DEF WriterTakes, IInv, TypeOK, Pumps, Failers, server
    <2>6. taken' = taken
        BY <1>4 DEF WriterTakes, server
    <2>7. IdsAgree'
        BY <1>1, <1>2, <2>1, <2>2, <2>4, <2>6, Places, NothingNew DEF IInv
    <2>8. pump'["reader"] = "busy" => hand'["reader"] # Reply
        BY <1>4, <2>3 DEF WriterTakes, IInv, TypeOK, Pumps, Failers
    <2>. QED
        BY <1>1, <2>5, <2>6, <2>7, <2>8 DEF IInv, NilMeansOwnAnswer
<1>5. CASE Written \/ WriteFails
    <2>. DEFINE m == hand["writer"]
    <2>1. m \in Pair /\ m \in Held
        BY <1>5 DEF Written, WriteFails, IInv, TypeOK, Held, Pumps
    <2>2. Held' \subseteq Held
        BY <1>5 DEF Written, WriteFails, Failing, Held, IInv, TypeOK, Pumps, Failers
    <2>3. taken' \subseteq taken \cup {m} /\ Reply \notin taken'
        BY <1>5 DEF Written, WriteFails, server, IInv
    <2>4. writes' = writes /\ Queued' = Queued
        BY <1>5 DEF Written, WriteFails, chans, Queued
    <2>5. TypeOK'
        BY <1>1, <1>5, <2>1, <2>3, <2>4 DEF Written, WriteFails, Failing, IInv, TypeOK, Pumps, Failers
    <2>6. IdsAgree'
        BY <1>1, <1>2, <2>1, <2>2, <2>3, <2>4, Places, NothingNew DEF IInv
    <2>7. pump'["reader"] = "busy" => hand'["reader"] # Reply
        BY <1>5 DEF Written, WriteFails, Failing, IInv, TypeOK, Pumps, Failers
    <2>. QED
        BY <1>1, <2>3, <2>5, <2>6, <2>7 DEF IInv, NilMeansOwnAnswer
<1>. QED
    BY <1>3, <1>4, <1>5 DEF Writer

\* The reader takes an answer to the channel of its id.
LEMMA InvReader ==
    ASSUME IInv, Reader
    PROVE  IInv'
<1>1. UNCHANGED <<next, made, call, taken, once, err, done>> /\ CauseFirst' /\ Live' = Live
    BY DEF Reader, ReadResponse, Deliver, ReadRequest, ReadNotification, ReadEnds, failure, server, IInv, CauseFirst, Live
<1>2. CASE ReadRequest \/ ReadNotification \/ ReadEnds
    <2>1. UNCHANGED <<hand, slot>> /\ writes' \in {writes, Append(writes, Reply)}
        BY <1>2 DEF ReadRequest, ReadNotification, ReadEnds, chans
    <2>2. /\ pump' \in [Failers -> {"run", "busy", "fail", "end", "open"}]
          /\ \A p \in Pumps : pump'[p] = "busy" => pump[p] = "busy"
        BY <1>2 DEF ReadRequest, ReadNotification, ReadEnds, Failing, IInv, TypeOK, Failers
    <2>. QED
        BY <1>1, <2>1, <2>2, InvQuiet
<1>3. ASSUME NEW m \in taken, ReadResponse(m) PROVE IInv'
    <2>1. UNCHANGED <<slot, writes>> /\ Answers' = Answers /\ Queued' = Queued
        BY <1>3 DEF ReadResponse, chans, Answers, Queued
    <2>2. m \in Pair /\ m # Reply
        BY <1>3 DEF IInv, TypeOK
    <2>3. Held' \subseteq Held \cup {m}
        BY <1>3 DEF ReadResponse, Held, IInv, TypeOK, Pumps, Failers
    <2>4. TypeOK'
        BY <1>1, <1>3, <2>1, <2>2 DEF ReadResponse, IInv, TypeOK, Pumps, Failers
    <2>5. IdsAgree'
        BY <1>1, <2>1, <2>3, Places, NothingNew DEF IInv
    <2>6. pump'["reader"] = "busy" => hand'["reader"] # Reply
        BY <1>3, <2>2 DEF ReadResponse, IInv, TypeOK, Pumps, Failers
    <2>. QED
        BY <1>1, <2>4, <2>5, <2>6 DEF IInv, NilMeansOwnAnswer
<1>4. CASE Deliver
    <2>. DEFINE m == hand["reader"]
    <2>1. m \in Pair /\ m \in Held /\ m # Reply
        BY <1>4 DEF Deliver, IInv, TypeOK, Held, Pumps
    <2>2. m \in Known
        BY <2>1 DEF Known
    <2>3. m.id \in Ids /\ m = [id |-> m.id, serial |-> m.serial] /\ m.serial \in Nat
        BY <2>1, <2>2, BoundAssumption DEF IInv, IdsAgree, TypeOK, Ids, Pair
    <2>4. slot' \in {slot, [slot EXCEPT ![m.id] = m.serial]}
        BY <1>4 DEF Deliver
    <2>5. slot' \in [Ids -> Nat \cup {None}] /\ Answers' \subseteq Answers \cup {m}
        BY <2>3, <2>4 DEF Answers, IInv, TypeOK
    <2>6. writes' = writes /\ Queued' = Queued
        BY <1>4 DEF Deliver, chans, Queued
    <2>7. /\ pump' \in [Failers -> {"run", "busy", "fail", "end", "open"}]
          /\ pump'["reader"] # "busy" /\ pump'["writer"] = pump["writer"]
          /\ hand' \in [Pumps -> Pair \cup {None}] /\ hand'["writer"] = hand["writer"]
        BY <1>4 DEF Deliver, Failing, IInv, TypeOK, Pumps, Failers
    <2>8. Held' \subseteq Held
        BY <2>7 DEF Held, Pumps
    <2>9. TypeOK'
        BY <1>1, <2>5, <2>6, <2>7 DEF IInv, TypeOK, Pumps
    <2>10. IdsAgree'
        BY <1>1, <2>2, <2>5, <2>6, <2>8, Places, NothingNew DEF IInv
    <2>. QED
        BY <1>1, <2>7, <2>9, <2>10 DEF IInv, NilMeansOwnAnswer
<1>. QED
    BY <1>2, <1>3, <1>4 DEF Reader

-----------------------------------------------------------------------------
\* A call that returns nil was answered by the answer to its own request, for
\* any number of callers and calls, late and repeated answers, and failures of
\* the client at any moment.
THEOREM OwnAnswer == Spec => []NilMeansOwnAnswer
<1>1. IInv /\ UNCHANGED vars => IInv'
    <2>. SUFFICES ASSUME IInv, UNCHANGED vars PROVE IInv'
        OBVIOUS
    <2>1. UNCHANGED <<next, made, slot, call, hand, taken, writes, pump, once, err, done>>
        BY DEF vars, chans, failure, server
    <2>. QED
        BY <2>1, InvQuiet DEF IInv, TypeOK, CauseFirst
<1>2. IInv /\ [Next]_vars => IInv'
    BY <1>1, InvCall, InvFail, InvWriter, InvReader DEF Next
<1>3. IInv => NilMeansOwnAnswer
    BY DEF IInv
<1>. QED
    BY <1>2, <1>3, InvInit, PTL DEF Spec
=============================================================================
