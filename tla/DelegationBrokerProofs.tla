----------------------- MODULE DelegationBrokerProofs -----------------------
(***************************************************************************)
(* For every number of connections, keys and digests: the broker runs at    *)
(* most one child at a time, never forgets one, and implements              *)
(* DelegationPromise.                                                       *)
(***************************************************************************)
EXTENDS DelegationBroker, TLAPS

\* Every request carries a key.
LEMMA RequestKey ==
    ASSUME TypeOK, NEW c \in Conns
    PROVE  req[c].key \in Keys /\ req[c].digest \in Digests \cup {NoDigest}
<1>1. (CHOOSE k \in Keys : TRUE) \in Keys
    BY KeysAssumption
<1>2. \A r \in Requests \cup {NoRequest} : r.key \in Keys /\ r.digest \in Digests \cup {NoDigest}
    BY <1>1, KeysAssumption DEF Requests, NoRequest
<1>. QED
    BY <1>2 DEF TypeOK

\* Goto keeps the types of the three variables it sets.
LEMMA GotoType ==
    ASSUME TypeOK, NEW c \in Conns, NEW s \in Steps, Goto(c, s)
    PROVE  /\ pc' \in [Conns -> Steps]
           /\ req' \in [Conns -> Requests \cup {NoRequest}]
           /\ exists' \in [Conns -> BOOLEAN]
BY DEF TypeOK, Goto

\* Caching Terminal keeps the type of the request records.
LEMMA TerminalType ==
    ASSUME requests \in [Keys -> Entry], NEW k \in Keys, NEW b \in BOOLEAN
    PROVE  [requests EXCEPT ![k].terminal = b] \in [Keys -> Entry]
BY DEF Entry

\* The initial state is well typed.
LEMMA TypeInit == Init => TypeOK
<1>1. Absent \in Entry
    BY DEF Absent, Entry
<1>. SUFFICES ASSUME Init PROVE TypeOK
    OBVIOUS
<1>2. requests \in [Keys -> Entry]
    BY <1>1 DEF Init
<1>3. pc \in [Conns -> Steps] /\ exists \in [Conns -> BOOLEAN]
    BY DEF Init, Steps
<1>4. req \in [Conns -> Requests \cup {NoRequest}]
    BY DEF Init
<1>5. child \in [Keys -> Status] /\ late \subseteq Keys
    BY DEF Init, Status
<1>6. receipts \subseteq {"ready", "failed"} /\ used \subseteq Keys
    BY DEF Init
<1>7. /\ lock \in Conns \cup {Main, Free} /\ phase \in Phases /\ outcome \in Outcomes
      /\ toolsReady \in BOOLEAN /\ cancelled \in BOOLEAN
    BY ZenonT(40) DEF Init, Phases, Outcomes
<1>. QED
    BY <1>2, <1>3, <1>4, <1>5, <1>6, <1>7 DEF TypeOK

\* A step of a connection's client or goroutine keeps the types.
LEMMA TypeConn ==
    ASSUME TypeOK, NEW c \in Conns, Client(c) \/ Handler(c)
    PROVE  TypeOK'
<1>. USE DEF TypeOK, Steps, Release, AfterDelegate
<1>1. ASSUME Connect(c) PROVE TypeOK'
    BY <1>1, GotoType DEF Connect, runVars, coreVars
<1>2. ASSUME NEW r \in Requests, Send(c, r) PROVE TypeOK'
    BY <1>2 DEF Send, runVars, coreVars
<1>3. ASSUME Hangup(c) PROVE TypeOK'
    BY <1>3, GotoType DEF Hangup, runVars, coreVars
<1>4. ASSUME Serve(c) PROVE TypeOK'
    BY <1>4, GotoType DEF Serve, runVars, coreVars
<1>5. ASSUME Announce(c) PROVE TypeOK'
    BY ZenonT(40), <1>5, GotoType DEF Announce, coreVars
<1>6. ASSUME MarkReady(c) PROVE TypeOK'
    BY <1>6, GotoType DEF MarkReady, runVars, coreVars
<1>7. ASSUME Delegate(c) PROVE TypeOK'
    <2>1. req[c].key \in Keys
        BY SMTT(60), RequestKey
    <2>2. ASSUME DelegateRefuse(c) PROVE TypeOK'
        BY <2>2, GotoType DEF DelegateRefuse, runVars, coreVars
    <2>3. ASSUME DelegateReplay(c) PROVE TypeOK'
        BY <2>3, GotoType DEF DelegateReplay, runVars, coreVars
    <2>4. ASSUME DelegateRetry(c) PROVE TypeOK'
        BY <2>1, <2>4 DEF DelegateRetry, runVars
    <2>5. ASSUME DelegateNew(c) PROVE TypeOK'
        BY <2>5, GotoType DEF DelegateNew, runVars, coreVars
    <2>. QED
        BY <1>7, <2>2, <2>3, <2>4, <2>5 DEF Delegate
<1>8. ASSUME ScanRefuse(c) PROVE TypeOK'
    BY <1>8, GotoType DEF ScanRefuse, runVars, coreVars
<1>9. ASSUME NEW k \in Keys, ScanTerminal(c, k) PROVE TypeOK'
    BY ZenonT(40), <1>9, TerminalType DEF ScanTerminal, runVars, coreVars
<1>10. ASSUME Record(c) PROVE TypeOK'
    <2>1. requests' \in [Keys -> Entry]
        BY <1>10, RequestKey DEF Record, Entry
    <2>. QED
        BY <1>10, <2>1, GotoType, RequestKey DEF Record, runVars
<1>11. ASSUME CallOk(c) PROVE TypeOK'
    <2>1. requests' \in [Keys -> Entry]
        BY <1>11, RequestKey DEF CallOk, Entry
    <2>. QED
        BY <1>11, <2>1, GotoType, RequestKey DEF CallOk, runVars, coreVars
<1>12. ASSUME CallAmbiguous(c) PROVE TypeOK'
    BY <1>12, GotoType DEF CallAmbiguous, runVars, coreVars
<1>13. ASSUME CallRejected(c) PROVE TypeOK'
    <2>1. requests' \in [Keys -> Entry]
        BY <1>13, RequestKey DEF CallRejected, Entry, Absent
    <2>. QED
        BY <1>13, <2>1, GotoType, RequestKey DEF CallRejected, runVars
<1>14. ASSUME LockRead(c) PROVE TypeOK'
    BY <1>14, GotoType DEF LockRead, runVars, coreVars
<1>15. ASSUME ReadGiveUp(c) PROVE TypeOK'
    BY <1>15, GotoType DEF ReadGiveUp, runVars, coreVars
<1>16. ASSUME ReadTerminal(c) PROVE TypeOK'
    <2>1. req[c].key \in Keys
        BY RequestKey
    <2>2. requests' \in [Keys -> Entry]
        BY <1>16, <2>1 DEF ReadTerminal, markTerminal, Entry
    <2>. QED
        BY <1>16, <2>2, GotoType DEF ReadTerminal, runVars, coreVars
<1>17. ASSUME EmitUsed(c) PROVE TypeOK'
    BY <1>17, GotoType, RequestKey DEF EmitUsed, coreVars
<1>. QED
    BY <1>1, <1>2, <1>3, <1>4, <1>5, <1>6, <1>7, <1>8, <1>9, <1>10, <1>11, <1>12,
       <1>13, <1>14, <1>15, <1>16, <1>17
    DEF Client, Handler, Local, Acquire, Scan, Call, Read

\* A step of Core, or of delegationProvider.Run, keeps the types.
LEMMA TypeCoreRun ==
    ASSUME TypeOK, (\E k \in Keys : Core(k)) \/ Run
    PROVE  TypeOK'
<1>. USE DEF TypeOK, brokerVars, runVars, coreVars
<1>1. ASSUME NEW k \in Keys, Core(k) PROVE TypeOK'
    BY ZenonT(40), <1>1 DEF Core, CoreExecute, CoreForget, CoreFinish, Status
<1>2. ASSUME Cancel \/ ProviderFails \/ ProviderSucceeds \/ Close \/ CloseDone PROVE TypeOK'
    BY ZenonT(40), <1>2 DEF Cancel, ProviderFails, ProviderSucceeds, Close, CloseDone, Phases, Outcomes
<1>3. ASSUME EnsureTools \/ EnsureLock \/ EnsureRefuse \/ EnsureDone PROVE TypeOK'
    BY ZenonT(40), <1>3 DEF EnsureTools, EnsureLock, EnsureRefuse, EnsureDone, Phases, Outcomes
<1>4. ASSUME NEW k \in Keys, EnsureTerminal(k) PROVE TypeOK'
    BY ZenonT(40), <1>4, TerminalType DEF EnsureTerminal
<1>. QED
    BY <1>1, <1>2, <1>3, <1>4 DEF Run, Ensure

\* Every step keeps the types.
LEMMA TypeStep == TypeOK /\ [Next]_vars => TypeOK'
<1>1. ASSUME TypeOK, UNCHANGED vars PROVE TypeOK'
    BY <1>1 DEF TypeOK, vars
<1>. QED
    BY <1>1, TypeConn, TypeCoreRun DEF Next

\* The broker's variables keep their types.
THEOREM TypeCorrect == Spec => []TypeOK
BY TypeInit, TypeStep, PTL DEF Spec

-----------------------------------------------------------------------------
(* The inductive invariant.                                                 *)

\* What Goto does to pc and req, connection by connection.
LEMMA GotoEffect ==
    ASSUME TypeOK, NEW c \in Conns, NEW s \in Steps, Goto(c, s)
    PROVE  /\ pc' = [pc EXCEPT ![c] = s]
           /\ pc'[c] = s
           /\ \A d \in Conns \ {c} : pc'[d] = pc[d] /\ req'[d] = req[d]
           /\ s \notin {"idle", "none"} => req'[c] = req[c]
BY DEF TypeOK, Goto

\* A step that changes neither the records nor Core keeps the conjuncts about them.
LEMMA Quiet ==
    ASSUME IInv, UNCHANGED <<requests, child, late>>
    PROVE  OneOpen' /\ TerminalIsTrue' /\ NoForgottenChild'
BY DEF IInv, OneOpen, TerminalIsTrue, NoForgottenChild, Open, terminalRun

\* Caching Terminal for an ended child of a resolved request keeps them too.
LEMMA Caching ==
    ASSUME IInv, NEW k \in Keys, requests[k].run, terminalRun(k),
           requests' = [requests EXCEPT ![k].terminal = TRUE], UNCHANGED coreVars
    PROVE  OneOpen' /\ TerminalIsTrue' /\ NoForgottenChild'
<1>1. /\ requests'[k].terminal = TRUE /\ requests'[k].run = requests[k].run
      /\ \A j \in Keys : requests'[j].present = requests[j].present
      /\ \A j \in Keys \ {k} : requests'[j] = requests[j]
    BY ZenonT(40) DEF IInv, TypeOK, Entry
<1>2. Open' \subseteq Open /\ Open \ {k} \subseteq Open'
    BY <1>1 DEF Open
<1>3. child[k] # "running" /\ child[k] # "none"
    BY DEF terminalRun, TerminalStatus
<1>. QED
    BY <1>1, <1>2, <1>3 DEF IInv, OneOpen, TerminalIsTrue, NoForgottenChild, coreVars, terminalRun

\* A step that moves c between steps that do not hold the mutex, and touches
\* no record, keeps LockOwner and CallRecorded.
LEMMA Moving ==
    ASSUME IInv, NEW c \in Conns, UNCHANGED <<requests, lock, phase>>,
           pc[c] \notin HoldsLock, pc'[c] \notin HoldsLock,
           pc'[c] = "lock" => req'[c].digest \in Digests,
           \A d \in Conns \ {c} : pc'[d] = pc[d] /\ req'[d] = req[d]
    PROVE  LockOwner' /\ CallRecorded'
<1>1. LockOwner'
    BY SMTT(60) DEF IInv, LockOwner
<1>2. CallRecorded'
    BY DEF IInv, CallRecorded, HoldsLock
<1>. QED
    BY <1>1, <1>2

\* When c releases the mutex, every other goroutine is outside it.
LEMMA Releasing ==
    ASSUME IInv, NEW c \in Conns, lock = c, lock' = Free, UNCHANGED phase,
           pc'[c] \notin HoldsLock \cup {"lock"},
           \A d \in Conns \ {c} : pc'[d] = pc[d] /\ req'[d] = req[d]
    PROVE  LockOwner' /\ CallRecorded'
<1>1. \A d \in Conns \ {c} : pc[d] \notin HoldsLock
    BY DEF IInv, LockOwner
<1>2. LockOwner'
    BY SMTT(60), <1>1, ConnsAssumption DEF IInv, LockOwner
<1>3. CallRecorded'
    BY <1>1 DEF IInv, CallRecorded, HoldsLock
<1>. QED
    BY <1>2, <1>3

\* When c takes the free mutex, every other goroutine is outside it.
LEMMA Taking ==
    ASSUME IInv, NEW c \in Conns, lock = Free, lock' = c, UNCHANGED <<phase, requests>>,
           pc'[c] \in HoldsLock,
           \A d \in Conns \ {c} : pc'[d] = pc[d] /\ req'[d] = req[d]
    PROVE  LockOwner' /\ \A d \in Conns \ {c} : pc'[d] \notin {"scan", "call"}
BY ConnsAssumption DEF IInv, LockOwner, HoldsLock

\* The inductive invariant holds initially.
LEMMA InvInit == Init => IInv
<1>. SUFFICES ASSUME Init PROVE IInv
    OBVIOUS
<1>1. TypeOK
    BY TypeInit
<1>2. LockOwner /\ CallRecorded
    BY ConnsAssumption DEF Init, LockOwner, CallRecorded, HoldsLock
<1>3. OneOpen /\ TerminalIsTrue /\ NoForgottenChild
    BY DEF Init, OneOpen, TerminalIsTrue, NoForgottenChild, Open, Absent
<1>. QED
    BY <1>1, <1>2, <1>3 DEF IInv

\* Tools that create a child carry the digest of their arguments.
LEMMA CreatingDigest ==
    ASSUME TypeOK, NEW c \in Conns, req[c].tool \in {"delegate", "bound"}
    PROVE  req[c].digest \in Digests
<1>1. \A r \in Requests \cup {NoRequest} : r.tool \in {"delegate", "bound"} => r.digest \in Digests
    BY DEF Requests, NoRequest
<1>. QED
    BY <1>1 DEF TypeOK

\* The steps of a goroutine outside the mutex.
LEMMA InvOutside ==
    ASSUME IInv, NEW c \in Conns,
           \/ Connect(c) \/ Hangup(c) \/ Serve(c) \/ Announce(c) \/ MarkReady(c) \/ EmitUsed(c)
           \/ \E r \in Requests : Send(c, r)
    PROVE  IInv'
<1>. USE DEF Steps, HoldsLock
<1>1. TypeOK /\ TypeOK'
    BY TypeConn DEF IInv, Client, Handler, Local
<1>2. UNCHANGED <<requests, lock, child, late>> /\ UNCHANGED phase
    BY DEF Connect, Hangup, Serve, Announce, MarkReady, EmitUsed, Send, runVars, coreVars
<1>3. OneOpen' /\ TerminalIsTrue' /\ NoForgottenChild'
    BY SMTT(60), <1>2, Quiet
<1>4. ASSUME Connect(c) \/ Hangup(c) \/ Announce(c) \/ EmitUsed(c)
      PROVE  LockOwner' /\ CallRecorded'
    BY SMTT(60), <1>1, <1>2, <1>4, GotoEffect, Moving DEF Connect, Hangup, Announce, EmitUsed
<1>5. ASSUME NEW r \in Requests, Send(c, r)
      PROVE  LockOwner' /\ CallRecorded'
    BY <1>1, <1>2, <1>5, Moving DEF Send, TypeOK
<1>6. ASSUME Serve(c)
      PROVE  LockOwner' /\ CallRecorded'
    <2>1. PICK s \in {"announce", "lock", "lockread", "idle"} :
              Goto(c, s) /\ (s = "lock" => req[c].tool \in {"delegate", "bound"})
        BY SMTT(60), <1>6 DEF Serve
    <2>2. s = "lock" => req'[c].digest \in Digests
        BY SMTT(60), <1>1, <2>1, GotoEffect, CreatingDigest
    <2>. QED
        BY <1>1, <1>2, <1>6, <2>1, <2>2, GotoEffect, Moving DEF Serve
<1>7. ASSUME MarkReady(c)
      PROVE  LockOwner' /\ CallRecorded'
    <2>1. PICK s \in {"lock", "idle"} :
              Goto(c, s) /\ (s = "lock" => req[c].tool \in {"delegate", "bound"})
        BY <1>7 DEF MarkReady
    <2>2. s = "lock" => req'[c].digest \in Digests
        BY <1>1, <2>1, GotoEffect, CreatingDigest
    <2>. QED
        BY ZenonT(40), <1>1, <1>2, <1>7, <2>1, <2>2, GotoEffect, Moving DEF MarkReady
<1>. QED
    BY <1>1, <1>3, <1>4, <1>5, <1>6, <1>7 DEF IInv

\* The steps of the goroutine that holds the mutex, or takes it.
LEMMA InvInside ==
    ASSUME IInv, NEW c \in Conns, Acquire(c) \/ Scan(c) \/ Call(c) \/ Read(c)
    PROVE  IInv'
<1>. USE DEF Steps, HoldsLock
<1>1. TypeOK /\ TypeOK'
    BY TypeConn DEF IInv, Handler, Local
<1>2. req[c].key \in Keys
    BY <1>1, RequestKey
<1>3. pc[c] \in HoldsLock <=> lock = c
    BY DEF IInv, LockOwner
<1>4. ASSUME Delegate(c) PROVE IInv'
    <2>. DEFINE k == req[c].key
    <2>1. UNCHANGED <<requests, child, phase>> /\ pc[c] = "lock" /\ lock = Free
        BY SMTT(60), <1>4 DEF Delegate, DelegateRefuse, DelegateReplay, DelegateRetry, DelegateNew, runVars, coreVars
    <2>2. ASSUME DelegateRefuse(c) \/ DelegateReplay(c) PROVE IInv'
        <3>1. PICK s \in {"idle", "lockread"} : Goto(c, s)
            BY <2>2 DEF DelegateRefuse, DelegateReplay, AfterDelegate
        <3>2. UNCHANGED <<lock, late>>
            BY <2>2 DEF DelegateRefuse, DelegateReplay, coreVars
        <3>. QED
            BY SMTT(60), <1>1, <2>1, <3>1, <3>2, GotoEffect, Moving, Quiet DEF IInv
    <2>3. ASSUME DelegateRetry(c) PROVE IInv'
        <3>1. pc'[c] = "call" /\ req' = req /\ lock' = c /\ late' = late \cup {k}
              /\ \A d \in Conns \ {c} : pc'[d] = pc[d]
            BY SMTT(60), <1>1, <2>3 DEF DelegateRetry, TypeOK
        <3>2. ~requests[k].terminal /\ k \in Open
            BY SMTT(60), <1>2, <2>3 DEF DelegateRetry, IInv, TerminalIsTrue, Open
        <3>3. LockOwner' /\ \A d \in Conns \ {c} : pc'[d] \notin {"scan", "call"}
            BY SMTT(60), <2>1, <3>1, Taking
        <3>4. CallRecorded'
            BY SMTT(60), <2>1, <2>3, <3>1, <3>2, <3>3 DEF DelegateRetry, IInv, CallRecorded
        <3>5. OneOpen' /\ TerminalIsTrue' /\ NoForgottenChild'
            BY <1>2, <2>1, <3>1, <3>2
            DEF IInv, OneOpen, TerminalIsTrue, NoForgottenChild, Open, terminalRun
        <3>. QED
            BY SMTT(60), <1>1, <3>3, <3>4, <3>5 DEF IInv
    <2>4. ASSUME DelegateNew(c) PROVE IInv'
        <3>1. Goto(c, "scan") /\ ~requests[k].present /\ lock' = c /\ UNCHANGED late
            BY SMTT(60), <2>4 DEF DelegateNew, coreVars
        <3>2. pc'[c] = "scan" /\ req'[c] = req[c]
              /\ \A d \in Conns \ {c} : pc'[d] = pc[d] /\ req'[d] = req[d]
            BY <1>1, <3>1, GotoEffect
        <3>3. LockOwner' /\ \A d \in Conns \ {c} : pc'[d] \notin {"scan", "call"}
            BY SMTT(60), <2>1, <3>1, <3>2, Taking
        <3>4. CallRecorded'
            BY SMTT(60), <2>1, <3>1, <3>2, <3>3 DEF IInv, CallRecorded
        <3>5. OneOpen' /\ TerminalIsTrue' /\ NoForgottenChild'
            BY SMTT(60), <2>1, <3>1, Quiet
        <3>. QED
            BY <1>1, <3>3, <3>4, <3>5 DEF IInv
    <2>. QED
        BY SMTT(60), <1>4, <2>2, <2>3, <2>4 DEF Delegate
<1>5. ASSUME ScanRefuse(c) \/ CallAmbiguous(c) \/ ReadGiveUp(c) PROVE IInv'
    <2>1. lock = c /\ lock' = Free /\ Goto(c, "idle") /\ UNCHANGED <<requests, child, late>> /\ UNCHANGED phase
        BY <1>3, <1>5 DEF ScanRefuse, CallAmbiguous, ReadGiveUp, Release, runVars, coreVars
    <2>. QED
        BY <1>1, <2>1, GotoEffect, Releasing, Quiet DEF IInv
<1>6. ASSUME NEW k \in Keys, ScanTerminal(c, k) PROVE IInv'
    <2>1. OneOpen' /\ TerminalIsTrue' /\ NoForgottenChild'
        BY ZenonT(40), <1>6, Caching DEF ScanTerminal
    <2>2. LockOwner'
        BY <1>6 DEF ScanTerminal, IInv, LockOwner, runVars
    <2>3. \A d \in Conns \ {c} : pc[d] \notin {"scan", "call"}
        BY <1>3, <1>6 DEF IInv, LockOwner, ScanTerminal
    <2>4. \A j \in Keys : requests'[j].present = requests[j].present
        BY <1>1, <1>6 DEF ScanTerminal, TypeOK, Entry
    <2>5. CallRecorded'
        BY <1>2, <1>6, <2>3, <2>4 DEF ScanTerminal, IInv, CallRecorded
    <2>. QED
        BY <1>1, <2>1, <2>2, <2>5 DEF IInv
<1>7. ASSUME Record(c) PROVE IInv'
    <2>. DEFINE k == req[c].key
    <2>1. lock = c /\ Goto(c, "call") /\ UNCHANGED <<lock, phase, child>> /\ late' = late \cup {k}
        BY SMTT(60), <1>3, <1>7 DEF Record, runVars
    <2>2. pc'[c] = "call" /\ req'[c] = req[c]
          /\ \A d \in Conns \ {c} : pc'[d] = pc[d] /\ req'[d] = req[d]
        BY SMTT(60), <1>1, <2>1, GotoEffect
    <2>3. /\ requests'[k] = [present |-> TRUE, digest |-> req[c].digest, run |-> FALSE, terminal |-> FALSE]
          /\ \A j \in Keys \ {k} : requests'[j] = requests[j]
        BY <1>1, <1>2, <1>7 DEF Record, TypeOK
    <2>4. \A d \in Conns \ {c} : pc[d] \notin {"scan", "call"}
        BY SMTT(60), <2>1 DEF IInv, LockOwner
    <2>5. LockOwner'
        BY SMTT(60), <2>1, <2>2, <1>3 DEF IInv, LockOwner
    <2>6. CallRecorded'
        BY SMTT(60), <1>7, <2>2, <2>3, <2>4 DEF IInv, CallRecorded, Record
    <2>7. Open' = {k} /\ Open = {}
        BY SMTT(60), <1>2, <1>7, <2>3 DEF Open, Record
    <2>8. OneOpen' /\ NoForgottenChild'
        BY SMTT(60), <2>1, <2>7 DEF IInv, OneOpen, NoForgottenChild
    <2>9. TerminalIsTrue'
        BY <2>1, <2>3 DEF IInv, TerminalIsTrue, terminalRun
    <2>. QED
        BY SMTT(60), <1>1, <2>5, <2>6, <2>8, <2>9 DEF IInv
<1>8. ASSUME CallOk(c) PROVE IInv'
    <2>. DEFINE k == req[c].key
    <2>1. PICK s \in {"idle", "lockread"} : Goto(c, s)
        BY SMTT(60), <1>8 DEF CallOk, Release, AfterDelegate
    <2>2. lock = c /\ lock' = Free /\ UNCHANGED <<phase, child, late>>
        BY SMTT(60), <1>3, <1>8 DEF CallOk, Release, runVars, coreVars
    <2>3. LockOwner' /\ CallRecorded'
        BY SMTT(60), <1>1, <2>1, <2>2, GotoEffect, Releasing
    <2>4. /\ requests'[k] = [present |-> TRUE, digest |-> req[c].digest, run |-> TRUE, terminal |-> FALSE]
          /\ \A j \in Keys \ {k} : requests'[j] = requests[j]
        BY SMTT(60), <1>1, <1>2, <1>8 DEF CallOk, TypeOK
    <2>5. Open' = Open
        BY <1>2, <1>8, <2>4 DEF Open, IInv, CallRecorded, CallOk
    <2>6. OneOpen' /\ NoForgottenChild'
        BY SMTT(60), <2>2, <2>5 DEF IInv, OneOpen, NoForgottenChild
    <2>7. TerminalIsTrue'
        BY <2>2, <2>4 DEF IInv, TerminalIsTrue, terminalRun
    <2>. QED
        BY SMTT(60), <1>1, <2>3, <2>6, <2>7 DEF IInv
<1>9. ASSUME CallRejected(c) PROVE IInv'
    <2>. DEFINE k == req[c].key
    <2>1. lock = c /\ lock' = Free /\ Goto(c, "idle") /\ UNCHANGED phase /\ UNCHANGED child
        BY SMTT(60), <1>3, <1>9 DEF CallRejected, Release, runVars
    <2>2. LockOwner' /\ CallRecorded'
        BY SMTT(60), <1>1, <2>1, GotoEffect, Releasing
    <2>3. CASE exists[c]
        BY <1>1, <1>9, <2>1, <2>2, <2>3, Quiet DEF CallRejected, IInv
    <2>4. CASE ~exists[c]
        <3>1. /\ requests'[k] = Absent
              /\ \A j \in Keys \ {k} : requests'[j] = requests[j]
              /\ child[k] = "none" /\ late' = late \ {k}
            BY SMTT(60), <1>1, <1>2, <1>9, <2>4 DEF CallRejected, TypeOK
        <3>2. Open' = Open \ {k}
            BY SMTT(60), <1>2, <3>1 DEF Open, Absent
        <3>3. OneOpen' /\ NoForgottenChild'
            BY SMTT(60), <2>1, <3>1, <3>2 DEF IInv, OneOpen, NoForgottenChild
        <3>4. TerminalIsTrue'
            BY <2>1, <3>1 DEF IInv, TerminalIsTrue, terminalRun, Absent
        <3>. QED
            BY SMTT(60), <1>1, <2>2, <3>3, <3>4 DEF IInv
    <2>. QED
        BY SMTT(60), <2>3, <2>4
<1>10. ASSUME LockRead(c) PROVE IInv'
    <2>1. UNCHANGED <<requests, child, late>> /\ UNCHANGED phase /\ pc[c] = "lockread" /\ lock = Free
        BY SMTT(60), <1>10 DEF LockRead, runVars, coreVars
    <2>2. CASE Goto(c, "idle") /\ UNCHANGED lock
        BY SMTT(60), <1>1, <2>1, <2>2, GotoEffect, Moving, Quiet DEF IInv
    <2>3. CASE Goto(c, "read") /\ lock' = c
        <3>1. pc'[c] = "read" /\ \A d \in Conns \ {c} : pc'[d] = pc[d] /\ req'[d] = req[d]
            BY SMTT(60), <1>1, <2>3, GotoEffect
        <3>2. LockOwner' /\ \A d \in Conns \ {c} : pc'[d] \notin {"scan", "call"}
            BY SMTT(60), <2>1, <2>3, <3>1, Taking
        <3>3. CallRecorded'
            BY ZenonT(40), <3>1, <3>2 DEF IInv, CallRecorded
        <3>. QED
            BY SMTT(60), <1>1, <2>1, <3>2, <3>3, Quiet DEF IInv
    <2>. QED
        BY <1>10, <2>2, <2>3 DEF LockRead
<1>11. ASSUME ReadTerminal(c) PROVE IInv'
    <2>. DEFINE k == req[c].key
    <2>1. PICK s \in {"idle", "used"} : Goto(c, s)
        BY SMTT(60), <1>11 DEF ReadTerminal, Release
    <2>2. lock = c /\ lock' = Free /\ UNCHANGED phase /\ UNCHANGED coreVars /\ terminalRun(k)
        BY SMTT(60), <1>3, <1>11 DEF ReadTerminal, Release, runVars, coreVars
    <2>3. LockOwner' /\ CallRecorded'
        BY SMTT(60), <1>1, <2>1, <2>2, GotoEffect, Releasing
    <2>4. OneOpen' /\ TerminalIsTrue' /\ NoForgottenChild'
        <3>1. CASE requests[k].run
            <4>1. requests' = [requests EXCEPT ![k].terminal = TRUE]
                BY ZenonT(40), <1>11, <3>1 DEF ReadTerminal, markTerminal
            <4>. QED
                BY ZenonT(40), <1>2, <2>2, <3>1, <4>1, Caching
        <3>2. CASE ~requests[k].run
            <4>1. \A j \in Keys : requests'[j] = requests[j]
                BY <1>1, <1>2, <1>11, <3>2 DEF ReadTerminal, markTerminal, TypeOK, Entry
            <4>. QED
                BY SMTT(60), <2>2, <4>1
                DEF IInv, OneOpen, TerminalIsTrue, NoForgottenChild, Open, terminalRun, coreVars
        <3>. QED
            BY <3>1, <3>2
    <2>. QED
        BY SMTT(60), <1>1, <2>3, <2>4 DEF IInv
<1>. QED
    BY <1>4, <1>5, <1>6, <1>7, <1>8, <1>9, <1>10, <1>11 DEF Acquire, Scan, Call, Read

\* The steps of Core.
LEMMA InvCore ==
    ASSUME IInv, NEW k \in Keys, Core(k)
    PROVE  IInv'
<1>1. TypeOK'
    BY SMTT(60), TypeCoreRun DEF IInv
<1>2. LockOwner' /\ CallRecorded'
    BY SMTT(60) DEF Core, CoreExecute, CoreForget, CoreFinish, brokerVars, runVars, IInv, LockOwner, CallRecorded
<1>3. UNCHANGED requests /\ Open' = Open
    BY DEF Core, CoreExecute, CoreForget, CoreFinish, brokerVars, Open
<1>4. OneOpen' /\ NoForgottenChild'
    BY <1>3 DEF Core, CoreExecute, CoreForget, CoreFinish, IInv, TypeOK, OneOpen, NoForgottenChild
<1>5. TerminalIsTrue'
    <2>1. \A j \in Keys : terminalRun(j) => terminalRun(j)'
        BY DEF Core, CoreExecute, CoreForget, CoreFinish, IInv, TypeOK, terminalRun, TerminalStatus
    <2>. QED
        BY <1>3, <2>1 DEF IInv, TerminalIsTrue
<1>. QED
    BY <1>1, <1>2, <1>4, <1>5 DEF IInv

\* The steps of delegationProvider.Run, EnsureComplete and Close.
LEMMA InvRun ==
    ASSUME IInv, Run
    PROVE  IInv'
<1>1. TypeOK'
    BY TypeCoreRun DEF IInv
<1>2. ASSUME Cancel \/ ProviderFails \/ ProviderSucceeds \/ Close \/ CloseDone \/ EnsureTools PROVE IInv'
    <2>1. UNCHANGED <<requests, lock, pc, req, child, late>>
        BY <1>2 DEF Cancel, ProviderFails, ProviderSucceeds, Close, CloseDone, EnsureTools,
                    brokerVars, coreVars
    <2>2. phase = "ensuring" <=> phase' = "ensuring"
        BY SMTT(60), <1>2 DEF Cancel, ProviderFails, ProviderSucceeds, Close, CloseDone, EnsureTools
    <2>3. LockOwner' /\ CallRecorded'
        BY <2>1, <2>2 DEF IInv, LockOwner, CallRecorded
    <2>. QED
        BY SMTT(60), <1>1, <2>1, <2>3, Quiet DEF IInv
<1>3. ASSUME EnsureLock \/ EnsureRefuse \/ EnsureDone PROVE IInv'
    <2>1. UNCHANGED <<requests, pc, req, child, late>>
        BY <1>3 DEF EnsureLock, EnsureRefuse, EnsureDone, coreVars
    <2>2. LockOwner'
        BY SMTT(60), <1>3, <2>1, ConnsAssumption DEF EnsureLock, EnsureRefuse, EnsureDone, IInv, LockOwner
    <2>3. CallRecorded'
        BY <2>1 DEF IInv, CallRecorded
    <2>. QED
        BY <1>1, <2>1, <2>2, <2>3, Quiet DEF IInv
<1>4. ASSUME NEW k \in Keys, EnsureTerminal(k) PROVE IInv'
    <2>1. OneOpen' /\ TerminalIsTrue' /\ NoForgottenChild'
        BY ZenonT(40), <1>4, Caching DEF EnsureTerminal
    <2>2. LockOwner'
        BY <1>4 DEF EnsureTerminal, IInv, LockOwner, runVars
    <2>3. \A d \in Conns : pc[d] \notin {"scan", "call"}
        BY SMTT(60), <1>4, ConnsAssumption DEF IInv, LockOwner, HoldsLock, EnsureTerminal
    <2>4. CallRecorded'
        BY <1>4, <2>3 DEF EnsureTerminal, IInv, CallRecorded
    <2>. QED
        BY <1>1, <2>1, <2>2, <2>4 DEF IInv
<1>. QED
    BY <1>2, <1>3, <1>4 DEF Run, Ensure

\* Every step keeps the inductive invariant.
LEMMA InvStep == IInv /\ [Next]_vars => IInv'
<1>. SUFFICES ASSUME IInv, [Next]_vars PROVE IInv'
    OBVIOUS
<1>1. CASE UNCHANGED vars
    <2>1. TypeOK' /\ LockOwner' /\ CallRecorded'
        BY <1>1 DEF vars, IInv, TypeOK, LockOwner, CallRecorded
    <2>. QED
        BY SMTT(60), <1>1, <2>1, Quiet DEF vars, IInv
<1>2. ASSUME NEW c \in Conns, Client(c) \/ Handler(c) PROVE IInv'
    BY <1>2, InvOutside, InvInside DEF Client, Handler, Local
<1>. QED
    BY <1>1, <1>2, InvCore, InvRun DEF Next

\* The mutex discipline, the recorded calls and the single open request hold always.
THEOREM Invariance == Spec => []IInv
BY InvInit, InvStep, PTL DEF Spec

\* Core never runs two children of one Attempt at once, for any number of
\* connections, keys, lost and late replies.
THEOREM OneChild == Spec => []OneChildAtATime
<1>1. IInv => OneChildAtATime
    BY DEF IInv, OneOpen, NoForgottenChild, OneChildAtATime
<1>. QED
    BY <1>1, Invariance, PTL

\* The broker keeps an open record of every child that runs or may still start.
THEOREM NothingForgotten == Spec => []NoForgottenChild
<1>1. IInv => NoForgottenChild
    BY DEF IInv
<1>. QED
    BY <1>1, Invariance, PTL

-----------------------------------------------------------------------------
(* Permanent records and the refinement.                                    *)

\* A step keeps the record of every request that reached Core.
LEMMA RecordStep == IInv /\ [Next]_vars => [\A k \in Keys : KeepsRecord(k)]_vars
<1>. SUFFICES ASSUME IInv, Next, NEW k \in Keys PROVE KeepsRecord(k)
    BY DEF KeepsRecord
<1>1. CASE UNCHANGED requests
    BY <1>1 DEF KeepsRecord
<1>2. ASSUME NEW j \in Keys, requests' = [requests EXCEPT ![j].terminal = TRUE] PROVE KeepsRecord(k)
    BY <1>2 DEF KeepsRecord, IInv, TypeOK, Entry
<1>3. ASSUME NEW c \in Conns, Client(c) \/ Handler(c) PROVE KeepsRecord(k)
    <2>1. req[c].key \in Keys
        BY SMTT(60), RequestKey DEF IInv
    <2>2. CASE Record(c)
        BY SMTT(60), <2>1, <2>2 DEF Record, KeepsRecord, IInv, TypeOK, CallRecorded
    <2>3. CASE CallOk(c)
        BY SMTT(60), <2>1, <2>3 DEF CallOk, KeepsRecord, IInv, TypeOK, CallRecorded
    <2>4. CASE CallRejected(c)
        BY SMTT(60), <2>1, <2>4 DEF CallRejected, KeepsRecord, IInv, TypeOK
    <2>5. CASE ReadTerminal(c)
        BY <2>1, <2>5 DEF ReadTerminal, markTerminal, KeepsRecord, IInv, TypeOK, Entry
    <2>6. ASSUME NEW j \in Keys, ScanTerminal(c, j) PROVE KeepsRecord(k)
        BY ZenonT(40), <1>2, <2>6 DEF ScanTerminal
    <2>7. \/ UNCHANGED requests
          \/ Record(c) \/ CallOk(c) \/ CallRejected(c) \/ ReadTerminal(c)
          \/ \E j \in Keys : ScanTerminal(c, j)
        BY SMTT(60), <1>3 DEF Client, Handler, Local, Acquire, Scan, Call, Read, Connect, Send, Hangup, Serve,
                    Announce, MarkReady, Delegate, DelegateRefuse, DelegateReplay, DelegateRetry, DelegateNew, ScanRefuse, CallAmbiguous, LockRead, ReadGiveUp, EmitUsed
    <2>. QED
        BY <1>1, <2>2, <2>3, <2>4, <2>5, <2>6, <2>7
<1>4. ASSUME NEW j \in Keys, Core(j) PROVE KeepsRecord(k)
    BY SMTT(60), <1>1, <1>4 DEF Core, CoreExecute, CoreForget, CoreFinish, brokerVars
<1>5. ASSUME Run PROVE KeepsRecord(k)
    BY <1>1, <1>2, <1>5
    DEF Run, Ensure, Cancel, ProviderFails, ProviderSucceeds, Close, CloseDone,
        EnsureTools, EnsureLock, EnsureRefuse, EnsureDone, EnsureTerminal, brokerVars
<1>. QED
    BY SMTT(60), <1>3, <1>4, <1>5 DEF Next

\* A request that reached Core keeps its record, its arguments and its child.
THEOREM Permanence == Spec => RecordsArePermanent
BY Invariance, RecordStep, PTL DEF Spec, RecordsArePermanent

\* Run has no outcome while the provider or EnsureComplete is at work.
LEMMA OutcomeStep == OutcomeUnset /\ [Next]_vars => OutcomeUnset'
<1>. SUFFICES ASSUME OutcomeUnset, [Next]_vars PROVE OutcomeUnset'
    OBVIOUS
<1>1. CASE UNCHANGED <<phase, outcome>>
    BY SMTT(60), <1>1 DEF OutcomeUnset
<1>2. ASSUME NEW c \in Conns, Client(c) \/ Handler(c) PROVE OutcomeUnset'
    BY <1>1, <1>2
    DEF Client, Handler, Local, Acquire, Scan, Call, Read, Connect, Send, Hangup, Serve,
        Announce, MarkReady, Delegate, DelegateRefuse, DelegateReplay, DelegateRetry, DelegateNew, ScanRefuse, ScanTerminal, Record, CallOk, CallAmbiguous,
        CallRejected, LockRead, ReadGiveUp, ReadTerminal, EmitUsed, runVars
<1>3. ASSUME NEW j \in Keys, Core(j) PROVE OutcomeUnset'
    BY <1>1, <1>3 DEF Core, CoreExecute, CoreForget, CoreFinish, runVars
<1>4. ASSUME Run PROVE OutcomeUnset'
    BY <1>4
    DEF OutcomeUnset, Run, Ensure, Cancel, ProviderFails, ProviderSucceeds, Close, CloseDone,
        EnsureTools, EnsureLock, EnsureRefuse, EnsureDone, EnsureTerminal, runVars
<1>. QED
    BY <1>1, <1>2, <1>3, <1>4 DEF Next, vars

\* Every step of the broker is a step of the promise, or stutters.
LEMMA PromiseStep == IInv /\ OutcomeUnset /\ [Next]_vars => [Promise!Next]_(Promise!vars)
<1>. SUFFICES ASSUME IInv, OutcomeUnset, [Next]_vars PROVE [Promise!Next]_(Promise!vars)
    OBVIOUS
<1>1. CASE UNCHANGED <<child, outcome>>
    BY SMTT(60), <1>1 DEF Promise!vars
<1>2. ASSUME NEW c \in Conns, Client(c) \/ Handler(c) PROVE UNCHANGED <<child, outcome>>
    BY <1>2
    DEF Client, Handler, Local, Acquire, Scan, Call, Read, Connect, Send, Hangup, Serve,
        Announce, MarkReady, Delegate, DelegateRefuse, DelegateReplay, DelegateRetry, DelegateNew, ScanRefuse, ScanTerminal, Record, CallOk, CallAmbiguous,
        CallRejected, LockRead, ReadGiveUp, ReadTerminal, EmitUsed, runVars, coreVars
<1>3. ASSUME NEW k \in Keys, CoreExecute(k) PROVE Promise!Next
    <2>1. \A j \in Keys : child[j] # "running"
        BY <1>3 DEF CoreExecute, IInv, OneOpen, NoForgottenChild
    <2>. QED
        BY ZenonT(40), <1>3, <2>1 DEF CoreExecute, runVars, Promise!Next, Promise!Create, Promise!NoneRunning
<1>4. ASSUME NEW k \in Keys, NEW s \in TerminalStatus, CoreFinish(k, s) PROVE Promise!Next
    BY ZenonT(40), <1>4 DEF CoreFinish, runVars, TerminalStatus, Promise!Next, Promise!Finish, Promise!TerminalStatus
<1>5. ASSUME NEW k \in Keys, CoreForget(k) PROVE UNCHANGED <<child, outcome>>
    BY <1>5 DEF CoreForget, runVars
<1>6. ASSUME EnsureDone PROVE Promise!Next
    <2>1. \A j \in Keys : child[j] # "running"
        BY <1>6 DEF EnsureDone, IInv, NoForgottenChild
    <2>2. outcome = "none"
        BY <1>6 DEF EnsureDone, OutcomeUnset
    <2>. QED
        BY <1>6, <2>1, <2>2 DEF EnsureDone, coreVars, Promise!Next, Promise!Attest, Promise!NoneRunning
<1>7. ASSUME Run, ~EnsureDone
      PROVE  UNCHANGED child /\ (outcome = "success" <=> outcome' = "success")
    BY <1>7
    DEF OutcomeUnset, Run, Ensure, Cancel, ProviderFails, ProviderSucceeds, Close, CloseDone,
        EnsureTools, EnsureLock, EnsureRefuse, EnsureTerminal, runVars, coreVars
<1>8. ASSUME Run PROVE [Promise!Next]_(Promise!vars)
    BY <1>6, <1>7, <1>8 DEF Promise!vars
<1>. QED
    BY <1>1, <1>2, <1>3, <1>4, <1>5, <1>8 DEF Next, Core, vars

\* The broker implements DelegationPromise, for every value of the constants.
THEOREM Refinement == Spec => KeepsPromise
<1>1. Init => Promise!Init /\ OutcomeUnset
    BY DEF Init, Promise!Init, OutcomeUnset
<1>. QED
    BY <1>1, Invariance, OutcomeStep, PromiseStep, PTL DEF Spec, KeepsPromise, Promise!Spec

-----------------------------------------------------------------------------
(* The receipts.                                                            *)

\* A bound tool is called with a bound key.
LEMMA BoundTool ==
    ASSUME TypeOK, NEW c \in Conns, req[c].tool = "bound"
    PROVE  BoundKeys # {}
<1>1. \A r \in Requests \cup {NoRequest} : r.tool = "bound" => r.key \in BoundKeys
    BY DEF Requests, NoRequest
<1>. QED
    BY <1>1 DEF TypeOK

\* A step of one goroutine keeps what the others rely on.
LEMMA OthersReady ==
    ASSUME ReceiptInv, NEW c \in Conns, \A d \in Conns \ {c} : pc'[d] = pc[d] /\ req'[d] = req[d],
           receipts \subseteq receipts', UNCHANGED child, ReadyBefore(c)'
    PROVE  \A d \in Conns : ReadyBefore(d)'
BY DEF ReceiptInv, ReadyBefore

\* Only the step of the goroutine itself has to be looked at when no receipt is
\* emitted and the flag is left alone.
LEMMA QuietReady ==
    ASSUME ReceiptInv, NEW c \in Conns, \A d \in Conns \ {c} : pc'[d] = pc[d] /\ req'[d] = req[d],
           UNCHANGED <<toolsReady, phase, outcome, receipts, used, child>>, ReadyBefore(c)'
    PROVE  ReceiptInv'
<1>1. \A d \in Conns : ReadyBefore(d)'
    BY OthersReady
<1>. QED
    BY <1>1 DEF ReceiptInv, ReceiptsTruthful

\* The moves of a goroutine that emit nothing: back to its connection, or on to
\* a step for which the receipt is known to be out.
LEMMA MoveReady ==
    ASSUME TypeOK, ReceiptInv, NEW c \in Conns, NEW s \in Steps, Goto(c, s),
           UNCHANGED <<toolsReady, runVars, child>>,
           \/ s \in {"idle", "none", "announce"}
           \/ /\ s \in AfterReady \ {"used"}
              /\ pc[c] \in AfterReady \/ req[c].tool # "bound" \/ toolsReady
           \/ pc[c] \in AfterReady /\ s = "used" /\ req[c].tool = "bound" /\ child[req[c].key] = "success"
    PROVE  ReceiptInv'
<1>1. CASE s \in {"idle", "none", "announce"}
    <2>1. ReadyBefore(c)'
        BY <1>1, GotoEffect DEF ReadyBefore, AfterReady
    <2>. QED
        BY <2>1, GotoEffect, QuietReady DEF runVars
<1>2. CASE s \notin {"idle", "none", "announce"}
    <2>1. pc'[c] = s /\ req'[c] = req[c]
        BY <1>2, GotoEffect
    <2>2. req[c].tool = "bound" => "ready" \in receipts
        BY <1>2, BoundTool DEF ReceiptInv, ReadyBefore
    <2>3. ReadyBefore(c)'
        BY <1>2, <2>1, <2>2 DEF ReadyBefore, runVars, AfterReady
    <2>. QED
        BY <2>3, GotoEffect, QuietReady DEF runVars
<1>. QED
    BY <1>1, <1>2

\* The steps of a connection keep ReceiptInv.
LEMMA ReceiptConn ==
    ASSUME TypeOK, ReceiptInv, NEW c \in Conns, Client(c) \/ Handler(c)
    PROVE  ReceiptInv'
<1>. USE DEF Release, Steps, AfterReady, coreVars
<1>1. ASSUME Connect(c) \/ Hangup(c) PROVE ReceiptInv'
    BY <1>1, MoveReady DEF Connect, Hangup
<1>2. ASSUME NEW r \in Requests, Send(c, r) PROVE ReceiptInv'
    <2>1. ReadyBefore(c)' /\ \A d \in Conns \ {c} : pc'[d] = pc[d] /\ req'[d] = req[d]
        BY <1>2 DEF Send, TypeOK, ReadyBefore
    <2>. QED
        BY <1>2, <2>1, QuietReady DEF Send, runVars
<1>3. ASSUME Serve(c) PROVE ReceiptInv'
    BY <1>3, MoveReady DEF Serve
<1>4. ASSUME Announce(c) PROVE ReceiptInv'
    <2>1. CASE UNCHANGED receipts /\ Goto(c, "idle")
        BY <1>4, <2>1, MoveReady DEF Announce, runVars
    <2>2. CASE Goto(c, "mark") /\ receipts' = IF BoundKeys = {} THEN receipts ELSE receipts \cup {"ready"}
        <3>1. ReadyBefore(c)'
            BY <2>2, GotoEffect DEF ReadyBefore
        <3>2. \A d \in Conns : ReadyBefore(d)'
            BY <1>4, <2>2, <3>1, GotoEffect, OthersReady DEF Announce
        <3>. QED
            BY <1>4, <2>2, <3>2 DEF Announce, ReceiptInv, ReceiptsTruthful
    <2>. QED
        BY <1>4, <2>1, <2>2 DEF Announce
<1>5. ASSUME MarkReady(c) PROVE ReceiptInv'
    <2>1. BoundKeys # {} => "ready" \in receipts
        BY <1>5 DEF MarkReady, ReceiptInv, ReadyBefore
    <2>2. PICK s \in {"lock", "idle"} : Goto(c, s) /\ (s = "lock" => req[c].tool = "bound")
        BY <1>5 DEF MarkReady
    <2>3. ReadyBefore(c)'
        BY <1>5, <2>1, <2>2, GotoEffect, BoundTool DEF MarkReady, runVars, ReadyBefore
    <2>4. \A d \in Conns : ReadyBefore(d)'
        BY <1>5, <2>2, <2>3, GotoEffect, OthersReady DEF MarkReady, runVars
    <2>. QED
        BY <1>5, <2>1, <2>4 DEF MarkReady, runVars, ReceiptInv, ReceiptsTruthful
<1>6. ASSUME DelegateRefuse(c) \/ DelegateReplay(c) \/ DelegateNew(c) PROVE ReceiptInv'
    BY <1>6, MoveReady DEF DelegateRefuse, DelegateReplay, DelegateNew, AfterDelegate
<1>7. ASSUME DelegateRetry(c) PROVE ReceiptInv'
    <2>1. ReadyBefore(c)' /\ \A d \in Conns \ {c} : pc'[d] = pc[d] /\ req'[d] = req[d]
        BY <1>7 DEF DelegateRetry, TypeOK, ReceiptInv, ReadyBefore, runVars
    <2>. QED
        BY <1>7, <2>1, QuietReady DEF DelegateRetry, runVars
<1>8. ASSUME ScanRefuse(c) \/ Record(c) PROVE ReceiptInv'
    BY <1>8, MoveReady DEF ScanRefuse, Record
<1>9. ASSUME NEW k \in Keys, ScanTerminal(c, k) PROVE ReceiptInv'
    BY <1>9, QuietReady DEF ScanTerminal, runVars, ReceiptInv, ReadyBefore
<1>10. ASSUME Call(c) PROVE ReceiptInv'
    BY <1>10, MoveReady DEF Call, CallOk, CallAmbiguous, CallRejected, AfterDelegate
<1>11. ASSUME LockRead(c) \/ Read(c) PROVE ReceiptInv'
    BY <1>11, MoveReady DEF LockRead, Read, ReadGiveUp, ReadTerminal
<1>12. ASSUME EmitUsed(c) PROVE ReceiptInv'
    <2>1. child[req[c].key] = "success" /\ "ready" \in receipts
        BY <1>12 DEF EmitUsed, ReceiptInv, ReadyBefore
    <2>2. ReadyBefore(c)'
        BY <1>12, GotoEffect DEF EmitUsed, ReadyBefore
    <2>3. \A d \in Conns : ReadyBefore(d)'
        BY <1>12, <2>2, GotoEffect, OthersReady DEF EmitUsed
    <2>. QED
        BY <1>12, <2>1, <2>3 DEF EmitUsed, ReceiptInv, ReceiptsTruthful
<1>. QED
    BY <1>1, <1>2, <1>3, <1>4, <1>5, <1>6, <1>7, <1>8, <1>9, <1>10, <1>11, <1>12
    DEF Client, Handler, Local, Acquire, Delegate, Scan

\* A child that succeeded stays so, and Core emits no receipt.
LEMMA ReceiptCore ==
    ASSUME TypeOK, ReceiptInv, NEW k \in Keys, Core(k)
    PROVE  ReceiptInv'
<1>1. UNCHANGED <<brokerVars, runVars>> /\ \A j \in Keys : child[j] = "success" => child'[j] = "success"
    BY DEF Core, CoreExecute, CoreForget, CoreFinish, TypeOK
<1>2. \A c \in Conns : req[c].key \in Keys
    BY RequestKey
<1>3. \A c \in Conns : ReadyBefore(c)'
    BY <1>1, <1>2 DEF ReceiptInv, ReadyBefore, brokerVars, runVars
<1>. QED
    BY <1>1, <1>3 DEF ReceiptInv, ReceiptsTruthful, brokerVars, runVars, TypeOK

\* delegationProvider.Run emits "failed" only when it will not succeed.
LEMMA ReceiptRun ==
    ASSUME TypeOK, ReceiptInv, OutcomeUnset, Run
    PROVE  ReceiptInv'
<1>. USE DEF brokerVars, coreVars, runVars
<1>1. UNCHANGED <<pc, req, toolsReady, child, used>> /\ receipts \subseteq receipts'
    BY DEF Run, Cancel, ProviderFails, ProviderSucceeds, Close, CloseDone, Ensure,
           EnsureTools, EnsureLock, EnsureRefuse, EnsureDone, EnsureTerminal
<1>2. \A c \in Conns : ReadyBefore(c)'
    BY <1>1 DEF ReceiptInv, ReadyBefore
<1>3. CASE UNCHANGED receipts /\ ~EnsureDone
    BY <1>1, <1>2, <1>3
    DEF OutcomeUnset, ReceiptInv, ReceiptsTruthful, Run, Cancel, ProviderFails, ProviderSucceeds,
        Close, CloseDone, Ensure, EnsureTools, EnsureLock, EnsureRefuse, EnsureTerminal
<1>4. CASE EnsureDone
    <2>1. BoundKeys # {} => "ready" \in receipts /\ "failed" \notin receipts
        BY <1>4 DEF EnsureDone, ReceiptInv
    <2>2. BoundKeys # {} => receipts = {"ready"}
        BY <2>1 DEF TypeOK
    <2>. QED
        BY <1>1, <1>2, <1>4, <2>1, <2>2 DEF EnsureDone, ReceiptInv, ReceiptsTruthful
<1>5. CASE ProviderFails \/ EnsureTools
    BY <1>1, <1>2, <1>5 DEF ProviderFails, EnsureTools, ReceiptInv, ReceiptsTruthful
<1>. QED
    BY <1>3, <1>4, <1>5
    DEF Run, Cancel, ProviderSucceeds, Close, CloseDone, Ensure, EnsureLock, EnsureRefuse, EnsureTerminal

\* The run.mcp_bindings receipts tell the truth in every interleaving of the
\* connections, the provider's end and Core.
THEOREM TruthfulReceipts == Spec => []ReceiptsTruthful
<1>1. Init => ReceiptInv /\ OutcomeUnset
    BY DEF Init, ReceiptInv, ReadyBefore, AfterReady, ReceiptsTruthful, OutcomeUnset
<1>2. TypeOK /\ OutcomeUnset /\ ReceiptInv /\ [Next]_vars => ReceiptInv'
    <2>1. ASSUME UNCHANGED vars, ReceiptInv PROVE ReceiptInv'
        BY <2>1 DEF vars, ReceiptInv, ReadyBefore, ReceiptsTruthful
    <2>. QED
        BY <2>1, ReceiptConn, ReceiptCore, ReceiptRun DEF Next
<1>3. ReceiptInv => ReceiptsTruthful
    BY DEF ReceiptInv
<1>. QED
    BY <1>1, <1>2, <1>3, TypeCorrect, OutcomeStep, PTL DEF Spec
=============================================================================
