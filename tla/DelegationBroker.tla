-------------------------- MODULE DelegationBroker --------------------------
(***************************************************************************)
(* The attempt-scoped delegation broker (pkg/adapters/agentdelegation) and  *)
(* the delegationProvider.Run that owns it (pkg/adapters/delegation.go).    *)
(*                                                                          *)
(* Every MCP connection is a goroutine that serves one request at a time.   *)
(* The mutex `calls` serialises the tools; it is held across the Core       *)
(* callbacks CallAgent and ReadRun, so a handler is cut into one step per   *)
(* stretch of code between lock operations and callbacks.                   *)
(*                                                                          *)
(* Core is external.  A CallAgent that was sent stays in the network until  *)
(* Core executes it or it is lost, and this may happen after the broker     *)
(* gave up waiting for the answer.  The idempotency key is a hash of the    *)
(* parent Run and the request key, so one child exists per request key.     *)
(* The child of key k is identified with k.                                 *)
(***************************************************************************)
EXTENDS Naturals, FiniteSets

CONSTANTS Conns,           \* MCP connections the provider may open
          Keys,            \* request keys, after the namespacing of bound tools
          BoundKeys,       \* the keys used through an owner-selected (bound) tool
          Digests,         \* digests of the request arguments
          MaxRequests,     \* 64 in the code
          MaxConnections,  \* 8 in the code
          Main,            \* the goroutine of delegationProvider.Run
          Free             \* nobody holds `calls`

ASSUME ConnsAssumption == Main \notin Conns /\ Free \notin Conns \cup {Main}
ASSUME KeysAssumption == Keys # {} /\ BoundKeys \subseteq Keys
ASSUME LimitAssumption == MaxRequests \in Nat /\ MaxConnections \in Nat

VARIABLES
    requests,    \* Broker.requests: key -> delegationRequest
    lock,        \* holder of Broker.calls
    pc,          \* where the goroutine of each connection is
    req,         \* the request that goroutine serves
    exists,      \* its local variable `exists` (the key was already recorded)
    toolsReady,  \* Broker.toolsReady
    cancelled,   \* Broker.ctx is done
    phase,       \* where delegationProvider.Run is
    outcome,     \* what delegationProvider.Run returns
    receipts,    \* run.mcp_bindings.* receipts emitted: "ready", "failed"
    used,        \* keys whose run.mcp_bindings.used receipt was emitted
    child,       \* Core: status of the child Run of each key
    late         \* Core: keys with a CallAgent request still in the network

brokerVars == <<requests, lock, pc, req, exists, toolsReady>>
runVars    == <<cancelled, phase, outcome, receipts, used>>
coreVars   == <<child, late>>
vars       == <<requests, lock, pc, req, exists, toolsReady,
                cancelled, phase, outcome, receipts, used, child, late>>

TerminalStatus == {"success", "failed"}   \* failed: also canceled and timeout
Status == {"none", "running"} \cup TerminalStatus

NoDigest == "no digest"
Entry  == [present : BOOLEAN, digest : Digests \cup {NoDigest},
           run : BOOLEAN, terminal : BOOLEAN]
Absent == [present |-> FALSE, digest |-> NoDigest, run |-> FALSE, terminal |-> FALSE]

\* The requests a provider can send: tools/list, delegate_agent, a bound tool,
\* get_/wait_delegated_run, and everything that is answered without any effect
\* (initialize, ping, an unknown method, arguments that fail validation).
Requests ==
    [tool : {"delegate"}, key : Keys \ BoundKeys, digest : Digests]
        \cup [tool : {"bound"}, key : BoundKeys, digest : Digests]
        \cup [tool : {"read"}, key : Keys, digest : {NoDigest}]
        \cup [tool : {"list", "other"}, key : {CHOOSE k \in Keys : TRUE}, digest : {NoDigest}]
NoRequest == [tool |-> "none", key |-> CHOOSE k \in Keys : TRUE, digest |-> NoDigest]

Steps == {"none", "idle", "queued", "announce", "mark", "lock", "scan", "call",
          "lockread", "read", "used"}
HoldsLock == {"scan", "call", "read"}

Phases == {"provider", "ensure", "ensuring", "closing", "draining", "closed"}
Outcomes == {"none", "success", "failed", "unfinished", "tools_unavailable"}

TypeOK ==
    /\ requests \in [Keys -> Entry]
    /\ lock \in Conns \cup {Main, Free}
    /\ pc \in [Conns -> Steps]
    /\ req \in [Conns -> Requests \cup {NoRequest}]
    /\ exists \in [Conns -> BOOLEAN]
    /\ toolsReady \in BOOLEAN /\ cancelled \in BOOLEAN
    /\ phase \in Phases /\ outcome \in Outcomes
    /\ receipts \subseteq {"ready", "failed"} /\ used \subseteq Keys
    /\ child \in [Keys -> Status] /\ late \subseteq Keys

Init ==
    /\ requests = [k \in Keys |-> Absent]
    /\ lock = Free
    /\ pc = [c \in Conns |-> "none"]
    /\ req = [c \in Conns |-> NoRequest]
    /\ exists = [c \in Conns |-> FALSE]
    /\ toolsReady = FALSE /\ cancelled = FALSE
    /\ phase = "provider" /\ outcome = "none"
    /\ receipts = {} /\ used = {}
    /\ child = [k \in Keys |-> "none"] /\ late = {}

-----------------------------------------------------------------------------
(* Helpers.                                                                 *)

Present == {k \in Keys : requests[k].present}

\* Mutant: an unresolved creation does not count as open.
OpenIgnoresUnresolved ==
    {k \in Keys : requests[k].present /\ ~requests[k].terminal /\ requests[k].run}

\* The requests the scans of delegate_agent and EnsureComplete stop at.
Open == {k \in Keys : requests[k].present /\ ~requests[k].terminal}

terminalRun(k) == child[k] \in TerminalStatus

markTerminal(k) ==
    requests' = [requests EXCEPT ![k].terminal = requests[k].terminal \/ requests[k].run]

\* The goroutine of c goes to step s; at "idle" it forgets the request it served.
Goto(c, s) ==
    /\ pc' = [pc EXCEPT ![c] = s]
    /\ req' = IF s \in {"idle", "none"} THEN [req EXCEPT ![c] = NoRequest] ELSE req
    /\ exists' = IF s \in {"idle", "none"} THEN [exists EXCEPT ![c] = FALSE] ELSE exists

-----------------------------------------------------------------------------
(* The external part: the provider's MCP client, and Core.                  *)

\* accept(): a connection over the limit, or after ctx is done, is closed at once.
Connect(c) ==
    /\ phase = "provider" /\ ~cancelled
    /\ pc[c] = "none"
    /\ Cardinality({d \in Conns : pc[d] # "none"}) < MaxConnections
    /\ Goto(c, "idle")
    /\ UNCHANGED <<requests, lock, toolsReady, runVars, coreVars>>

\* The client writes one request; it stays in the socket until serve reads it.
Send(c, r) ==
    /\ phase = "provider" /\ ~cancelled
    /\ pc[c] = "idle"
    /\ pc' = [pc EXCEPT ![c] = "queued"]
    /\ req' = [req EXCEPT ![c] = r]
    /\ UNCHANGED <<requests, lock, exists, toolsReady, runVars, coreVars>>

\* The connection ends: the client went away, or Close closed it.  A request
\* that was not read yet is dropped only when the broker closed the connection.
Hangup(c) ==
    /\ \/ pc[c] = "idle"
       \/ pc[c] = "queued" /\ cancelled
    /\ Goto(c, "none")
    /\ UNCHANGED <<requests, lock, toolsReady, runVars, coreVars>>

\* Core executes a CallAgent request; a repeated idempotency key creates nothing.
CoreExecute(k) ==
    /\ k \in late /\ child[k] = "none"
    /\ child' = [child EXCEPT ![k] = "running"]
    /\ UNCHANGED <<brokerVars, runVars, late>>

\* A CallAgent request leaves the network, executed or lost.
CoreForget(k) ==
    /\ k \in late
    /\ late' = late \ {k}
    /\ UNCHANGED <<brokerVars, runVars, child>>

\* A child Run ends; terminal states are immutable.
CoreFinish(k, s) ==
    /\ child[k] = "running"
    /\ child' = [child EXCEPT ![k] = s]
    /\ UNCHANGED <<brokerVars, runVars, late>>

-----------------------------------------------------------------------------
(* serve, dispatch and callTool.                                            *)

\* serve reads one request and dispatches it.
Serve(c) ==
    /\ pc[c] = "queued"
    /\ LET tool == req[c].tool IN
       Goto(c, CASE tool = "list" -> "announce"
                 [] tool = "bound" -> IF toolsReady THEN "lock" ELSE "announce"
                 [] tool = "delegate" -> "lock"
                 [] tool = "read" -> "lockread"
                 [] OTHER -> "idle")
    /\ UNCHANGED <<requests, lock, toolsReady, runVars, coreVars>>

\* onTools(): emit the ready receipt; when that fails the request fails.
Announce(c) ==
    /\ pc[c] = "announce"
    /\ \/ receipts' = (IF BoundKeys = {} THEN receipts ELSE receipts \cup {"ready"}) /\ Goto(c, "mark")
       \/ BoundKeys # {} /\ UNCHANGED receipts /\ Goto(c, "idle")
    /\ UNCHANGED <<requests, lock, toolsReady, cancelled, phase, outcome, used, coreVars>>

\* toolsReady.Store(true), the step after a successful onTools.
MarkReady(c) ==
    /\ pc[c] = "mark"
    /\ toolsReady' = TRUE
    /\ Goto(c, IF req[c].tool = "bound" THEN "lock" ELSE "idle")
    /\ UNCHANGED <<requests, lock, runVars, coreVars>>

-----------------------------------------------------------------------------
(* callWithBinding under the mutex `calls`.                                 *)

\* A handler that ends while it holds the mutex releases it.
Release(c, s) == Goto(c, s) /\ lock' = Free

\* The successor of a delegate_agent that has a Run: a bound tool goes on to
\* wait for the result with a second lock acquisition.
AfterDelegate(c) == IF req[c].tool = "bound" THEN "lockread" ELSE "idle"

\* delegate_agent up to its first callback.  It is refused when ctx is done,
\* when the key was used with other arguments, and at the request limit ...
DelegateRefuse(c) ==
    LET previous == requests[req[c].key] IN
    /\ pc[c] = "lock" /\ lock = Free
    /\ \/ cancelled
       \/ previous.present /\ previous.digest # req[c].digest
       \/ ~previous.present /\ Cardinality(Present) >= MaxRequests
    /\ Goto(c, "idle")
    /\ UNCHANGED <<requests, lock, toolsReady, runVars, coreVars>>

\* ... a key that has a Run is answered from the record ...
DelegateReplay(c) ==
    LET previous == requests[req[c].key] IN
    /\ pc[c] = "lock" /\ lock = Free
    /\ ~cancelled /\ previous.present /\ previous.digest = req[c].digest
    /\ previous.run
    /\ Goto(c, AfterDelegate(c))
    /\ UNCHANGED <<requests, lock, toolsReady, runVars, coreVars>>

\* Mutant: the retry does not compare the digest of the arguments.
DelegateRetryAnyArguments(c) ==
    /\ pc[c] = "lock" /\ lock = Free
    /\ ~cancelled /\ requests[req[c].key].present /\ ~requests[req[c].key].run
    /\ lock' = c
    /\ pc' = [pc EXCEPT ![c] = "call"]
    /\ exists' = [exists EXCEPT ![c] = TRUE]
    /\ late' = late \cup {req[c].key}
    /\ UNCHANGED <<requests, req, toolsReady, runVars, child>>

\* ... an unresolved key is sent again at once, with the same idempotency key ...
DelegateRetry(c) ==
    LET previous == requests[req[c].key] IN
    /\ pc[c] = "lock" /\ lock = Free
    /\ ~cancelled /\ previous.present /\ previous.digest = req[c].digest
    /\ ~previous.run
    /\ lock' = c
    /\ pc' = [pc EXCEPT ![c] = "call"]
    /\ exists' = [exists EXCEPT ![c] = TRUE]
    /\ late' = late \cup {req[c].key}
    /\ UNCHANGED <<requests, req, toolsReady, runVars, child>>

\* ... and a new key goes through the scan first.
DelegateNew(c) ==
    /\ pc[c] = "lock" /\ lock = Free
    /\ ~cancelled /\ ~requests[req[c].key].present /\ Cardinality(Present) < MaxRequests
    /\ lock' = c
    /\ Goto(c, "scan")
    /\ UNCHANGED <<requests, toolsReady, runVars, coreVars>>

Delegate(c) == DelegateRefuse(c) \/ DelegateReplay(c) \/ DelegateRetry(c) \/ DelegateNew(c)

\* One request of the scan over the recorded requests: an unresolved creation,
\* a ReadRun that fails and a child that still runs all refuse the new key.
ScanRefuse(c) ==
    /\ pc[c] = "scan"
    /\ Open # {}
    /\ Release(c, "idle")
    /\ UNCHANGED <<requests, toolsReady, runVars, coreVars>>

\* One request of the scan: ReadRun says that the child has ended.
ScanTerminal(c, k) ==
    /\ pc[c] = "scan"
    /\ k \in Open /\ requests[k].run /\ terminalRun(k)
    /\ requests' = [requests EXCEPT ![k].terminal = TRUE]
    /\ UNCHANGED <<lock, pc, req, exists, toolsReady, runVars, coreVars>>

\* The scan found nothing open: record the key, then send CallAgent.
Record(c) ==
    LET k == req[c].key IN
    /\ pc[c] = "scan"
    /\ Open = {}
    /\ requests' = [requests EXCEPT ![k] = [present |-> TRUE, digest |-> req[c].digest,
                                            run |-> FALSE, terminal |-> FALSE]]
    /\ Goto(c, "call")
    /\ late' = late \cup {k}
    /\ UNCHANGED <<lock, toolsReady, runVars, child>>

\* CallAgent returns the summary of the child.
CallOk(c) ==
    LET k == req[c].key IN
    /\ pc[c] = "call"
    /\ child[k] # "none"
    /\ requests' = [requests EXCEPT ![k] = [present |-> TRUE, digest |-> req[c].digest,
                                            run |-> TRUE, terminal |-> FALSE]]
    /\ Release(c, AfterDelegate(c))
    /\ UNCHANGED <<toolsReady, runVars, coreVars>>

\* CallAgent fails in a way that says nothing about the child (timeout,
\* transport or 5xx error, NOT_FOUND) or returns no usable Run ID.
CallAmbiguous(c) ==
    /\ pc[c] = "call"
    /\ Release(c, "idle")
    /\ UNCHANGED <<requests, toolsReady, runVars, coreVars>>

\* Mutant: a rejected retry forgets the request as a rejected first attempt does.
CallRejectedForgetsRetry(c) ==
    LET k == req[c].key IN
    /\ pc[c] = "call"
    /\ exists[c] \/ child[k] = "none"
    /\ requests' = [requests EXCEPT ![k] = Absent]
    /\ late' = IF exists[c] THEN late ELSE late \ {k}
    /\ Release(c, "idle")
    /\ UNCHANGED <<toolsReady, runVars, child>>

\* definiteRejection: this request created no child.  An earlier attempt of the
\* same key may have, so only a first attempt is forgotten.
CallRejected(c) ==
    LET k == req[c].key IN
    /\ pc[c] = "call"
    /\ exists[c] \/ child[k] = "none"
    /\ requests' = IF exists[c] THEN requests ELSE [requests EXCEPT ![k] = Absent]
    /\ late' = IF exists[c] THEN late ELSE late \ {k}
    /\ Release(c, "idle")
    /\ UNCHANGED <<toolsReady, runVars, child>>

\* get_delegated_run and wait_delegated_run up to their first ReadRun.
LockRead(c) ==
    /\ pc[c] = "lockread" /\ lock = Free
    /\ IF cancelled THEN Goto(c, "idle") /\ UNCHANGED lock
                    ELSE Goto(c, "read") /\ lock' = c
    /\ UNCHANGED <<requests, toolsReady, runVars, coreVars>>

\* Mutant: the wait loop does not watch ctx.
ReadGiveUpIgnoresCancel(c) ==
    /\ pc[c] = "read" /\ ~cancelled
    /\ Release(c, "idle")
    /\ UNCHANGED <<requests, toolsReady, runVars, coreVars>>

\* ReadRun fails, or the wait ends with the child still running.
ReadGiveUp(c) ==
    /\ pc[c] = "read"
    /\ Release(c, "idle")
    /\ UNCHANGED <<requests, toolsReady, runVars, coreVars>>

\* Mutant: any ended child of a bound tool counts as used.
ReadTerminalAnyStatus(c) ==
    LET k == req[c].key IN
    /\ pc[c] = "read"
    /\ terminalRun(k)
    /\ markTerminal(k)
    /\ Release(c, IF req[c].tool = "bound" THEN "used" ELSE "idle")
    /\ UNCHANGED <<toolsReady, runVars, coreVars>>

\* ReadRun reports a terminal child.
ReadTerminal(c) ==
    LET k == req[c].key IN
    /\ pc[c] = "read"
    /\ terminalRun(k)
    /\ markTerminal(k)
    /\ Release(c, IF req[c].tool = "bound" /\ child[k] = "success" THEN "used" ELSE "idle")
    /\ UNCHANGED <<toolsReady, runVars, coreVars>>

\* BoundToolUsed: the used receipt, which may fail to be emitted.
EmitUsed(c) ==
    /\ pc[c] = "used"
    /\ used' = used \cup {req[c].key} \/ UNCHANGED used
    /\ Goto(c, "idle")
    /\ UNCHANGED <<requests, lock, toolsReady, cancelled, phase, outcome, receipts, coreVars>>

-----------------------------------------------------------------------------
(* delegationProvider.Run, EnsureComplete and Close.                        *)

\* The parent context is canceled (cancellation or timeout of the Attempt).
Cancel ==
    /\ ~cancelled
    /\ cancelled' = TRUE
    /\ UNCHANGED <<brokerVars, phase, outcome, receipts, used, coreVars>>

\* The provider ends without a successful result.  When the tools were never
\* discovered a failed receipt records that stage.
ProviderFails ==
    /\ phase = "provider"
    /\ phase' = "closing" /\ outcome' = "failed"
    /\ receipts' \in IF BoundKeys # {} /\ ~toolsReady THEN {receipts, receipts \cup {"failed"}}
                     ELSE {receipts}
    /\ UNCHANGED <<brokerVars, cancelled, used, coreVars>>

\* The provider ends with a successful result; EnsureComplete starts.
ProviderSucceeds ==
    /\ phase = "provider"
    /\ phase' = "ensure"
    /\ UNCHANGED <<brokerVars, cancelled, outcome, receipts, used, coreVars>>

\* EnsureComplete: tools that were never discovered fail the Run, before the
\* mutex is taken.
EnsureTools ==
    /\ phase = "ensure"
    /\ BoundKeys # {} /\ ~toolsReady
    /\ phase' = "closing" /\ outcome' = "tools_unavailable"
    /\ receipts' \in {receipts, receipts \cup {"failed"}}
    /\ UNCHANGED <<brokerVars, cancelled, used, coreVars>>

EnsureLock ==
    /\ phase = "ensure"
    /\ BoundKeys = {} \/ toolsReady
    /\ lock = Free
    /\ lock' = Main
    /\ phase' = "ensuring"
    /\ UNCHANGED <<requests, pc, req, exists, toolsReady, cancelled, outcome, receipts, used, coreVars>>

\* An open request that is unresolved, unreadable or running fails the Run.
EnsureRefuse ==
    /\ phase = "ensuring"
    /\ Open # {}
    /\ lock' = Free
    /\ phase' = "closing" /\ outcome' = "unfinished"
    /\ UNCHANGED <<requests, pc, req, exists, toolsReady, cancelled, receipts, used, coreVars>>

\* Mutant: EnsureComplete trusts a request that has a Run without reading it.
EnsureTerminalUnread(k) ==
    /\ phase = "ensuring"
    /\ k \in Open /\ requests[k].run
    /\ requests' = [requests EXCEPT ![k].terminal = TRUE]
    /\ UNCHANGED <<lock, pc, req, exists, toolsReady, runVars, coreVars>>

\* One request EnsureComplete looks at: ReadRun says that the child has ended.
EnsureTerminal(k) ==
    /\ phase = "ensuring"
    /\ k \in Open /\ requests[k].run /\ terminalRun(k)
    /\ requests' = [requests EXCEPT ![k].terminal = TRUE]
    /\ UNCHANGED <<lock, pc, req, exists, toolsReady, runVars, coreVars>>

\* EnsureComplete returns nil: the successful result stands.
EnsureDone ==
    /\ phase = "ensuring"
    /\ Open = {}
    /\ lock' = Free
    /\ phase' = "closing" /\ outcome' = "success"
    /\ UNCHANGED <<requests, pc, req, exists, toolsReady, cancelled, receipts, used, coreVars>>

\* Close: cancel, close the listener and the connections ...
Close ==
    /\ phase = "closing"
    /\ phase' = "draining" /\ cancelled' = TRUE
    /\ UNCHANGED <<brokerVars, outcome, receipts, used, coreVars>>

\* ... and wait for every goroutine.
CloseDone ==
    /\ phase = "draining"
    /\ \A c \in Conns : pc[c] = "none"
    /\ phase' = "closed"
    /\ UNCHANGED <<brokerVars, cancelled, outcome, receipts, used, coreVars>>

-----------------------------------------------------------------------------
Call(c) == CallOk(c) \/ CallAmbiguous(c) \/ CallRejected(c)
Scan(c) == ScanRefuse(c) \/ Record(c) \/ \E k \in Keys : ScanTerminal(c, k)
Read(c) == ReadGiveUp(c) \/ ReadTerminal(c)
Acquire(c) == Delegate(c) \/ LockRead(c)
Local(c) == Serve(c) \/ Announce(c) \/ MarkReady(c) \/ Scan(c) \/ Call(c) \/ Read(c) \/ EmitUsed(c)

Handler(c) == Local(c) \/ Acquire(c)
Client(c) == Connect(c) \/ Hangup(c) \/ \E r \in Requests : Send(c, r)
Core(k) == CoreExecute(k) \/ CoreForget(k) \/ \E s \in TerminalStatus : CoreFinish(k, s)
Ensure == EnsureTools \/ EnsureLock \/ EnsureRefuse \/ EnsureDone \/ \E k \in Keys : EnsureTerminal(k)
Run == Cancel \/ ProviderFails \/ ProviderSucceeds \/ Ensure \/ Close \/ CloseDone

Next == \/ \E c \in Conns : Client(c) \/ Handler(c)
        \/ \E k \in Keys : Core(k)
        \/ Run

Spec == Init /\ [][Next]_vars

\* The goroutines run, the Core callbacks return (each has a 30 second
\* context), the provider ends, and a goroutine that waits for `calls` gets it
\* although others keep taking it: sync.Mutex hands over to a waiter that has
\* starved for a millisecond.
Fairness ==
    /\ \A c \in Conns : WF_vars(Local(c)) /\ SF_vars(Acquire(c)) /\ WF_vars(cancelled /\ Hangup(c))
    /\ WF_vars(ProviderFails \/ ProviderSucceeds)
    /\ SF_vars(EnsureLock) /\ WF_vars(Ensure) /\ WF_vars(Close) /\ WF_vars(CloseDone)

FairSpec == Spec /\ Fairness

-----------------------------------------------------------------------------
(* Properties.                                                              *)

\* "One child may run at a time": whatever replies were lost, delayed or
\* rejected, and on however many connections the provider called, Core never
\* runs two children of this Attempt at once (delegate_agent's scan, line 334).
OneChildAtATime ==
    \A j, k \in Keys : child[j] = "running" /\ child[k] = "running" => j = k

\* The broker never forgets a child that runs or that a CallAgent still in the
\* network may start: its request stays recorded and open, so that both the next
\* delegate_agent and EnsureComplete stop at it (the !exists test of line 360).
NoForgottenChild ==
    \A k \in Keys : child[k] = "running" \/ (k \in late /\ child[k] = "none") => k \in Open

\* A recorded request that reached Core is never dropped, rebound to other
\* arguments or reopened, so a retry always meets its own child.
KeepsRecord(k) ==
    requests[k].present /\ child[k] # "none" =>
        /\ requests'[k].present
        /\ requests'[k].digest = requests[k].digest
        /\ requests[k].run => requests'[k].run
        /\ requests[k].terminal => requests'[k].terminal
RecordsArePermanent == [][\A k \in Keys : KeepsRecord(k)]_vars

\* The receipts tell the truth, although "ready" is emitted before the flag that
\* holds back "failed" is stored and a provider may end in between.  For a "used"
\* receipt the tool's child succeeded, after the tools had been reported ready
\* (callTool, lines 95 to 139 of bound_tools.go); and a parent with selected tools
\* that succeeds has reported them ready and never as failed.
ReceiptsTruthful ==
    /\ \A k \in used : child[k] = "success" /\ "ready" \in receipts
    /\ outcome = "success" /\ BoundKeys # {} => receipts = {"ready"}

\* The broker keeps the promises of DelegationPromise; EnsureComplete returning
\* nil is the completion verdict.
Promise == INSTANCE DelegationPromise WITH attested <- outcome = "success"
KeepsPromise == Promise!Spec

\* Close returns: no goroutine keeps waiting for the mutex, for a callback or
\* for another goroutine once delegationProvider.Run is done.
CloseReturns == phase = "closing" ~> phase = "closed"

\* The inductive strengthening of OneChildAtATime and NoForgottenChild.  The
\* mutex is held by whoever is between its lock operations; the goroutine that
\* waits for CallAgent has its key recorded and unresolved; the one that scans
\* has not recorded its key yet; at most one request is open; and Terminal is
\* cached only for a resolved child that has ended.
LockOwner ==
    /\ \A c \in Conns : pc[c] \in HoldsLock <=> lock = c
    /\ phase = "ensuring" <=> lock = Main
CallRecorded ==
    \A c \in Conns :
        /\ pc[c] \in {"lock", "scan", "call"} => req[c].digest \in Digests
        /\ pc[c] = "scan" => ~requests[req[c].key].present
        /\ pc[c] = "call" =>
              LET e == requests[req[c].key]
              IN e.present /\ ~e.terminal /\ ~e.run /\ e.digest = req[c].digest
OneOpen == \A j, k \in Open : j = k
TerminalIsTrue == \A k \in Keys : requests[k].terminal => requests[k].run /\ terminalRun(k)

\* delegationProvider.Run returns only once.
OutcomeUnset == phase \in {"provider", "ensure", "ensuring"} => outcome = "none"

IInv == /\ TypeOK /\ LockOwner /\ CallRecorded
        /\ OneOpen /\ TerminalIsTrue /\ NoForgottenChild

\* The inductive strengthening of ReceiptsTruthful.  The flag is stored, and the
\* goroutine of a bound tool goes on to the mutex, only after the receipt; a
\* goroutine about to emit "used" has read a child that succeeded; and "failed" is
\* emitted only on the way out of delegationProvider.Run.
AfterReady == {"lock", "scan", "call", "lockread", "read", "used"}
ReadyBefore(c) ==
    /\ pc[c] = "mark" /\ BoundKeys # {} => "ready" \in receipts
    /\ pc[c] \in AfterReady /\ req[c].tool = "bound" => "ready" \in receipts
    /\ pc[c] = "used" => req[c].tool = "bound" /\ child[req[c].key] = "success"
ReceiptInv ==
    /\ \A c \in Conns : ReadyBefore(c)
    /\ toolsReady /\ BoundKeys # {} => "ready" \in receipts
    /\ phase = "ensuring" /\ BoundKeys # {} => toolsReady
    /\ phase \in {"provider", "ensure", "ensuring"} => "failed" \notin receipts
    /\ ReceiptsTruthful

\* What the comment of EnsureComplete says of a successful parent.
SuccessMeansComplete ==
    outcome = "success" => \A k \in Keys : child[k] # "running" /\ k \notin Open
=============================================================================
