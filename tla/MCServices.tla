----------------------------- MODULE MCServices -----------------------------
(***************************************************************************)
(* The parts of a Node process around its runs, for TLC: the public A2A    *)
(* listener, the life of the process, the writer of a proxied response,    *)
(* the requests to the local helper, and the resolver of the transport     *)
(* host.  They share no variable, so what each can do is what it can do    *)
(* while the others stand still: Init picks the one that moves.            *)
(***************************************************************************)
EXTENDS PublicA2AServer

CONSTANTS
    Parts,         \* the parts to choose from
    Runs, Main, Others, NoRun,
    HelperCalls,   \* the requests to the local helper
    ErrorBodyLimit, MaxChunks,
    MaxSwaps

VARIABLES
    part,          \* the one that moves
    signalled, main, start, nodeCancelled, started, published, worker, nodeStop,
    helper, sessions, helperListening, helperWatcher, serve, run, crashed,
    status, wroteHeader, holdError, body, target, answered, informed, wrote, done,
    phase, tokens, stopped, pc, token, session, answer, effects, lateAuth,
    targets, hosts, swaps, binary, mu, attempt, runCtx, tools, cause

node == <<signalled, main, start, nodeCancelled, started, published, worker, nodeStop,
          helper, sessions, helperListening, helperWatcher, serve, run, crashed>>
response == <<status, wroteHeader, holdError, body, target, answered, informed, wrote, done>>
helperRequests == <<phase, tokens, stopped, pc, token, session, answer, effects, lateAuth>>
agentHost == <<targets, hosts, swaps, binary, mu, attempt, runCtx, tools, cause>>

Node == INSTANCE NodeLifecycle WITH
    cancelled <- nodeCancelled, stop <- nodeStop,
    listening <- helperListening, watcher <- helperWatcher
Response == INSTANCE ProxyResponse
Helper == INSTANCE HelperRequests WITH sessions <- tokens, Requests <- HelperCalls
Host == INSTANCE AgentHost WITH ctx <- runCtx

\* The one initial state of a resolver that stands still.
HostIdle == targets /\ hosts

InitOne ==
    /\ part \in Parts
    /\ Init /\ Node!Init /\ Response!Init /\ Helper!Init /\ Host!Init
    /\ part # "host" => HostIdle

A2ANext ==
    /\ part = "a2a" /\ Next
    /\ UNCHANGED <<part, node, response, helperRequests, agentHost>>
NodeNext ==
    /\ part = "node" /\ Node!Next
    /\ UNCHANGED <<part, vars, response, helperRequests, agentHost>>
ResponseNext ==
    /\ part = "response" /\ Response!Next
    /\ UNCHANGED <<part, vars, node, helperRequests, agentHost>>
HelperNext ==
    /\ part = "helper" /\ Helper!Next
    /\ UNCHANGED <<part, vars, node, response, agentHost>>
HostNext ==
    /\ part = "host" /\ Host!Next
    /\ UNCHANGED <<part, vars, node, response, helperRequests>>

NextOne == A2ANext \/ NodeNext \/ ResponseNext \/ HelperNext \/ HostNext

SpecOne ==
    InitOne /\ [][NextOne]_<<part, vars, node, response, helperRequests, agentHost>>

\* The listener: its goroutines run, and a Shutdown ends, as its context is
\* bounded.  A new start, a request and another caller's Stop are not owed.
A2AOn == part = "a2a"
A2AFairness ==
    /\ \A c \in Callers : WF_vars(A2AOn /\ Stopping(c))
    /\ \A g \in Gens : WF_vars(A2AOn /\ Watching(g))
    /\ WF_vars(A2AOn /\ Stop(Owner))

\* The process: goroutines run, a preflight is bounded, and a worker whose
\* context is done or that was stopped comes back.  Main is the only caller sure
\* to call Stop.
NodeOn == part = "node"
NodeFairness ==
    /\ WF_node(NodeOn /\ Node!Starting)
    /\ \A c \in {Main} \cup Others :
          WF_node(NodeOn /\ nodeStop[c].step # "idle" /\ Node!Stopping(c))
    /\ WF_node(NodeOn /\ (Node!MainStops \/ Node!MainExits \/ Node!StopReads(Main)))

\* The resolver: a goroutine that waits for the mutex gets it although others keep
\* taking it (sync.Mutex serves a waiter that has starved), and a handshake ends
\* within its five seconds.  No context is owed a cancellation.
HostOn == part = "host"
Still == UNCHANGED <<targets, hosts, swaps>>
HostFairness ==
    \A r \in Runs :
        /\ SF_agentHost(HostOn /\ Host!Enter(r) /\ Still)
        /\ WF_agentHost(HostOn /\ (Host!Verified(r) \/ Host!HandshakeFails(r)) /\ Still)

FairSpecOne == SpecOne /\ A2AFairness /\ NodeFairness /\ HostFairness

-----------------------------------------------------------------------------
\* Node: nothing of the helper outlives what it serves, and a successful Stop,
\* and an exit of main, mean that Start has returned.
NodeEndsClean == Node!NoHelperLeft /\ Node!StopMeansReturned

\* What is stopped or asked comes to an end: a listener whose context is done and
\* its proxy, a Node whose Stop found it started, and a run's wait for the host.
ServicesEnd ==
    /\ part = "a2a" => CancelledEnds
    /\ part = "node" => Node!StopEndsNode
    /\ part = "host" => Host!ResolveReturns

\* Host: no run fails by the handshake, or the context, of another one.
HandshakeIsOwn == Host!HandshakeIsOwn

\* Node: the helper's goroutines end silently.
NodeHelperSilent == Node!HelperSilent

\* Response: the client gets the proxy's answer whole, or the envelope alone.
ResponseIntact == Response!ResponseIntact

\* Helper: effects reach the run of the token, of requests authenticated while it
\* was being handled, and the answer tells of them.
HelperEffectsAccounted == Helper!HelperEffectsAccounted
=============================================================================
