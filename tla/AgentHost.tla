----------------------------- MODULE AgentHost ------------------------------
(***************************************************************************)
(* The transport host of a Node's runs: agenthost.Resolver, shared by all  *)
(* runs of the one provider NativeAdapter.backend builds.  A run that      *)
(* offers MCP tools needs the binary that carries them to the client.  The *)
(* handshake that proves the binary is done by the run that asks, under    *)
(* the Resolver's mutex, and only its success is remembered.               *)
(***************************************************************************)
EXTENDS Naturals

CONSTANTS
    Runs,       \* handler goroutines, each serving one run after another
    NoRun,      \* nobody holds the Resolver's mutex
    MaxSwaps    \* bound: how often the operator replaces the host binary

VARIABLES
    targets,    \* fixed targets are configured
    hosts,      \* the host binary on disk implements the contract
    swaps,      \* how often it was replaced
    binary,     \* Resolver.binary is set
    mu,         \* the run that holds Resolver.mu
    attempt,    \* per run: its progress,
    ctx,        \* its context,
    tools,      \* whether it has bound tools,
    cause       \* and what its own handshake failed on

vars == <<targets, hosts, swaps, binary, mu, attempt, ctx, tools, cause>>

\* With fixed targets NewProvider has done the handshake (Preflight.Backend).
Init == /\ targets \in BOOLEAN /\ binary = targets
        /\ hosts \in BOOLEAN /\ swaps = 0
        /\ mu = NoRun
        /\ attempt = [r \in Runs |-> "idle"]
        /\ ctx = [r \in Runs |-> "live"]
        /\ tools = [r \in Runs |-> FALSE]
        /\ cause = [r \in Runs |-> "none"]

-----------------------------------------------------------------------------
To(r, state) == attempt' = [attempt EXCEPT ![r] = state]

\* A run arrives with or without bound tools, or with a snapshot that cannot be
\* decoded; without tools and targets it needs no host.
Accept(r) ==
    /\ attempt[r] = "idle"
    /\ \/ /\ \E bound \in BOOLEAN :
                /\ tools' = [tools EXCEPT ![r] = bound]
                /\ To(r, IF bound \/ targets THEN "queued" ELSE "unaided")
          /\ cause' = [cause EXCEPT ![r] = "none"]
       \/ /\ To(r, "error") /\ cause' = [cause EXCEPT ![r] = "snapshot"]
          /\ UNCHANGED tools
    /\ UNCHANGED <<binary, mu, ctx>>

\* Resolve waits for the mutex, whatever its context says.  A remembered binary
\* is handed out at once; otherwise the run keeps the mutex for a handshake.
Enter(r) ==
    /\ attempt[r] = "queued" /\ mu = NoRun
    /\ \/ binary /\ To(r, "hosted") /\ UNCHANGED mu
       \/ ~binary /\ To(r, "probing") /\ mu' = r
    /\ UNCHANGED <<binary, ctx, tools, cause>>

\* The handshake succeeds and is remembered for all runs.
Verified(r) ==
    /\ attempt[r] = "probing" /\ hosts /\ ctx[r] = "live"
    /\ binary' = TRUE /\ mu' = NoRun
    /\ To(r, "hosted")
    /\ UNCHANGED <<ctx, tools, cause>>

\* A mutant: the runs that wait share the outcome of the one that asked.
HandshakeFailsForAll(r) ==
    /\ attempt[r] = "probing"
    /\ cause' = [cause EXCEPT ![r] = "timeout"]
    /\ mu' = NoRun
    /\ attempt' = [s \in Runs |-> IF s = r \/ attempt[s] = "queued"
                                 THEN "unavailable" ELSE attempt[s]]
    /\ UNCHANGED <<binary, ctx, tools>>

\* A mutant: the mutex is kept by a handshake that failed.
HandshakeFailsLocked(r) ==
    /\ attempt[r] = "probing"
    /\ cause' = [cause EXCEPT ![r] = "timeout"]
    /\ To(r, "unavailable")
    /\ UNCHANGED <<binary, mu, ctx, tools>>

\* It fails on the host, with the run's context, or after five seconds.  A run
\* with bound tools is reported as failed, unless that report cannot be emitted,
\* and any other as an error.
HandshakeFails(r) ==
    /\ attempt[r] = "probing"
    /\ \E reason \in {"host", "context", "timeout"} :
          /\ reason = "host" => ~hosts
          /\ reason = "context" => ctx[r] = "done"
          /\ cause' = [cause EXCEPT ![r] = reason]
    /\ mu' = NoRun
    /\ To(r, "error") \/ (tools[r] /\ To(r, "unavailable"))
    /\ UNCHANGED <<binary, ctx, tools>>

\* The handler returns; its goroutine serves another run.
Return(r) ==
    /\ attempt[r] \in {"unaided", "hosted", "unavailable", "error"}
    /\ To(r, "idle")
    /\ ctx' = [ctx EXCEPT ![r] = "live"]
    /\ UNCHANGED <<binary, mu, tools, cause>>

Run(r) == Accept(r) \/ Enter(r) \/ Verified(r) \/ HandshakeFails(r) \/ Return(r)

Cancel(r) == /\ ctx[r] = "live"
             /\ ctx' = [ctx EXCEPT ![r] = "done"]
             /\ UNCHANGED <<binary, mu, attempt, tools, cause>>

\* The operator replaces the host binary.
Swap == /\ swaps < MaxSwaps
        /\ hosts' = ~hosts /\ swaps' = swaps + 1
        /\ UNCHANGED <<targets, binary, mu, attempt, ctx, tools, cause>>

Next == \/ \E r \in Runs : (Run(r) \/ Cancel(r)) /\ UNCHANGED <<targets, hosts, swaps>>
        \/ Swap

Spec == Init /\ [][Next]_vars

-----------------------------------------------------------------------------
TypeOK ==
    /\ targets \in BOOLEAN /\ hosts \in BOOLEAN /\ binary \in BOOLEAN
    /\ mu \in Runs \cup {NoRun}
    /\ attempt \in [Runs -> {"idle", "queued", "probing", "hosted", "unaided",
                             "unavailable", "error"}]
    /\ ctx \in [Runs -> {"live", "done"}] /\ tools \in [Runs -> BOOLEAN]
    /\ cause \in [Runs -> {"none", "snapshot", "host", "context", "timeout"}]

\* Runs do not pay for one another: a run is served without a host only if it
\* needs none, it fails only on its own snapshot or handshake, and a Node with
\* fixed targets, whose handshake was part of its start, fails no run.
HandshakeIsOwn ==
    \A r \in Runs :
       /\ attempt[r] = "unaided" => ~tools[r] /\ ~targets
       /\ attempt[r] = "hosted" => binary
       /\ attempt[r] \in {"unavailable", "error"} =>
             cause[r] # "none" /\ (targets => cause[r] = "snapshot")

\* A run that asks for the host gets an answer, although queued runs ignore
\* their context and failed handshakes are repeated one after the other.
ResolveReturns ==
    \A r \in Runs : attempt[r] = "queued" ~> attempt[r] \notin {"queued", "probing"}
=============================================================================
