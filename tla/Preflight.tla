----------------------------- MODULE Preflight ------------------------------
(***************************************************************************)
(* The start of a Node with a native client: NativeAdapter.Preflight and   *)
(* what it calls.  The checks come one after the other, each can end the   *)
(* start, and the probe of the sandbox runs in a session of its own, whose *)
(* lock Nodes that start at the same moment compete for.                   *)
(***************************************************************************)
EXTENDS Naturals

CONSTANTS
    MaxPart,    \* the largest component of a version
    Minimum     \* the oldest version that is supported

VARIABLES
    config,     \* what the operator configured
    client,     \* the installed client: version, suffix, what its help offers
    hosts,      \* the host binary implements the contract
    step, why,  \* where Preflight is, and why it failed
    startCtx,   \* its context
    scopeLock   \* the session lock of the preflight scope

vars == <<config, client, hosts, step, why, startCtx, scopeLock>>

Version == [1..3 -> 0..MaxPart]

Init ==
    /\ config \in [provider : {"codex", "claude"}, native : BOOLEAN, targets : BOOLEAN,
                   key : BOOLEAN, keyFile : {"none", "private", "unsafe"}]
    /\ client \in [version : Version, suffix : {"none", "build", "prerelease"},
                   capable : BOOLEAN]
    /\ hosts \in BOOLEAN
    /\ step = "configuration" /\ why = "none"
    /\ startCtx = "live" /\ scopeLock \in {"free", "other"}

-----------------------------------------------------------------------------
\* A mutant: a smaller component does not end the comparison.
versionAtLeastAny(version, minimum) ==
    \/ version = minimum
    \/ \E i \in 1..3 : version[i] > minimum[i]

\* The first component that differs decides.
versionAtLeast(version, minimum) ==
    \/ version = minimum
    \/ \E i \in 1..3 : /\ version[i] > minimum[i]
                       /\ \A j \in 1..(i - 1) : version[j] = minimum[j]

Fails(reason) == step' = "failed" /\ why' = reason
Goes(next) == step' = next /\ why' = why

\* prepareNativeCredentials, run once; its answer is kept.  Only a Claude client
\* with fixed targets or a key file is looked at: it has one key, from the
\* environment or from a private file, and with targets it needs one.
Configuration ==
    LET looked == config.provider = "claude" /\ (config.targets \/ config.keyFile # "none")
        refused == \/ config.key /\ config.keyFile # "none"
                   \/ config.keyFile = "unsafe"
                   \/ config.targets /\ ~config.key /\ config.keyFile = "none"
    IN /\ step = "configuration"
       /\ IF looked /\ refused THEN Fails("configuration") ELSE Goes("isolation")
       /\ UNCHANGED scopeLock

\* CheckSessionIsolation: isolation excludes fixed targets, and other options may
\* be refused too; without isolation there is no sandbox to check.
CheckSessionIsolation ==
    /\ step = "isolation"
    /\ \/ Fails("isolation")
       \/ config.native /\ ~config.targets /\ Goes("sandboxed cli")
       \/ ~config.native /\ Goes("cli")
    /\ UNCHANGED scopeLock

\* providerpreflight.Check: the version, then the help of the client.  A probe
\* also fails with its context, its own time limit or too much output.
ProviderCheck(next) ==
    \/ Fails("probe")
    \/ /\ startCtx = "live"
       /\ IF \/ client.suffix = "prerelease"
             \/ ~versionAtLeast(client.version, Minimum)
          THEN Fails("version")
          ELSE IF client.capable THEN Goes(next) ELSE Fails("capability")

CheckProviderCLI ==
    /\ \/ step = "sandboxed cli" /\ ProviderCheck("open")
       \/ step = "cli" /\ ProviderCheck(IF config.targets THEN "broker" ELSE "host")
    /\ UNCHANGED scopeLock

\* checkNativeToolSandbox: a session of its own, whose lock another Node that
\* starts at the same moment may hold.
OpenProbeSession ==
    /\ step = "open"
    /\ \/ startCtx = "live" /\ scopeLock = "free" /\ scopeLock' = "ours" /\ Goes("sandbox")
       \/ Fails("session") /\ UNCHANGED scopeLock

\* A mutant: only the last return closes the session.
ProbeSandboxLeaks ==
    /\ step = "sandbox"
    /\ \/ startCtx = "live" /\ Goes("cli") /\ scopeLock' = "free"
       \/ Fails("sandbox") /\ UNCHANGED scopeLock

\* The tool policy, the dependencies and the enforcement probe; every return
\* closes the session.
ProbeSandbox ==
    /\ step = "sandbox"
    /\ \/ startCtx = "live" /\ Goes("cli")
       \/ Fails("sandbox")
    /\ scopeLock' = "free"

\* Without fixed targets the handshake is tried once, and forgotten.
ProbeHost ==
    /\ step = "host"
    /\ (hosts /\ startCtx = "live" /\ Goes("broker")) \/ Fails("host")
    /\ UNCHANGED scopeLock

CheckBrokerRoot ==
    /\ step = "broker"
    /\ Goes("backend") \/ Fails("broker")
    /\ UNCHANGED scopeLock

\* NewProvider, run once: it may refuse the profile or the targets, and with fixed
\* targets it does the handshake itself, under a context nobody cancels.
Backend ==
    /\ step = "backend"
    /\ \/ (config.targets => hosts) /\ Goes("started")
       \/ Fails("backend")
    /\ UNCHANGED scopeLock

Check == \/ Configuration \/ CheckSessionIsolation \/ CheckProviderCLI
         \/ OpenProbeSession \/ ProbeSandbox
         \/ ProbeHost \/ CheckBrokerRoot \/ Backend

Cancel == startCtx' = "done" /\ UNCHANGED <<step, why, scopeLock>>

\* Another Node takes the lock of the scope, or gives it back.
OtherNode == /\ scopeLock # "ours"
             /\ scopeLock' \in {"free", "other"} \ {scopeLock}
             /\ UNCHANGED <<step, why, startCtx>>

Next == /\ \/ Check /\ UNCHANGED startCtx
           \/ Cancel \/ OtherNode
        /\ UNCHANGED <<config, client, hosts>>

Spec == Init /\ [][Next]_vars

-----------------------------------------------------------------------------
\* Versions as numbers: the reference versionAtLeast is compared with.
Rank(version) ==
    (version[1] * (MaxPart + 1) + version[2]) * (MaxPart + 1) + version[3]
Supported == client.suffix # "prerelease" /\ Rank(client.version) >= Rank(Minimum)

\* A Node that starts has a supported and capable client, a host that implements
\* the contract, no sandbox next to fixed targets, and with fixed targets a key for
\* Claude that comes from one usable place; one that is refused for
\* its client's version has an unsupported one; and whatever the outcome, the
\* lock of the probe's session is given back, so that the next start finds it.
StartTruthful ==
    /\ step = "started" =>
          /\ Supported /\ client.capable
          /\ hosts /\ ~(config.native /\ config.targets)
          /\ config.provider = "claude" /\ config.targets =>
                config.key # (config.keyFile = "private") /\ config.keyFile # "unsafe"
    /\ why = "version" => ~Supported
    /\ step # "sandbox" => scopeLock # "ours"
=============================================================================
