# TLA+ models of the OpenLinker Agent Node

The Agent Node is a process on an operator's host that takes runs from OpenLinker
Core, executes each with a backend (a Codex or Claude client, a command, an HTTP or
A2A service), and reports events and a result. The hard part is not any single run:
it is what concurrent runs, restarts, cancellations and unreliable peers do to the
state they share. This directory models that part in TLA+, checks it with TLC on
small instances, and proves eight of the models correct with TLAPS for all sizes.

`PROJECT.json` lists every run, the source lines behind every definition, the
findings, the hazards and the theorems.

## The system and its parts

| Part | State | Who changes it |
|---|---|---|
| Node lifecycle (`main.go`, `node.go`) | started, lifetime, worker, done | `main`, `Start`, any caller of `Stop` |
| Local helper (`helper_server.go`) | server, token table, listener | `Start`, `Stop`, its watcher, HTTP handlers, runs |
| Public A2A listener (`public_a2a_server.go`) | server, proxy, watcher channel per generation | `Start`, `Stop`, watchers, requests |
| Response writer (same file) | status, hold flag, buffer | the SDK's reverse proxy, then `finish*` |
| Delegation broker (`agentdelegation`, `delegation.go`) | request table, `calls`, readiness | MCP connections, the parent's goroutine, Core |
| Provider sessions (`providersession`, `session.go`, `host_auth_gate.go`, `sessionsandbox`) | lock table, store file, lock files | runs of one or several Node processes |
| Codex RPC client (`codexrpc`) | pending calls, queues, `done` | callers, two pumps, `Close`, the app-server |
| Codex turn (`codexturn`, `codex.go`) | process, thread, turn, events | the run, the app-server, cancellation |
| Claude invocation (`claude.go`, `claude_output.go`, `providerstream`) | partial record, result, tools, tail | the client, copy goroutines, cancellation |
| Descendant tracker (`descendants_darwin.go`) | recorded process identities | a ticker, `finish`, the kernel |
| Skill package cache (`skillpackages`) | files, marker, recovery copies | loads in several processes, tools of the same user |
| Command adapter (`adapter_command.go`) | two buffers, a context | the command, copy goroutines, the timeout |
| HTTP and A2A adapters (`adapter_http.go`, `adapter_a2a.go`, `adapter_result.go`) | a request, its answer so far | the remote server, the network, the timeout |
| Transport host (`agenthost`) | the verified binary, a mutex | runs that need bound tools, the operator |
| Codex homes (`codexhome`) | attempt directories, shared login and rollouts | attempts of several Nodes, clients, the operator |
| Start (`preflight.go`, `providerpreflight`, `native_credentials.go`) | the checks passed so far, the probe's session lock | Nodes that start together |
| Session roots and tool policy (`session_isolation.go`, `sessionsandbox`, `native_tool_policy.go`) | directories, a link, the paths tools may use | the start, a session, a first login |
| Git exclude file (`skillpackages/git.go`) | one file of the repository | loads that share no lock, the operator |

How they interact: a start passes the preflight checks; `Node.Start` starts the helper
and the listener and then the SDK worker; the worker hands runs to `Handle`, which opens a helper token and calls an
adapter. A provider adapter loads skill packages (and keeps their cache out of Git),
asks for the transport host and wraps itself in a delegation broker when its run has
tools, takes the session locks, opens the session's directories and their tool policy,
resumes or creates a client session and drives the client (Codex in a home of its own,
through the turn and its RPC client, Claude through its stream). On macOS the tracker
follows the client's processes.

Behaviours that make this hard: goroutines that queue on one mutex held across remote
calls; answers that are lost or late; a lock table whose entries are deleted while
others wait; two processes that share a store and lock files; watchers that race with
`Stop`; records cut anywhere by pipes; process ids that are reused; bounded buffers
and queues at their limits; and crashes while locks are held.

## Modules

| Module | Models | Properties |
|---|---|---|
| `DelegationBroker` | the broker and `delegationProvider.Run`; Core is external | one child at a time, none forgotten, permanent records, truthful receipts, liveness |
| `DelegationPromise` | what the broker promises, with no broker in it | abstract specification |
| `SessionLock` | `providersession.Lock` over reference-counted entries | exclusion, no leak (proved), liveness |
| `KeyMutex` | one permanent mutex per key | abstract specification |
| `ProviderSession` | a provider run and the session, store and locks it shares | history, scope, exclusion, release, persistence, liveness |
| `CodexRpc` | the stdio JSON-RPC client | own answers, requests refused, liveness |
| `CodexTurn` | `codexturn.Run` and the recovery attempt | own turn, cleanup reported, nothing left, no second turn, liveness |
| `ClaudeStream` | stdout records, progress, stderr tail, outcome | last answer, paired progress, exact tail |
| `DescendantTracker` | snapshot, prune, capture, kill | only descendants, truthful result |
| `SkillCache` | `Load` with marker, files and recovery copies | pinned content, no overwrite, needed copies |
| `PublicA2AServer` | generations of the listener | closed once, nothing orphaned, proxies outlive requests, liveness |
| `ProxyResponse` | the buffering response writer | whole bodies, kept status |
| `NodeLifecycle` | `main`, `Start`, `Stop`, helper goroutines, tokens | tokens die, nothing left, clean exit, liveness |
| `HelperRequests` | `handleEvent` and `handleCallAgent` | effects stay in their run, truthful answers |
| `CommandRun` | `CommandAdapter.Run` | whole output, reported cause, liveness |
| `RemoteRun` | `HTTPAdapter.Run`, `A2AAdapter.Run` and what `Handle` makes of their return | truthful report, liveness |
| `AgentHost` | `agenthost.Resolver` and its use by runs | own handshake, liveness |
| `CodexHome` | `codexhome.Prepare` and its cleanup | login and rollouts kept, directories only after crashes |
| `Preflight` | `NativeAdapter.Preflight` and what it calls | truthful start, probe session given back |
| `SessionPaths` | session roots, session directories, tool policy | what was checked before it existed still holds |
| `GitExclude` | `protectSkillPackageCache` | operator's lines kept, cache stays ignored |

Each `...Proofs` module extends the model it is named after and holds its theorems:
`DelegationBrokerProofs`, `SessionLockProofs`, `CodexRpcProofs`,
`PublicA2AServerProofs`, `HelperRequestsProofs`, `CommandRunProofs`,
`AgentHostProofs`, `CodexHomeProofs`.

`MCDelegationBroker`, `MCProviderSession` and `MCCodexRpc` extend one of these with the
small instances their `.cfg` files choose from. Four more put parts side by side that
share no variable: `MCSessionSetup` (`SessionLock`, `GitExclude`, `CodexHome`,
`Preflight`, `SessionPaths`), `MCBackends` (`CodexTurn`, `ClaudeStream`, `CommandRun`,
`RemoteRun`), `MCServices` (`PublicA2AServer`, `NodeLifecycle`, `ProxyResponse`,
`HelperRequests`, `AgentHost`) and `MCHost` (`DescendantTracker`, `SkillCache` in its
three modes).
Their initial predicate picks the part that moves. Since no part reads or writes a
variable of another, what a part can do beside the others is what it can do alone, and
a property of one part is checked on exactly the behaviours of its own module without
the product of unrelated states.

### Correspondence with the code

* **Grain.** A step is the code between two points where another goroutine or process
  can interfere: a lock operation, a channel operation, a callback, a system call. A
  section under a mutex that only touches memory is one step. `calls` in the broker is
  held across callbacks, so its section is several steps and the mutex is a variable.
* **External parties** are nondeterministic within what the code can observe. Core may
  execute a `CallAgent` after the broker gave up on it, or never; the idempotency key
  (parent run and request key) makes it create one child per key. The app-server
  answers late, twice or never. A client exits, fails or is killed anywhere. The SDK
  worker is the start/stop contract `node.go` relies on.
* **Data** is what the properties tell apart: a session scope is a model value, an
  output is a sequence of numbered bytes, a record has parts a pipe can cut.
* `DelegationBroker`: `Serve`, `Announce`, `MarkReady` are `dispatch` and the head of
  `callTool`; `Delegate*`, `Scan*`, `Call*` are `delegate_agent`; `LockRead`, `Read*`
  are get and wait; `Ensure*` is `EnsureComplete`; `Close`, `CloseDone` are the deferred
  `Close`. The child of a request key is identified with the key.
* `ProviderSession`: stages follow `CodexProvider.Run` and `ClaudeProvider.Run`, with
  the deferred releases as steps of their own. `Crash(n)` kills a process: its flocks
  are released, its store update is either done or not (temporary file and rename).
* `CodexTurn` sees the RPC client as what `Run` uses of it: a result per call, an event
  channel, a `done` channel; `CodexRpc` models its inside. `Call` chooses at random
  between `done` and an answer that has arrived, as Go's `select` does.
* `PublicA2AServer`: a generation number stands for the `*http.Server` pointer that
  `stopGeneration` compares. A request of a draining generation may read the next
  generation's proxy; `ProxyOutlivesRequests` speaks of a request's own generation.
* `DescendantTracker`: the lookup and the `kill` are one step; the source documents that
  this window cannot be closed on macOS.
* `CommandRun`: beside the command, its copying goroutines and `Wait`, `watch` is the
  goroutine of `os/exec` that calls `cmd.Cancel` when the context ends (`Interrupt`),
  unless `Wait` relieves it first (`Relieve`). A signal to the group of a command that
  has just exited may reach its remains or a child, nobody, or be refused. `WaitError`
  is the order in which `os/exec` prefers errors (the exit's, the watcher's, the
  copying goroutines'), `Outcome` the order in which the adapter looks at them. A signal
  to a running command always kills it.
* `RemoteRun`: an answer is its headers and then pieces of a body; the connection may
  break, the timeout pass or the run be cancelled before each. A body is one of the
  shapes `normalizeAdapterResult` tells apart: no map, or a map with or without a
  status and an output, nested once. The SDK's A2A client is external: it returns the
  whole result or an error.
* `AgentHost`: a run that holds the mutex and finds no binary does the handshake itself;
  the operator may replace the binary between two handshakes. `Init` takes the
  handshake of a Node with fixed targets as done, since its start depends on it.
* `CodexHome`: the links of an attempt are flags, what they point at is shared. A client
  that refreshes its login writes in place, which is the shared file only through a
  link. `RemoveAll`, whose error the code
  ignores, is taken to succeed.
* `Preflight` compares `versionAtLeast` with the order of versions as numbers, over all
  versions with small components. Claude's key is absent, in the environment, in a
  private file, in an unsafe one, or in two places. Another Node may hold the lock of the probe's scope at
  any time.
* `SessionPaths`: a path is a sequence of names, and one directory may be a symbolic
  link to another. `canonicalProspectivePath` resolves the deepest existing ancestor, as
  the code does. A link that points nowhere is left out.
* `GitExclude`: the file is a sequence of lines and newlines. An append is one step
  (`O_APPEND` and a single short write); a failed close may follow a successful write.
* `SkillCache` has one package, since the packages of a snapshot lie in directories of
  their own. A crash leaves only temporary names that nothing reads.

## Runs

| Run | Instance | Shows |
|---|---|---|
| `delegation` | two connections, two keys; every order of lost, late and rejected calls | one child runs at a time, none is forgotten, and the broker implements `DelegationPromise` |
| `delegation_bound` | one owner-selected tool, two argument digests, fair | receipts of use are true, records are permanent, `Close` returns |
| `session_setup` | three runs, two keys, three lock entries, fair; two loads and two saves of an exclude file; three Codex attempts, three credentials, two rollouts; versions with components 0 and 1; every placement of one link among three directories, two roots, two temps, two logins, three sets of readable paths | exclusion, refinement of `KeyMutex`, nobody starves; operator's lines and the rule are kept; login and rollouts are kept; a start is what it claims; the policy keeps credentials and state apart |
| `sessions` | two runs, two keys, native and standard configurations in which a process (or the sandbox) owns its store; the store empty or with a session left by an earlier run; crashes | clients of one session, and of a serial host, exclude each other; every lock is released; a success is remembered and nobody else's record lost; runs finish |
| `session_history` | two runs in two processes on one unprotected store, two keys, two client modes, corrected histories, a cursor of two entries | no message is omitted, a session stays in its scope |
| `rpc` | two callers, two calls, three messages of the server, every queue of capacity one | an answered call got its own answer, server requests are refused, calls return |
| `backends` | Codex: both attempts, an event channel of two, two foreign notifications. Claude: two records of two parts against a record limit of two, one remembered tool, three diagnostic bytes against a tail of two. Command: three bytes per stream against a limit of two. HTTP and A2A: every answer in two pieces | a success is the run's own, whole and last answer; a remote report is what the server said; nothing is left behind silently; causes are named; runs return |
| `services` | two generations of the listener, a caller of `Stop` beside the Node's own and the watchers, one request; the process with a caller of `Stop` beside `main` and two runs; four chunks around a buffer of two; two helper requests and two runs; two runs that need the host, replaced up to twice | generations are closed once and outlive their requests; a stopped Node has returned and leaves no helper; responses arrive whole; helper effects reach their run; a run fails only by its own handshake; what is stopped or asked ends |
| `host` | three process ids, four starts, a limit of two; two loads, two copies, two files, two damages, three cache modes | only descendants are killed, the result of the cleanup is true; a load returns pinned content and leaves damage alone |

The instances are the smallest in which the hazards happen: two actors that race, and
a third where the race needs a bystander (session locks, process ids); two keys
where two things must be kept apart; every limit low enough to be reached and passed;
every retry possible at least once. Each property is broken by a small change of the
definition it speaks about (the `mutants` of `PROJECT.json`), so the instance does
reach the case.

Deadlock is not checked. Most models describe a finite piece of work (a request, a run,
a process), and its end is a state without successors; where something must not get
stuck, a liveness property says so (`WaitersEnter`, `RunsFinish`, `NobodyWaits`,
`BackendsReturn`, `ServicesEnd`, `CloseReturns`).

One request to the listener is enough for `ProxyOutlivesRequests`, which speaks of one
request against the generations; the helper has a constant of its own (`HelperCalls`)
because two of its requests can disagree about one run.

### Disagreements with comments and tests

Three runs expect a violation. Each states what a comment or a test of the repository
says, and TLC shows a behaviour of the code against it.

| Run | What is said | What happens |
|---|---|---|
| `delegation_success` | `broker.go:463`: `EnsureComplete` prevents a still-running child behind a success | a queued `delegate_agent` runs between its unlock and `Close` |
| `node_helper` | `helper_server.go:75`: the helper is silent | `Serve` on a nil server, if `Stop` comes before the goroutine runs |
| `claude_cancel` | `session_isolation_concurrency_test.go:150`: a cancelled run says so | the cut record is reported as invalid output |

Six smaller observations come from the same models:

* `tools/list` emits its ready receipt (`broker.go:235`) before it stores `toolsReady`
  (line 239); a provider that fails in between gets the failed receipt as well. A
  successful parent never has both (`ReceiptsTruthful`).
* `stopAdapters` cancels the lifetime before it calls `Stop`; the watcher may then own
  the shutdown, and `Stop` returns while the proxy is still open. It is closed all the
  same, and once (`ServicesEnd`, `GenerationsKept`).
* `publicA2AProxyResponseWriter.WriteHeader` takes an informational (1xx) status for the
  final one, and the final status is dropped. What `ResponseIntact`
  says of the status is said of responses without one.
* A command that is killed because its run was cancelled ends with an exit error
  ("signal: killed"), which `os/exec` prefers to the context's. `normalizeAgentError`
  does not recognise it (`adapter_result.go:89`), and the run is reported as
  `AGENT_NODE_ERROR`. `ADAPTER_CANCELED` is left to a command that was not started, or
  that exited with 0 just as it was killed. Timeouts are told by the context
  (`adapter_command.go:59`) and do not depend on this. No document or test promises the
  code for a command, so no run expects a violation.
* An HTTP answer with a 2xx code whose body is cut off or does not decode is a success
  with an empty output, since the decoding error is dropped (`adapter_http.go:51`).
  `RemoteReportTruthful` allows that, and says that a part of a body is never an output.
* Of three first loads of one package cache, one can find its marker link refused by a
  second and that marker removed by a third (`recovery.go:68`, `:76`); it then returns
  the link error.

## Fairness

Safety needs no fairness. For liveness (`MCServices` and `MCBackends` state the
fairness of the parts they hold, each under the condition that the part moves):

* `DelegationBroker`: a goroutine that can run does; the mutex is strongly fair (Go's
  mutex hands over to a waiter after a millisecond); the provider ends, because its run
  has a timeout; Core need not answer, because every callback has a 30 second context;
  a cancelled connection is closed by `Close`.
* `SessionLock`, `ProviderSession`: strong fairness of acquiring a mutex, weak fairness
  of a run's own steps, and of its cancellation (the request timeout is always set).
  Polling for the host's lock file is not assumed to succeed.
* `CodexRpc`: the client's goroutines run, and strong fairness of a caller's `Send`
  (Go's channels serve blocked senders in order). The server is assumed to take
  and answer what it is sent, whatever else it sends: `NobodyWaits` says that the client
  then hands every answer over, with no help from a caller's cancellation.
* `CodexTurn`: the run's own steps and cancellation (default timeout 30 minutes). A
  server that floods events can delay cancellation, since the loop drains events first;
  `MaxNoise` bounds the flood.
* `PublicA2AServer`, `NodeLifecycle`: goroutines that can run do, shutdown contexts
  expire or drain, and the SDK worker returns from a cancelled `Start`. Only `main` is
  sure to call `Stop`, and only after a signal.
* `CommandRun`: the steps of `Run` and of the watcher, and the deadline and `WaitDelay`,
  which are always set. Neither the command
  nor a child that holds a pipe is assumed to end.
* `RemoteRun`: the adapter's own steps and its timeout, which is always set. Nothing is
  assumed of the server or the network.
* `AgentHost`: strong fairness of taking the mutex, and the five seconds of a handshake.
  No context is assumed to be cancelled, and queued runs do not look at theirs.

## Proofs

All theorems hold for every value of the constants under the named assumptions of
their modules, which only say that the sets are what their names say, that limits are
numbers and that special values are not members: `ConnsAssumption`, `KeysAssumption`,
`LimitAssumption` (broker), `EntriesAssumption`, `FreeAssumption` (locks),
`LimitAssumption`, `BoundAssumption`, `NoneAssumption` (RPC), `BoundAssumption`,
`NamesAssumption` (listener). `CommandRun`'s theorem states its own premise, `Limits`.

**DelegationBroker.** `OneChildAtATime` and `NoForgottenChild` are not inductive: that
a new child is safe depends on what the holder of `calls` has already established.
`IInv` adds who holds the mutex (`LockOwner`), that a handler waiting for Core has its
key recorded, unresolved and under its own digest (`CallRecorded`), that at most one
request is open (`OneOpen`), and that a cached terminal mark is true
(`TerminalIsTrue`). Steps that leave the table alone are dispatched by lemmas on what
they change (`Quiet`, `Moving`, `Releasing`, `Taking`); the few that change it are
treated one by one in `InvInside`. From `IInv` follow `OneChild`, `NothingForgotten`,
`Permanence` (an action property) and, with `OutcomeUnset`, `Refinement`: every step
of the broker is a step of `DelegationPromise` or leaves it unchanged.
`TruthfulReceipts` rests on `ReceiptInv`: the receipt comes before the flag and before
the goroutine of a bound tool goes for the mutex (`ReadyBefore`), a goroutine about to
report use has read a child that succeeded, and "failed" is emitted only on the way out.

**SessionLock.** `IInv` says that each count is the number of the entry's users
(`Counted`), that the table points to the entry its users share (`Pointing`,
`OwnEntry`, `Used`) and that mutex holders are exactly the runs inside (`Holding`).
The step that matters is the last one to leave: its count of zero means that nobody
points at the entry, so deleting it cannot strand a waiter. `Exclusion`, `NoLeak` and
`Implements` (refinement of `KeyMutex`) follow. `IInv` and `NoEntryLeaks` are not
repeated in a run: the proof covers every instance.

**CodexRpc.** `OwnAnswer`: a call that returns nil got the answer to itself. The
invariant follows ids wherever they are (calls in flight, write queue, both pumps, the
server, response channels): no two places disagree about the call an id stands for
(`IdsAgree`), since only `Register` brings one in, and a fresh one. `CauseFirst` says
that `done` is closed after the cause is recorded, so a call woken by it has an error.

**PublicA2AServer.** `OnePairOfHands` is `GenerationsKept`. A proxy, from its creation
to its close, and a server with its `lifetimeStop` are each followed through the
fields, the callers of `Stop` and the owner's local variable (`OneProxy`, `OneServer`);
a watcher only ever takes its own generation (`OwnWatcher`), and while the Node's own
`Stop` runs no new generation appears (`OwnerWaits`).

**HelperRequests.** `EffectsAccountedFor`: the table holds only running runs, the
session of a request past authentication is its token's, and only an answered request
has had an effect.

**CommandRun.** `OutcomeIsTrue`: while a buffer has not overflowed, it and the pipe
together are what the command wrote, in order (`Intact`), and a goroutine has stopped
copying only at an overflow, at the end of the pipe, or when the exit is no clean one.
That only a cancelled run is reported as cancelled needs two facts more: the watcher
interrupts only after the context has ended, and a context ended by an overflow has an
overflowed buffer, which is reported first.

**AgentHost**, **CodexHome.** `OwnHandshake`: a Node with fixed targets never forgets
its binary, so no run of it comes to a handshake. `StateKept`: what the property says
of a running client is said for every step of `Prepare`.

The properties of `HelperRequests`, `CommandRun`, `AgentHost` and `CodexHome` are
checked in runs whose modules take them through INSTANCE; the theorems are about the
modules themselves.

**Only model-checked:** all liveness; every module not named above; what the recursive
and fold-based operators compute (`ClaudeStream`'s record parsing, the history cursor
of `ProviderSession`) and `versionAtLeast` against the order of numbers.

## Abstractions to keep in mind

* A client is assumed to keep the context of a session it resumes.
* `ClientModeGeneration`, and store files that are damaged or have unsafe modes, are
  left out. A client orphaned by a Node crash is not counted as running.
* `storeMu` belongs to one process: two standard-mode processes can lose each other's
  record. `SuccessIsRemembered` and `OthersRecordsKept` are therefore checked where a
  process (or the sandbox) owns the store; `NeverOmits` and `SessionStaysInScope` hold
  with lost updates too.
* A helper request that was authenticated may reach its run after the run's session was
  closed; the SDK refuses it there.
* Short writes to the exclude file, errors of `RemoveAll` and links that point nowhere
  are left out.
* Recovery copies beyond the 1024 entries that one listing returns are not seen;
  `CacheDamageIsLeftAlone` speaks of the listed ones.

## Not modelled

Parsing and validation of configuration, command lines, prompts, file permission
checks, the rendering of the tool policy for each client and `nativeLinuxReadDenies`,
conversions of native results, agent cards and header filtering, generated protocol
types, the Codex progress mapping, Windows variants, auxiliary commands and test
support. They are sequential computations or I/O on inputs, without shared state.
`PROJECT.json` gives a reason for each.

## Plan

1. Compositions: `CodexTurn` over `CodexRpc` in place of its summary of the client;
   `NodeLifecycle` with `PublicA2AServer` for the whole of `stopAdapters`; `SkillCache`
   with several packages.
2. Abstract specifications: a proxy that is open, draining or closed once, for
   `PublicA2AServer`; an atomic session per conversation, for `ProviderSession`.
3. Proofs: `NodeLifecycle` (`NodeEndsClean`), `Preflight` and `RemoteRun`, `SkillCache`
   (`DamageIsLeftAlone`, `LoadedIsPinned`).
