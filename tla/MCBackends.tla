----------------------------- MODULE MCBackends -----------------------------
(***************************************************************************)
(* The backends that can carry out a run, for TLC: Codex, Claude, a        *)
(* command, or another server over HTTP or A2A.  A Node is configured with *)
(* one of them (BACKEND), so Init picks the one that runs; the others stay *)
(* as they are.                                                            *)
(***************************************************************************)
EXTENDS CodexTurn

CONSTANTS
    Backends,      \* the backends to choose from
    Tools, RecordLimit, ActiveLimit, TailLimit, MaxRecords, MaxDiag,
    OutputLimit, MaxSent,
    Pieces

VARIABLES
    backend,       \* the one that was configured
    stream, tail, client, stdout, requestCtx, claudeOutcome, wrote, diag,
    command, watch, sent, pipe, buf, exceeded, copying, reqCtx, commandOutcome,
    adapter, reply, wire, remoteCtx, remotePc, remoteOutcome

claude == <<stream, tail, client, stdout, requestCtx, claudeOutcome, wrote, diag>>
commandRun ==
    <<command, watch, sent, pipe, buf, exceeded, copying, reqCtx, commandOutcome>>
remote == <<adapter, reply, wire, remoteCtx, remotePc, remoteOutcome>>

Claude == INSTANCE ClaudeStream WITH
    pipe <- stdout, ctx <- requestCtx, outcome <- claudeOutcome
Command == INSTANCE CommandRun WITH
    process <- command, ctx <- reqCtx, outcome <- commandOutcome
Remote == INSTANCE RemoteRun WITH
    ctx <- remoteCtx, pc <- remotePc, outcome <- remoteOutcome

\* The one initial state of what stands still.
RemoteIdle == adapter = "http" /\ reply.code = 200 /\ reply.body = Remote!Null /\ reply.json

InitOne ==
    /\ backend \in Backends
    /\ Init /\ Claude!Init /\ Command!Init /\ Remote!Init
    /\ backend # "codex" => ~session
    /\ backend # "remote" => RemoteIdle

CodexNext == backend = "codex" /\ Next /\ UNCHANGED <<backend, claude, commandRun, remote>>
ClaudeNext ==
    backend = "claude" /\ Claude!Next /\ UNCHANGED <<backend, vars, commandRun, remote>>
CommandNext ==
    backend = "command" /\ Command!Next /\ UNCHANGED <<backend, vars, claude, remote>>
RemoteNext ==
    backend = "remote" /\ Remote!Next /\ UNCHANGED <<backend, vars, claude, commandRun>>

NextOne == CodexNext \/ ClaudeNext \/ CommandNext \/ RemoteNext

SpecOne == InitOne /\ [][NextOne]_<<backend, vars, claude, commandRun, remote>>

\* Codex: Run's own steps are taken, its timers fire, and the request's timeout
\* cancels it; the app-server owes nothing.
CodexOn == backend = "codex"
CodexFairness ==
    WF_vars(CodexOn /\ Waits) /\ WF_vars(CodexOn /\ CallEnds) /\ WF_vars(CodexOn /\ Cancel)

\* Command: the timeout is always set, and so is WaitDelay; Run starts the command
\* and its watcher sees the end of either; the command need not exit.
CommandOn == backend = "command"
CommandFairness ==
    /\ WF_commandRun(CommandOn /\ Command!Cancel("deadline"))
    /\ WF_commandRun(CommandOn /\ Command!Start)
    /\ WF_commandRun(CommandOn /\ (Command!Interrupt \/ Command!Relieve))
    /\ WF_commandRun(CommandOn /\ Command!WaitDelay)
    /\ WF_commandRun(CommandOn /\ Command!Return)

\* Remote: the adapter always sets a timeout, and what its goroutine can do is
\* done; the server owes nothing.
RemoteOn == backend = "remote"
RemoteFairness ==
    /\ WF_remote(RemoteOn /\ Remote!End("deadline"))
    /\ WF_remote(RemoteOn /\ (Remote!Send \/ Remote!CallFails))
    /\ WF_remote(RemoteOn /\ Remote!Read)

FairSpecOne == SpecOne /\ CodexFairness /\ CommandFairness /\ RemoteFairness

-----------------------------------------------------------------------------
\* Every run returns: Codex with an app-server that may fall silent at any point,
\* a command however long it runs and whoever holds its pipes, HTTP and A2A
\* whatever the server does.
BackendsReturn ==
    /\ backend = "codex" => RequestReturns
    /\ backend = "command" => Command!RunReturns
    /\ backend = "remote" => Remote!RunReturns

\* Claude: however its output was cut, an invocation succeeds exactly when the
\* client exited cleanly in time and its last result is an answer.
ClaudeSuccessIsLastAnswer == Claude!SuccessIsLastAnswer

\* Claude: what the observer and the Tail report of the client is in step with
\* what it wrote: progress is paired, diagnostics are a suffix.
ClaudeObserved == Claude!ProgressPaired /\ Claude!TailIsSuffix

\* Claude: a cancelled run of a well-behaved client is reported as cancelled.
ClaudeCancellationReported == Claude!CancellationReported

\* Command: the outcome of a run names what happened, and a success is the
\* whole output.
CommandOutcomeTruthful == Command!CommandOutcomeTruthful

\* HTTP and A2A: what is reported is what came of the request.
RemoteReportTruthful == Remote!ReportTruthful
=============================================================================
