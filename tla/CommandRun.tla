----------------------------- MODULE CommandRun -----------------------------
(***************************************************************************)
(* CommandAdapter.Run: a command whose stdout and stderr are copied, each  *)
(* by a goroutine of its own, into buffers that cancel the request when    *)
(* they overflow, against a timeout, a cancelled run, a command that exits *)
(* by itself, and a child that keeps a pipe open.                          *)
(***************************************************************************)
EXTENDS Naturals, Sequences

CONSTANTS
    OutputLimit,   \* maxAdapterOutputBytes
    MaxSent        \* bound: bytes the command writes to a stream

Streams == {"stdout", "stderr"}

VARIABLES
    process,    \* the command: new, unstarted (it could not be started), running,
                \* exited (with 0), failed, killed; abandoned: exited, with a pipe held
    watch,      \* exec's goroutine that watches reqCtx, and what it hands to Wait
    sent,       \* history: how many bytes the command has written
    pipe,       \* written and not read, by stream
    buf, exceeded,   \* limitedOutputBuffer, by stream
    copying,    \* the goroutines that copy
    ctx,        \* reqCtx: live, or what ended it
    outcome     \* what Handle makes of the run

vars == <<process, watch, sent, pipe, buf, exceeded, copying, ctx, outcome>>

Init ==
    /\ process = "new" /\ watch = "watching" /\ sent = [s \in Streams |-> 0]
    /\ pipe = [s \in Streams |-> <<>>] /\ buf = [s \in Streams |-> <<>>]
    /\ exceeded = [s \in Streams |-> FALSE] /\ copying = [s \in Streams |-> TRUE]
    /\ ctx = "live" /\ outcome = "none"

-----------------------------------------------------------------------------
\* A mutant: a timeout is looked for first.
OutcomeTimeoutFirst(err) ==
    IF err # "nil" /\ ctx = "deadline" THEN "timeout"
    ELSE IF \E s \in Streams : exceeded[s] THEN "limit"
    ELSE IF err = "nil" THEN "success"
    ELSE IF err = "context" THEN "canceled" ELSE "failed"

\* What Run makes of the error of cmd.Run, and normalizeAgentError of Run's: only
\* an error that is the context's own counts as cancelled.
Outcome(err) ==
    IF \E s \in Streams : exceeded[s] THEN "limit"
    ELSE IF err = "nil" THEN "success"
    ELSE IF ctx = "deadline" THEN "timeout"
    ELSE IF err = "context" THEN "canceled" ELSE "failed"

\* cmd.Start: a context that has ended is returned as the error, and a command
\* that cannot be started fails.
Start ==
    /\ process = "new"
    /\ \/ ctx = "live" /\ process' = "running" /\ UNCHANGED outcome
       \/ /\ process' = "unstarted"
          /\ \/ ctx # "live" /\ outcome' = Outcome("context")
             \/ outcome' = Outcome("start")
    /\ UNCHANGED <<watch, sent, pipe, buf, exceeded, copying, ctx>>

\* The command writes one byte.
Send(s) ==
    /\ process = "running" /\ sent[s] < MaxSent
    /\ sent' = [sent EXCEPT ![s] = @ + 1]
    /\ pipe' = [pipe EXCEPT ![s] = Append(@, sent[s] + 1)]
    /\ UNCHANGED <<process, watch, buf, exceeded, copying, ctx, outcome>>

Exit(status) ==
    /\ process = "running"
    /\ process' = status
    /\ UNCHANGED <<watch, sent, pipe, buf, exceeded, copying, ctx, outcome>>

End(cause) == ctx' = IF ctx = "live" THEN cause ELSE ctx

\* limitedOutputBuffer.Write with the n bytes that a copying goroutine read.
Copy(s, n) ==
    LET room == OutputLimit - Len(buf[s])
        taken == IF n <= room THEN n ELSE room
    IN /\ copying[s] /\ outcome = "none"
       /\ buf' = [buf EXCEPT ![s] = @ \o SubSeq(pipe[s], 1, taken)]
       /\ pipe' = [pipe EXCEPT ![s] = SubSeq(@, n + 1, Len(@))]
       /\ IF n > room
          THEN /\ exceeded' = [exceeded EXCEPT ![s] = TRUE]
               /\ copying' = [copying EXCEPT ![s] = FALSE]
               /\ End("overflow")
          ELSE UNCHANGED <<exceeded, copying, ctx>>
       /\ UNCHANGED <<process, watch, sent, outcome>>

Over == {"exited", "failed", "killed"}

\* A goroutine sees the end of its stream.
CopyEnds(s) ==
    /\ copying[s] /\ process \in Over /\ pipe[s] = <<>>
    /\ copying' = [copying EXCEPT ![s] = FALSE]
    /\ UNCHANGED <<process, watch, sent, pipe, buf, exceeded, ctx, outcome>>

\* The run is cancelled, or its timeout passes, before Run returns.
Cancel(cause) ==
    /\ ctx = "live" /\ outcome = "none"
    /\ End(cause)
    /\ UNCHANGED <<process, watch, sent, pipe, buf, exceeded, copying, outcome>>

\* The watcher sees that reqCtx has ended and calls cmd.Cancel, which kills the
\* process group.  When the command has just exited, the signal may still reach
\* its remains or a child (nil), nobody (ErrProcessDone), or be refused.
Interrupt ==
    /\ watch = "watching" /\ ctx # "live"
    /\ \/ process = "running" /\ process' = "killed" /\ watch' = "interrupted"
       \/ process \in Over /\ watch' \in {"interrupted", "done", "refused"} /\ UNCHANGED process
    /\ UNCHANGED <<sent, pipe, buf, exceeded, copying, ctx, outcome>>

\* Wait, which knows of the exit, relieves the watcher before it saw reqCtx end.
Relieve ==
    /\ watch = "watching" /\ process \in Over
    /\ watch' = "done"
    /\ UNCHANGED <<process, sent, pipe, buf, exceeded, copying, ctx, outcome>>

\* A mutant: no WaitDelay is set.
WaitDelayUnset == FALSE /\ UNCHANGED vars

\* A child keeps a pipe open, that of stdin included, for WaitDelay after the end
\* of the command or of reqCtx: the pipes are closed, and an otherwise clean exit
\* becomes an error.
WaitDelay ==
    /\ process \in Over /\ watch # "watching" /\ outcome = "none"
    /\ process' = IF process = "exited" THEN "abandoned" ELSE process
    /\ copying' = [s \in Streams |-> FALSE]
    /\ UNCHANGED <<watch, sent, pipe, buf, exceeded, ctx, outcome>>

\* The error of cmd.Wait: that of the exit, else the watcher's, else that of the
\* copying goroutines.  A command that was killed has failed.
WaitError ==
    IF process \in {"failed", "killed"} THEN "exit"
    ELSE IF watch = "interrupted" THEN "context"
    ELSE IF watch = "refused" THEN "kill"
    ELSE IF process = "abandoned" THEN "delay"
    ELSE IF \E s \in Streams : exceeded[s] THEN "write" ELSE "nil"

Return ==
    /\ process \in Over \cup {"abandoned"} /\ watch # "watching"
    /\ outcome = "none" /\ \A s \in Streams : ~copying[s]
    /\ outcome' = Outcome(WaitError)
    /\ UNCHANGED <<process, watch, sent, pipe, buf, exceeded, copying, ctx>>

Copying(s) == \E n \in 1 .. Len(pipe[s]) : Copy(s, n)

Next ==
    \/ \E s \in Streams : Send(s) \/ Copying(s) \/ CopyEnds(s)
    \/ \E status \in {"exited", "failed"} : Exit(status)
    \/ \E cause \in {"canceled", "deadline"} : Cancel(cause)
    \/ Start \/ Interrupt \/ Relieve \/ WaitDelay \/ Return

Spec == Init /\ [][Next]_vars

-----------------------------------------------------------------------------
\* What Handle makes of a run is what happened.  An output that is parsed is that
\* of a command which exited with 0, and everything it wrote, in order, never the
\* part that fitted or was read before WaitDelay.  An overflow is reported as one
\* whatever else ends the request meanwhile, and only when a stream outgrew its
\* buffer.  A run that its caller cancelled never counts as timed out, nor a
\* command that failed, by itself or by the kill, as cancelled.  And a command that
\* exited with 0, closed its pipes and met no kill keeps its result, although the
\* request may be cancelled or time out before Run has returned.
CommandOutcomeTruthful ==
    /\ outcome = "success" => /\ process = "exited"
                              /\ \A s \in Streams : buf[s] = [i \in 1 .. sent[s] |-> i]
    /\ outcome = "limit" => \E s \in Streams : sent[s] > OutputLimit
    /\ outcome # "none" /\ (\E s \in Streams : exceeded[s]) => outcome = "limit"
    /\ outcome = "timeout" => ctx = "deadline"
    /\ outcome = "canceled" => ctx = "canceled" /\ process \notin {"failed", "killed"}
    /\ outcome # "none" /\ process = "exited" /\ watch = "done" =>
        outcome \in {"success", "limit"}

\* Run returns, however long the command runs and whoever holds its pipes.
RunReturns == <>(outcome # "none")
=============================================================================
