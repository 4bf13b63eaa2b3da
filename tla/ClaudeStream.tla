---------------------------- MODULE ClaudeStream ----------------------------
(***************************************************************************)
(* One invocation of the Claude client by ClaudeProvider.Run.  Its stdout  *)
(* is a stream of JSON lines that arrives cut anywhere; claudeResultStream *)
(* keeps one record and the last result, the observer turns tool events    *)
(* into progress, and stderr goes to a Tail.  The client may exit, fail,   *)
(* be killed in the middle of a record, or leave its pipe to a child.      *)
(***************************************************************************)
EXTENDS Naturals, Sequences, SequencesExt

CONSTANTS
    Tools,         \* ids of tool calls
    RecordLimit,   \* maxProviderOutputBytes, in the parts a record is made of
    ActiveLimit,   \* tool calls the observer remembers (512)
    TailLimit,     \* maxProviderDiagnosticBytes
    MaxRecords,    \* bound: records the client writes
    MaxDiag        \* bound: bytes of diagnostics

\* A record has two parts, an oversized one more than fit.
Records ==
    [type : {"use", "completed", "failed"}, id : Tools]
        \cup [type : {"answer", "error", "invalid", "long"}, id : {"none"}]
Parts(r) == [i \in 1 .. (IF r.type = "long" THEN RecordLimit + 1 ELSE 2) |-> [r EXCEPT !.type = <<@, i>>]]
Newline == [type |-> <<"newline", 0>>, id |-> "none"]
NoResult == [type |-> "none", id |-> "none"]

VARIABLES
    stream,    \* claudeResultStream with its observer
    tail,      \* the Tail behind stderr
    client,    \* the client process
    pipe,      \* what it has written to stdout and was not read
    ctx,       \* requestCtx
    outcome,   \* what the invocation comes to
    wrote,     \* history: the records the client has begun to write
    diag       \* history: how many bytes it has written to stderr

vars == <<stream, tail, client, pipe, ctx, outcome, wrote, diag>>

Init ==
    /\ stream = [pending |-> <<>>, result |-> NoResult, err |-> "none",
                 active |-> {}, progress |-> <<>>]
    /\ tail = <<>> /\ client = "running" /\ pipe = <<>> /\ ctx = "live"
    /\ outcome = "none" /\ wrote = <<>> /\ diag = 0

-----------------------------------------------------------------------------
(* The observer: a tool call is announced in a partial message and again   *)
(* in the whole one, and ends with its result.                             *)

Progress(s, phase, r) == [s EXCEPT !.progress = Append(@, <<phase, r.id>>)]

ObserveLine(s, r) ==
    CASE r.type = "use" /\ r.id \notin s.active /\ Cardinality(s.active) < ActiveLimit ->
            Progress([s EXCEPT !.active = @ \cup {r.id}], "started", r)
      [] r.type \in {"completed", "failed"} /\ r.id \in s.active ->
            Progress([s EXCEPT !.active = @ \ {r.id}], r.type, r)
      [] OTHER -> s

-----------------------------------------------------------------------------
fail(s, err) == [s EXCEPT !.err = err, !.pending = <<>>]

Whole(line) == {r \in Records : r.type # "invalid" /\ line = Parts(r)}

\* A mutant: the first result stays.
consumeFirst(s) ==
    IF s.pending = <<>> THEN s
    ELSE IF Whole(s.pending) = {} THEN fail(s, "invalid")
    ELSE LET r == CHOOSE r \in Whole(s.pending) : TRUE
             t == [s EXCEPT !.pending = <<>>]
         IN IF r.type \in {"answer", "error"}
            THEN IF s.result = NoResult THEN [t EXCEPT !.result = r] ELSE t
            ELSE ObserveLine(t, r)

\* A line that is not one whole record is not JSON.
consume(s) ==
    IF s.pending = <<>> THEN s
    ELSE IF Whole(s.pending) = {} THEN fail(s, "invalid")
    ELSE LET r == CHOOSE r \in Whole(s.pending) : TRUE
             t == [s EXCEPT !.pending = <<>>]
         IN IF r.type \in {"answer", "error"} THEN [t EXCEPT !.result = r] ELSE ObserveLine(t, r)

FirstLine(p) == CHOOSE end \in 0 .. Len(p) :
    /\ \A i \in 1 .. end : p[i] # Newline
    /\ end = Len(p) \/ p[end + 1] = Newline

AppendPending(s, chunk) ==
    IF Len(s.pending) + Len(chunk) > RecordLimit THEN fail(s, "limit")
    ELSE [s EXCEPT !.pending = @ \o chunk]

RECURSIVE Write(_, _)
Write(s, p) ==
    IF p = <<>> \/ s.err # "none" THEN s
    ELSE LET end == FirstLine(p)
             t == AppendPending(s, SubSeq(p, 1, end))
         IN IF end = Len(p) \/ t.err # "none" THEN t
            ELSE Write(consume(t), SubSeq(p, end + 2, Len(p)))

Result(s) == IF s.err = "none" THEN consume(s) ELSE s

\* A mutant: what is kept is measured before the new bytes.
TailWriteLate(data, value) ==
    LET kept == IF Len(data) > TailLimit THEN SubSeq(data, 2, Len(data)) ELSE data
    IN kept \o value

TailWrite(data, value) ==
    LET n == Len(value)
        excess == Len(data) + n - TailLimit
    IN IF n >= TailLimit THEN SubSeq(value, n - TailLimit + 1, n)
       ELSE (IF Len(data) + n > TailLimit THEN SubSeq(data, excess + 1, Len(data)) ELSE data) \o value

-----------------------------------------------------------------------------
Alive == client \in {"running", "closing"}

\* The client writes a record; the last one may lack its newline.
Produce(r, newline) ==
    /\ client = "running" /\ Len(wrote) < MaxRecords
    /\ pipe' = pipe \o Parts(r) \o newline
    /\ client' = IF newline = <<>> THEN "closing" ELSE client
    /\ wrote' = Append(wrote, r)
    /\ UNCHANGED <<stream, tail, ctx, outcome, diag>>

Diagnose(n) ==
    /\ Alive /\ diag + n <= MaxDiag
    /\ tail' = TailWrite(tail, [i \in 1 .. n |-> diag + i])
    /\ diag' = diag + n
    /\ UNCHANGED <<stream, client, pipe, ctx, outcome, wrote>>

\* exec.Cmd passes on whatever it has read.  An error of Write ends the copy
\* and cancels the request, which kills the client.
Copy(n) ==
    /\ outcome = "none"
    /\ stream' = Write(stream, SubSeq(pipe, 1, n))
    /\ IF stream'.err = "none"
       THEN pipe' = SubSeq(pipe, n + 1, Len(pipe)) /\ UNCHANGED <<client, ctx>>
       ELSE /\ pipe' = <<>>
            /\ ctx' = IF ctx = "live" THEN "canceled" ELSE ctx
            /\ client' = IF Alive THEN "killed" ELSE client
    /\ UNCHANGED <<tail, outcome, wrote, diag>>

Exit(status) ==
    /\ Alive
    /\ client' = status
    /\ UNCHANGED <<stream, tail, pipe, ctx, outcome, wrote, diag>>

\* The caller cancels, or the request times out: the process group is killed,
\* wherever it was in writing a record.
Cancel(cause) ==
    /\ ctx = "live" /\ outcome = "none"
    /\ ctx' = cause
    /\ IF Alive THEN client' = "killed" /\ \E n \in 0 .. Len(pipe) : pipe' = SubSeq(pipe, 1, n)
       ELSE UNCHANGED <<client, pipe>>
    /\ UNCHANGED <<stream, tail, outcome, wrote, diag>>

\* A child keeps the pipe open beyond WaitDelay: the rest is not read, and
\* Run reports an error.
WaitDelay ==
    /\ client \in {"exited", "failed", "killed"} /\ outcome = "none"
    /\ client' = IF client = "exited" THEN "failed" ELSE client
    /\ pipe' = <<>>
    /\ UNCHANGED <<stream, tail, ctx, outcome, wrote, diag>>

Outcome(s) ==
    IF s.err # "none" THEN s.err
    ELSE IF ctx # "live" THEN ctx
    ELSE IF client # "exited" \/ s.result.type # "answer" THEN "failed"
    ELSE "success"

Finish ==
    /\ client \in {"exited", "failed", "killed"} /\ pipe = <<>> /\ outcome = "none"
    /\ stream' = Result(stream)
    /\ outcome' = Outcome(stream')
    /\ UNCHANGED <<tail, client, pipe, ctx, wrote, diag>>

Next ==
    \/ \E r \in Records, newline \in {<<Newline>>, <<>>} : Produce(r, newline)
    \/ \E n \in 1 .. MaxDiag : Diagnose(n)
    \/ \E n \in 1 .. Len(pipe) : Copy(n)
    \/ \E status \in {"exited", "failed"} : Exit(status)
    \/ \E cause \in {"canceled", "deadline"} : Cancel(cause)
    \/ WaitDelay \/ Finish

Spec == Init /\ [][Next]_vars

-----------------------------------------------------------------------------
WellFormed == \A i \in 1 .. Len(wrote) : wrote[i].type \notin {"invalid", "long"}
Results == SelectSeq(wrote, LAMBDA r : r.type \in {"answer", "error"})

\* However its output was cut, an invocation succeeds exactly when the client
\* exited cleanly in time, wrote nothing but records, and its last result is
\* an answer; and that is the result taken.
SuccessIsLastAnswer ==
    outcome # "none" =>
        /\ (outcome = "success") <=>
              /\ client = "exited" /\ ctx = "live" /\ WellFormed
              /\ Results # <<>> /\ Last(Results).type = "answer"
        /\ outcome = "success" => stream.result = Last(Results)

\* The progress of a tool call is started, then completed or failed, however
\* often the client announces it.
ProgressPaired ==
    \A t \in Tools :
        LET of == SelectSeq(stream.progress, LAMBDA p : p[2] = t)
        IN /\ \A i \in 1 .. Len(of) : (of[i][1] = "started") <=> (i % 2 = 1)
           /\ (t \in stream.active) <=> (Len(of) % 2 = 1)

\* Tail: "Retain only the latest bytes".  The text that is searched for a
\* missing session is the end of what the client wrote, without a gap.
TailIsSuffix ==
    /\ Len(tail) = (IF diag < TailLimit THEN diag ELSE TailLimit)
    /\ \A i \in 1 .. Len(tail) : tail[i] = diag - Len(tail) + i

\* A cancelled run of a well-behaved client is reported as cancelled, or as
\* timed out ("A cancellation lost").
CancellationReported ==
    outcome # "none" /\ ctx # "live" /\ WellFormed => outcome = ctx
=============================================================================
