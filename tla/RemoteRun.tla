------------------------------ MODULE RemoteRun ------------------------------
(***************************************************************************)
(* The two adapters that hand a run to another server, HTTPAdapter.Run and *)
(* A2AAdapter.Run, and what runtimeAdapterHandler.Handle makes of their    *)
(* return: an answer that arrives in pieces, against a connection that     *)
(* breaks, the adapter's timeout, a cancelled run and a panic.  HTTP reads *)
(* the body itself and tolerates one that does not decode; the A2A client  *)
(* of the SDK returns only once it has the whole result.                   *)
(***************************************************************************)
EXTENDS Naturals, Sequences, SequencesExt

CONSTANT Pieces   \* bound: the pieces a body arrives in

Null == [kind |-> "null"]
Text == [kind |-> "text"]
Empty == [kind |-> "empty"]                  \* JSONMap{}
Rest == [kind |-> "rest"]                    \* the other keys of a map
Map(status, output) == [kind |-> "map", status |-> status, output |-> output]

Statuses == {"", "null", "success", "failed"}   \* "": no status at all
Outputs == {<<>>, <<Null>>, <<Text>>, <<Map("failed", <<>>)>>, <<Map("failed", <<Text>>)>>}
Bodies == {Null, Text} \cup {Map(s, o) : s \in Statuses, o \in Outputs}

\* Where an A2A result may hold its task's state, in the order they are read.
Places == <<"task", "statusUpdate", "artifactUpdate", "status">>
States == {"", "completed", "failed"}
Results == {r \in [{Places[i] : i \in 1 .. 4} -> States] : r["artifactUpdate"] = ""}

VARIABLES
    adapter,    \* the configured one
    reply,      \* what the server answers: a code, a body, an A2A result
    wire,       \* headers: whether they arrived; got: pieces of the body; up
    ctx,        \* reqCtx: live, or what ended it
    pc,         \* where Run is
    outcome     \* the RuntimeResult

vars == <<adapter, reply, wire, ctx, pc, outcome>>

Whole == wire.got = Pieces
NoOutcome == [status |-> "none", output |-> Null, code |-> ""]
Good(code) == code >= 200 /\ code < 300

Init ==
    /\ adapter \in {"http", "a2a"}
    /\ reply \in [code : {200, 299, 300}, json : BOOLEAN, body : Bodies, result : Results]
    /\ adapter = "a2a" => reply.body = Null
    /\ adapter = "http" => reply.result = [p \in {Places[i] : i \in 1 .. 4} |-> ""]
    /\ ~reply.json => reply.body = Null
    /\ wire = [headers |-> FALSE, got |-> 0, up |-> TRUE]
    /\ ctx = "live" /\ pc = "configured" /\ outcome = NoOutcome

-----------------------------------------------------------------------------
\* Handle on an error of the adapter: normalizeAgentError.
Fails(cause) ==
    /\ pc' = "returned"
    /\ outcome' = [status |-> "failed", output |-> Null,
                   code |-> IF cause = "canceled" THEN "ADAPTER_CANCELED" ELSE "AGENT_NODE_ERROR"]

adapterResultFromMap(value) ==
    [status |-> IF value.status \in {"", "null"} THEN "success" ELSE value.status,
     output |-> IF value.output \in {<<>>, <<Null>>} THEN Rest ELSE value.output[1], code |-> ""]

\* A map is an envelope when it has a status, an output or events.
normalizeAdapterResult(raw) ==
    IF raw.kind = "map" /\ (raw.status # "" \/ raw.output # <<>>) THEN adapterResultFromMap(raw)
    ELSE [status |-> "success", output |-> raw, code |-> ""]

readJSONResponse(decoded) == IF ~decoded \/ reply.body = Null THEN Empty ELSE reply.body

\* The "output" of a map, or the value itself.
unwrapped(value) == IF value.kind = "map" /\ value.output # <<>> THEN value.output[1] ELSE value

a2aAdapterTaskState(result) ==
    LET told == SelectSeq(Places, LAMBDA p : result[p] # "") IN
    IF told = <<>> THEN "" ELSE result[Head(told)]

\* A2ATaskStateRunStatus of the SDK: a result that names no state is either.
RunStatus(state) ==
    CASE state = "completed" -> {"success"} [] state = "failed" -> {"failed"}
      [] OTHER -> {"success", "failed"}

-----------------------------------------------------------------------------
\* An address or a request that cannot be built fails here, and so does a request
\* whose context has ended.
Send ==
    /\ pc = "configured"
    /\ \/ ctx = "live" /\ pc' = "waiting" /\ UNCHANGED outcome
       \/ Fails(IF ctx = "live" THEN "error" ELSE ctx)
    /\ UNCHANGED <<adapter, reply, wire, ctx>>

Headers ==
    /\ pc = "waiting" /\ wire.up /\ ~wire.headers
    /\ wire' = [wire EXCEPT !.headers = TRUE]
    /\ UNCHANGED <<adapter, reply, ctx, pc, outcome>>

Piece ==
    /\ pc \in {"waiting", "reading"} /\ wire.up /\ wire.headers /\ ~Whole
    /\ wire' = [wire EXCEPT !.got = @ + 1]
    /\ UNCHANGED <<adapter, reply, ctx, pc, outcome>>

Breaks ==
    /\ pc \in {"waiting", "reading"} /\ wire.up
    /\ wire' = [wire EXCEPT !.up = FALSE]
    /\ UNCHANGED <<adapter, reply, ctx, pc, outcome>>

\* The run is cancelled or the adapter's timeout passes.
End(cause) ==
    /\ ctx = "live" /\ pc # "returned"
    /\ ctx' = cause
    /\ UNCHANGED <<adapter, reply, wire, pc, outcome>>

\* client.Do or client.Call without an answer: with the error of the context or
\* with that of the connection, whichever the client meets first.
CallFails ==
    /\ pc = "waiting"
    /\ \/ ctx # "live" /\ Fails(ctx)
       \/ ~wire.up /\ Fails("error")
    /\ UNCHANGED <<adapter, reply, wire, ctx>>

\* HTTP: client.Do returns with the headers, in a race with the end of reqCtx.
DoReturns ==
    /\ pc = "waiting" /\ adapter = "http" /\ wire.headers
    /\ pc' = "reading"
    /\ UNCHANGED <<adapter, reply, wire, ctx, outcome>>

\* A mutant: the answer's code is not looked at.
ReadAny ==
    /\ pc = "reading" /\ (Whole \/ ~wire.up \/ ctx # "live")
    /\ pc' = "returned"
    /\ \E decoded \in IF Whole /\ ctx = "live" THEN {reply.json}
                      ELSE IF Whole THEN {reply.json, FALSE} ELSE {FALSE} :
           outcome' = normalizeAdapterResult(unwrapped(readJSONResponse(decoded)))
    /\ UNCHANGED <<adapter, reply, wire, ctx>>

\* HTTP: the body is read until it decodes, ends or is cut off, whatever the
\* reason; a context that ended may cut what has already arrived.
Read ==
    /\ pc = "reading" /\ (Whole \/ ~wire.up \/ ctx # "live")
    /\ \E decoded \in IF Whole /\ ctx = "live" THEN {reply.json}
                      ELSE IF Whole THEN {reply.json, FALSE} ELSE {FALSE} :
           IF Good(reply.code)
           THEN /\ pc' = "returned"
                /\ outcome' = normalizeAdapterResult(unwrapped(readJSONResponse(decoded)))
           ELSE Fails("error")
    /\ UNCHANGED <<adapter, reply, wire, ctx>>

\* A2A: client.Call returns with the whole result, or with the error that the
\* server's code or an undecodable answer makes.
CallReturns ==
    /\ pc = "waiting" /\ adapter = "a2a" /\ Whole
    /\ IF Good(reply.code) /\ reply.json
       THEN /\ pc' = "returned"
            /\ \E status \in RunStatus(a2aAdapterTaskState(reply.result)) :
                   outcome' = [status |-> status, output |-> Text,
                               code |-> IF status = "failed" THEN "A2A_TASK_FAILED" ELSE ""]
       ELSE Fails("error")
    /\ UNCHANGED <<adapter, reply, wire, ctx>>

\* A panic of the adapter, recovered in Handle.
Panics ==
    /\ pc # "returned"
    /\ pc' = "returned"
    /\ outcome' = [status |-> "failed", output |-> Null, code |-> "ADAPTER_PANIC"]
    /\ UNCHANGED <<adapter, reply, wire, ctx>>

Next ==
    \/ Send \/ Headers \/ Piece \/ Breaks \/ CallFails \/ DoReturns \/ Read \/ CallReturns \/ Panics
    \/ \E cause \in {"canceled", "deadline"} : End(cause)

Spec == Init /\ [][Next]_vars

-----------------------------------------------------------------------------
\* What Handle reports of a run that another server carries out is what came of
\* it.  Success needs the headers of an answer with a 2xx code, so no broken
\* connection, timeout or cancellation before them is one; an output other than
\* the empty one is made of a body that arrived whole and decoded; and an A2A
\* success needs a whole result whose first state is not a failed one.  A run is
\* reported as cancelled only when it was, never because the adapter's timeout
\* passed, and a failed status without a code is one that a whole body gave.
ReportTruthful ==
    /\ outcome.status = "success" =>
        /\ Good(reply.code) /\ wire.headers
        /\ outcome.output # Empty => Whole /\ reply.json
        /\ adapter = "a2a" => Whole /\ a2aAdapterTaskState(reply.result) # "failed"
    /\ outcome.code = "ADAPTER_CANCELED" => ctx = "canceled"
    /\ outcome.status = "failed" /\ outcome.code = "" =>
        adapter = "http" /\ Whole /\ reply.json /\ Good(reply.code)

\* Run returns, whatever the server does.
RunReturns == <>(pc = "returned")
=============================================================================
