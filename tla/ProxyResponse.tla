--------------------------- MODULE ProxyResponse ----------------------------
(***************************************************************************)
(* publicA2AProxyResponseWriter (internal/agentnode): what the SDK's       *)
(* reverse proxy writes for one request, and what the client receives.  A  *)
(* 502 is held back, so that the proxy-unavailable body can be replaced by *)
(* the listener's own envelope.                                            *)
(***************************************************************************)
EXTENDS Naturals, Sequences

CONSTANTS
    ErrorBodyLimit,   \* maxPublicA2AProxyErrorBodyBytes, in chunks
    MaxChunks         \* bound: how many chunks the proxy writes

\* Two chunks that together are the SDK's proxy-unavailable body, and another.
Chunks == {"unavail", "able", "data"}
Unavailable == <<"unavail", "able">>

Informational == 103
OK == 200
Gone == 410
BadGateway == 502
Statuses == {Informational, OK, Gone, BadGateway}

VARIABLES
    status, wroteHeader, holdError, body,   \* the writer's fields
    target,      \* the response the client gets: final status (0: none yet) and body
    answered,    \* the final status the proxy has given, by net/http's rules
    informed,    \* whether it has passed on an informational status
    wrote,       \* chunks the proxy has written
    done         \* None, or the form of the request that was finished

fields == <<status, wroteHeader, holdError, body>>
history == <<answered, informed>>
vars == <<fields, target, history, wrote, done>>

Init ==
    /\ status = 0 /\ wroteHeader = FALSE /\ holdError = FALSE /\ body = <<>>
    /\ target = [status |-> 0, body |-> <<>>]
    /\ answered = 0 /\ informed = FALSE /\ wrote = <<>> /\ done = "no"

-----------------------------------------------------------------------------
(* net/http: informational headers are sent at once and are not final, a   *)
(* body without a header is preceded by 200.                               *)

Headed(t, s) == IF t.status = 0 /\ s # Informational THEN [t EXCEPT !.status = s] ELSE t
Sent(t, chunks) ==
    IF chunks = <<>> THEN t
    ELSE [Headed(t, OK) EXCEPT !.body = @ \o chunks]

-----------------------------------------------------------------------------
Answer(s) ==
    /\ answered' = IF answered = 0 /\ s # Informational THEN s ELSE answered
    /\ informed' = (informed \/ s = Informational)

WriteHeader(s) ==
    /\ done = "no"
    /\ Answer(s)
    /\ IF wroteHeader
       THEN UNCHANGED <<fields, target>>
       ELSE /\ wroteHeader' = TRUE /\ status' = s
            /\ holdError' = (s = BadGateway)
            /\ target' = IF s = BadGateway THEN target ELSE Headed(target, s)
            /\ UNCHANGED body
    /\ UNCHANGED <<wrote, done>>

\* The first Write or Flush implies a 200.
ImplyHeader ==
    /\ wroteHeader' = TRUE
    /\ status' = IF wroteHeader THEN status ELSE OK
    /\ Answer(OK)

\* A mutant: the held header is sent late, after net/http has implied 200.
WriteHeaderLate(c) ==
    /\ done = "no" /\ Len(wrote) < MaxChunks
    /\ wrote' = Append(wrote, c)
    /\ ImplyHeader
    /\ IF holdError /\ Len(body) + 1 <= ErrorBodyLimit
       THEN body' = Append(body, c) /\ UNCHANGED <<holdError, target>>
       ELSE /\ holdError' = FALSE /\ body' = <<>>
            /\ target' = Sent(target, Append(body, c))
    /\ UNCHANGED done

\* A held error that outgrows the buffer is flushed and then passed through.
Write(c) ==
    /\ done = "no" /\ Len(wrote) < MaxChunks
    /\ wrote' = Append(wrote, c)
    /\ ImplyHeader
    /\ IF holdError /\ Len(body) + 1 <= ErrorBodyLimit
       THEN body' = Append(body, c) /\ UNCHANGED <<holdError, target>>
       ELSE /\ holdError' = FALSE /\ body' = <<>>
            /\ target' = Sent(Headed(target, status'), Append(body, c))
    /\ UNCHANGED done

\* A held error stays held; otherwise the header leaves.
Flush ==
    /\ done = "no"
    /\ ImplyHeader
    /\ target' = IF holdError THEN target ELSE Headed(Headed(target, status'), OK)
    /\ UNCHANGED <<holdError, body, wrote, done>>

runtimeA2AProxyUnavailable(held) == held = Unavailable

\* finishHTTP and finishJSONRPC differ in the envelope and its status.  What
\* was not held has been sent; net/http completes a response without header.
Finish(form) ==
    /\ done = "no"
    /\ done' = form
    /\ holdError' = FALSE
    /\ target' =
          IF ~holdError THEN Headed(target, OK)
          ELSE IF runtimeA2AProxyUnavailable(body)
          THEN Sent(Headed(target, IF form = "http" THEN BadGateway ELSE OK), <<"envelope">>)
          ELSE Sent(Headed(target, status), body)
    /\ body' = IF holdError /\ ~runtimeA2AProxyUnavailable(body) THEN <<>> ELSE body
    /\ UNCHANGED <<status, wroteHeader, history, wrote>>

Next ==
    \/ \E s \in Statuses : WriteHeader(s)
    \/ \E c \in Chunks : Write(c)
    \/ Flush
    \/ \E form \in {"http", "jsonrpc"} : Finish(form)

Spec == Init /\ [][Next]_vars

-----------------------------------------------------------------------------
Final == IF answered = 0 THEN OK ELSE answered

\* Whatever order WriteHeader, Write and Flush come in, also around a held 502
\* that outgrows its buffer: while an error is held the client has received
\* nothing of it and the buffer has all of it; in the end the client has one
\* final header and exactly the bytes the proxy wrote, under the status it
\* answered with, or, for the proxy-unavailable 502, the envelope and nothing
\* else.  The status of an answer after an informational one is left out.
ResponseIntact ==
    /\ holdError => target = [status |-> 0, body |-> <<>>] /\ body = wrote
    /\ done # "no" =>
          /\ target.status # 0
          /\ \/ target.body = wrote /\ (informed \/ target.status = Final)
             \/ status = BadGateway /\ wrote = Unavailable /\ target.body = <<"envelope">>
=============================================================================
