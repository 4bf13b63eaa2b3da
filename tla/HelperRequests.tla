--------------------------- MODULE HelperRequests ---------------------------
(***************************************************************************)
(* The requests of a backend to the local helper: handleEvent and          *)
(* handleCallAgent authenticate a run's token under the lock, read the     *)
(* body, and only then reach the run, which may have ended meanwhile.      *)
(***************************************************************************)
EXTENDS Naturals, FiniteSets

CONSTANTS
    Runs,       \* runs the Node handles, each with a token of its own
    Requests,   \* HTTP requests, each served by a goroutine
    NoRun       \* no token, no session, no run id in the body

VARIABLES
    phase,      \* Handle, by run: before, running or ended
    sessions,   \* the runs whose token the table holds
    stopped,    \* whether Stop has emptied the table
    pc, token, session, answer,   \* the goroutines and the token they were sent
    effects,    \* history: the events and calls that reached a run
    lateAuth    \* history: requests authenticated outside their run

requests == <<pc, token, session, answer>>
history == <<effects, lateAuth>>
vars == <<phase, sessions, stopped, requests, history>>

Init ==
    /\ phase = [r \in Runs |-> "before"] /\ sessions = {} /\ stopped = FALSE
    /\ pc = [q \in Requests |-> "idle"] /\ token = [q \in Requests |-> NoRun]
    /\ session = [q \in Requests |-> NoRun] /\ answer = [q \in Requests |-> 0]
    /\ effects = {} /\ lateAuth = {}

-----------------------------------------------------------------------------
\* Handle: CreateSession, and the adapter's Run begins.
CreateSession(r) ==
    /\ phase[r] = "before"
    /\ phase' = [phase EXCEPT ![r] = "running"]
    /\ sessions' = sessions \cup {r}
    /\ UNCHANGED <<stopped, requests, history>>

\* Handle returns, and its deferred Close deletes the token.
Close(r) ==
    /\ phase[r] = "running"
    /\ phase' = [phase EXCEPT ![r] = "ended"]
    /\ sessions' = sessions \ {r}
    /\ UNCHANGED <<stopped, requests, history>>

\* Stop replaces the table.  Runs that begin before it may end after it.
Stop ==
    /\ ~stopped
    /\ stopped' = TRUE /\ sessions' = {}
    /\ UNCHANGED <<phase, requests, history>>

-----------------------------------------------------------------------------
\* A backend sends a request with the token it knows, or with none.
Send(q, r) ==
    /\ pc[q] = "idle" /\ ~stopped
    /\ r # NoRun => phase[r] # "before"
    /\ token' = [token EXCEPT ![q] = r]
    /\ pc' = [pc EXCEPT ![q] = "authenticate"]
    /\ UNCHANGED <<phase, sessions, stopped, session, answer, history>>

Reply(q, status) ==
    /\ answer' = [answer EXCEPT ![q] = status]
    /\ pc' = [pc EXCEPT ![q] = "done"]

authenticate(q) ==
    /\ pc[q] = "authenticate"
    /\ IF token[q] \in sessions
       THEN /\ session' = [session EXCEPT ![q] = token[q]]
            /\ pc' = [pc EXCEPT ![q] = "body"]
            /\ lateAuth' = IF phase[token[q]] # "running" THEN lateAuth \cup {q} ELSE lateAuth
            /\ UNCHANGED answer
       ELSE Reply(q, 401) /\ UNCHANGED <<session, lateAuth>>
    /\ UNCHANGED <<phase, sessions, stopped, token, effects>>

\* A mutant: the run is taken from the body.
CheckBodyTrusted(q, claimed, valid) ==
    /\ pc[q] = "body"
    /\ IF ~valid THEN Reply(q, 400) /\ UNCHANGED session
       ELSE /\ pc' = [pc EXCEPT ![q] = "apply"]
            /\ session' = [session EXCEPT ![q] = IF claimed = NoRun THEN @ ELSE claimed]
            /\ UNCHANGED answer
    /\ UNCHANGED <<phase, sessions, stopped, token, history>>

\* The body may name its run; it is refused when it names another, when it is
\* not JSON, too long, or lacks a field.
CheckBody(q, claimed, valid) ==
    /\ pc[q] = "body"
    /\ IF ~valid THEN Reply(q, 400)
       ELSE IF claimed \notin {NoRun, session[q]} THEN Reply(q, 409)
       ELSE pc' = [pc EXCEPT ![q] = "apply"] /\ UNCHANGED answer
    /\ UNCHANGED <<phase, sessions, stopped, token, session, history>>

\* emitChecked and CallAgent belong to the assignment: an error is answered
\* with 422 or 502, and that of a call may hide that it was made.
Apply(q, outcome) ==
    /\ pc[q] = "apply"
    /\ effects' = IF outcome = "refused" THEN effects ELSE effects \cup {<<q, session[q]>>}
    /\ Reply(q, IF outcome = "accepted" THEN 200 ELSE 502)
    /\ UNCHANGED <<phase, sessions, stopped, token, session, lateAuth>>

Next ==
    \/ \E r \in Runs : CreateSession(r) \/ Close(r)
    \/ Stop
    \/ \E q \in Requests :
          \/ \E r \in Runs \cup {NoRun} : Send(q, r)
          \/ authenticate(q)
          \/ \E claimed \in Runs \cup {NoRun}, valid \in BOOLEAN : CheckBody(q, claimed, valid)
          \/ \E outcome \in {"accepted", "refused", "unknown"} : Apply(q, outcome)

Spec == Init /\ [][Next]_vars

-----------------------------------------------------------------------------
\* What a request does, it does to the run whose token it carries, to no run
\* that the body names, and only when it was authenticated while that run was
\* being handled; and its answer tells what a retry may do: 200 means that the
\* event or call has reached the run, a refusal of the helper that it has not.
HelperEffectsAccounted ==
    /\ \A e \in effects : e[2] = token[e[1]] /\ e[1] \notin lateAuth
    /\ \A q \in Requests :
          /\ answer[q] = 200 => \E e \in effects : e[1] = q
          /\ answer[q] \in {400, 401, 409} => \A e \in effects : e[1] # q
=============================================================================
