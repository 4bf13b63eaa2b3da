------------------------ MODULE HelperRequestsProofs -------------------------
(***************************************************************************)
(* For every set of runs and requests: effects stay in the run of their    *)
(* token, and answers tell of them.  The invariant follows a request from  *)
(* its token to its answer: the table holds only running runs, so nobody   *)
(* is authenticated late; between the checks and the answer the session is *)
(* the token's; and only an answered request has had an effect.            *)
(***************************************************************************)
EXTENDS HelperRequests, TLAPS

Tokens == Runs \cup {NoRun}

TypeOK ==
    /\ phase \in [Runs -> {"before", "running", "ended"}]
    /\ sessions \subseteq Runs
    /\ pc \in [Requests -> {"idle", "authenticate", "body", "apply", "done"}]
    /\ token \in [Requests -> Tokens] /\ session \in [Requests -> Tokens]
    /\ answer \in [Requests -> Nat]
    /\ effects \subseteq Requests \X Tokens

\* What a step preserves.
IInv ==
    /\ TypeOK /\ HelperEffectsAccounted
    /\ \A r \in sessions : phase[r] = "running"
    /\ lateAuth = {}
    /\ \A q \in Requests : /\ pc[q] \in {"body", "apply"} => session[q] = token[q]
                           /\ pc[q] # "done" => answer[q] = 0
    /\ \A e \in effects : pc[e[1]] = "done"

\* The initial state, in which no request has arrived.
LEMMA InitInv == Init => IInv
  BY SMTT(60) DEF Init, IInv, TypeOK, Tokens, HelperEffectsAccounted

\* The life of runs and of the table.
LEMMA TableInv == ASSUME IInv, Stop \/ \E r \in Runs : CreateSession(r) \/ Close(r)
                  PROVE  IInv'
<1> USE DEF IInv, TypeOK, HelperEffectsAccounted, requests, history
<1>1. CASE Stop
  BY <1>1, SMTT(60) DEF Stop
<1>2. ASSUME NEW r \in Runs, CreateSession(r) PROVE IInv'
  BY <1>2, SMTT(60) DEF CreateSession
<1>3. ASSUME NEW r \in Runs, Close(r) PROVE IInv'
  BY <1>3, SMTT(60) DEF Close
<1> QED BY <1>1, <1>2, <1>3

\* A request up to its answer: nothing has happened to a run yet.
LEMMA RequestInv == ASSUME IInv, NEW q \in Requests,
                           \/ \E r \in Tokens : Send(q, r)
                           \/ authenticate(q)
                           \/ \E claimed \in Tokens, valid \in BOOLEAN : CheckBody(q, claimed, valid)
                    PROVE  IInv'
<1> USE DEF IInv, TypeOK, HelperEffectsAccounted, requests, history, Reply
<1>1. ASSUME NEW r \in Tokens, Send(q, r) PROVE IInv'
  BY <1>1, SMTT(60) DEF Send
<1>2. CASE authenticate(q)
  BY <1>2, SMTT(60) DEF authenticate
<1>3. ASSUME NEW claimed \in Tokens, NEW valid \in BOOLEAN, CheckBody(q, claimed, valid)
      PROVE  IInv'
  BY <1>3, SMTT(60) DEF CheckBody
<1> QED BY <1>1, <1>2, <1>3

\* The effect and the answer, in one step.
LEMMA ApplyInv == ASSUME IInv, NEW q \in Requests,
                         NEW outcome \in {"accepted", "refused", "unknown"}, Apply(q, outcome)
                  PROVE  IInv'
<1> DEFINE new == <<q, session[q]>>
<1> USE DEF IInv, TypeOK, HelperEffectsAccounted, Apply, Reply
<1>1. effects' \subseteq effects \cup {new} /\ new \in Requests \X Tokens
  OBVIOUS
<1>2. /\ new[1] = q /\ new[2] = token[q] /\ token' = token
      /\ pc'[q] = "done" /\ answer'[q] \in {200, 502}
      /\ \A p \in Requests : p # q => pc'[p] = pc[p] /\ answer'[p] = answer[p]
  OBVIOUS
<1>3. answer'[q] = 200 => new \in effects'
  BY SMTT(60)
<1>4. TypeOK'
  BY <1>1, SMTT(60)
<1>5. HelperEffectsAccounted'
  BY <1>1, <1>2, <1>3, SMTT(60)
<1> QED BY <1>1, <1>2, <1>4, <1>5, SMTT(60)

\* Every step of the helper keeps the invariant.
LEMMA NextInv == IInv /\ [Next]_vars => IInv'
<1> SUFFICES ASSUME IInv, [Next]_vars PROVE IInv'
  OBVIOUS
<1>1. CASE UNCHANGED vars
  BY <1>1 DEF vars, requests, history, IInv, TypeOK, HelperEffectsAccounted
<1> QED BY <1>1, TableInv, RequestInv, ApplyInv DEF Next, Tokens

\* An event or call of the helper reaches the run of its token or nobody, and the
\* answer tells which, although a run may end between the authentication of a
\* request and its effect (handleEvent, handleCallAgent).
THEOREM EffectsAccountedFor == Spec => []HelperEffectsAccounted
<1>1. IInv => HelperEffectsAccounted
  BY DEF IInv
<1> QED BY <1>1, InitInv, NextInv, PTL DEF Spec
=============================================================================
