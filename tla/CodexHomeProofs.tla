--------------------------- MODULE CodexHomeProofs ---------------------------
(***************************************************************************)
(* For every number of attempts, credentials and rollouts: what attempts   *)
(* share survives them.  The property says what a directory means while a  *)
(* client runs in it; the invariant says it for each step of Prepare.      *)
(***************************************************************************)
EXTENDS CodexHome, TLAPS

\* What a step preserves.
IInv == /\ TypeOK /\ HomesKeepState
        /\ \A a \in Attempts : /\ step[a] \in {"made", "linked", "running"} => home[a]
                               /\ step[a] \in {"linked", "running"} => linked[a]

\* The initial state, before any Run prepared a home.
LEMMA InitInv == Init => IInv
  BY DEF Init, IInv, TypeOK, HomesKeepState

\* One step of Prepare, of the client, of Cleanup, or a crash.
LEMMA AttemptInv == ASSUME IInv, NEW a \in Attempts, Attempt(a)
                    PROVE  IInv'
<1> USE DEF IInv, TypeOK, HomesKeepState, Goes, shared
<1>1. CASE PrepareRefuses(a)
  BY <1>1, SMTT(60) DEF PrepareRefuses
<1>2. CASE MkdirTemp(a)
  BY <1>2, SMTT(60) DEF MkdirTemp
<1>3. CASE LinkRollouts(a)
  BY <1>3, SMTT(60) DEF LinkRollouts
<1>4. CASE PrepareAuth(a)
  <2>1. PICK form \in {"none", "link", "key"} : auth' = [auth EXCEPT ![a] = form]
    BY <1>4 DEF PrepareAuth
  <2> QED BY <1>4, <2>1, SMTT(60) DEF PrepareAuth
<1>5. CASE PrepareFails(a)
  BY <1>5, SMTT(60) DEF PrepareFails, Removed
<1>6. CASE Refresh(a)
  BY <1>6, SMTT(60) DEF Refresh
<1>7. CASE Record(a)
  BY <1>7, SMTT(60) DEF Record
<1>8. CASE Cleanup(a)
  BY <1>8, SMTT(60) DEF Cleanup, Removed
<1>9. CASE Crash(a)
  BY <1>9, SMTT(60) DEF Crash
<1> QED BY <1>1, <1>2, <1>3, <1>4, <1>5, <1>6, <1>7, <1>8, <1>9 DEF Attempt

\* Every step of prepareHome and of the process keeps the invariant.
LEMMA NextInv == IInv /\ [Next]_vars => IInv'
<1> SUFFICES ASSUME IInv, [Next]_vars PROVE IInv'
  OBVIOUS
<1>1. CASE Operator
  BY <1>1, SMTT(60) DEF Operator, IInv, TypeOK, HomesKeepState
<1>2. CASE UNCHANGED vars
  BY <1>2 DEF vars, shared, IInv, TypeOK, HomesKeepState
<1>3. ASSUME NEW a \in Attempts, Attempt(a) PROVE IInv'
  BY <1>3, AttemptInv
<1> QED BY <1>1, <1>2, <1>3 DEF Next

\* However attempts overlap, fail half-way or crash (codexhome.Prepare and its
\* cleanup), the login file holds the newest credential, no rollout is lost, and
\* only an attempt that is under way or crashed has a directory.
THEOREM StateKept == Spec => []HomesKeepState
<1>1. IInv => HomesKeepState
  BY DEF IInv
<1> QED BY <1>1, InitInv, NextInv, PTL DEF Spec
=============================================================================
