--------------------------- MODULE AgentHostProofs ---------------------------
(***************************************************************************)
(* For every number of runs and replaced binaries: a run pays only for its *)
(* own handshake.  The invariant adds what the property rests on: a Node   *)
(* with fixed targets remembers its binary from the start and never        *)
(* forgets it, so none of its runs comes to a handshake.                   *)
(***************************************************************************)
EXTENDS AgentHost, TLAPS

\* What a step preserves.
IInv == /\ TypeOK /\ HandshakeIsOwn
        /\ targets => binary
        /\ \A r \in Runs : attempt[r] = "probing" => ~targets

\* The initial state, in which nobody has asked for a handshake.
LEMMA InitInv == Init => IInv
  BY DEF Init, IInv, TypeOK, HandshakeIsOwn

\* A step of one run leaves the others where they are.
LEMMA RunInv == ASSUME IInv, NEW r \in Runs, Run(r) \/ Cancel(r),
                       UNCHANGED <<targets, hosts, swaps>>
                PROVE  IInv'
<1> USE DEF IInv, TypeOK, HandshakeIsOwn, To
<1>1. CASE Accept(r)
  BY <1>1, SMTT(60) DEF Accept
<1>2. CASE Enter(r)
  BY <1>2, SMTT(60) DEF Enter
<1>3. CASE Verified(r)
  BY <1>3, SMTT(60) DEF Verified
<1>4. CASE HandshakeFails(r)
  <2>1. PICK reason \in {"host", "context", "timeout"} :
            cause' = [cause EXCEPT ![r] = reason]
    BY <1>4 DEF HandshakeFails
  <2>2. PICK state \in {"error", "unavailable"} :
            attempt' = [attempt EXCEPT ![r] = state]
    BY <1>4 DEF HandshakeFails
  <2> QED BY <1>4, <2>1, <2>2, SMTT(60) DEF HandshakeFails
<1>5. CASE Return(r)
  BY <1>5, SMTT(60) DEF Return
<1>6. CASE Cancel(r)
  BY <1>6, SMTT(60) DEF Cancel
<1> QED BY <1>1, <1>2, <1>3, <1>4, <1>5, <1>6 DEF Run

\* Every step of the resolver keeps the invariant.
LEMMA NextInv == IInv /\ [Next]_vars => IInv'
<1> SUFFICES ASSUME IInv, [Next]_vars PROVE IInv'
  OBVIOUS
<1>1. CASE Swap
  BY <1>1 DEF Swap, IInv, TypeOK, HandshakeIsOwn
<1>2. CASE UNCHANGED vars
  BY <1>2 DEF vars, IInv, TypeOK, HandshakeIsOwn
<1>3. ASSUME NEW r \in Runs, Run(r) \/ Cancel(r), UNCHANGED <<targets, hosts, swaps>>
      PROVE  IInv'
  BY <1>3, RunInv
<1> QED BY <1>1, <1>2, <1>3 DEF Next

\* No run of a Node fails by the handshake, the context or the snapshot of another
\* one (agenthost.Resolver.Resolve under one mutex, delegationProvider.Run), and
\* with fixed targets none fails by a handshake at all.
THEOREM OwnHandshake == Spec => []HandshakeIsOwn
<1>1. IInv => HandshakeIsOwn
  BY DEF IInv
<1> QED BY <1>1, InitInv, NextInv, PTL DEF Spec
=============================================================================
