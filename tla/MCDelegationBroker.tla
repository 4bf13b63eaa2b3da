------------------------- MODULE MCDelegationBroker -------------------------
(* Instances of DelegationBroker for TLC. *)
EXTENDS DelegationBroker, TLC

CONSTANTS c1, c2, k1, k2, b1

Symmetry == Permutations(Conns)
=============================================================================
