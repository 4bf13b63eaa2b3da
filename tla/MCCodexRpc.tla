----------------------------- MODULE MCCodexRpc -----------------------------
(* Instances of CodexRpc for TLC. *)
EXTENDS CodexRpc

CONSTANTS c1, c2
=============================================================================
