------------------------- MODULE MCProviderSession --------------------------
(* Instances of ProviderSession for TLC. *)
EXTENDS ProviderSession, TLC

CONSTANTS n1, n2, r1, r2, k1, k2, m1, m2

Plain == {<<"a">>}
\* The first message is edited, or the conversation outgrows the cursor.
Corrected == {<<"a", "b">>, <<"c", "b">>, <<"a", "b", "c">>}

\* One standard Node; two native Nodes, with and without the serial policy.
Protected ==
    {[native |-> FALSE, serial |-> TRUE, provider |-> "claude", nodes |-> {n1}],
     [native |-> TRUE, serial |-> TRUE, provider |-> "codex", nodes |-> {n1, n2}],
     [native |-> TRUE, serial |-> FALSE, provider |-> "codex", nodes |-> {n1, n2}]}

\* Two standard Nodes with one store, which no lock protects.
Unprotected ==
    {[native |-> FALSE, serial |-> TRUE, provider |-> "claude", nodes |-> {n1, n2}]}

Symmetry == Permutations(Runs) \cup Permutations(Nodes) \cup Permutations(Modes)
=============================================================================
