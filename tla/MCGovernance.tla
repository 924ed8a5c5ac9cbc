----------------------------- MODULE MCGovernance -----------------------------
(* A small instance of Governance: two holders and the staking contract, which *)
(* mints and burns their sXLM.                                                 *)
EXTENDS Governance, TLC

CONSTANTS ann, bob, stk, v1, v2

MCSupplies == {-1, 4}

\* Neither the holders nor the values are told apart.
Interchangeable == Permutations({ann, bob}) \cup Permutations({v1, v2})

=============================================================================
