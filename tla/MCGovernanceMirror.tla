--------------------------- MODULE MCGovernanceMirror ---------------------------
(* One wallet and one sXLM, two parameters of which one is sent on, and proposals *)
(* that can be voted on for one ledger.                                           *)
EXTENDS GovernanceMirror

CONSTANTS ann, stk, k, j, v1, v2, l1, l2

MCRequests ==
    {[kind |-> "create", key |-> k, value |-> v1], [kind |-> "create", key |-> j, value |-> v2]}
        \cup [kind : {"vote"}, id : 0..1, support : {TRUE}]
        \cup [kind : {"vote"}, id : {0}, support : {FALSE}]
        \cup [kind : {"execute"}, id : {0}]

ListSymmetry == Permutations(Lists)
=============================================================================
