------------------------------- MODULE MCLpPool -------------------------------
(* A small instance of LpPool: a provider, and a trader who is the admin and   *)
(* may also provide.                                                           *)
EXTENDS LiquidityRoutes

CONSTANTS ann, tom, pool, MaxRoot

MCAccounts == {ann, tom, pool}
MCInitialXlm == [a \in MCAccounts |-> CASE a = ann -> 5 [] a = tom -> 2 [] OTHER -> 0]
MCInitialSxlm == [a \in MCAccounts |-> CASE a = ann -> 4 [] a = tom -> 2 [] OTHER -> 0]

\* The code's Newton iteration computes the integer square root.
ASSUME NewtonIsIsqrt ==
    \A n \in -1..MaxRoot : NewtonSqrt(n) = isqrt(n)
=============================================================================
