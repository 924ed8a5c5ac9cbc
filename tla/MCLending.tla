------------------------------ MODULE MCLending ------------------------------
(* A small instance of Lending: a borrower and a liquidator, who may also    *)
(* borrow, with a scale of 20 basis points and 2 units of rate per XLM.      *)
EXTENDS LendingRoutes

CONSTANTS bob, liz, lend

MCAccounts == {bob, liz, lend}
MCInitialXlm == [a \in MCAccounts |-> IF a = bob THEN 0 ELSE IF a = liz THEN 3 ELSE 3]
MCInitialSxlm == [a \in MCAccounts |-> IF a = bob THEN 4 ELSE IF a = liz THEN 1 ELSE 0]
=============================================================================
