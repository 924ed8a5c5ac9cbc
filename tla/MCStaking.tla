------------------------------ MODULE MCStaking ------------------------------
(* A small instance of Staking: one staker, and an operator who is the admin *)
(* and also stakes.  Its behaviours are of two kinds, which together would   *)
(* be too many: those about value have rewards, fees, slashes and tickets    *)
(* under one minter and one admin; those about custody have both rotate, and *)
(* allowances.                                                               *)
EXTENDS StakingRoutes

CONSTANTS u1, op, stk, UserXlm, OpXlm

VARIABLE kind

MCAccounts == {u1, op, stk}
MCInitialXlm == [a \in MCAccounts |-> CASE a = u1 -> UserXlm [] a = op -> OpXlm [] OTHER -> 0]

Value ==
    /\ minter = stk /\ tokenAdmin = op /\ admin = op
    /\ \A a, b \in Accounts : allowance[a][b] = 0

Custody ==
    /\ rewarded = 0 /\ slashed = 0 /\ donated = 0
    /\ ~paused /\ instantPaid <= 1 /\ totalSupply <= 2 /\ withdrawalCounter <= 1
    /\ xlm[u1] >= UserXlm - 1

OfKind == IF kind = "value" THEN Value ELSE Custody

MCInit == kind \in {"value", "custody"} /\ Init /\ OfKind
MCNext == Next /\ UNCHANGED kind /\ OfKind'

MCSpec == MCInit /\ [][MCNext]_<<vars, kind>>
=============================================================================
