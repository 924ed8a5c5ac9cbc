---------------------------- MODULE LendingRoutes ----------------------------
(***************************************************************************)
(* What the backend computes about lending on its own, on the states of    *)
(* the lending contract: the checks that its routes make before they have  *)
(* a call simulated, the limit that the position page shows, and the loops *)
(* of staking and borrowing that the leverage and the restaking engine     *)
(* project (both have the same loop).                                      *)
(*                                                                         *)
(* The engines compute with fractions.  An amount after i borrowings is an *)
(* integer over BPS_DENOMINATOR to the power of i here.                    *)
(***************************************************************************)
EXTENDS Lending

CONSTANTS EngineFactorBps,  \* the 70% that the restaking engine assumes
          Principals, MaxLoops  \* inputs of the simulations

ASSUME LendingRoutesAssumption ==
    EngineFactorBps \in 0..BPS_DENOMINATOR /\ Principals \subseteq Nat /\ MaxLoops \in Nat
----------------------------------------------------------------------------
(* Routes. *)

DepositPreflight(user, amount) == sxlm[user] >= amount

\* Mutant of BorrowPreflight: what is lent is taken off the pool once more.
BorrowPreflightLent(amount) == xlm[LendingContract] - totalBorrowed >= amount

BorrowPreflight(amount) == xlm[LendingContract] >= amount

\* GET /lending/position: a debt of this size does not exceed maxBorrow, a fraction of
\* the stroop, for so much collateral; and the health that the contract reports.
WithinShownLimit(coll, debt) ==
    debt * BPS_DENOMINATOR * RATE_PRECISION <= coll * exchangeRate * collateralFactorBps

ShownUnhealthy(user) ==
    /\ borrowed[user] > 0
    /\ HealthFactor(collateral[user], borrowed[user], liquidationThresholdBps, exchangeRate)
         < RATE_PRECISION

\* These routes leave every check to the simulation.
WithdrawRouteBuilds(user, amount) == MayWithdrawCollateral(user, amount)
RepayRouteBuilds(user, amount) == MayRepay(user, amount)
LiquidateRouteBuilds(liquidator, borrower) == MayLiquidate(liquidator, borrower)

\* The backend repeats the contract's rules: a request that passes its checks, within the
\* limit it shows, is one that the contract accepts, and it turns no other away, whether
\* to take collateral or a loan; a debt that is shown can be paid off, and a position
\* that is shown as unhealthy be taken over, by whoever holds the XLM.
RoutesAgreeWithContract ==
    \A user \in Users :
        /\ \A n \in SxlmAmounts \cap (Nat \ {0}) :
              /\ DepositPreflight(user, n) <=> MayDepositCollateral(user, n)
              /\ collateral[user] >= n /\ WithinShownLimit(collateral[user] - n, borrowed[user])
                    <=> WithdrawRouteBuilds(user, n)
        /\ \A n \in XlmAmounts \cap (Nat \ {0}) :
              /\ BorrowPreflight(n) /\ WithinShownLimit(collateral[user], borrowed[user] + n)
                    <=> MayBorrow(user, n)
              /\ xlm[user] >= borrowed[user] /\ n >= borrowed[user] => RepayRouteBuilds(user, n)
        /\ \A other \in Users :
              xlm[other] >= borrowed[user] /\ ShownUnhealthy(user)
                <=> LiquidateRouteBuilds(other, user)
----------------------------------------------------------------------------
(* The engines. *)

\* Before the first loop.  The amounts are integers over scale.
Start(principal) == [staked |-> 0, borrowed |-> 0, current |-> principal, scale |-> 1]

\* Mutant of Loop: what has been borrowed counts as staked at once.
LoopRestaked(s, bps) ==
    [staked   |-> (s.staked + s.current) * BPS_DENOMINATOR + s.current * bps,
     borrowed |-> s.borrowed * BPS_DENOMINATOR + s.current * bps,
     current  |-> s.current * bps,
     scale    |-> s.scale * BPS_DENOMINATOR]

\* Each loop stakes the current amount, and borrows a part of it, which is the next one.
Loop(s, bps) ==
    [staked   |-> (s.staked + s.current) * BPS_DENOMINATOR,
     borrowed |-> s.borrowed * BPS_DENOMINATOR + s.current * bps,
     current  |-> s.current * bps,
     scale    |-> s.scale * BPS_DENOMINATOR]

\* What has been staked and borrowed after so many loops.
Simulate(principal, bps) ==
    LET after[loops \in Nat] == IF loops = 0 THEN Start(principal) ELSE Loop(after[loops - 1], bps)
    IN  after

\* The health of a position as GET /restaking/position shows it is at least one.
ShownHealthy(user) == collateral[user] * EngineFactorBps >= borrowed[user] * BPS_DENOMINATOR

\* The projections are ones that the contract would let come true while sXLM is worth one
\* XLM: after every loop the debt is within the limit and the stake is what the principal
\* and the loans bought; and a position that is shown as healthy cannot be liquidated,
\* unless the rate is below one or the threshold below the engine's factor.
ProjectionsHold ==
    /\ exchangeRate = RATE_PRECISION =>
         \A principal \in Principals, loops \in 1..MaxLoops :
            LET now == Simulate(principal, collateralFactorBps)[loops]
            IN  /\ now.borrowed <= MaxBorrow(now.staked, collateralFactorBps, exchangeRate)
                /\ now.staked + now.current = principal * now.scale + now.borrowed
    /\ exchangeRate >= RATE_PRECISION /\ liquidationThresholdBps >= EngineFactorBps =>
         \A user \in Users : ShownHealthy(user) => ~Liquidatable(user)
=============================================================================
