------------------------------- MODULE Lending -------------------------------
(***************************************************************************)
(* The lending contract (contracts/lending/src/lib.rs): users lock sXLM as *)
(* collateral, borrow native XLM against it up to the collateral factor,   *)
(* and may be liquidated by anyone once their health factor, measured with *)
(* the liquidation threshold, is below one.                                *)
(*                                                                         *)
(* One action per entry point; a call that panics leaves no trace, so its  *)
(* conditions are guards.  The contract's fixed-point scales (1e4 basis    *)
(* points, 1e7 per unit of exchange rate) are constants here, so that a    *)
(* small instance can use small ones.  The borrow rate is stored and never *)
(* used by the contract: debts bear no interest.                           *)
(***************************************************************************)
EXTENDS FiniteSets, Balances, ContractArith, Functions

CONSTANTS Accounts,             \* every address that can hold XLM or sXLM
          LendingContract,      \* the contract's own address
          InitialXlm,           \* native balances before the first call
          InitialSxlm,          \* sXLM balances before the first call
          BPS_DENOMINATOR,      \* 10_000 in the code
          RATE_PRECISION,       \* 10_000_000 in the code
          LiquidationBonusBps,  \* 500 in the code
          InitialFactorBps, InitialThresholdBps, \* arguments of initialize
          XlmAmounts,           \* inputs of borrow, repay and native transfers
          SxlmAmounts,          \* inputs of the collateral calls and sXLM transfers
          Rates,                \* inputs of update_exchange_rate
          Factors,              \* inputs of update_collateral_factor
          Thresholds,           \* inputs of update_liquidation_threshold
          BorrowRates           \* inputs of update_borrow_rate

Users == Accounts \ {LendingContract}

ASSUME LendingConstants ==
    /\ IsFiniteSet(Accounts)
    /\ LendingContract \in Accounts
    /\ InitialXlm \in [Accounts -> Nat] /\ InitialSxlm \in [Accounts -> Nat]
    /\ BPS_DENOMINATOR \in Nat \ {0} /\ RATE_PRECISION \in Nat \ {0}
    /\ LiquidationBonusBps \in Nat
    /\ InitialFactorBps \in 1..BPS_DENOMINATOR /\ InitialThresholdBps \in 1..BPS_DENOMINATOR
    /\ XlmAmounts \subseteq Int /\ SxlmAmounts \subseteq Int
    /\ Rates \subseteq Int /\ Factors \subseteq Int /\ Thresholds \subseteq Int
    /\ BorrowRates \subseteq Nat

VARIABLES xlm, sxlm,              \* the two token ledgers
          collateral, borrowed,   \* positions
          totalCollateral, totalBorrowed,
          exchangeRate, collateralFactorBps, liquidationThresholdBps, borrowRateBps,
          funded                  \* ghost: XLM the contract was given to lend

positionVars == <<collateral, borrowed, totalCollateral, totalBorrowed>>
paramVars == <<exchangeRate, collateralFactorBps, liquidationThresholdBps, borrowRateBps>>
vars == <<xlm, sxlm, positionVars, paramVars, funded>>

TokensTypeOK == xlm \in [Accounts -> Nat] /\ sxlm \in [Accounts -> Nat] /\ funded \in Nat
PositionsTypeOK ==
    /\ collateral \in [Users -> Nat] /\ borrowed \in [Users -> Nat]
    /\ totalCollateral \in Int /\ totalBorrowed \in Int
ParamsTypeOK ==
    /\ exchangeRate \in Nat \ {0}
    /\ collateralFactorBps \in 1..BPS_DENOMINATOR
    /\ liquidationThresholdBps \in 1..BPS_DENOMINATOR
    /\ borrowRateBps \in Nat
TypeOK == TokensTypeOK /\ PositionsTypeOK /\ ParamsTypeOK

Init ==
    /\ xlm = InitialXlm /\ sxlm = InitialSxlm
    /\ collateral = [u \in Users |-> 0] /\ borrowed = [u \in Users |-> 0]
    /\ totalCollateral = 0 /\ totalBorrowed = 0
    /\ exchangeRate = RATE_PRECISION
    /\ collateralFactorBps = InitialFactorBps
    /\ liquidationThresholdBps = InitialThresholdBps
    /\ borrowRateBps \in BorrowRates
    /\ funded = InitialXlm[LendingContract]

----------------------------------------------------------------------------

\* Scaled by RATE_PRECISION; only asked of a position with debt.
HealthFactor(coll, debt, bps, rate) ==
    TruncDiv(coll * rate * bps, BPS_DENOMINATOR * debt)

MaxBorrow(coll, bps, rate) ==
    TruncDiv(coll * rate * bps, BPS_DENOMINATOR * RATE_PRECISION)

\* What liquidate checks before it lets anyone take the position over.
Liquidatable(u) ==
    /\ borrowed[u] > 0
    /\ HealthFactor(collateral[u], borrowed[u], liquidationThresholdBps, exchangeRate)
         < RATE_PRECISION

----------------------------------------------------------------------------
(* Calls of users; each is preceded by the conditions under which it does not panic. *)

MayDepositCollateral(user, amount) == amount > 0 /\ sxlm[user] >= amount

DepositCollateral(user, amount) ==
    /\ MayDepositCollateral(user, amount)
    /\ sxlm' = Moved(sxlm, user, LendingContract, amount)
    /\ collateral' = [collateral EXCEPT ![user] = @ + amount]
    /\ totalCollateral' = totalCollateral + amount
    /\ UNCHANGED <<xlm, borrowed, totalBorrowed, paramVars, funded>>

\* Mutant of WithdrawCollateral: the amount is not compared with the user's collateral.
WithdrawUnchecked(user, amount) ==
    /\ amount > 0
    /\ borrowed[user] = 0
    /\ collateral' = [collateral EXCEPT ![user] = @ - amount]
    /\ totalCollateral' = totalCollateral - amount
    /\ sxlm[LendingContract] >= amount
    /\ sxlm' = Moved(sxlm, LendingContract, user, amount)
    /\ UNCHANGED <<xlm, borrowed, totalBorrowed, paramVars, funded>>

MayWithdrawCollateral(user, amount) ==
    /\ amount > 0
    /\ collateral[user] >= amount
    /\ borrowed[user] > 0 =>
          HealthFactor(collateral[user] - amount, borrowed[user], collateralFactorBps, exchangeRate)
            >= RATE_PRECISION
    /\ sxlm[LendingContract] >= amount

WithdrawCollateral(user, amount) ==
    /\ MayWithdrawCollateral(user, amount)
    /\ collateral' = [collateral EXCEPT ![user] = @ - amount]
    /\ totalCollateral' = totalCollateral - amount
    /\ sxlm' = Moved(sxlm, LendingContract, user, amount)
    /\ UNCHANGED <<xlm, borrowed, totalBorrowed, paramVars, funded>>

\* Mutant of Borrow: the limit is checked for the new loan alone.
BorrowLoanByLoan(user, amount) ==
    /\ amount > 0
    /\ amount <= MaxBorrow(collateral[user], collateralFactorBps, exchangeRate)
    /\ borrowed' = [borrowed EXCEPT ![user] = @ + amount]
    /\ totalBorrowed' = totalBorrowed + amount
    /\ xlm[LendingContract] >= amount
    /\ xlm' = Moved(xlm, LendingContract, user, amount)
    /\ UNCHANGED <<sxlm, collateral, totalCollateral, paramVars, funded>>

MayBorrow(user, amount) ==
    /\ amount > 0
    /\ borrowed[user] + amount
         <= MaxBorrow(collateral[user], collateralFactorBps, exchangeRate)
    /\ xlm[LendingContract] >= amount

Borrow(user, amount) ==
    /\ MayBorrow(user, amount)
    /\ borrowed' = [borrowed EXCEPT ![user] = @ + amount]
    /\ totalBorrowed' = totalBorrowed + amount
    /\ xlm' = Moved(xlm, LendingContract, user, amount)
    /\ UNCHANGED <<sxlm, collateral, totalCollateral, paramVars, funded>>

\* Paying more than the debt pays the debt; paying without a debt moves nothing.
PaidOf(user, amount) == IF amount > borrowed[user] THEN borrowed[user] ELSE amount

MayRepay(user, amount) == amount > 0 /\ xlm[user] >= PaidOf(user, amount)

\* Mutant of Repay: the total is reduced by what was offered, not by what was owed.
RepayOffered(user, amount) ==
    LET paid == PaidOf(user, amount)
    IN  /\ MayRepay(user, amount)
        /\ xlm' = Moved(xlm, user, LendingContract, paid)
        /\ borrowed' = [borrowed EXCEPT ![user] = @ - paid]
        /\ totalBorrowed' = totalBorrowed - amount
        /\ UNCHANGED <<sxlm, collateral, totalCollateral, paramVars, funded>>

Repay(user, amount) ==
    LET paid == PaidOf(user, amount)
    IN  /\ MayRepay(user, amount)
        /\ xlm' = Moved(xlm, user, LendingContract, paid)
        /\ borrowed' = [borrowed EXCEPT ![user] = @ - paid]
        /\ totalBorrowed' = totalBorrowed - paid
        /\ UNCHANGED <<sxlm, collateral, totalCollateral, paramVars, funded>>

\* sXLM worth the debt and the bonus at the stored rate, but never more than there is.
SeizedCollateral(coll, debt) ==
    LET withBonus == TruncDiv(debt * (BPS_DENOMINATOR + LiquidationBonusBps), BPS_DENOMINATOR)
        worth == TruncDiv(withBonus * RATE_PRECISION, exchangeRate)
    IN  IF worth > coll THEN coll ELSE worth

MayLiquidate(liquidator, borrower) ==
    /\ Liquidatable(borrower)
    /\ xlm[liquidator] >= borrowed[borrower]
    /\ sxlm[LendingContract] >= SeizedCollateral(collateral[borrower], borrowed[borrower])

\* Mutant of Liquidate: the borrower's position is cleared as a whole, while only the
\* seized part leaves the total.
LiquidateAll(liquidator, borrower) ==
    LET debt == borrowed[borrower]
        seized == SeizedCollateral(collateral[borrower], debt)
    IN  /\ MayLiquidate(liquidator, borrower)
        /\ xlm' = Moved(xlm, liquidator, LendingContract, debt)
        /\ sxlm' = Moved(sxlm, LendingContract, liquidator, seized)
        /\ collateral' = [collateral EXCEPT ![borrower] = 0]
        /\ borrowed' = [borrowed EXCEPT ![borrower] = 0]
        /\ totalCollateral' = totalCollateral - seized
        /\ totalBorrowed' = totalBorrowed - debt
        /\ UNCHANGED <<paramVars, funded>>

\* The liquidator pays the whole debt; what is not seized stays the borrower's.
Liquidate(liquidator, borrower) ==
    LET debt == borrowed[borrower]
        seized == SeizedCollateral(collateral[borrower], debt)
    IN  /\ MayLiquidate(liquidator, borrower)
        /\ xlm' = Moved(xlm, liquidator, LendingContract, debt)
        /\ sxlm' = Moved(sxlm, LendingContract, liquidator, seized)
        /\ collateral' = [collateral EXCEPT ![borrower] = @ - seized]
        /\ borrowed' = [borrowed EXCEPT ![borrower] = 0]
        /\ totalCollateral' = totalCollateral - seized
        /\ totalBorrowed' = totalBorrowed - debt
        /\ UNCHANGED <<paramVars, funded>>

----------------------------------------------------------------------------
(* Calls of the admin, whose address never changes: it signs each of them. *)

UpdateExchangeRate(rate) ==
    /\ rate > 0
    /\ exchangeRate' = rate
    /\ UNCHANGED <<xlm, sxlm, positionVars, collateralFactorBps,
                   liquidationThresholdBps, borrowRateBps, funded>>

UpdateCollateralFactor(bps) ==
    /\ bps > 0 /\ bps <= BPS_DENOMINATOR
    /\ collateralFactorBps' = bps
    /\ UNCHANGED <<xlm, sxlm, positionVars, exchangeRate, liquidationThresholdBps,
                   borrowRateBps, funded>>

UpdateLiquidationThreshold(bps) ==
    /\ bps > 0 /\ bps <= BPS_DENOMINATOR
    /\ liquidationThresholdBps' = bps
    /\ UNCHANGED <<xlm, sxlm, positionVars, exchangeRate, collateralFactorBps,
                   borrowRateBps, funded>>

UpdateBorrowRate(bps) ==
    /\ borrowRateBps' = bps
    /\ UNCHANGED <<xlm, sxlm, positionVars, exchangeRate, collateralFactorBps,
                   liquidationThresholdBps, funded>>

----------------------------------------------------------------------------
(* The environment: direct transfers, which no entry point sees.  A native *)
(* transfer to the contract is how its pool is funded.                     *)

SendXlm(from, to, amount) ==
    /\ amount > 0
    /\ xlm[from] >= amount
    /\ xlm' = Moved(xlm, from, to, amount)
    /\ funded' = IF to = LendingContract THEN funded + amount ELSE funded
    /\ UNCHANGED <<sxlm, positionVars, paramVars>>

SendSxlm(from, to, amount) ==
    /\ amount > 0
    /\ sxlm[from] >= amount
    /\ sxlm' = Moved(sxlm, from, to, amount)
    /\ UNCHANGED <<xlm, positionVars, paramVars, funded>>

----------------------------------------------------------------------------

PositionStep ==
    \E user \in Users :
        \/ \E n \in SxlmAmounts : DepositCollateral(user, n)
        \/ \E n \in SxlmAmounts : WithdrawCollateral(user, n)
        \/ \E n \in XlmAmounts : Borrow(user, n)
        \/ \E n \in XlmAmounts : Repay(user, n)
        \/ \E borrower \in Users : Liquidate(user, borrower)

AdminStep ==
    \/ \E rate \in Rates : UpdateExchangeRate(rate)
    \/ \E bps \in Factors : UpdateCollateralFactor(bps)
    \/ \E bps \in Thresholds : UpdateLiquidationThreshold(bps)
    \/ \E bps \in BorrowRates : UpdateBorrowRate(bps)

SendStep ==
    \E from \in Users, to \in Accounts :
        \/ \E n \in XlmAmounts : SendXlm(from, to, n)
        \/ \E n \in SxlmAmounts : SendSxlm(from, to, n)

Next == PositionStep \/ AdminStep \/ SendStep

Spec == Init /\ [][Next]_vars

----------------------------------------------------------------------------
(* Properties. *)

\* The stored totals are the sums of the positions, through over-payments and partial
\* liquidations too.
TotalsAreSums ==
    /\ totalCollateral = SumFunction(collateral)
    /\ totalBorrowed = SumFunction(borrowed)

\* The contract holds the collateral it accounts for, and the XLM it was given is either
\* in it or owed to it: no loan, over-payment or liquidation loses or creates any.
ContractHoldsWhatItOwes ==
    /\ sxlm[LendingContract] >= totalCollateral
    /\ xlm[LendingContract] + totalBorrowed = funded

\* Nobody becomes liquidatable by a call of their own or of another user, whatever the
\* rounding of the limit and of the health factor: as long as the collateral factor
\* is not above the threshold (which the contract does not enforce), it takes a
\* lower rate or a lower threshold.
LiquidatableOnlyByRepricing ==
    [][\A u \in Users :
          /\ ~Liquidatable(u)
          /\ Liquidatable(u)'
          /\ collateralFactorBps <= liquidationThresholdBps
          => \/ exchangeRate' < exchangeRate
             \/ liquidationThresholdBps' < liquidationThresholdBps]_vars
=============================================================================
