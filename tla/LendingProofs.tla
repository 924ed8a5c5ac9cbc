---------------------------- MODULE LendingProofs ----------------------------
(***************************************************************************)
(* Proofs about the lending contract, for every set of accounts, every     *)
(* scale of the fixed-point arithmetic and every set of inputs.            *)
(***************************************************************************)
EXTENDS LendingRoutes, ContractLemmas, TLAPS

LEMMA ConstantTypes ==
    /\ LendingContract \in Accounts
    /\ Users \subseteq Accounts /\ \A u \in Users : u # LendingContract
    /\ InitialXlm \in [Accounts -> Nat] /\ InitialSxlm \in [Accounts -> Nat]
    /\ BPS_DENOMINATOR \in Nat \ {0} /\ RATE_PRECISION \in Nat \ {0}
    /\ LiquidationBonusBps \in Nat
    /\ InitialFactorBps \in 1..BPS_DENOMINATOR /\ InitialThresholdBps \in 1..BPS_DENOMINATOR
    /\ XlmAmounts \subseteq Int /\ SxlmAmounts \subseteq Int
    /\ Rates \subseteq Int /\ Factors \subseteq Int /\ Thresholds \subseteq Int
    /\ BorrowRates \subseteq Nat
BY LendingConstants DEF LendingConstants, Users

----------------------------------------------------------------------------
(* Type correctness. *)

\* Nothing is seized that is not there.
LEMMA SeizedType ==
    ASSUME TypeOK, NEW c \in Nat, NEW d \in Nat
    PROVE  SeizedCollateral(c, d) \in 0..c
<1> DEFINE withBonus == TruncDiv(d * (BPS_DENOMINATOR + LiquidationBonusBps), BPS_DENOMINATOR)
<1>1. d * (BPS_DENOMINATOR + LiquidationBonusBps) \in Nat
  BY ConstantTypes
<1>2. withBonus \in Nat
  BY <1>1, ConstantTypes, TruncDivOfNat
<1> HIDE DEF withBonus
<1>3. withBonus * RATE_PRECISION \in Nat /\ exchangeRate \in Nat \ {0}
  BY <1>2, ConstantTypes DEF TypeOK, ParamsTypeOK
<1>4. TruncDiv(withBonus * RATE_PRECISION, exchangeRate) \in Nat
  BY <1>3, TruncDivOfNat
<1> QED
  BY <1>4 DEF SeizedCollateral, withBonus

\* Covered payments to and from the contract.
LEMMA PaidIn ==
    ASSUME NEW bal \in [Accounts -> Nat], NEW user \in Users, NEW n \in Nat, bal[user] >= n
    PROVE  /\ Moved(bal, user, LendingContract, n) \in [Accounts -> Nat]
           /\ Moved(bal, user, LendingContract, n)[LendingContract] = bal[LendingContract] + n
<1>1. user \in Accounts /\ LendingContract \in Accounts /\ user # LendingContract
  BY ConstantTypes
<1> QED
  BY <1>1, MovedType

LEMMA PaidOut ==
    ASSUME NEW bal \in [Accounts -> Nat], NEW user \in Users, NEW n \in Nat,
           bal[LendingContract] >= n
    PROVE  /\ Moved(bal, LendingContract, user, n) \in [Accounts -> Nat]
           /\ Moved(bal, LendingContract, user, n)[LendingContract] = bal[LendingContract] - n
<1>1. user \in Accounts /\ LendingContract \in Accounts /\ user # LendingContract
  BY ConstantTypes
<1> QED
  BY <1>1, MovedType

\* What every step does to the types, and to the tokens against the totals.
Covered == TypeOK /\ ContractHoldsWhatItOwes

LEMMA DepositCovered ==
    ASSUME Covered, NEW user \in Users, NEW n \in SxlmAmounts, DepositCollateral(user, n)
    PROVE  Covered'
<1> USE ConstantTypes DEF Covered, TypeOK, TokensTypeOK
<1>1. n \in Nat /\ user \in Accounts /\ user # LendingContract
  BY DEF DepositCollateral, MayDepositCollateral
<1>2. sxlm' \in [Accounts -> Nat] /\ sxlm'[LendingContract] = sxlm[LendingContract] + n
  BY <1>1, PaidIn DEF DepositCollateral, MayDepositCollateral
<1>3. TokensTypeOK'
  BY <1>2 DEF DepositCollateral, MayDepositCollateral
<1>4. PositionsTypeOK'
  BY <1>1 DEF DepositCollateral, MayDepositCollateral, PositionsTypeOK
<1>5. ParamsTypeOK'
  BY DEF DepositCollateral, MayDepositCollateral, ParamsTypeOK, paramVars
<1>6. ContractHoldsWhatItOwes'
  BY <1>1, <1>2 DEF DepositCollateral, MayDepositCollateral, ContractHoldsWhatItOwes, PositionsTypeOK
<1> QED
  BY <1>3, <1>4, <1>5, <1>6

LEMMA WithdrawCovered ==
    ASSUME Covered, NEW user \in Users, NEW n \in SxlmAmounts, WithdrawCollateral(user, n)
    PROVE  Covered'
<1> USE ConstantTypes DEF Covered, TypeOK, TokensTypeOK
<1>1. n \in Nat /\ user \in Accounts /\ user # LendingContract
  BY DEF WithdrawCollateral, MayWithdrawCollateral
<1>2. sxlm' \in [Accounts -> Nat] /\ sxlm'[LendingContract] = sxlm[LendingContract] - n
  BY <1>1, PaidOut DEF WithdrawCollateral, MayWithdrawCollateral
<1>3. TokensTypeOK'
  BY <1>2 DEF WithdrawCollateral, MayWithdrawCollateral
<1>4. PositionsTypeOK'
  BY <1>1 DEF WithdrawCollateral, MayWithdrawCollateral, PositionsTypeOK
<1>5. ParamsTypeOK'
  BY DEF WithdrawCollateral, MayWithdrawCollateral, ParamsTypeOK, paramVars
<1>6. ContractHoldsWhatItOwes'
  BY <1>1, <1>2 DEF WithdrawCollateral, MayWithdrawCollateral, ContractHoldsWhatItOwes, PositionsTypeOK
<1> QED
  BY <1>3, <1>4, <1>5, <1>6

LEMMA BorrowCovered ==
    ASSUME Covered, NEW user \in Users, NEW n \in XlmAmounts, Borrow(user, n)
    PROVE  Covered'
<1> USE ConstantTypes DEF Covered, TypeOK, TokensTypeOK
<1>1. n \in Nat /\ user \in Accounts /\ user # LendingContract
  BY DEF Borrow, MayBorrow
<1>2. xlm' \in [Accounts -> Nat] /\ xlm'[LendingContract] = xlm[LendingContract] - n
  BY <1>1, PaidOut DEF Borrow, MayBorrow
<1>3. TokensTypeOK'
  BY <1>2 DEF Borrow, MayBorrow
<1>4. PositionsTypeOK'
  BY <1>1 DEF Borrow, MayBorrow, PositionsTypeOK
<1>5. ParamsTypeOK'
  BY DEF Borrow, MayBorrow, ParamsTypeOK, paramVars
<1>6. ContractHoldsWhatItOwes'
  BY <1>1, <1>2 DEF Borrow, MayBorrow, ContractHoldsWhatItOwes, PositionsTypeOK
<1> QED
  BY <1>3, <1>4, <1>5, <1>6

LEMMA RepayCovered ==
    ASSUME Covered, NEW user \in Users, NEW n \in XlmAmounts, Repay(user, n)
    PROVE  Covered'
<1> DEFINE paid == IF n > borrowed[user] THEN borrowed[user] ELSE n
<1> USE ConstantTypes DEF Covered, TypeOK, TokensTypeOK
<1>1. /\ paid \in Nat /\ borrowed[user] \in Nat /\ paid <= borrowed[user]
      /\ user \in Accounts /\ user # LendingContract
  BY DEF Repay, MayRepay, PaidOf, PositionsTypeOK
<1>2. /\ xlm[user] >= paid
      /\ xlm' = Moved(xlm, user, LendingContract, paid)
      /\ borrowed' = [borrowed EXCEPT ![user] = @ - paid]
      /\ totalBorrowed' = totalBorrowed - paid
      /\ UNCHANGED <<sxlm, collateral, totalCollateral, paramVars, funded>>
  BY DEF Repay, MayRepay, PaidOf
<1> HIDE DEF paid
<1>3. xlm' \in [Accounts -> Nat] /\ xlm'[LendingContract] = xlm[LendingContract] + paid
  BY <1>1, <1>2, PaidIn
<1>4. TokensTypeOK'
  BY <1>2, <1>3
<1>5. PositionsTypeOK'
  BY <1>1, <1>2 DEF PositionsTypeOK
<1>6. ParamsTypeOK'
  BY <1>2 DEF ParamsTypeOK, paramVars
<1>7. ContractHoldsWhatItOwes'
  BY <1>1, <1>2, <1>3 DEF ContractHoldsWhatItOwes, PositionsTypeOK
<1> QED
  BY <1>4, <1>5, <1>6, <1>7

LEMMA LiquidateCovered ==
    ASSUME Covered, NEW liquidator \in Users, NEW borrower \in Users,
           Liquidate(liquidator, borrower)
    PROVE  Covered'
<1> DEFINE debt == borrowed[borrower]
           held == collateral[borrower]
           seized == SeizedCollateral(held, debt)
<1> USE ConstantTypes DEF Covered, TypeOK, TokensTypeOK
<1>1. /\ debt \in Nat /\ held \in Nat
      /\ liquidator \in Accounts /\ liquidator # LendingContract
  BY DEF PositionsTypeOK
<1>2. seized \in Nat /\ seized <= held
  <2> HIDE DEF debt, held
  <2>1. seized \in 0..held
    BY <1>1, SeizedType
  <2> QED
    BY <1>1, <2>1
<1>3. /\ xlm[liquidator] >= debt /\ xlm' = Moved(xlm, liquidator, LendingContract, debt)
      /\ sxlm[LendingContract] >= seized
      /\ sxlm' = Moved(sxlm, LendingContract, liquidator, seized)
      /\ collateral' = [collateral EXCEPT ![borrower] = @ - seized]
      /\ borrowed' = [borrowed EXCEPT ![borrower] = 0]
      /\ totalCollateral' = totalCollateral - seized
      /\ totalBorrowed' = totalBorrowed - debt
      /\ UNCHANGED <<paramVars, funded>>
  BY DEF Liquidate, MayLiquidate
<1> HIDE DEF seized
<1>4. /\ xlm' \in [Accounts -> Nat] /\ xlm'[LendingContract] = xlm[LendingContract] + debt
      /\ sxlm' \in [Accounts -> Nat]
      /\ sxlm'[LendingContract] = sxlm[LendingContract] - seized
  BY <1>1, <1>2, <1>3, PaidIn, PaidOut
<1>5. TokensTypeOK'
  BY <1>3, <1>4
<1>6. PositionsTypeOK'
  BY <1>1, <1>2, <1>3 DEF PositionsTypeOK
<1>7. ParamsTypeOK'
  BY <1>3 DEF ParamsTypeOK, paramVars
<1>8. ContractHoldsWhatItOwes'
  BY <1>1, <1>2, <1>3, <1>4 DEF ContractHoldsWhatItOwes, PositionsTypeOK
<1> QED
  BY <1>5, <1>6, <1>7, <1>8

LEMMA AdminCovered ==
    ASSUME Covered, AdminStep
    PROVE  Covered'
<1> USE ConstantTypes DEF Covered, TypeOK
<1>1. UNCHANGED <<xlm, sxlm, collateral, borrowed, totalCollateral, totalBorrowed, funded>>
  BY DEF AdminStep, UpdateExchangeRate, UpdateCollateralFactor,
         UpdateLiquidationThreshold, UpdateBorrowRate, positionVars
<1>2. TokensTypeOK' /\ PositionsTypeOK' /\ ContractHoldsWhatItOwes'
  BY <1>1 DEF TokensTypeOK, PositionsTypeOK, ContractHoldsWhatItOwes
<1>3. ParamsTypeOK'
  BY DEF AdminStep, UpdateExchangeRate, UpdateCollateralFactor,
         UpdateLiquidationThreshold, UpdateBorrowRate, ParamsTypeOK
<1> QED
  BY <1>2, <1>3

LEMMA SendCovered ==
    ASSUME Covered, SendStep
    PROVE  Covered'
<1> USE ConstantTypes DEF Covered, TypeOK, TokensTypeOK
<1>1. ASSUME NEW from \in Users, NEW to \in Accounts, NEW n \in XlmAmounts,
             SendXlm(from, to, n)
      PROVE  Covered'
  <2>1. n \in Nat /\ from \in Accounts /\ from # LendingContract
    BY <1>1 DEF SendXlm
  <2>2. /\ xlm' \in [Accounts -> Nat]
        /\ xlm'[LendingContract]
             = IF to = LendingContract THEN xlm[LendingContract] + n ELSE xlm[LendingContract]
    BY <1>1, <2>1 DEF SendXlm, Moved
  <2>3. UNCHANGED <<sxlm, collateral, borrowed, totalCollateral, totalBorrowed>>
        /\ UNCHANGED paramVars
    BY <1>1 DEF SendXlm, positionVars
  <2>4. funded' = IF to = LendingContract THEN funded + n ELSE funded
    BY <1>1 DEF SendXlm
  <2>5. TokensTypeOK'
    BY <2>1, <2>2, <2>3, <2>4
  <2>6. PositionsTypeOK' /\ ParamsTypeOK'
    BY <2>3 DEF PositionsTypeOK, ParamsTypeOK, paramVars
  <2>7. ContractHoldsWhatItOwes'
    BY <2>1, <2>2, <2>3, <2>4 DEF ContractHoldsWhatItOwes, PositionsTypeOK
  <2> QED
    BY <2>5, <2>6, <2>7
<1>2. ASSUME NEW from \in Users, NEW to \in Accounts, NEW n \in SxlmAmounts,
             SendSxlm(from, to, n)
      PROVE  Covered'
  <2>1. n \in Nat /\ from \in Accounts /\ from # LendingContract
    BY <1>2 DEF SendSxlm
  <2>2. sxlm' \in [Accounts -> Nat] /\ sxlm'[LendingContract] >= sxlm[LendingContract]
    BY <1>2, <2>1, MovedType DEF SendSxlm
  <2>3. UNCHANGED <<xlm, funded, collateral, borrowed, totalCollateral, totalBorrowed>>
        /\ UNCHANGED paramVars
    BY <1>2 DEF SendSxlm, positionVars
  <2>4. PositionsTypeOK' /\ ParamsTypeOK'
    BY <2>3 DEF PositionsTypeOK, ParamsTypeOK, paramVars
  <2> QED
    BY <2>2, <2>3, <2>4 DEF ContractHoldsWhatItOwes, PositionsTypeOK
<1> QED
  BY <1>1, <1>2 DEF SendStep

LEMMA NextCovered == Covered /\ [Next]_vars => Covered'
<1> SUFFICES ASSUME Covered, [Next]_vars
             PROVE  Covered'
  OBVIOUS
<1>1. CASE PositionStep
  BY <1>1, DepositCovered, WithdrawCovered, BorrowCovered, RepayCovered,
     LiquidateCovered DEF PositionStep
<1>2. CASE AdminStep
  BY <1>2, AdminCovered
<1>3. CASE SendStep
  BY <1>3, SendCovered
<1>4. CASE UNCHANGED vars
  BY <1>4 DEF vars, positionVars, paramVars, Covered, TypeOK, TokensTypeOK,
              PositionsTypeOK, ParamsTypeOK, ContractHoldsWhatItOwes
<1> QED
  BY <1>1, <1>2, <1>3, <1>4 DEF Next

LEMMA AlwaysCovered == Spec => []Covered
<1>1. Init => Covered
  <2> SUFFICES ASSUME Init PROVE Covered
    OBVIOUS
  <2> USE ConstantTypes DEF Init
  <2>1. TokensTypeOK
    BY DEF TokensTypeOK
  <2>2. PositionsTypeOK
    BY DEF PositionsTypeOK
  <2>3. ParamsTypeOK
    BY DEF ParamsTypeOK
  <2>4. ContractHoldsWhatItOwes
    BY DEF ContractHoldsWhatItOwes
  <2> QED
    BY <2>1, <2>2, <2>3, <2>4 DEF Covered, TypeOK
<1> QED
  BY <1>1, NextCovered, PTL DEF Spec

\* No balance, collateral or debt ever becomes negative, in particular none of what a
\* partial liquidation or an over-payment leaves behind.
THEOREM TypeCorrect == Spec => []TypeOK
<1>1. Covered => TypeOK
  BY DEF Covered
<1> QED
  BY <1>1, AlwaysCovered, PTL

\* The collateral and the lent XLM are where the contract's totals say.
THEOREM AlwaysHoldsWhatItOwes == Spec => []ContractHoldsWhatItOwes
<1>1. Covered => ContractHoldsWhatItOwes
  BY DEF Covered
<1> QED
  BY <1>1, AlwaysCovered, PTL

----------------------------------------------------------------------------
(* The totals and the positions. *)

\* A ledger has finitely many accounts.
LEMMA FiniteUsers == IsFiniteSet(Users)
<1>1. IsFiniteSet(Accounts) /\ Users \in SUBSET Accounts
  BY LendingConstants DEF LendingConstants, Users
<1> QED
  BY <1>1, FS_Subset

\* When the position of one user changes, the sum changes by as much.
LEMMA PositionsSum ==
    ASSUME NEW f \in [Users -> Nat], NEW g \in [Users -> Nat], NEW user \in Users,
           \A x \in Users \ {user} : g[x] = f[x]
    PROVE  /\ SumFunction(f) \in Int
           /\ SumFunction(g) = SumFunction(f) + (g[user] - f[user])
<1>1. f \in [Users -> Int] /\ g \in [Users -> Int]
  OBVIOUS
<1>2. SumFunction(f) \in Int /\ SumFunction(g) = SumFunction(f) - f[user] + g[user]
  <2> HIDE DEF Users
  <2> QED
    BY <1>1, FiniteUsers, SumChange
<1>3. f[user] \in Int /\ g[user] \in Int
  OBVIOUS
<1> QED
  BY <1>2, <1>3

\* The inductive step, one step per entry point: what a position loses, be it seized in
\* part or paid back in excess, is what its total loses.
LEMMA NextTotals ==
    ASSUME TypeOK, TypeOK', TotalsAreSums, [Next]_vars
    PROVE  TotalsAreSums'
<1> USE ConstantTypes
<1>1. /\ collateral \in [Users -> Nat] /\ borrowed \in [Users -> Nat]
      /\ collateral' \in [Users -> Nat] /\ borrowed' \in [Users -> Nat]
      /\ totalCollateral = SumFunction(collateral) /\ totalBorrowed = SumFunction(borrowed)
  BY DEF TypeOK, PositionsTypeOK, TotalsAreSums
<1>2. ASSUME NEW user \in Users, NEW n \in SxlmAmounts, DepositCollateral(user, n)
      PROVE  TotalsAreSums'
  <2>1. /\ n \in Int /\ collateral'[user] = collateral[user] + n
        /\ \A x \in Users \ {user} : collateral'[x] = collateral[x]
        /\ totalCollateral' = totalCollateral + n
        /\ borrowed' = borrowed /\ totalBorrowed' = totalBorrowed
    BY <1>1, <1>2 DEF DepositCollateral, MayDepositCollateral
  <2>2. SumFunction(collateral') = SumFunction(collateral) + n
    BY <1>1, <2>1, PositionsSum
  <2> QED
    BY <1>1, <2>1, <2>2 DEF TotalsAreSums
<1>3. ASSUME NEW user \in Users, NEW n \in SxlmAmounts, WithdrawCollateral(user, n)
      PROVE  TotalsAreSums'
  <2>1. /\ n \in Int /\ collateral'[user] = collateral[user] - n
        /\ \A x \in Users \ {user} : collateral'[x] = collateral[x]
        /\ totalCollateral' = totalCollateral - n
        /\ borrowed' = borrowed /\ totalBorrowed' = totalBorrowed
    BY <1>1, <1>3 DEF WithdrawCollateral, MayWithdrawCollateral
  <2>2. SumFunction(collateral') = SumFunction(collateral) - n
    BY <1>1, <2>1, PositionsSum
  <2> QED
    BY <1>1, <2>1, <2>2 DEF TotalsAreSums
<1>4. ASSUME NEW user \in Users, NEW n \in XlmAmounts, Borrow(user, n)
      PROVE  TotalsAreSums'
  <2>1. /\ n \in Int /\ borrowed'[user] = borrowed[user] + n
        /\ \A x \in Users \ {user} : borrowed'[x] = borrowed[x]
        /\ totalBorrowed' = totalBorrowed + n
        /\ collateral' = collateral /\ totalCollateral' = totalCollateral
    BY <1>1, <1>4 DEF Borrow, MayBorrow
  <2>2. SumFunction(borrowed') = SumFunction(borrowed) + n
    BY <1>1, <2>1, PositionsSum
  <2> QED
    BY <1>1, <2>1, <2>2 DEF TotalsAreSums
<1>5. ASSUME NEW user \in Users, NEW n \in XlmAmounts, Repay(user, n)
      PROVE  TotalsAreSums'
  <2> DEFINE paid == IF n > borrowed[user] THEN borrowed[user] ELSE n
  <2>1. paid \in Int
    BY <1>1
  <2>2. /\ borrowed' = [borrowed EXCEPT ![user] = @ - paid]
        /\ totalBorrowed' = totalBorrowed - paid
        /\ collateral' = collateral /\ totalCollateral' = totalCollateral
    BY <1>5 DEF Repay, MayRepay, PaidOf
  <2> HIDE DEF paid
  <2>3. /\ borrowed'[user] = borrowed[user] - paid
        /\ \A x \in Users \ {user} : borrowed'[x] = borrowed[x]
    BY <1>1, <2>2
  <2>4. SumFunction(borrowed') = SumFunction(borrowed) - paid
    BY <1>1, <2>1, <2>3, PositionsSum
  <2> QED
    BY <1>1, <2>2, <2>4 DEF TotalsAreSums
<1>6. ASSUME NEW liquidator \in Users, NEW borrower \in Users, Liquidate(liquidator, borrower)
      PROVE  TotalsAreSums'
  <2> DEFINE debt == borrowed[borrower]
             held == collateral[borrower]
             seized == SeizedCollateral(held, debt)
  <2>1. debt \in Nat /\ held \in Nat
    BY <1>1
  <2>2. seized \in Int
    <3> HIDE DEF debt, held
    <3>1. seized \in 0..held
      BY <2>1, SeizedType
    <3> QED
      BY <2>1, <3>1
  <2>3. /\ collateral' = [collateral EXCEPT ![borrower] = @ - seized]
        /\ totalCollateral' = totalCollateral - seized
        /\ borrowed' = [borrowed EXCEPT ![borrower] = 0]
        /\ totalBorrowed' = totalBorrowed - debt
    BY <1>6 DEF Liquidate, MayLiquidate
  <2> HIDE DEF seized
  <2>4. /\ collateral'[borrower] = collateral[borrower] - seized
        /\ \A x \in Users \ {borrower} : collateral'[x] = collateral[x]
    BY <1>1, <2>3
  <2>5. /\ borrowed'[borrower] = borrowed[borrower] - debt
        /\ \A x \in Users \ {borrower} : borrowed'[x] = borrowed[x]
    BY <1>1, <2>3
  <2> HIDE DEF debt, held
  <2>6. SumFunction(collateral') = SumFunction(collateral) - seized
    BY <1>1, <2>2, <2>4, PositionsSum
  <2>7. SumFunction(borrowed') = SumFunction(borrowed) - debt
    BY <1>1, <2>1, <2>5, PositionsSum
  <2> QED
    BY <1>1, <2>3, <2>6, <2>7 DEF TotalsAreSums
<1>7. ASSUME UNCHANGED positionVars
      PROVE  TotalsAreSums'
  BY <1>7 DEF TotalsAreSums, positionVars
<1>8. AdminStep \/ SendStep \/ UNCHANGED vars => UNCHANGED positionVars
  BY DEF AdminStep, UpdateExchangeRate, UpdateCollateralFactor, UpdateLiquidationThreshold,
         UpdateBorrowRate, SendStep, SendXlm, SendSxlm, vars
<1> QED
  BY <1>2, <1>3, <1>4, <1>5, <1>6, <1>7, <1>8 DEF Next, PositionStep

\* In every reachable state the stored totals are the sums of the positions.
THEOREM TotalsAlwaysSums == Spec => []TotalsAreSums
<1>1. Init => TotalsAreSums
  BY FiniteUsers, SumOfZeros DEF Init, TotalsAreSums
<1>2. TypeOK /\ TypeOK' /\ TotalsAreSums /\ [Next]_vars => TotalsAreSums'
  BY NextTotals
<1> QED
  BY <1>1, <1>2, TypeCorrect, PTL DEF Spec

\* So the contract holds the collateral of every user, and all of it together: a
\* withdrawal that the health check allows is never refused for lack of sXLM.
THEOREM EveryPositionIsHeld ==
    Spec => [](/\ SumFunction(collateral) <= sxlm[LendingContract]
               /\ \A u \in Users : collateral[u] <= sxlm[LendingContract])
<1>1. TypeOK /\ TotalsAreSums /\ ContractHoldsWhatItOwes
        => /\ SumFunction(collateral) <= sxlm[LendingContract]
           /\ \A u \in Users : collateral[u] <= sxlm[LendingContract]
  <2> SUFFICES ASSUME TypeOK, TotalsAreSums, ContractHoldsWhatItOwes
               PROVE  /\ SumFunction(collateral) <= sxlm[LendingContract]
                      /\ \A u \in Users : collateral[u] <= sxlm[LendingContract]
    OBVIOUS
  <2>1. collateral \in [Users -> Nat] /\ sxlm[LendingContract] \in Nat
    BY ConstantTypes DEF TypeOK, PositionsTypeOK, TokensTypeOK
  <2>2. SumFunction(collateral) \in Nat /\ \A u \in Users : collateral[u] <= SumFunction(collateral)
    BY <2>1, FiniteUsers, SumCovers
  <2>3. SumFunction(collateral) <= sxlm[LendingContract]
    BY DEF TotalsAreSums, ContractHoldsWhatItOwes
  <2> QED
    BY <2>1, <2>2, <2>3
<1> QED
  BY <1>1, TypeCorrect, TotalsAlwaysSums, AlwaysHoldsWhatItOwes, PTL

----------------------------------------------------------------------------
(* Health: who can become liquidatable, and how. *)

\* Despite its rounding, the health factor tells exactly whether the collateral covers
\* the debt.
LEMMA HealthFactorExact ==
    ASSUME NEW c \in Nat, NEW b \in Nat \ {0}, NEW bps \in Nat, NEW r \in Nat
    PROVE  /\ HealthFactor(c, b, bps, r) \in Int
           /\ HealthFactor(c, b, bps, r) >= RATE_PRECISION
                <=> c * r * bps >= RATE_PRECISION * (BPS_DENOMINATOR * b)
<1>1. c * r * bps \in Nat
  <2>1. c * r \in Nat
    OBVIOUS
  <2> QED
    BY <2>1
<1>2. BPS_DENOMINATOR * b \in Nat \ {0} /\ RATE_PRECISION \in Nat
  BY ConstantTypes
<1> DEFINE worth == c * r * bps
           scale == BPS_DENOMINATOR * b
<1>3. worth \in Nat /\ scale \in Nat \ {0}
  BY <1>1, <1>2
<1> HIDE DEF worth, scale
<1>4. /\ TruncDiv(worth, scale) \in Nat
      /\ TruncDiv(worth, scale) >= RATE_PRECISION <=> worth >= RATE_PRECISION * scale
  BY <1>2, <1>3, TruncDivOfNat
<1> QED
  BY <1>4 DEF HealthFactor, worth, scale

\* More collateral, a higher rate or threshold and less debt never harm a position.
LEMMA HealthMonotone ==
    ASSUME NEW c \in Nat, NEW r \in Nat, NEW t \in Nat, NEW b \in Nat,
           NEW c2 \in Nat, NEW r2 \in Nat, NEW t2 \in Nat, NEW b2 \in Nat,
           c2 >= c, r2 >= r, t2 >= t, b2 <= b,
           c * r * t >= RATE_PRECISION * (BPS_DENOMINATOR * b)
    PROVE  c2 * r2 * t2 >= RATE_PRECISION * (BPS_DENOMINATOR * b2)
<1>1. c * r \in Nat /\ c2 * r2 \in Nat /\ c2 * r2 >= c * r
  <2>1. c2 * r2 >= c2 * r
    OBVIOUS
  <2>2. c2 * r >= c * r
    OBVIOUS
  <2> QED
    BY <2>1, <2>2
<1> DEFINE p == c * r
           p2 == c2 * r2
<1>2. p \in Nat /\ p2 \in Nat /\ p2 >= p
  BY <1>1
<1> HIDE DEF p, p2
<1>3. p2 * t2 >= p * t
  <2>1. p2 * t2 >= p * t2
    BY <1>2
  <2>2. p * t2 >= p * t
    BY <1>2
  <2> QED
    BY <1>2, <2>1, <2>2
<1>4. RATE_PRECISION * (BPS_DENOMINATOR * b) >= RATE_PRECISION * (BPS_DENOMINATOR * b2)
  <2>1. /\ BPS_DENOMINATOR * b \in Nat /\ BPS_DENOMINATOR * b2 \in Nat
        /\ BPS_DENOMINATOR * b >= BPS_DENOMINATOR * b2
    BY ConstantTypes
  <2> DEFINE d == BPS_DENOMINATOR * b
             d2 == BPS_DENOMINATOR * b2
  <2>2. d \in Nat /\ d2 \in Nat /\ d >= d2
    BY <2>1
  <2> HIDE DEF d, d2
  <2>3. RATE_PRECISION * d >= RATE_PRECISION * d2
    BY <2>2, ConstantTypes
  <2> QED
    BY <2>3 DEF d, d2
<1> DEFINE owed == RATE_PRECISION * (BPS_DENOMINATOR * b)
           owed2 == RATE_PRECISION * (BPS_DENOMINATOR * b2)
<1>5. owed \in Int /\ owed2 \in Int /\ p * t >= owed /\ owed >= owed2
  BY <1>4, ConstantTypes DEF p
<1> HIDE DEF owed, owed2
<1>6. p2 * t2 >= owed2
  BY <1>2, <1>3, <1>5
<1> QED
  BY <1>6 DEF p2, owed2

\* A loan within the limit leaves the position covered at the collateral factor.
LEMMA LimitCovers ==
    ASSUME NEW c \in Nat, NEW b \in Nat, NEW f \in Nat, NEW r \in Nat,
           b <= MaxBorrow(c, f, r)
    PROVE  c * r * f >= RATE_PRECISION * (BPS_DENOMINATOR * b)
<1> DEFINE worth == c * r * f
           scale == BPS_DENOMINATOR * RATE_PRECISION
           most == TruncDiv(worth, scale)
<1>1. worth \in Nat /\ scale \in Nat \ {0}
  <2>1. c * r \in Nat
    OBVIOUS
  <2> QED
    BY <2>1, ConstantTypes
<1>2. most \in Nat /\ most * scale <= worth /\ b <= most
  <2> HIDE DEF worth, scale
  <2>1. most \in Nat /\ most * scale <= worth
    BY <1>1, TruncDivOfNat
  <2> QED
    BY <2>1 DEF MaxBorrow, worth, scale
<1> HIDE DEF most
<1>3. b * scale <= worth
  <2> HIDE DEF worth, scale
  <2>1. b * scale <= most * scale
    BY <1>1, <1>2
  <2> QED
    BY <1>1, <1>2, <2>1
<1>4. b * scale = RATE_PRECISION * (BPS_DENOMINATOR * b)
  BY ConstantTypes
<1> QED
  BY <1>3, <1>4

\* It takes a lower rate or a lower threshold to make anyone liquidatable, as long as
\* the collateral factor is not above the threshold.
THEOREM OnlyRepricingMakesLiquidatable == Spec => LiquidatableOnlyByRepricing
<1> DEFINE A(u) == /\ ~Liquidatable(u)
                   /\ Liquidatable(u)'
                   /\ collateralFactorBps <= liquidationThresholdBps
                   => \/ exchangeRate' < exchangeRate
                      \/ liquidationThresholdBps' < liquidationThresholdBps
<1>1. TypeOK /\ TypeOK' /\ [Next]_vars => \A u \in Users : A(u)
  <2> SUFFICES ASSUME TypeOK, TypeOK', [Next]_vars, NEW u \in Users,
                      ~Liquidatable(u), Liquidatable(u)',
                      collateralFactorBps <= liquidationThresholdBps,
                      ~(exchangeRate' < exchangeRate),
                      ~(liquidationThresholdBps' < liquidationThresholdBps)
               PROVE  FALSE
    BY DEF A
  <2> DEFINE c == collateral[u]
             b == borrowed[u]
             r == exchangeRate
             t == liquidationThresholdBps
             f == collateralFactorBps
             Owed(debt) == RATE_PRECISION * (BPS_DENOMINATOR * debt)
  <2>1. /\ c \in Nat /\ b \in Nat /\ r \in Nat /\ t \in Nat /\ f \in Nat
        /\ c' \in Nat /\ b' \in Nat /\ r' \in Nat /\ t' \in Nat
        /\ r' >= r /\ t' >= t /\ f <= t
    BY ConstantTypes DEF TypeOK, PositionsTypeOK, ParamsTypeOK
  <2>2. b' > 0 /\ ~(c' * r' * t' >= Owed(b'))
    <3>1. b' > 0 /\ HealthFactor(c', b', t', r') < RATE_PRECISION
      BY DEF Liquidatable
    <3>2. /\ HealthFactor(c', b', t', r') \in Int
          /\ HealthFactor(c', b', t', r') >= RATE_PRECISION <=> c' * r' * t' >= Owed(b')
      <4>1. b' \in Nat \ {0}
        BY <2>1, <3>1
      <4> HIDE DEF c, b, r, t
      <4> QED
        BY <2>1, <4>1, HealthFactorExact
    <3> QED
      BY <3>1, <3>2, ConstantTypes
  <2>3. b > 0 => c * r * t >= Owed(b)
    <3> SUFFICES ASSUME b > 0 PROVE c * r * t >= Owed(b)
      OBVIOUS
    <3>1. ~(HealthFactor(c, b, t, r) < RATE_PRECISION)
      BY DEF Liquidatable
    <3>2. /\ HealthFactor(c, b, t, r) \in Int
          /\ HealthFactor(c, b, t, r) >= RATE_PRECISION <=> c * r * t >= Owed(b)
      <4>1. b \in Nat \ {0}
        BY <2>1
      <4> HIDE DEF c, b, r, t
      <4> QED
        BY <2>1, <4>1, HealthFactorExact
    <3> QED
      BY <3>1, <3>2, ConstantTypes
  <2> HIDE DEF c, b, r, t, f, Owed
  <2>4. ASSUME c' >= c, b' <= b PROVE FALSE
    <3>1. c' * r' * t' >= Owed(b')
      BY <2>1, <2>2, <2>3, <2>4, HealthMonotone DEF Owed
    <3> QED
      BY <2>2, <3>1
  <2>5. ASSUME c' * r * f >= Owed(b') PROVE FALSE
    <3>1. c' * r' * t' >= Owed(b')
      BY <2>1, <2>5, HealthMonotone DEF Owed
    <3> QED
      BY <2>2, <3>1
  <2>6. ASSUME NEW user \in Users, NEW n \in SxlmAmounts, DepositCollateral(user, n)
        PROVE  FALSE
    <3>1. c' >= c /\ b' = b
      BY <2>6, ConstantTypes DEF DepositCollateral, MayDepositCollateral, TypeOK, PositionsTypeOK, c, b
    <3> QED
      BY <2>1, <2>4, <3>1
  <2>7. ASSUME NEW user \in Users, NEW n \in SxlmAmounts, WithdrawCollateral(user, n)
        PROVE  FALSE
    <3>1. CASE user = u
      <4>1. c' = c - n /\ b' = b
        BY <2>7, <3>1 DEF WithdrawCollateral, MayWithdrawCollateral, TypeOK, PositionsTypeOK, c, b
      <4>2. HealthFactor(c', b', f, r) >= RATE_PRECISION
        BY <2>2, <2>7, <3>1, <4>1 DEF WithdrawCollateral, MayWithdrawCollateral, c, b, f, r
      <4>3. c' * r * f >= Owed(b')
        BY <2>1, <2>2, <4>2, HealthFactorExact DEF Owed
      <4> QED
        BY <2>5, <4>3
    <3>2. CASE user # u
      <4>1. c' = c /\ b' = b
        BY <2>7, <3>2 DEF WithdrawCollateral, MayWithdrawCollateral, TypeOK, PositionsTypeOK, c, b
      <4> QED
        BY <2>1, <2>4, <4>1
    <3> QED
      BY <3>1, <3>2
  <2>8. ASSUME NEW user \in Users, NEW n \in XlmAmounts, Borrow(user, n)
        PROVE  FALSE
    <3>1. CASE user = u
      <4>1. c' = c /\ b' <= MaxBorrow(c', f, r)
        BY <2>8, <3>1 DEF Borrow, MayBorrow, TypeOK, PositionsTypeOK, c, b, f, r
      <4>2. c' * r * f >= Owed(b')
        BY <2>1, <4>1, LimitCovers DEF Owed
      <4> QED
        BY <2>5, <4>2
    <3>2. CASE user # u
      <4>1. c' = c /\ b' = b
        BY <2>8, <3>2 DEF Borrow, MayBorrow, TypeOK, PositionsTypeOK, c, b
      <4> QED
        BY <2>1, <2>4, <4>1
    <3> QED
      BY <3>1, <3>2
  <2>9. ASSUME NEW user \in Users, NEW n \in XlmAmounts, Repay(user, n)
        PROVE  FALSE
    <3>1. c' = c /\ b' <= b
      BY <2>9, ConstantTypes DEF Repay, MayRepay, PaidOf, TypeOK, PositionsTypeOK, c, b
    <3> QED
      BY <2>1, <2>4, <3>1
  <2>10. ASSUME NEW user \in Users, NEW borrower \in Users, Liquidate(user, borrower)
         PROVE  FALSE
    <3>1. CASE borrower = u
      <4>1. b' = 0
        BY <2>10, <3>1 DEF Liquidate, MayLiquidate, TypeOK, PositionsTypeOK, b
      <4> QED
        BY <2>2, <4>1
    <3>2. CASE borrower # u
      <4>1. c' = c /\ b' = b
        BY <2>10, <3>2 DEF Liquidate, MayLiquidate, TypeOK, PositionsTypeOK, c, b
      <4> QED
        BY <2>1, <2>4, <4>1
    <3> QED
      BY <3>1, <3>2
  <2>11. CASE UNCHANGED positionVars
    BY <2>1, <2>4, <2>11 DEF positionVars, c, b
  <2>12. CASE PositionStep
    BY <2>6, <2>7, <2>8, <2>9, <2>10, <2>12 DEF PositionStep
  <2>13. CASE AdminStep \/ SendStep \/ UNCHANGED vars
    BY <2>11, <2>13 DEF AdminStep, SendStep, UpdateExchangeRate, UpdateCollateralFactor,
                        UpdateLiquidationThreshold, UpdateBorrowRate, SendXlm, SendSxlm, vars
  <2> QED
    BY <2>12, <2>13 DEF Next
<1>2. TypeOK /\ TypeOK' /\ [Next]_vars => [\A u \in Users : A(u)]_vars
  BY <1>1
<1> QED
  BY <1>2, TypeCorrect, PTL DEF Spec, LiquidatableOnlyByRepricing

----------------------------------------------------------------------------
(* The backend's rules are the contract's. *)

\* The limit that the position page shows is the contract's, for a loan and for the
\* collateral that stays behind.
LEMMA ShownLimitExact ==
    ASSUME TypeOK, NEW c \in Nat, NEW b \in Nat
    PROVE  /\ WithinShownLimit(c, b) <=> b <= MaxBorrow(c, collateralFactorBps, exchangeRate)
           /\ WithinShownLimit(c, b)
                <=> (b > 0 => HealthFactor(c, b, collateralFactorBps, exchangeRate) >= RATE_PRECISION)
<1> DEFINE f == collateralFactorBps
           r == exchangeRate
           worth == c * r * f
           scale == BPS_DENOMINATOR * RATE_PRECISION
<1>1. f \in Nat /\ r \in Nat /\ worth \in Nat /\ scale \in Nat \ {0}
  <2>1. f \in Nat /\ r \in Nat
    BY ConstantTypes DEF TypeOK, ParamsTypeOK
  <2>2. c * r \in Nat
    BY <2>1
  <2> QED
    BY <2>1, <2>2, ConstantTypes
<1>2. WithinShownLimit(c, b) <=> b * scale <= worth
  <2>1. b * BPS_DENOMINATOR * RATE_PRECISION = b * scale
    BY ConstantTypes
  <2> QED
    BY <2>1 DEF WithinShownLimit
<1>3. MaxBorrow(c, f, r) = TruncDiv(worth, scale)
  BY DEF MaxBorrow
<1>4. b * scale = RATE_PRECISION * (BPS_DENOMINATOR * b) /\ b * scale \in Nat
  BY ConstantTypes
<1>5. WithinShownLimit(c, b) <=> b <= MaxBorrow(c, f, r)
  <2> HIDE DEF f, r, worth, scale
  <2>1. TruncDiv(worth, scale) \in Nat /\ (TruncDiv(worth, scale) >= b <=> worth >= b * scale)
    BY <1>1, TruncDivOfNat
  <2>2. b * scale \in Nat
    BY <1>1
  <2> QED
    BY <1>1, <1>2, <1>3, <2>1, <2>2
<1>6. CASE b = 0
  <2>1. b * scale = 0
    BY <1>1, <1>6
  <2> QED
    BY <1>1, <1>2, <1>5, <1>6, <2>1
<1>7. CASE b > 0
  <2>1. b \in Nat \ {0}
    BY <1>7
  <2>2. HealthFactor(c, b, f, r) >= RATE_PRECISION <=> worth >= RATE_PRECISION * (BPS_DENOMINATOR * b)
    <3> HIDE DEF f, r
    <3> QED
      BY <1>1, <2>1, HealthFactorExact
  <2> HIDE DEF worth, scale
  <2> QED
    BY <1>1, <1>2, <1>4, <1>5, <1>7, <2>2
<1> QED
  BY <1>6, <1>7

\* What the backend checks is what the contract checks, in any state in which the
\* contract holds the collateral.
LEMMA RoutesAgree ==
    TypeOK /\ (\A u \in Users : collateral[u] <= sxlm[LendingContract]) => RoutesAgreeWithContract
<1> SUFFICES ASSUME TypeOK, \A u \in Users : collateral[u] <= sxlm[LendingContract],
                    NEW user \in Users
             PROVE
        /\ \A n \in SxlmAmounts \cap (Nat \ {0}) :
              /\ DepositPreflight(user, n) <=> MayDepositCollateral(user, n)
              /\ collateral[user] >= n /\ WithinShownLimit(collateral[user] - n, borrowed[user])
                    <=> WithdrawRouteBuilds(user, n)
        /\ \A n \in XlmAmounts \cap (Nat \ {0}) :
              /\ BorrowPreflight(n) /\ WithinShownLimit(collateral[user], borrowed[user] + n)
                    <=> MayBorrow(user, n)
              /\ xlm[user] >= borrowed[user] /\ n >= borrowed[user] => RepayRouteBuilds(user, n)
        /\ \A other \in Users :
              xlm[other] >= borrowed[user] /\ ShownUnhealthy(user)
                <=> LiquidateRouteBuilds(other, user)
  BY DEF RoutesAgreeWithContract
<1>1. /\ collateral[user] \in Nat /\ borrowed[user] \in Nat
      /\ sxlm[LendingContract] \in Nat /\ collateral[user] <= sxlm[LendingContract]
  BY ConstantTypes DEF TypeOK, PositionsTypeOK, TokensTypeOK
<1>2. ASSUME NEW n \in SxlmAmounts \cap (Nat \ {0})
      PROVE  /\ DepositPreflight(user, n) <=> MayDepositCollateral(user, n)
             /\ collateral[user] >= n /\ WithinShownLimit(collateral[user] - n, borrowed[user])
                    <=> WithdrawRouteBuilds(user, n)
  <2>1. n \in Nat /\ n > 0
    OBVIOUS
  <2>2. DepositPreflight(user, n) <=> MayDepositCollateral(user, n)
    BY <2>1 DEF DepositPreflight, MayDepositCollateral
  <2>3. ASSUME collateral[user] >= n
        PROVE  /\ WithinShownLimit(collateral[user] - n, borrowed[user])
                    <=> (borrowed[user] > 0 =>
                          HealthFactor(collateral[user] - n, borrowed[user], collateralFactorBps,
                                       exchangeRate) >= RATE_PRECISION)
               /\ sxlm[LendingContract] >= n
    <3>1. collateral[user] - n \in Nat /\ sxlm[LendingContract] >= n
      BY <1>1, <2>1, <2>3
    <3> QED
      BY <1>1, <3>1, ShownLimitExact
  <2>4. collateral[user] >= n /\ WithinShownLimit(collateral[user] - n, borrowed[user])
                    <=> WithdrawRouteBuilds(user, n)
    BY <2>1, <2>3 DEF WithdrawRouteBuilds, MayWithdrawCollateral
  <2> QED
    BY <2>2, <2>4
<1>3. ASSUME NEW n \in XlmAmounts \cap (Nat \ {0})
      PROVE  /\ BorrowPreflight(n) /\ WithinShownLimit(collateral[user], borrowed[user] + n)
                    <=> MayBorrow(user, n)
             /\ xlm[user] >= borrowed[user] /\ n >= borrowed[user] => RepayRouteBuilds(user, n)
  <2>1. n \in Nat /\ n > 0 /\ borrowed[user] + n \in Nat
    BY <1>1
  <2>2. WithinShownLimit(collateral[user], borrowed[user] + n)
          <=> borrowed[user] + n <= MaxBorrow(collateral[user], collateralFactorBps, exchangeRate)
    BY <1>1, <2>1, ShownLimitExact
  <2>3. n >= borrowed[user] => PaidOf(user, n) = borrowed[user]
    BY <1>1, <2>1 DEF PaidOf
  <2> QED
    BY <2>1, <2>2, <2>3 DEF BorrowPreflight, MayBorrow, RepayRouteBuilds, MayRepay
<1>4. ASSUME NEW other \in Users
      PROVE  xlm[other] >= borrowed[user] /\ ShownUnhealthy(user)
                <=> LiquidateRouteBuilds(other, user)
  <2>1. SeizedCollateral(collateral[user], borrowed[user]) \in 0..collateral[user]
    BY <1>1, SeizedType
  <2>2. sxlm[LendingContract] >= SeizedCollateral(collateral[user], borrowed[user])
    BY <1>1, <2>1
  <2> QED
    BY <2>2 DEF ShownUnhealthy, LiquidateRouteBuilds, MayLiquidate, Liquidatable
<1> QED
  BY <1>2, <1>3, <1>4

\* The checks that the routes make before a call is simulated, and the limit and the
\* health they show, agree with what the contract decides, for every position, rate and
\* factor: none of the roundings makes one of them stricter than another.
THEOREM RoutesAlwaysAgree == Spec => []RoutesAgreeWithContract
<1>1. TypeOK /\ (/\ SumFunction(collateral) <= sxlm[LendingContract]
                 /\ \A u \in Users : collateral[u] <= sxlm[LendingContract])
        => RoutesAgreeWithContract
  BY RoutesAgree
<1> QED
  BY <1>1, TypeCorrect, EveryPositionIsHeld, PTL

----------------------------------------------------------------------------
(* The projections of the engines. *)

\* The states of a projection.
LoopStates == [staked : Nat, borrowed : Nat, current : Nat, scale : Nat]

\* What the loops keep: the debt is the factor's part of what is staked, and the stake,
\* with what is about to be staked, is the principal and the loans.
InStep(s, principal, bps) ==
    /\ s.borrowed * BPS_DENOMINATOR = s.staked * bps
    /\ s.staked + s.current = principal * s.scale + s.borrowed

\* A loop leads from one of them to another.
LEMMA LoopType ==
    ASSUME NEW s \in LoopStates, NEW bps \in Nat
    PROVE  Loop(s, bps) \in LoopStates
<1>1. /\ s.staked \in Nat /\ s.borrowed \in Nat /\ s.current \in Nat /\ s.scale \in Nat
      /\ BPS_DENOMINATOR \in Nat
  BY ConstantTypes DEF LoopStates
<1>2. /\ (s.staked + s.current) * BPS_DENOMINATOR \in Nat
      /\ s.borrowed * BPS_DENOMINATOR \in Nat /\ s.current * bps \in Nat
      /\ s.scale * BPS_DENOMINATOR \in Nat
  BY <1>1
<1>3. s.borrowed * BPS_DENOMINATOR + s.current * bps \in Nat
  BY <1>2
<1> QED
  BY <1>2, <1>3 DEF Loop, LoopStates

\* A simulation unfolds as it is written.
LEMMA SimulationUnfolds ==
    ASSUME NEW principal \in Nat, NEW bps \in Nat
    PROVE  /\ Simulate(principal, bps)[0] = Start(principal)
           /\ \A n \in Nat : Simulate(principal, bps)[n + 1] = Loop(Simulate(principal, bps)[n], bps)
<1> DEFINE next == [s \in LoopStates |-> Loop(s, bps)]
           IsRun(a) == a = [n \in Nat |-> IF n = 0 THEN Start(principal) ELSE Loop(a[n - 1], bps)]
           run == CHOOSE a : IsRun(a)
<1>1. Start(principal) \in LoopStates
  BY DEF Start, LoopStates
<1>2. next \in [LoopStates -> LoopStates]
  <2>1. ASSUME NEW s \in LoopStates PROVE Loop(s, bps) \in LoopStates
    BY LoopType
  <2> QED
    BY <2>1
<1>3. PICK g \in [Nat -> LoopStates] : Iterates(g, Start(principal), next)
  <2> HIDE DEF next
  <2> QED
    BY <1>1, <1>2, IterationExists
<1>4. IsRun(g)
  <2>1. \A n \in Nat : n # 0 => n - 1 \in Nat /\ next[g[n - 1]] = Loop(g[n - 1], bps)
    BY <1>3
  <2>2. g = [n \in Nat |-> IF n = 0 THEN Start(principal) ELSE next[g[n - 1]]]
    BY <1>3 DEF Iterates
  <2>3. \A n \in Nat : (IF n = 0 THEN Start(principal) ELSE next[g[n - 1]])
                         = (IF n = 0 THEN Start(principal) ELSE Loop(g[n - 1], bps))
    BY <2>1
  <2> HIDE DEF next
  <2> QED
    BY <2>2, <2>3
<1>5. IsRun(run)
  <2> HIDE DEF IsRun
  <2> QED
    BY <1>4
<1>6. Simulate(principal, bps) = run
  BY DEF Simulate
<1> HIDE DEF run
<1>7. run[0] = Start(principal)
  BY <1>5
<1>8. ASSUME NEW n \in Nat PROVE run[n + 1] = Loop(run[n], bps)
  <2>1. n + 1 \in Nat /\ n + 1 # 0 /\ (n + 1) - 1 = n
    OBVIOUS
  <2> QED
    BY <1>5, <2>1
<1> QED
  BY <1>6, <1>7, <1>8

\* One more loop keeps the simulation in step.
LEMMA LoopKeepsStep ==
    ASSUME NEW s \in LoopStates, NEW principal \in Nat, NEW bps \in Nat, InStep(s, principal, bps)
    PROVE  Loop(s, bps) \in LoopStates /\ InStep(Loop(s, bps), principal, bps)
<1> DEFINE D == BPS_DENOMINATOR
           t == s.staked
           b == s.borrowed
           c == s.current
           k == s.scale
<1>1. D \in Nat /\ t \in Nat /\ b \in Nat /\ c \in Nat /\ k \in Nat
  BY ConstantTypes DEF LoopStates
<1>2. b * D = t * bps /\ t + c = principal * k + b
  BY DEF InStep
<1>3. Loop(s, bps) = [staked |-> (t + c) * D, borrowed |-> b * D + c * bps,
                      current |-> c * bps, scale |-> k * D]
  BY DEF Loop
<1> HIDE DEF D, t, b, c, k
<1>4. (b * D + c * bps) * D = (t + c) * D * bps
  <2>1. b * D + c * bps = (t + c) * bps
    BY <1>1, <1>2
  <2>2. ((t + c) * bps) * D = (t + c) * D * bps
    BY <1>1
  <2> QED
    BY <2>1, <2>2
<1>5. (t + c) * D + c * bps = principal * (k * D) + (b * D + c * bps)
  <2>1. (t + c) * D = (principal * k + b) * D
    BY <1>2
  <2>2. (principal * k + b) * D = principal * (k * D) + b * D
    BY <1>1
  <2>3. (t + c) * D \in Int /\ principal * (k * D) \in Int /\ b * D \in Int /\ c * bps \in Int
    BY <1>1
  <2> QED
    BY <2>1, <2>2, <2>3
<1>6. Loop(s, bps) \in LoopStates
  BY LoopType
<1> QED
  BY <1>3, <1>4, <1>5, <1>6 DEF InStep, D

\* So every simulation is in step, however many loops it has.
LEMMA SimulationInStep ==
    ASSUME NEW principal \in Nat, NEW bps \in Nat
    PROVE  \A n \in Nat : /\ Simulate(principal, bps)[n] \in LoopStates
                          /\ InStep(Simulate(principal, bps)[n], principal, bps)
<1> DEFINE after == Simulate(principal, bps)
           G == {n \in Nat : after[n] \in LoopStates /\ InStep(after[n], principal, bps)}
<1>1. after[0] = Start(principal) /\ \A n \in Nat : after[n + 1] = Loop(after[n], bps)
  BY SimulationUnfolds
<1> HIDE DEF after
<1>2. 0 \in G
  <2>1. Start(principal) \in LoopStates
    BY DEF Start, LoopStates
  <2>2. InStep(Start(principal), principal, bps)
    BY ConstantTypes DEF Start, InStep
  <2> QED
    BY <1>1, <2>1, <2>2
<1>3. ASSUME NEW n \in Nat, n \in G PROVE n + 1 \in G
  BY <1>1, <1>3, LoopKeepsStep
<1>4. Nat \subseteq G
  <2> HIDE DEF G
  <2> QED
    BY <1>2, <1>3, CountingInduction
<1> QED
  BY <1>4 DEF after

\* At a rate of one, a debt that is the factor's part of the stake is within the limit.
LEMMA InStepWithinLimit ==
    ASSUME NEW s \in LoopStates, NEW principal \in Nat, NEW bps \in Nat, InStep(s, principal, bps)
    PROVE  s.borrowed <= MaxBorrow(s.staked, bps, RATE_PRECISION)
<1> DEFINE D == BPS_DENOMINATOR
           P == RATE_PRECISION
           t == s.staked
           b == s.borrowed
           worth == t * P * bps
<1>1. D \in Nat \ {0} /\ P \in Nat \ {0} /\ t \in Nat /\ b \in Nat /\ b * D = t * bps
  BY ConstantTypes DEF LoopStates, InStep
<1>2. MaxBorrow(t, bps, P) = TruncDiv(worth, D * P)
  BY DEF MaxBorrow
<1> HIDE DEF D, P, t, b
<1>3. t * P \in Nat /\ worth \in Nat /\ D * P \in Nat \ {0}
  BY <1>1
<1>4. worth = b * (D * P)
  <2>1. worth = (t * bps) * P
    BY <1>1
  <2>2. (b * D) * P = b * (D * P)
    BY <1>1
  <2> QED
    BY <1>1, <2>1, <2>2
<1>5. b * (D * P) \in Nat
  BY <1>1
<1> HIDE DEF worth
<1>6. TruncDiv(worth, D * P) >= b /\ TruncDiv(worth, D * P) \in Nat
  BY <1>1, <1>3, <1>4, <1>5, TruncDivOfNat
<1> QED
  BY <1>1, <1>2, <1>6 DEF b, t, P

\* A position that is shown as healthy is healthy to the contract while the rate is at
\* least one and the threshold at least the factor that the engine assumes.
LEMMA ShownHealthIsHealth ==
    ASSUME TypeOK, LendingRoutesAssumption, NEW user \in Users, ShownHealthy(user),
           exchangeRate >= RATE_PRECISION, liquidationThresholdBps >= EngineFactorBps
    PROVE  ~Liquidatable(user)
<1> SUFFICES ASSUME Liquidatable(user) PROVE FALSE
  OBVIOUS
<1> DEFINE c == collateral[user]
           b == borrowed[user]
           r == exchangeRate
           t == liquidationThresholdBps
           P == RATE_PRECISION
           D == BPS_DENOMINATOR
           F == EngineFactorBps
<1>1. /\ c \in Nat /\ b \in Nat \ {0} /\ r \in Nat /\ t \in Nat
      /\ P \in Nat /\ D \in Nat /\ F \in Nat /\ r >= P /\ t >= F /\ c * F >= b * D
  BY ConstantTypes DEF TypeOK, PositionsTypeOK, ParamsTypeOK, LendingRoutesAssumption,
     Liquidatable, ShownHealthy
<1>2. HealthFactor(c, b, t, r) < P
  BY DEF Liquidatable
<1> HIDE DEF c, b, r, t, F
<1>3. HealthFactor(c, b, t, r) \in Int /\ (HealthFactor(c, b, t, r) >= P <=> c * r * t >= P * (D * b))
  BY <1>1, HealthFactorExact
<1>4. c * P * F >= P * (D * b)
  <2> HIDE DEF P, D
  <2> DEFINE x == c * F
             y == b * D
  <2>1. x \in Nat /\ y \in Nat /\ x >= y
    BY <1>1
  <2>2. c * P * F = P * x /\ P * (D * b) = P * y
    BY <1>1
  <2> HIDE DEF x, y
  <2>3. P * x >= P * y
    BY <1>1, <2>1
  <2> QED
    BY <2>2, <2>3
<1>5. c * r * t >= P * (D * b)
  BY <1>1, <1>4, HealthMonotone
<1> QED
  BY <1>1, <1>2, <1>3, <1>5

\* What the leverage and the restaking engine project the contract allows, after any
\* number of loops, and a position they show as healthy cannot be liquidated.
THEOREM ProjectionsAlwaysHold == Spec => []ProjectionsHold
<1>1. TypeOK => ProjectionsHold
  <2> SUFFICES ASSUME TypeOK PROVE ProjectionsHold
    OBVIOUS
  <2>1. ASSUME exchangeRate = RATE_PRECISION, NEW principal \in Principals, NEW loops \in 1..MaxLoops
        PROVE  LET now == Simulate(principal, collateralFactorBps)[loops]
               IN  /\ now.borrowed <= MaxBorrow(now.staked, collateralFactorBps, exchangeRate)
                   /\ now.staked + now.current = principal * now.scale + now.borrowed
    <3> DEFINE now == Simulate(principal, collateralFactorBps)[loops]
    <3>1. principal \in Nat /\ loops \in Nat /\ collateralFactorBps \in Nat
      BY LendingRoutesAssumption, ConstantTypes
         DEF LendingRoutesAssumption, TypeOK, ParamsTypeOK
    <3>2. now \in LoopStates /\ InStep(now, principal, collateralFactorBps)
      BY <3>1, SimulationInStep
    <3> HIDE DEF now
    <3>3. now.borrowed <= MaxBorrow(now.staked, collateralFactorBps, exchangeRate)
      BY <2>1, <3>1, <3>2, InStepWithinLimit
    <3> QED
      BY <3>2, <3>3 DEF InStep, now
  <2>2. ASSUME exchangeRate >= RATE_PRECISION, liquidationThresholdBps >= EngineFactorBps,
               NEW user \in Users, ShownHealthy(user)
        PROVE  ~Liquidatable(user)
    BY <2>2, LendingRoutesAssumption, ShownHealthIsHealth
  <2> QED
    BY <2>1, <2>2 DEF ProjectionsHold
<1> QED
  BY <1>1, TypeCorrect, PTL
=============================================================================
