---------------------------- MODULE StakingProofs ----------------------------
(***************************************************************************)
(* Proofs about the staking contract and its token, for every set of       *)
(* accounts, every set of input amounts and every value of the bounds.     *)
(***************************************************************************)
EXTENDS StakingRoutes, ContractLemmas, TLAPS

\* What the proofs need to know of the constants.
LEMMA ConstantTypes ==
    /\ StakingContract \in Accounts
    /\ Callers \subseteq Accounts /\ Admins \subseteq Callers
    /\ \A user \in Callers : user # StakingContract
    /\ TokenAdmins \subseteq Accounts /\ Minters \subseteq Accounts
    /\ TokenAmounts \subseteq Int /\ ApproveAmounts \subseteq Int
    /\ XlmAmounts \subseteq Int /\ RewardAmounts \subseteq Int /\ FeeAmounts \subseteq Int
    /\ SlashAmounts \subseteq Int /\ LiquidityAmounts \subseteq Int /\ Cooldowns \subseteq Nat
    /\ InitialXlm \in [Accounts -> Nat] /\ InitialXlm[StakingContract] = 0
BY TokenConstants, StakingConstants DEF TokenConstants, StakingConstants, Callers

----------------------------------------------------------------------------
(* Lemmas about the operators. *)

\* A native transfer keeps every balance a natural number.
LEMMA PayXlmType ==
    ASSUME NEW from \in Accounts, NEW to \in Accounts, NEW amount \in Nat,
           xlm \in [Accounts -> Nat], PayXlm(from, to, amount)
    PROVE  xlm' \in [Accounts -> Nat]
BY DEF PayXlm, MayPayXlm

\* Both conversions yield integers, with the divisors their callers check.
LEMMA ConversionType ==
    ASSUME BooksTypeOK, NEW n \in Int
    PROVE  /\ SxlmFor(n) \in Int
           /\ totalSxlmSupply # 0 => XlmFor(n) \in Int
<1>1. totalSxlmSupply \in Int /\ totalXlmStaked \in Int
  BY DEF BooksTypeOK
<1>2. n * totalSxlmSupply \in Int /\ n * totalXlmStaked \in Int
  BY <1>1
<1> QED
  BY <1>1, <1>2, TruncDivType DEF SxlmFor, XlmFor

\* The protocol fee is between nothing and the whole reward.
LEMMA FeeType ==
    ASSUME NEW n \in Nat
    PROVE  TruncDiv(n * ProtocolFeeBps, BpsDenominator) \in 0..n
BY DEF TruncDiv, Magnitude, ProtocolFeeBps, BpsDenominator

----------------------------------------------------------------------------
(* Type correctness: one lemma per part of the state, each over every step *)
(* that may change the part.                                                *)

LEMMA MintType ==
    ASSUME TokenTypeOK, NEW by \in Accounts, NEW to \in Accounts, NEW n \in Int,
           Mint(by, to, n)
    PROVE  TokenTypeOK'
BY DEF TokenTypeOK, Mint, MayMint

LEMMA BurnType ==
    ASSUME TokenTypeOK, NEW by \in Accounts, NEW from \in Accounts, NEW n \in Int,
           Burn(by, from, n)
    PROVE  TokenTypeOK'
BY DEF TokenTypeOK, Burn, MayBurn

LEMMA TokenStepType ==
    ASSUME TokenTypeOK, TokenStep
    PROVE  TokenTypeOK'
<1> USE ConstantTypes
<1>1. ASSUME NEW from \in Callers, NEW to \in Accounts, NEW n \in TokenAmounts,
             Transfer(from, to, n)
      PROVE  TokenTypeOK'
  <2>1. balance \in [Accounts -> Nat] /\ from \in Accounts /\ n \in Nat /\ balance[from] >= n
    BY <1>1 DEF TokenTypeOK, Transfer
  <2>2. balance' \in [Accounts -> Nat]
    BY <1>1, <2>1, MovedType DEF Transfer
  <2> QED
    BY <1>1, <2>2 DEF TokenTypeOK, Transfer
<1>2. ASSUME NEW from \in Callers, NEW spender \in Callers, NEW n \in ApproveAmounts,
             Approve(from, spender, n)
      PROVE  TokenTypeOK'
  BY <1>2 DEF TokenTypeOK, Approve
<1>3. ASSUME NEW spender \in Callers, NEW from \in Callers, NEW to \in Accounts,
             NEW n \in TokenAmounts, TransferFrom(spender, from, to, n)
      PROVE  TokenTypeOK'
  <2>1. /\ balance \in [Accounts -> Nat] /\ from \in Accounts /\ n \in Nat
        /\ balance[from] >= n
    BY <1>3 DEF TokenTypeOK, TransferFrom
  <2>2. balance' \in [Accounts -> Nat]
    BY <1>3, <2>1, MovedType DEF TransferFrom
  <2>3. allowance[from] \in [Accounts -> Nat] /\ allowance[from][spender] - n \in Nat
    BY <1>3, <2>1 DEF TokenTypeOK, TransferFrom
  <2>4. allowance' \in [Accounts -> [Accounts -> Nat]]
    BY <1>3, <2>1, <2>3 DEF TokenTypeOK, TransferFrom
  <2> QED
    BY <1>3, <2>2, <2>4 DEF TokenTypeOK, TransferFrom
<1>4. ASSUME NEW by \in Callers, NEW to \in Accounts, NEW n \in TokenAmounts,
             Mint(by, to, n)
      PROVE  TokenTypeOK'
  BY <1>4, MintType
<1>5. ASSUME NEW by \in Callers, NEW from \in Accounts, NEW n \in TokenAmounts,
             Burn(by, from, n)
      PROVE  TokenTypeOK'
  BY <1>5, BurnType
<1>6. ASSUME NEW by \in Callers, NEW m \in Minters, SetMinter(by, m)
      PROVE  TokenTypeOK'
  BY <1>6 DEF TokenTypeOK, SetMinter
<1>7. ASSUME NEW by \in Callers, NEW a \in TokenAdmins, SetTokenAdmin(by, a)
      PROVE  TokenTypeOK'
  BY <1>7 DEF TokenTypeOK, SetTokenAdmin
<1> QED
  BY <1>1, <1>2, <1>3, <1>4, <1>5, <1>6, <1>7 DEF TokenStep

\* The parts a step leaves alone keep their type.
LEMMA UnchangedTypes ==
    /\ TokenTypeOK /\ UNCHANGED tokenVars => TokenTypeOK'
    /\ LedgerTypeOK /\ UNCHANGED <<xlm, ledger>> => LedgerTypeOK'
    /\ BooksTypeOK /\ UNCHANGED bookVars => BooksTypeOK'
    /\ QueueTypeOK /\ UNCHANGED queueVars => QueueTypeOK'
    /\ ConfigTypeOK /\ UNCHANGED configVars => ConfigTypeOK'
    /\ GhostTypeOK /\ UNCHANGED ghostVars => GhostTypeOK'
BY DEF TokenTypeOK, LedgerTypeOK, BooksTypeOK, QueueTypeOK, ConfigTypeOK, GhostTypeOK,
       tokenVars, bookVars, queueVars, configVars, ghostVars

LEMMA DepositType ==
    ASSUME TypeOK, NEW user \in Callers, NEW n \in XlmAmounts, Deposit(user, n)
    PROVE  TypeOK'
<1> USE ConstantTypes DEF TypeOK
<1>1. n \in Nat /\ SxlmFor(n) \in Nat
  BY ConversionType DEF Deposit, MayDeposit
<1>2. TokenTypeOK'
  BY <1>1, MintType DEF Deposit, MayDeposit
<1>3. LedgerTypeOK'
  BY <1>1, PayXlmType DEF LedgerTypeOK, Deposit, MayDeposit
<1>4. BooksTypeOK'
  BY <1>1 DEF BooksTypeOK, Deposit, MayDeposit
<1> QED
  BY <1>2, <1>3, <1>4, UnchangedTypes DEF Deposit, MayDeposit

LEMMA BurnForWithdrawalType ==
    ASSUME TypeOK, NEW user \in Callers, NEW n \in TokenAmounts,
           BurnForWithdrawal(user, n)
    PROVE  /\ TokenTypeOK'
           /\ totalSxlmSupply' \in Int
           /\ XlmFor(n) \in Nat \ {0}
<1> USE ConstantTypes DEF TypeOK
<1>1. XlmFor(n) \in Nat \ {0}
  BY ConversionType DEF BurnForWithdrawal, MayRequestWithdrawal
<1>2. TokenTypeOK'
  BY BurnType DEF BurnForWithdrawal, MayRequestWithdrawal
<1> QED
  BY <1>1, <1>2 DEF BooksTypeOK, BurnForWithdrawal, MayRequestWithdrawal

LEMMA InstantWithdrawalType ==
    ASSUME TypeOK, NEW user \in Callers, NEW n \in TokenAmounts,
           InstantWithdrawal(user, n)
    PROVE  TypeOK'
<1> USE ConstantTypes DEF TypeOK
<1>1. TokenTypeOK' /\ totalSxlmSupply' \in Int /\ XlmFor(n) \in Nat \ {0}
  BY BurnForWithdrawalType DEF InstantWithdrawal
<1>2. LedgerTypeOK'
  BY <1>1, PayXlmType DEF LedgerTypeOK, InstantWithdrawal
<1>3. BooksTypeOK'
  BY <1>1 DEF BooksTypeOK, InstantWithdrawal
<1>4. GhostTypeOK'
  BY <1>1 DEF GhostTypeOK, InstantWithdrawal
<1> QED
  BY <1>1, <1>2, <1>3, <1>4, UnchangedTypes DEF InstantWithdrawal

LEMMA DelayedWithdrawalType ==
    ASSUME TypeOK, NEW user \in Callers, NEW n \in TokenAmounts,
           DelayedWithdrawal(user, n)
    PROVE  TypeOK'
<1> DEFINE request == [user |-> user, xlm_amount |-> XlmFor(n),
                       unlock_ledger |-> ledger + cooldownPeriod, claimed |-> FALSE]
<1> USE DEF TypeOK
<1>1. TokenTypeOK' /\ totalSxlmSupply' \in Int /\ XlmFor(n) \in Nat \ {0}
  BY BurnForWithdrawalType DEF DelayedWithdrawal
<1>2. BooksTypeOK'
  BY <1>1 DEF BooksTypeOK, DelayedWithdrawal
<1>3. QueueTypeOK'
  <2>1. request \in WithdrawalRequest
    BY <1>1 DEF LedgerTypeOK, ConfigTypeOK, WithdrawalRequest
  <2>2. /\ withdrawalCounter \in Nat
        /\ withdrawalCounter' = withdrawalCounter + 1
        /\ withdrawalQueue' = [id \in 0..withdrawalCounter |->
               IF id = withdrawalCounter THEN request ELSE withdrawalQueue[id]]
    BY DEF DelayedWithdrawal, QueueTypeOK
  <2>3. \A id \in 0..withdrawalCounter :
            id # withdrawalCounter => withdrawalQueue[id] \in WithdrawalRequest
    BY <2>2 DEF QueueTypeOK
  <2>4. 0..(withdrawalCounter' - 1) = 0..withdrawalCounter
    BY <2>2
  <2> QED
    BY <2>1, <2>2, <2>3, <2>4 DEF QueueTypeOK
<1> QED
  BY <1>1, <1>2, <1>3, UnchangedTypes DEF DelayedWithdrawal

LEMMA ClaimWithdrawalType ==
    ASSUME TypeOK, NEW user \in Callers, NEW id \in DOMAIN withdrawalQueue,
           ClaimWithdrawal(user, id)
    PROVE  TypeOK'
<1> USE ConstantTypes DEF TypeOK
<1>1. /\ withdrawalQueue[id] \in WithdrawalRequest
      /\ withdrawalQueue[id].xlm_amount \in Nat
  BY DEF QueueTypeOK, WithdrawalRequest
<1>2. LedgerTypeOK'
  BY <1>1, PayXlmType DEF LedgerTypeOK, ClaimWithdrawal
<1>3. BooksTypeOK'
  BY <1>1 DEF BooksTypeOK, ClaimWithdrawal
<1>4. QueueTypeOK'
  BY <1>1 DEF QueueTypeOK, ClaimWithdrawal, WithdrawalRequest
<1> QED
  BY <1>2, <1>3, <1>4, UnchangedTypes DEF ClaimWithdrawal

LEMMA AdminStepType ==
    ASSUME TypeOK, AdminStep
    PROVE  TypeOK'
<1> USE ConstantTypes DEF TypeOK
<1>1. ASSUME NEW by \in Callers, NEW n \in RewardAmounts, AddRewards(by, n)
      PROVE  TypeOK'
  <2>1. n \in Nat /\ TruncDiv(n * ProtocolFeeBps, BpsDenominator) \in 0..n
    BY <1>1, FeeType DEF AddRewards
  <2>2. BooksTypeOK' /\ GhostTypeOK'
    BY <1>1, <2>1 DEF AddRewards, BooksTypeOK, GhostTypeOK
  <2> QED
    BY <1>1, <2>2, UnchangedTypes DEF AddRewards
<1>2. ASSUME NEW by \in Callers, NEW n \in FeeAmounts, WithdrawFees(by, n)
      PROVE  TypeOK'
  <2> DEFINE amount == IF n <= 0 THEN treasuryBalance ELSE n
  <2>1. amount > 0 /\ PayXlm(StakingContract, admin, amount)
    BY <1>2 DEF WithdrawFees
  <2>2. amount \in Nat
    BY <2>1 DEF BooksTypeOK
  <2>3. admin \in Accounts
    BY DEF ConfigTypeOK
  <2>4. BooksTypeOK'
    BY <1>2 DEF WithdrawFees, BooksTypeOK
  <2> HIDE DEF amount
  <2>5. LedgerTypeOK'
    BY <1>2, <2>1, <2>2, <2>3, PayXlmType DEF WithdrawFees, LedgerTypeOK
  <2> QED
    BY <1>2, <2>4, <2>5, UnchangedTypes DEF WithdrawFees
<1>3. ASSUME NEW by \in Callers, NEW n \in SlashAmounts, ApplySlashing(by, n)
      PROVE  TypeOK'
  <2>1. BooksTypeOK' /\ GhostTypeOK'
    BY <1>3 DEF ApplySlashing, BooksTypeOK, GhostTypeOK
  <2> QED
    BY <1>3, <2>1, UnchangedTypes DEF ApplySlashing
<1>4. ASSUME NEW by \in Callers, NEW n \in LiquidityAmounts, AddLiquidity(by, n)
      PROVE  TypeOK'
  <2>1. LedgerTypeOK'
    BY <1>4, PayXlmType DEF AddLiquidity, LedgerTypeOK, ConfigTypeOK
  <2>2. BooksTypeOK'
    BY <1>4 DEF AddLiquidity, BooksTypeOK
  <2> QED
    BY <1>4, <2>1, <2>2, UnchangedTypes DEF AddLiquidity
<1>5. ASSUME NEW by \in Callers, NEW flag \in BOOLEAN, SetPaused(by, flag)
      PROVE  TypeOK'
  BY <1>5, UnchangedTypes DEF SetPaused, ConfigTypeOK
<1>6. ASSUME NEW by \in Callers, NEW n \in Cooldowns, SetCooldownPeriod(by, n)
      PROVE  TypeOK'
  BY <1>6, UnchangedTypes DEF SetCooldownPeriod, ConfigTypeOK
<1>7. ASSUME NEW by \in Callers, NEW a \in Admins, SetAdmin(by, a)
      PROVE  TypeOK'
  BY <1>7, UnchangedTypes DEF SetAdmin, ConfigTypeOK
<1> QED
  BY <1>1, <1>2, <1>3, <1>4, <1>5, <1>6, <1>7 DEF AdminStep

LEMMA SendXlmType ==
    ASSUME TypeOK, NEW from \in Callers, NEW n \in XlmAmounts,
           SendXlmToContract(from, n)
    PROVE  TypeOK'
<1> USE ConstantTypes DEF TypeOK
<1>1. LedgerTypeOK' /\ GhostTypeOK'
  BY PayXlmType DEF SendXlmToContract, LedgerTypeOK, GhostTypeOK
<1> QED
  BY <1>1, UnchangedTypes DEF SendXlmToContract

LEMMA NextType == TypeOK /\ [Next]_vars => TypeOK'
<1> SUFFICES ASSUME TypeOK, [Next]_vars
             PROVE  TypeOK'
  OBVIOUS
<1>1. CASE TokenStep
  BY <1>1, TokenStepType, UnchangedTypes DEF TypeOK, TokenStep
<1>2. CASE UserStep
  BY <1>2, DepositType, InstantWithdrawalType, DelayedWithdrawalType,
     ClaimWithdrawalType, SendXlmType DEF UserStep
<1>3. CASE AdminStep
  BY <1>3, AdminStepType
<1>4. CASE CloseLedger
  <2>1. LedgerTypeOK'
    BY <1>4 DEF CloseLedger, TypeOK, LedgerTypeOK
  <2> QED
    BY <1>4, <2>1, UnchangedTypes DEF TypeOK, CloseLedger
<1>5. CASE UNCHANGED vars
  BY <1>5, UnchangedTypes DEF vars, TypeOK
<1> QED
  BY <1>1, <1>2, <1>3, <1>4, <1>5 DEF Next

\* Every reachable state is well typed: in particular no balance, neither of the
\* token nor of XLM, ever becomes negative, and tickets are numbered densely from 0
\* and promise a positive amount.
THEOREM TypeCorrect == Spec => []TypeOK
<1>1. Init => TypeOK
  <2> SUFFICES ASSUME Init PROVE TypeOK
    OBVIOUS
  <2> USE ConstantTypes DEF Init
  <2>1. TokenTypeOK
    BY DEF TokenInit, TokenTypeOK
  <2>2. QueueTypeOK
    BY DEF QueueTypeOK
  <2>3. LedgerTypeOK
    BY DEF LedgerTypeOK
  <2>4. BooksTypeOK /\ GhostTypeOK
    BY DEF BooksTypeOK, GhostTypeOK
  <2>5. ConfigTypeOK
    BY DEF ConfigTypeOK
  <2> QED
    BY <2>1, <2>2, <2>3, <2>4, <2>5 DEF TypeOK
<1> QED
  BY <1>1, NextType, PTL DEF Spec

----------------------------------------------------------------------------
(* The contract's XLM against its books. *)

\* What a native transfer does to the contract's own balance.
LEMMA PayXlmContract ==
    ASSUME LedgerTypeOK, NEW user \in Callers, NEW n \in Int
    PROVE  /\ PayXlm(user, StakingContract, n) =>
                xlm'[StakingContract] = xlm[StakingContract] + n
           /\ PayXlm(StakingContract, user, n) =>
                xlm'[StakingContract] = xlm[StakingContract] - n
BY ConstantTypes DEF LedgerTypeOK, PayXlm, MayPayXlm

LEMMA NextBooksBalance ==
    ASSUME TypeOK, BooksBalance, [Next]_vars
    PROVE  BooksBalance'
<1> USE ConstantTypes
<1>0. /\ LedgerTypeOK /\ xlm[StakingContract] \in Int
      /\ totalXlmStaked \in Int /\ totalSxlmSupply \in Int /\ liquidityBuffer \in Int
      /\ treasuryBalance \in Int /\ rewarded \in Int /\ slashed \in Int
      /\ instantPaid \in Int /\ donated \in Int /\ admin \in Callers
  BY DEF TypeOK, LedgerTypeOK, BooksTypeOK, GhostTypeOK, ConfigTypeOK
<1>1. ASSUME NEW user \in Callers, NEW n \in XlmAmounts, Deposit(user, n)
      PROVE  BooksBalance'
  BY <1>0, <1>1, PayXlmContract DEF BooksBalance, Deposit, MayDeposit, ghostVars
<1>2. ASSUME NEW user \in Callers, NEW n \in TokenAmounts, InstantWithdrawal(user, n)
      PROVE  BooksBalance'
  <2>1. XlmFor(n) \in Int
    BY <1>2, BurnForWithdrawalType DEF InstantWithdrawal
  <2> QED
    BY <1>0, <1>2, <2>1, PayXlmContract DEF BooksBalance, InstantWithdrawal
<1>3. ASSUME NEW user \in Callers, NEW n \in TokenAmounts, DelayedWithdrawal(user, n)
      PROVE  BooksBalance'
  BY <1>3 DEF BooksBalance, DelayedWithdrawal, ghostVars
<1>4. ASSUME NEW user \in Callers, NEW id \in DOMAIN withdrawalQueue,
             ClaimWithdrawal(user, id)
      PROVE  BooksBalance'
  <2>1. withdrawalQueue[id].xlm_amount \in Int
    BY DEF TypeOK, QueueTypeOK, WithdrawalRequest
  <2> QED
    BY <1>0, <1>4, <2>1, PayXlmContract DEF BooksBalance, ClaimWithdrawal, ghostVars
<1>5. ASSUME NEW user \in Callers, NEW n \in XlmAmounts, SendXlmToContract(user, n)
      PROVE  BooksBalance'
  BY <1>0, <1>5, PayXlmContract DEF BooksBalance, SendXlmToContract, bookVars
<1>6. ASSUME NEW by \in Callers, NEW n \in RewardAmounts, AddRewards(by, n)
      PROVE  BooksBalance'
  <2>1. n \in Nat /\ TruncDiv(n * ProtocolFeeBps, BpsDenominator) \in Int
    BY <1>6, FeeType DEF AddRewards
  <2> QED
    BY <1>0, <1>6, <2>1 DEF BooksBalance, AddRewards
<1>7. ASSUME NEW by \in Callers, NEW n \in FeeAmounts, WithdrawFees(by, n)
      PROVE  BooksBalance'
  BY <1>0, <1>7, PayXlmContract DEF BooksBalance, WithdrawFees, ghostVars
<1>8. ASSUME NEW by \in Callers, NEW n \in SlashAmounts, ApplySlashing(by, n)
      PROVE  BooksBalance'
  BY <1>0, <1>8 DEF BooksBalance, ApplySlashing
<1>9. ASSUME NEW by \in Callers, NEW n \in LiquidityAmounts, AddLiquidity(by, n)
      PROVE  BooksBalance'
  BY <1>0, <1>9, PayXlmContract DEF BooksBalance, AddLiquidity, ghostVars
<1>10. CASE /\ UNCHANGED xlm /\ UNCHANGED bookVars /\ UNCHANGED ghostVars
  BY <1>10 DEF BooksBalance, bookVars, ghostVars
<1>11. CASE UserStep
  BY <1>11, <1>1, <1>2, <1>3, <1>4, <1>5 DEF UserStep
<1>12. CASE AdminStep
  BY <1>12, <1>6, <1>7, <1>8, <1>9, <1>10
     DEF AdminStep, SetPaused, SetCooldownPeriod, SetAdmin
<1> QED
  BY <1>10, <1>11, <1>12 DEF Next, TokenStep, CloseLedger, vars

\* In every reachable state the books explain the contract's XLM to the last stroop.
\* The invariant is inductive with the types alone.
THEOREM BooksAlwaysBalance == Spec => []BooksBalance
<1>1. Init => BooksBalance
  BY ConstantTypes DEF Init, BooksBalance
<1> QED
  BY <1>1, NextBooksBalance, TypeCorrect, PTL DEF Spec

\* The contract is solvent, for everything its books owe, whenever the rewards it
\* booked were funded by transfers made to it outside its own entry points.
THEOREM SolventWhenRewardsAreFunded ==
    Spec => [](donated >= rewarded =>
                 xlm[StakingContract]
                   >= totalXlmStaked + liquidityBuffer + treasuryBalance)
<1>1. TypeOK /\ BooksBalance =>
        (donated >= rewarded =>
           xlm[StakingContract] >= totalXlmStaked + liquidityBuffer + treasuryBalance)
  BY ConstantTypes DEF TypeOK, LedgerTypeOK, BooksTypeOK, GhostTypeOK, BooksBalance
<1> QED
  BY <1>1, TypeCorrect, BooksAlwaysBalance, PTL

----------------------------------------------------------------------------
(* The supply and the balances. *)

\* A ledger has finitely many accounts.
LEMMA FiniteAccounts == IsFiniteSet(Accounts)
BY TokenConstants DEF TokenConstants

\* A mint adds its amount to one balance and to the supply.
LEMMA MintKeepsSum ==
    ASSUME TokenTypeOK, SupplyIsSumOfBalances, NEW by, NEW to \in Accounts, NEW n \in Int,
           Mint(by, to, n)
    PROVE  SupplyIsSumOfBalances'
<1>1. /\ balance \in [Accounts -> Int] /\ balance' \in [Accounts -> Int]
      /\ balance'[to] = balance[to] + n
      /\ \A a \in Accounts \ {to} : balance'[a] = balance[a]
  BY DEF TokenTypeOK, Mint, MayMint
<1>2. /\ SumFunction(balance) \in Int
      /\ SumFunction(balance') = SumFunction(balance) - balance[to] + balance'[to]
  BY <1>1, FiniteAccounts, SumChange
<1> QED
  BY <1>1, <1>2 DEF SupplyIsSumOfBalances, Mint, MayMint

\* A burn takes its amount off one balance and off the supply.
LEMMA BurnKeepsSum ==
    ASSUME TokenTypeOK, SupplyIsSumOfBalances, NEW by, NEW from \in Accounts, NEW n \in Int,
           Burn(by, from, n)
    PROVE  SupplyIsSumOfBalances'
<1>1. /\ balance \in [Accounts -> Int] /\ balance' \in [Accounts -> Int]
      /\ balance'[from] = balance[from] - n
      /\ \A a \in Accounts \ {from} : balance'[a] = balance[a]
  BY DEF TokenTypeOK, Burn, MayBurn
<1>2. /\ SumFunction(balance) \in Int
      /\ SumFunction(balance') = SumFunction(balance) - balance[from] + balance'[from]
  BY <1>1, FiniteAccounts, SumChange
<1> QED
  BY <1>1, <1>2 DEF SupplyIsSumOfBalances, Burn, MayBurn

\* A transfer leaves both alone, whoever makes it and to whom.
LEMMA TransferKeepsSum ==
    ASSUME TokenTypeOK, SupplyIsSumOfBalances, NEW from \in Accounts, NEW to \in Accounts,
           NEW n \in Int, balance' = Moved(balance, from, to, n), totalSupply' = totalSupply
    PROVE  SupplyIsSumOfBalances'
<1>1. balance \in [Accounts -> Int]
  BY DEF TokenTypeOK
<1> QED
  BY <1>1, FiniteAccounts, SumMoved DEF SupplyIsSumOfBalances

\* Every step of the token keeps the supply the sum of the balances, whoever is the
\* minter when it mints or burns.
LEMMA TokenStepKeepsSum ==
    ASSUME TokenTypeOK, SupplyIsSumOfBalances, TokenStep
    PROVE  SupplyIsSumOfBalances'
<1> USE ConstantTypes
<1>1. ASSUME NEW from \in Callers, NEW to \in Accounts, NEW n \in TokenAmounts,
             Transfer(from, to, n)
      PROVE  SupplyIsSumOfBalances'
  <2>1. from \in Accounts /\ n \in Int
    OBVIOUS
  <2> QED
    BY <1>1, <2>1, TransferKeepsSum DEF Transfer
<1>2. ASSUME NEW spender \in Callers, NEW from \in Callers, NEW to \in Accounts,
             NEW n \in TokenAmounts, TransferFrom(spender, from, to, n)
      PROVE  SupplyIsSumOfBalances'
  <2>1. from \in Accounts /\ n \in Int
    OBVIOUS
  <2> QED
    BY <1>2, <2>1, TransferKeepsSum DEF TransferFrom
<1>3. ASSUME NEW by \in Callers, NEW to \in Accounts, NEW n \in TokenAmounts, Mint(by, to, n)
      PROVE  SupplyIsSumOfBalances'
  BY <1>3, MintKeepsSum
<1>4. ASSUME NEW by \in Callers, NEW from \in Accounts, NEW n \in TokenAmounts,
             Burn(by, from, n)
      PROVE  SupplyIsSumOfBalances'
  BY <1>4, BurnKeepsSum
<1>5. ASSUME UNCHANGED <<balance, totalSupply>>
      PROVE  SupplyIsSumOfBalances'
  BY <1>5 DEF SupplyIsSumOfBalances
<1> QED
  BY <1>1, <1>2, <1>3, <1>4, <1>5 DEF TokenStep, Approve, SetMinter, SetTokenAdmin

\* The inductive step: the staking contract mints on a deposit and burns on a
\* withdrawal, and leaves balances and supply alone otherwise.
LEMMA NextKeepsSum == TypeOK /\ SupplyIsSumOfBalances /\ [Next]_vars => SupplyIsSumOfBalances'
<1> SUFFICES ASSUME TypeOK, SupplyIsSumOfBalances, [Next]_vars PROVE SupplyIsSumOfBalances'
  OBVIOUS
<1> USE ConstantTypes
<1>1. TokenTypeOK /\ BooksTypeOK
  BY DEF TypeOK
<1>2. CASE TokenStep
  BY <1>1, <1>2, TokenStepKeepsSum
<1>3. ASSUME UNCHANGED <<balance, totalSupply>> PROVE SupplyIsSumOfBalances'
  BY <1>3 DEF SupplyIsSumOfBalances
<1>4. CASE UserStep
  <2>1. PICK user \in Callers :
          \/ \E n \in XlmAmounts : Deposit(user, n)
          \/ \E n \in TokenAmounts : BurnForWithdrawal(user, n)
          \/ UNCHANGED <<balance, totalSupply>>
    BY <1>4 DEF UserStep, InstantWithdrawal, DelayedWithdrawal, ClaimWithdrawal,
                SendXlmToContract, tokenVars
  <2>2. ASSUME NEW n \in XlmAmounts, Deposit(user, n) PROVE SupplyIsSumOfBalances'
    <3>1. SxlmFor(n) \in Int
      BY <1>1, ConversionType
    <3> QED
      BY <1>1, <2>2, <3>1, MintKeepsSum DEF Deposit, MayDeposit
  <2>3. ASSUME NEW n \in TokenAmounts, BurnForWithdrawal(user, n) PROVE SupplyIsSumOfBalances'
    BY <1>1, <2>3, BurnKeepsSum DEF BurnForWithdrawal, MayRequestWithdrawal
  <2> QED
    BY <1>3, <2>1, <2>2, <2>3
<1>5. CASE AdminStep \/ CloseLedger \/ UNCHANGED vars
  <2>1. UNCHANGED <<balance, totalSupply>>
    BY <1>5 DEF AdminStep, AddRewards, WithdrawFees, ApplySlashing, AddLiquidity, SetPaused,
                SetCooldownPeriod, SetAdmin, CloseLedger, vars, tokenVars
  <2> QED
    BY <1>3, <2>1
<1> QED
  BY <1>2, <1>4, <1>5 DEF Next

\* In every reachable state the stored total supply is the sum of all balances.  The
\* invariant is inductive with the types alone.
THEOREM SupplyAlwaysSumOfBalances == Spec => []SupplyIsSumOfBalances
<1>1. Init => SupplyIsSumOfBalances
  BY FiniteAccounts, SumOfZeros DEF Init, TokenInit, SupplyIsSumOfBalances
<1> QED
  BY <1>1, NextKeepsSum, TypeCorrect, PTL DEF Spec

\* So a holder's balance, and that of any two holders together, is part of the supply: a
\* burn that its balance covers never takes the stored supply below what another holds,
\* and the balance that a transfer credits stays within the supply.
THEOREM SupplyCoversEveryBalance ==
    Spec => [](/\ \A a \in Accounts : balance[a] <= totalSupply
               /\ \A a, b \in Accounts : a # b => balance[a] + balance[b] <= totalSupply)
<1>1. TypeOK /\ SupplyIsSumOfBalances => \A a \in Accounts : balance[a] <= totalSupply
  BY FiniteAccounts, SumCovers DEF TypeOK, TokenTypeOK, SupplyIsSumOfBalances
<1>2. TypeOK /\ SupplyIsSumOfBalances =>
         \A a, b \in Accounts : a # b => balance[a] + balance[b] <= totalSupply
  BY FiniteAccounts, SumCoversTwo DEF TypeOK, TokenTypeOK, SupplyIsSumOfBalances
<1> QED
  BY <1>1, <1>2, TypeCorrect, SupplyAlwaysSumOfBalances, PTL

----------------------------------------------------------------------------
(* The two copies of the supply. *)

\* While the staking contract is the minter, the token's total supply and the staking
\* contract's own count of it change by the same amount in every step.
THEOREM SuppliesAlwaysMoveTogether == Spec => SuppliesMoveTogether
<1> DEFINE Together == minter = StakingContract =>
             totalSxlmSupply' - totalSxlmSupply = totalSupply' - totalSupply
<1>1. TypeOK /\ [Next]_vars => Together
  <2> SUFFICES ASSUME TypeOK, [Next]_vars, minter = StakingContract
               PROVE  totalSxlmSupply' - totalSxlmSupply = totalSupply' - totalSupply
    OBVIOUS
  <2> USE ConstantTypes
  <2>0. totalSxlmSupply \in Int /\ totalSupply \in Int
    BY DEF TypeOK, TokenTypeOK, BooksTypeOK
  <2>1. ASSUME NEW user \in Callers, NEW n \in XlmAmounts, Deposit(user, n)
        PROVE  Together
    <3>1. SxlmFor(n) \in Int
      BY ConversionType DEF TypeOK
    <3> QED
      BY <2>0, <2>1, <3>1 DEF Deposit, MayDeposit, Mint, MayMint
  <2>2. ASSUME NEW user \in Callers, NEW n \in TokenAmounts, BurnForWithdrawal(user, n)
        PROVE  Together
    BY <2>0, <2>2 DEF BurnForWithdrawal, MayRequestWithdrawal, Burn, MayBurn
  <2>3. CASE UNCHANGED <<totalSxlmSupply, totalSupply>>
    BY <2>0, <2>3
  <2>4. CASE TokenStep
    BY <2>3, <2>4 DEF TokenStep, bookVars, Transfer, Approve, TransferFrom, Mint, MayMint, Burn, MayBurn,
                      SetMinter, SetTokenAdmin
  <2>5. CASE UserStep
    BY <2>1, <2>2, <2>3, <2>5
       DEF UserStep, InstantWithdrawal, DelayedWithdrawal, ClaimWithdrawal,
           SendXlmToContract, tokenVars, bookVars
  <2>6. CASE AdminStep
    BY <2>3, <2>6
       DEF AdminStep, AddRewards, WithdrawFees, ApplySlashing, AddLiquidity, SetPaused,
           SetCooldownPeriod, SetAdmin, tokenVars, bookVars
  <2>7. CASE CloseLedger \/ UNCHANGED vars
    BY <2>3, <2>7 DEF CloseLedger, vars, tokenVars, bookVars
  <2> QED
    BY <2>4, <2>5, <2>6, <2>7 DEF Next
<1>2. TypeOK /\ [Next]_vars => [Together]_vars
  BY <1>1
<1> QED
  BY <1>2, TypeCorrect, PTL DEF Spec, SuppliesMoveTogether

----------------------------------------------------------------------------
(* The exchange rate: rounding never takes value from the holders. *)

\* A deposit mints at most its worth: m sXLM for x XLM with m * staked <= x * supply.
LEMMA DepositKeepsRate ==
    ASSUME TypeOK, NEW user \in Callers, NEW x \in XlmAmounts, Deposit(user, x)
    PROVE  ~RateFalls
<1> DEFINE S == totalXlmStaked
           Q == totalSxlmSupply
           m == SxlmFor(x)
<1>1. S \in Int /\ Q \in Int /\ x \in Int /\ m \in Int /\ x > 0 /\ m > 0
  BY ConstantTypes, ConversionType DEF TypeOK, BooksTypeOK, Deposit, MayDeposit
<1>2. S' = S + x /\ Q' = Q + m
  BY DEF Deposit, MayDeposit
<1>3. SUFFICES ASSUME Q > 0
               PROVE  S * Q' <= S' * Q
  BY <1>1, <1>2 DEF RateFalls
<1>4. S * m <= x * Q
  <2>1. x * Q \in Nat
    BY <1>1, <1>3
  <2>2. CASE S = 0
    BY <2>1, <2>2, <1>1
  <2>3. CASE S > 0
    <3>1. m = TruncDiv(x * Q, S)
      BY <1>3, <2>3 DEF SxlmFor
    <3>2. TruncDiv(x * Q, S) * S <= x * Q
      BY <2>1, <2>3, <1>1, TruncDivRoundsDown
    <3> HIDE DEF m, S, Q
    <3> QED
      BY <3>1, <3>2, <1>1
  <2>4. CASE S < 0
    <3>1. m = TruncDiv(x * Q, S)
      BY <1>3, <2>4 DEF SxlmFor
    <3> QED
      BY <3>1, <2>1, <2>4, <1>1, TruncDivBelowZero
  <2> QED
    BY <1>1, <2>2, <2>3, <2>4
<1> HIDE DEF S, Q, m
<1>5. S * (Q + m) = S * Q + S * m /\ (S + x) * Q = S * Q + x * Q
  BY <1>1
<1>6. S * (Q + m) <= (S + x) * Q
  BY <1>1, <1>4, <1>5
<1> QED
  BY <1>2, <1>6 DEF S, Q

\* A withdrawal pays at most its worth: x XLM for n sXLM with x * supply <= n * staked.
LEMMA WithdrawalRoundsDown ==
    ASSUME TypeOK, NEW user \in Callers, NEW n \in TokenAmounts,
           BurnForWithdrawal(user, n), totalSxlmSupply > 0
    PROVE  /\ XlmFor(n) * totalSxlmSupply <= n * totalXlmStaked
           /\ totalXlmStaked > 0
<1> DEFINE S == totalXlmStaked
           Q == totalSxlmSupply
<1>1. S \in Int /\ Q \in Int /\ n \in Int /\ n > 0 /\ XlmFor(n) > 0 /\ n * S \in Int
  BY ConstantTypes DEF TypeOK, BooksTypeOK, BurnForWithdrawal, MayRequestWithdrawal
<1>2. n * S > 0
  BY <1>1, TruncDivRoundsDown DEF XlmFor
<1>3. S > 0
  <2> HIDE DEF S
  <2> QED
    BY <1>1, <1>2
<1> QED
  BY <1>1, <1>2, <1>3, TruncDivRoundsDown DEF XlmFor

LEMMA InstantKeepsRate ==
    ASSUME TypeOK, NEW user \in Callers, NEW n \in TokenAmounts,
           InstantWithdrawal(user, n)
    PROVE  ~RateFalls
<1> DEFINE S == totalXlmStaked
           Q == totalSxlmSupply
           x == XlmFor(n)
<1>1. S \in Int /\ Q \in Int /\ n \in Int /\ x \in Int
  BY ConstantTypes, BurnForWithdrawalType DEF TypeOK, BooksTypeOK, InstantWithdrawal
<1>2. S' = S - x /\ Q' = Q - n
  BY DEF InstantWithdrawal, BurnForWithdrawal, MayRequestWithdrawal
<1>3. SUFFICES ASSUME Q > 0
               PROVE  S * Q' <= S' * Q
  BY <1>1, <1>2 DEF RateFalls
<1>4. x * Q <= n * S
  BY <1>3, WithdrawalRoundsDown DEF InstantWithdrawal
<1> HIDE DEF S, Q, x
<1>5. S * (Q - n) = S * Q - n * S /\ (S - x) * Q = S * Q - x * Q
  BY <1>1
<1>6. S * (Q - n) <= (S - x) * Q
  BY <1>1, <1>4, <1>5
<1> QED
  BY <1>2, <1>6 DEF S, Q

LEMMA DelayedKeepsRate ==
    ASSUME TypeOK, NEW user \in Callers, NEW n \in TokenAmounts,
           DelayedWithdrawal(user, n)
    PROVE  ~RateFalls
<1> DEFINE S == totalXlmStaked
           Q == totalSxlmSupply
<1>1. S \in Int /\ Q \in Int /\ n \in Int /\ n > 0
  BY ConstantTypes DEF TypeOK, BooksTypeOK, DelayedWithdrawal, BurnForWithdrawal, MayRequestWithdrawal
<1>2. S' = S /\ Q' = Q - n
  BY DEF DelayedWithdrawal, BurnForWithdrawal, MayRequestWithdrawal
<1>3. SUFFICES ASSUME Q > 0
               PROVE  S * Q' <= S' * Q
  BY <1>1, <1>2 DEF RateFalls
<1>4. S > 0
  BY <1>3, WithdrawalRoundsDown DEF DelayedWithdrawal
<1> HIDE DEF S, Q
<1>5. S * (Q - n) = S * Q - S * n /\ S * n >= 0
  BY <1>1, <1>4
<1>6. S * (Q - n) <= S * Q
  BY <1>1, <1>5
<1> QED
  BY <1>2, <1>6 DEF S, Q

\* Whatever the order of deposits, withdrawals, rewards and transfers, the XLM behind
\* one sXLM falls only in a slash or in the claim of a ticket.
THEOREM RoundingNeverLowersTheRate == Spec => RateFallsOnlyBySlashOrClaim
<1> DEFINE A == RateFalls => slashed' > slashed \/ TicketClaimed
<1>1. TypeOK /\ [Next]_vars => A
  <2> SUFFICES ASSUME TypeOK, [Next]_vars
               PROVE  A
    OBVIOUS
  <2> USE ConstantTypes
  <2>0. /\ totalXlmStaked \in Int /\ totalSxlmSupply \in Int /\ slashed \in Int
        /\ totalXlmStaked * totalSxlmSupply \in Int
    BY DEF TypeOK, BooksTypeOK, GhostTypeOK
  <2>1. CASE UNCHANGED <<totalXlmStaked, totalSxlmSupply>>
    BY <2>0, <2>1 DEF RateFalls
  <2>2. ASSUME NEW user \in Callers, NEW id \in DOMAIN withdrawalQueue,
               ClaimWithdrawal(user, id)
        PROVE  A
    <3>1. withdrawalQueue[id] \in WithdrawalRequest
      BY DEF TypeOK, QueueTypeOK
    <3>2. ~withdrawalQueue[id].claimed /\ withdrawalQueue'[id].claimed
      BY <2>2, <3>1 DEF ClaimWithdrawal, WithdrawalRequest
    <3> QED
      BY <3>2 DEF TicketClaimed
  <2>3. ASSUME NEW by \in Callers, NEW n \in RewardAmounts, AddRewards(by, n)
        PROVE  A
    <3> DEFINE S == totalXlmStaked
               Q == totalSxlmSupply
               gain == n - TruncDiv(n * ProtocolFeeBps, BpsDenominator)
    <3>1. gain \in Int /\ gain >= 0 /\ S' = S + gain /\ Q' = Q
      BY <2>3, FeeType DEF AddRewards
    <3> HIDE DEF gain, S, Q
    <3>2. S \in Int /\ Q \in Int
      BY <2>0 DEF S, Q
    <3>3. (S + gain) * Q = S * Q + gain * Q /\ (Q > 0 => gain * Q >= 0)
      BY <3>1, <3>2
    <3>4. Q > 0 => S * Q <= (S + gain) * Q
      BY <3>1, <3>2, <3>3
    <3> QED
      BY <3>1, <3>2, <3>4 DEF RateFalls, S, Q
  <2>4. ASSUME NEW by \in Callers, NEW n \in SlashAmounts, ApplySlashing(by, n)
        PROVE  A
    BY <2>0, <2>4 DEF ApplySlashing
  <2>5. CASE TokenStep
    BY <2>1, <2>5 DEF TokenStep, bookVars
  <2>6. CASE UserStep
    BY <2>1, <2>2, <2>6, DepositKeepsRate, InstantKeepsRate, DelayedKeepsRate
       DEF UserStep, SendXlmToContract, bookVars
  <2>7. CASE AdminStep
    BY <2>1, <2>3, <2>4, <2>7
       DEF AdminStep, WithdrawFees, AddLiquidity, SetPaused, SetCooldownPeriod, SetAdmin,
           bookVars
  <2>8. CASE CloseLedger \/ UNCHANGED vars
    BY <2>1, <2>8 DEF CloseLedger, vars, bookVars
  <2> QED
    BY <2>5, <2>6, <2>7, <2>8 DEF Next
<1>2. TypeOK /\ [Next]_vars => [A]_vars
  BY <1>1
<1> QED
  BY <1>2, TypeCorrect, PTL DEF Spec, RateFallsOnlyBySlashOrClaim

----------------------------------------------------------------------------
(* The contract implements TicketPromise. *)

\* XLM leaves the contract only with a settled ticket or off the reserve.
VaultGuarded ==
    \/ xlm'[StakingContract] >= xlm[StakingContract]
    \/ xlm[StakingContract] - xlm'[StakingContract]
         = (liquidityBuffer + treasuryBalance) - (liquidityBuffer' + treasuryBalance')

\* A step that touches neither the clock nor the queue is a trade of the promise.
LEMMA TradeStep ==
    ASSUME LedgerTypeOK', UNCHANGED ledger, UNCHANGED queueVars, VaultGuarded
    PROVE  Promise!Trade
<1>1. [a \in Callers |-> xlm[a]]' \in [Callers -> Nat]
  BY ConstantTypes DEF LedgerTypeOK
<1> QED
  BY <1>1 DEF Promise!Trade, VaultGuarded, queueVars

LEMMA QuietVault ==
    ASSUME TypeOK, UNCHANGED xlm
    PROVE  VaultGuarded
BY ConstantTypes DEF TypeOK, LedgerTypeOK, VaultGuarded

LEMMA UserVault ==
    ASSUME TypeOK, NEW user \in Callers, NEW n \in Int
    PROVE  /\ Deposit(user, n) => VaultGuarded
           /\ n \in TokenAmounts /\ InstantWithdrawal(user, n) => VaultGuarded
           /\ SendXlmToContract(user, n) => VaultGuarded
<1>1. /\ LedgerTypeOK /\ xlm[StakingContract] \in Int
      /\ liquidityBuffer \in Int /\ treasuryBalance \in Int
  BY ConstantTypes DEF TypeOK, LedgerTypeOK, BooksTypeOK
<1>2. n > 0 /\ PayXlm(user, StakingContract, n) => VaultGuarded
  BY <1>1, PayXlmContract DEF VaultGuarded
<1>3. ASSUME n \in TokenAmounts, InstantWithdrawal(user, n)
      PROVE  VaultGuarded
  <2>1. XlmFor(n) \in Int
    BY <1>3, BurnForWithdrawalType DEF InstantWithdrawal
  <2>2. xlm'[StakingContract] = xlm[StakingContract] - XlmFor(n)
    BY <1>1, <1>3, <2>1, PayXlmContract DEF InstantWithdrawal
  <2> QED
    BY <1>1, <1>3, <2>1, <2>2 DEF InstantWithdrawal, VaultGuarded
<1>4. Deposit(user, n) => n > 0 /\ PayXlm(user, StakingContract, n)
  BY DEF Deposit, MayDeposit
<1>5. SendXlmToContract(user, n) => n > 0 /\ PayXlm(user, StakingContract, n)
  BY DEF SendXlmToContract
<1> QED
  BY <1>2, <1>3, <1>4, <1>5

LEMMA AdminVault ==
    ASSUME TypeOK, AdminStep
    PROVE  VaultGuarded
<1> USE ConstantTypes
<1>1. /\ LedgerTypeOK /\ xlm[StakingContract] \in Int /\ admin \in Callers
      /\ liquidityBuffer \in Int /\ treasuryBalance \in Int
  BY DEF TypeOK, LedgerTypeOK, BooksTypeOK, ConfigTypeOK
<1>2. ASSUME NEW by \in Callers, NEW n \in FeeAmounts, WithdrawFees(by, n)
      PROVE  VaultGuarded
  <2> DEFINE amount == IF n <= 0 THEN treasuryBalance ELSE n
  <2>1. /\ PayXlm(StakingContract, admin, amount)
        /\ treasuryBalance' = treasuryBalance - amount
        /\ liquidityBuffer' = liquidityBuffer
    BY <1>2 DEF WithdrawFees
  <2>2. amount \in Int
    BY <1>1
  <2> HIDE DEF amount
  <2>3. xlm'[StakingContract] = xlm[StakingContract] - amount
    BY <1>1, <2>1, <2>2, PayXlmContract
  <2> QED
    BY <1>1, <2>1, <2>2, <2>3 DEF VaultGuarded
<1>3. ASSUME NEW by \in Callers, NEW n \in LiquidityAmounts, AddLiquidity(by, n)
      PROVE  VaultGuarded
  BY <1>1, <1>3, PayXlmContract DEF AddLiquidity, VaultGuarded
<1> QED
  BY <1>2, <1>3, QuietVault
     DEF AdminStep, AddRewards, ApplySlashing, SetPaused, SetCooldownPeriod, SetAdmin

LEMMA IssueStep ==
    ASSUME TypeOK, NEW user \in Callers, NEW n \in TokenAmounts,
           DelayedWithdrawal(user, n)
    PROVE  Promise!Issue
<1> DEFINE AsTicket(r) == [owner |-> r.user, amount |-> r.xlm_amount,
                           due |-> r.unlock_ledger, open |-> ~r.claimed]
           tickets == [id \in DOMAIN withdrawalQueue |-> AsTicket(withdrawalQueue[id])]
           request == [user |-> user, xlm_amount |-> XlmFor(n),
                       unlock_ledger |-> ledger + cooldownPeriod, claimed |-> FALSE]
<1>1. /\ withdrawalCounter \in Nat
      /\ DOMAIN withdrawalQueue = 0..(withdrawalCounter - 1)
      /\ ledger \in Nat /\ cooldownPeriod \in Nat
  BY DEF TypeOK, QueueTypeOK, LedgerTypeOK, ConfigTypeOK
<1>2. XlmFor(n) \in Nat \ {0}
  BY BurnForWithdrawalType DEF DelayedWithdrawal
<1>3. /\ withdrawalCounter' = withdrawalCounter + 1
      /\ withdrawalQueue' = [id \in 0..withdrawalCounter |->
             IF id = withdrawalCounter THEN request ELSE withdrawalQueue[id]]
      /\ UNCHANGED <<xlm, ledger, liquidityBuffer, treasuryBalance>>
  BY DEF DelayedWithdrawal
<1> HIDE DEF request
<1>4. /\ DOMAIN withdrawalQueue' = 0..withdrawalCounter
      /\ withdrawalQueue'[withdrawalCounter] = request
      /\ \A id \in DOMAIN withdrawalQueue : withdrawalQueue'[id] = withdrawalQueue[id]
      /\ DOMAIN withdrawalQueue \subseteq 0..withdrawalCounter
  BY <1>1, <1>3
<1>5. /\ AsTicket(request) \in Promise!Ticket
      /\ AsTicket(request).open
      /\ AsTicket(request).due >= ledger
  <2>1. AsTicket(request) = [owner |-> user, amount |-> XlmFor(n),
                             due |-> ledger + cooldownPeriod, open |-> TRUE]
    BY DEF request
  <2> HIDE DEF AsTicket
  <2>2. ledger + cooldownPeriod \in Nat /\ ledger + cooldownPeriod >= ledger
    BY <1>1
  <2> QED
    BY <1>2, <2>1, <2>2 DEF Promise!Ticket
<1> HIDE DEF AsTicket
<1>6. /\ DOMAIN tickets' = 0..withdrawalCounter
      /\ tickets'[withdrawalCounter] = AsTicket(request)
      /\ \A id \in DOMAIN tickets : tickets'[id] = tickets[id]
  BY <1>1, <1>4
<1> QED
  BY <1>3, <1>5, <1>6 DEF Promise!Issue, AsTicket

LEMMA SettleStep ==
    ASSUME TypeOK, NEW user \in Callers, NEW id \in DOMAIN withdrawalQueue,
           ClaimWithdrawal(user, id)
    PROVE  Promise!Settle(id)
<1> DEFINE AsTicket(r) == [owner |-> r.user, amount |-> r.xlm_amount,
                           due |-> r.unlock_ledger, open |-> ~r.claimed]
           tickets == [i \in DOMAIN withdrawalQueue |-> AsTicket(withdrawalQueue[i])]
           cash == [a \in Callers |-> xlm[a]]
           request == withdrawalQueue[id]
<1>1. /\ withdrawalQueue \in [DOMAIN withdrawalQueue -> WithdrawalRequest]
      /\ request \in WithdrawalRequest
      /\ xlm \in [Accounts -> Nat] /\ ledger \in Nat
  BY DEF TypeOK, QueueTypeOK, LedgerTypeOK
<1>2. /\ request.user = user /\ ~request.claimed
      /\ ledger >= request.unlock_ledger
      /\ withdrawalQueue' = [withdrawalQueue EXCEPT ![id].claimed = TRUE]
      /\ PayXlm(StakingContract, user, request.xlm_amount)
      /\ UNCHANGED <<ledger, withdrawalCounter, liquidityBuffer, treasuryBalance>>
  BY DEF ClaimWithdrawal
<1>3. /\ tickets[id].open
      /\ tickets[id].due <= ledger
      /\ tickets[id].owner = user
      /\ tickets[id].amount = request.xlm_amount
  BY <1>1, <1>2 DEF WithdrawalRequest
<1>4. tickets' = [tickets EXCEPT ![id].open = FALSE]
  <2>1. /\ DOMAIN withdrawalQueue' = DOMAIN withdrawalQueue
        /\ withdrawalQueue'[id] = [request EXCEPT !.claimed = TRUE]
        /\ \A i \in DOMAIN withdrawalQueue :
              i # id => withdrawalQueue'[i] = withdrawalQueue[i]
    BY <1>1, <1>2
  <2>2. AsTicket([request EXCEPT !.claimed = TRUE])
          = [AsTicket(request) EXCEPT !.open = FALSE]
    <3> DEFINE claimed == [request EXCEPT !.claimed = TRUE]
               left    == AsTicket(claimed)
               right   == [AsTicket(request) EXCEPT !.open = FALSE]
    <3>1. /\ claimed.user = request.user
          /\ claimed.xlm_amount = request.xlm_amount
          /\ claimed.unlock_ledger = request.unlock_ledger
          /\ claimed.claimed = TRUE
      BY <1>1 DEF WithdrawalRequest
    <3> HIDE DEF claimed
    <3>2. /\ DOMAIN left = {"owner", "amount", "due", "open"}
          /\ left.owner = request.user /\ left.amount = request.xlm_amount
          /\ left.due = request.unlock_ledger /\ left.open = FALSE
      BY <3>1
    <3>3. /\ DOMAIN right = {"owner", "amount", "due", "open"}
          /\ right.owner = request.user /\ right.amount = request.xlm_amount
          /\ right.due = request.unlock_ledger /\ right.open = FALSE
      OBVIOUS
    <3>4. left = [x \in DOMAIN left |-> left[x]] /\ right = [x \in DOMAIN right |-> right[x]]
      OBVIOUS
    <3> HIDE DEF left, right
    <3>5. [x \in DOMAIN left |-> left[x]] = [x \in DOMAIN right |-> right[x]]
      BY <3>2, <3>3
    <3>6. left = right
      BY <3>4, <3>5
    <3> QED
      BY <3>6 DEF left, right, claimed
  <2> HIDE DEF AsTicket
  <2> QED
    BY <2>1, <2>2
<1>5. cash' = [cash EXCEPT ![user] = @ + request.xlm_amount]
  BY <1>1, <1>2, ConstantTypes DEF PayXlm, MayPayXlm
<1>6. xlm'[StakingContract] = xlm[StakingContract] - tickets[id].amount
  BY <1>1, <1>2, <1>3, PayXlmContract DEF TypeOK, WithdrawalRequest
<1> QED
  BY <1>2, <1>3, <1>4, <1>5, <1>6 DEF Promise!Settle

\* The contract implements the promise its tickets make: an issued ticket keeps its
\* owner, amount and due time through pauses, slashes, cooldown changes and every
\* other call, and is paid once, in full, to its owner, not before it is due.
THEOREM StakingImplementsTicketPromise == Spec => TicketsKeptAsPromised
<1>1. Init => Promise!Init
  BY ConstantTypes DEF Init, Promise!Init
<1>2. TypeOK /\ TypeOK' /\ [Next]_vars => [Promise!Next]_(Promise!tvars)
  <2> SUFFICES ASSUME TypeOK, TypeOK', [Next]_vars
               PROVE  [Promise!Next]_(Promise!tvars)
    OBVIOUS
  <2>0. LedgerTypeOK'
    BY DEF TypeOK
  <2>1. ASSUME UNCHANGED ledger, UNCHANGED queueVars, VaultGuarded
        PROVE  Promise!Next
    BY <2>0, <2>1, TradeStep DEF Promise!Next
  <2>2. ASSUME NEW user \in Callers, NEW n \in TokenAmounts, DelayedWithdrawal(user, n)
        PROVE  Promise!Next
    BY <2>2, IssueStep DEF Promise!Next
  <2>3. ASSUME NEW user \in Callers, NEW id \in DOMAIN withdrawalQueue,
               ClaimWithdrawal(user, id)
        PROVE  Promise!Next
    BY <2>3, SettleStep DEF Promise!Next
  <2>4. CASE CloseLedger
    <3>1. ledger' > ledger
      BY <2>4 DEF CloseLedger, TypeOK, LedgerTypeOK
    <3>2. Promise!Pass
      BY <2>4, <3>1 DEF CloseLedger, Promise!Pass, queueVars, bookVars
    <3> QED
      BY <3>2 DEF Promise!Next
  <2>5. ASSUME UserStep PROVE Promise!Next
    <3>1. ASSUME NEW user \in Callers, NEW n \in XlmAmounts,
                 Deposit(user, n) \/ SendXlmToContract(user, n)
          PROVE  Promise!Next
      <4>1. VaultGuarded
        BY <3>1, UserVault, ConstantTypes
      <4> QED
        BY <2>1, <3>1, <4>1 DEF Deposit, MayDeposit, SendXlmToContract
    <3>2. ASSUME NEW user \in Callers, NEW n \in TokenAmounts, InstantWithdrawal(user, n)
          PROVE  Promise!Next
      <4>1. VaultGuarded
        BY <3>2, UserVault, ConstantTypes
      <4> QED
        BY <2>1, <3>2, <4>1 DEF InstantWithdrawal
    <3> QED
      BY <2>2, <2>3, <2>5, <3>1, <3>2 DEF UserStep
  <2>6. ASSUME AdminStep PROVE Promise!Next
    BY <2>1, <2>6, AdminVault
       DEF AdminStep, AddRewards, WithdrawFees, ApplySlashing, AddLiquidity, SetPaused,
           SetCooldownPeriod, SetAdmin
  <2>7. ASSUME TokenStep PROVE Promise!Next
    <3>1. UNCHANGED <<xlm, ledger, queueVars>>
      BY <2>7 DEF TokenStep
    <3> QED
      BY <2>1, <3>1, QuietVault
  <2>8. ASSUME UNCHANGED vars PROVE UNCHANGED Promise!tvars
    BY <2>8 DEF vars, bookVars, queueVars, Promise!tvars
  <2> QED
    BY <2>4, <2>5, <2>6, <2>7, <2>8 DEF Next
<1> QED
  BY <1>1, <1>2, TypeCorrect, PTL DEF Spec, TicketsKeptAsPromised, Promise!Spec

----------------------------------------------------------------------------
(* What the routes quote. *)

\* The quotes for a rate of S staked over T supplied, at a precision of P: R is the rate
\* as it is shown, m what x XLM bring, and w what n sXLM bring.
LEMMA QuoteBounds ==
    ASSUME NEW S \in Nat \ {0}, NEW T \in Nat \ {0}, NEW P \in Nat \ {0}, NEW R \in Nat,
           R * T <= S * P, S * P < (R + 1) * T
    PROVE  /\ \A x, m \in Nat : m * S <= x * T /\ x * T < (m + 1) * S
                 => m * R <= x * P /\ x * P < (m + 1) * (R + 1)
           /\ \A n, w \in Nat : n > 0 /\ w * T <= n * S /\ n * S < (w + 1) * T
                 => n * R < (w + 1) * P /\ w * P <= n * (R + 1)
<1> DEFINE shown == R * T
           exact == S * P
           next == (R + 1) * T
<1>1. shown \in Nat /\ exact \in Nat /\ next \in Nat /\ shown <= exact /\ exact < next
  OBVIOUS
<1>2. ASSUME NEW x \in Nat, NEW m \in Nat, m * S <= x * T, x * T < (m + 1) * S
      PROVE  m * R <= x * P /\ x * P < (m + 1) * (R + 1)
  <2>1. (m * R) * T <= (x * P) * T
    <3>1. m * shown <= m * exact
      <4> HIDE DEF shown, exact
      <4> QED
        BY <1>1
    <3>2. (m * S) * P <= (x * T) * P
      BY <1>2, FactorOrder
    <3>3. (m * R) * T = m * shown /\ m * exact = (m * S) * P /\ (x * T) * P = (x * P) * T
      OBVIOUS
    <3>4. (m * R) * T \in Int /\ m * exact \in Int /\ (x * P) * T \in Int
      OBVIOUS
    <3> QED
      BY <3>1, <3>2, <3>3, <3>4
  <2>2. (x * P) * T < ((m + 1) * (R + 1)) * T
    <3>1. (x * T) * P < ((m + 1) * S) * P
      <4>1. x * T \in Int /\ (m + 1) * S \in Int
        OBVIOUS
      <4> QED
        BY <1>2, <4>1, FactorOrder
    <3>2. (m + 1) * exact <= (m + 1) * next
      <4> HIDE DEF exact, next
      <4> QED
        BY <1>1
    <3>3. /\ (x * P) * T = (x * T) * P
          /\ ((m + 1) * S) * P = (m + 1) * exact
          /\ (m + 1) * next = ((m + 1) * (R + 1)) * T
      OBVIOUS
    <3>4. (x * P) * T \in Int /\ (m + 1) * exact \in Int /\ ((m + 1) * (R + 1)) * T \in Int
      OBVIOUS
    <3> QED
      BY <3>1, <3>2, <3>3, <3>4
  <2>3. m * R \in Int /\ x * P \in Int /\ (m + 1) * (R + 1) \in Int
    OBVIOUS
  <2> QED
    BY <2>1, <2>2, <2>3, FactorOrder
<1>3. ASSUME NEW n \in Nat, NEW w \in Nat, n > 0, w * T <= n * S, n * S < (w + 1) * T
      PROVE  n * R < (w + 1) * P /\ w * P <= n * (R + 1)
  <2>1. (n * R) * T < ((w + 1) * P) * T
    <3>1. n * shown <= n * exact
      <4> HIDE DEF shown, exact
      <4> QED
        BY <1>1
    <3>2. (n * S) * P < ((w + 1) * T) * P
      <4>1. n * S \in Int /\ (w + 1) * T \in Int
        OBVIOUS
      <4> QED
        BY <1>3, <4>1, FactorOrder
    <3>3. /\ (n * R) * T = n * shown /\ n * exact = (n * S) * P
          /\ ((w + 1) * T) * P = ((w + 1) * P) * T
      OBVIOUS
    <3>4. (n * R) * T \in Int /\ n * exact \in Int /\ ((w + 1) * P) * T \in Int
      OBVIOUS
    <3> QED
      BY <3>1, <3>2, <3>3, <3>4
  <2>2. (w * P) * T <= (n * (R + 1)) * T
    <3>1. (w * T) * P <= (n * S) * P
      BY <1>3, FactorOrder
    <3>2. n * exact <= n * next
      <4> HIDE DEF exact, next
      <4> QED
        BY <1>1
    <3>3. /\ (w * P) * T = (w * T) * P /\ (n * S) * P = n * exact
          /\ n * next = (n * (R + 1)) * T
      OBVIOUS
    <3>4. (w * P) * T \in Int /\ n * exact \in Int /\ (n * (R + 1)) * T \in Int
      OBVIOUS
    <3> QED
      BY <3>1, <3>2, <3>3, <3>4
  <2>3. n * R \in Int /\ (w + 1) * P \in Int /\ w * P \in Int /\ n * (R + 1) \in Int
    OBVIOUS
  <2> QED
    BY <2>1, <2>2, <2>3, FactorOrder
<1> QED
  BY <1>2, <1>3

\* The same for the quotients that the contract computes, of totals of either sign: a
\* foreign minter can make the contract count a negative supply.
LEMMA QuotientBounds ==
    ASSUME NEW S \in Int, NEW T \in Int, NEW P \in Nat \ {0},
           (S > 0 /\ T > 0) \/ (S < 0 /\ T < 0)
    PROVE  /\ \A x \in Nat :
                 LET m == TruncDiv(x * T, S)
                     R == TruncDiv(S * P, T)
                 IN  m * R <= x * P /\ x * P < (m + 1) * (R + 1)
           /\ \A n \in Nat \ {0} :
                 LET w == TruncDiv(n * S, T)
                     R == TruncDiv(S * P, T)
                 IN  n * R < (w + 1) * P /\ w * P <= n * (R + 1)
<1>1. ASSUME NEW s \in Nat \ {0}, NEW t \in Nat \ {0}
      PROVE  /\ \A x \in Nat :
                 LET m == TruncDiv(x * t, s)
                     R == TruncDiv(s * P, t)
                 IN  m * R <= x * P /\ x * P < (m + 1) * (R + 1)
             /\ \A n \in Nat \ {0} :
                 LET w == TruncDiv(n * s, t)
                     R == TruncDiv(s * P, t)
                 IN  n * R < (w + 1) * P /\ w * P <= n * (R + 1)
  <2> DEFINE R == TruncDiv(s * P, t)
  <2>1. R \in Nat /\ R * t <= s * P /\ s * P < (R + 1) * t
    <3>1. s * P \in Nat
      OBVIOUS
    <3> QED
      BY <3>1, TruncDivOfNat
  <2> HIDE DEF R
  <2>2. ASSUME NEW x \in Nat
        PROVE  /\ TruncDiv(x * t, s) * R <= x * P
               /\ x * P < (TruncDiv(x * t, s) + 1) * (R + 1)
    <3>1. x * t \in Nat
      OBVIOUS
    <3>2. /\ TruncDiv(x * t, s) \in Nat
          /\ TruncDiv(x * t, s) * s <= x * t
          /\ x * t < (TruncDiv(x * t, s) + 1) * s
      BY <3>1, TruncDivOfNat
    <3> QED
      BY <2>1, <3>2, QuoteBounds
  <2>3. ASSUME NEW n \in Nat \ {0}
        PROVE  /\ n * R < (TruncDiv(n * s, t) + 1) * P
               /\ TruncDiv(n * s, t) * P <= n * (R + 1)
    <3>1. n * s \in Nat /\ n > 0
      OBVIOUS
    <3>2. /\ TruncDiv(n * s, t) \in Nat
          /\ TruncDiv(n * s, t) * t <= n * s
          /\ n * s < (TruncDiv(n * s, t) + 1) * t
      BY <3>1, TruncDivOfNat
    <3> QED
      BY <2>1, <3>1, <3>2, QuoteBounds
  <2> QED
    BY <2>2, <2>3 DEF R
<1>2. CASE S > 0 /\ T > 0
  <2>1. S \in Nat \ {0} /\ T \in Nat \ {0}
    BY <1>2
  <2> QED
    BY <1>1, <2>1
<1>3. CASE S < 0 /\ T < 0
  <2> DEFINE s == -S
             t == -T
  <2>1. s \in Nat \ {0} /\ t \in Nat \ {0}
    BY <1>3
  <2>2. ASSUME NEW n \in Nat
        PROVE  /\ TruncDiv(n * T, S) = TruncDiv(n * t, s)
               /\ TruncDiv(n * S, T) = TruncDiv(n * s, t)
               /\ TruncDiv(S * n, T) = TruncDiv(s * n, t)
    <3>1. n * t = -(n * T) /\ n * s = -(n * S) /\ s * n = -(S * n)
      OBVIOUS
    <3>2. n * T \in Int /\ n * S \in Int /\ S * n \in Int /\ S # 0 /\ T # 0
      BY <1>3
    <3> QED
      BY <3>1, <3>2, TruncDivSigns
  <2>3. TruncDiv(S * P, T) = TruncDiv(s * P, t)
    BY <2>2
  <2> HIDE DEF s, t
  <2> QED
    BY <1>1, <2>1, <2>2, <2>3
<1> QED
  BY <1>2, <1>3

\* The quotes of the two routes are kept by what the contract would do, in any state.
LEMMA QuotesKept == TypeOK => QuotesHold
<1> SUFFICES ASSUME TypeOK, NEW user \in Callers
             PROVE
        /\ \A x \in XlmAmounts : ShownRate > 0 /\ StakeRouteBuilds(user, x) =>
              /\ SxlmFor(x) * ShownRate <= x * RATE_PRECISION
              /\ x * RATE_PRECISION < (SxlmFor(x) + 1) * (ShownRate + 1)
        /\ \A n \in TokenAmounts : UnstakeRouteBuilds(user, n) =>
              /\ n * ShownRate < (XlmFor(n) + 1) * RATE_PRECISION
              /\ XlmFor(n) * RATE_PRECISION <= n * (ShownRate + 1)
        /\ \A n \in TokenAmounts : MayWithdraw(user, n) => UnstakePreflight(user, n)
  BY DEF QuotesHold
<1> DEFINE S == totalXlmStaked
           T == totalSxlmSupply
           P == RATE_PRECISION
<1>1. S \in Int /\ T \in Int /\ P \in Nat \ {0}
  BY StakingRoutesAssumption DEF StakingRoutesAssumption, TypeOK, BooksTypeOK
<1>2. ASSUME NEW x \in XlmAmounts, ShownRate > 0, StakeRouteBuilds(user, x)
      PROVE  /\ SxlmFor(x) * ShownRate <= x * P
             /\ x * P < (SxlmFor(x) + 1) * (ShownRate + 1)
  <2>1. x \in Nat /\ x > 0
    BY <1>2, ConstantTypes DEF StakeRouteBuilds, MayDeposit
  <2>2. CASE T = 0
    <3>1. ShownRate = P /\ SxlmFor(x) = x
      BY <2>2 DEF ShownRate, SxlmFor
    <3>2. x * P \in Nat /\ (x + 1) * (P + 1) = x * P + x + P + 1
      BY <1>1, <2>1
    <3> HIDE DEF P
    <3> QED
      BY <1>1, <2>1, <3>1, <3>2
  <2>3. CASE T # 0
    <3>1. ShownRate = TruncDiv(S * P, T) /\ S * P \in Int
      BY <1>1, <2>3 DEF ShownRate
    <3>2. (S > 0 /\ T > 0) \/ (S < 0 /\ T < 0)
      <4>1. (S * P > 0 /\ T > 0) \/ (S * P < 0 /\ T < 0)
        <5> HIDE DEF S, T, P
        <5> QED
          BY <1>1, <1>2, <2>3, <3>1, TruncDivSigns
      <4>2. (S * P > 0 => S > 0) /\ (S * P < 0 => S < 0)
        BY <1>1
      <4> QED
        BY <4>1, <4>2
    <3>3. SxlmFor(x) = TruncDiv(x * T, S)
      BY <3>2 DEF SxlmFor
    <3> HIDE DEF S, T, P
    <3> QED
      BY <1>1, <2>1, <3>1, <3>2, <3>3, QuotientBounds
  <2> QED
    BY <2>2, <2>3
<1>3. ASSUME NEW n \in TokenAmounts, UnstakeRouteBuilds(user, n)
      PROVE  /\ n * ShownRate < (XlmFor(n) + 1) * P
             /\ XlmFor(n) * P <= n * (ShownRate + 1)
  <2>1. n \in Nat \ {0} /\ T # 0 /\ XlmFor(n) > 0
    BY <1>3, ConstantTypes DEF UnstakeRouteBuilds, UnstakePreflight, MayWithdraw, MayRequestWithdrawal
  <2>2. ShownRate = TruncDiv(S * P, T) /\ XlmFor(n) = TruncDiv(n * S, T) /\ n * S \in Int
    BY <1>1, <2>1 DEF ShownRate, XlmFor
  <2>3. (S > 0 /\ T > 0) \/ (S < 0 /\ T < 0)
    <3>1. (n * S > 0 /\ T > 0) \/ (n * S < 0 /\ T < 0)
      <4> HIDE DEF S, T, P
      <4> QED
        BY <1>1, <2>1, <2>2, TruncDivSigns
    <3>2. (n * S > 0 => S > 0) /\ (n * S < 0 => S < 0)
      BY <1>1, <2>1
    <3> QED
      BY <3>1, <3>2
  <2> HIDE DEF S, T, P
  <2> QED
    BY <1>1, <2>1, <2>2, <2>3, QuotientBounds
<1>4. ASSUME NEW n \in TokenAmounts, MayWithdraw(user, n) PROVE UnstakePreflight(user, n)
  BY <1>4 DEF MayWithdraw, MayRequestWithdrawal, MayBurn, UnstakePreflight
<1> QED
  BY <1>2, <1>3, <1>4

\* A staker is credited, and a leaver paid, what the stake and unstake routes have quoted,
\* up to the rounding of the rate and one unit, and the balance check of the unstake
\* route turns nobody away whom the contract would serve.
THEOREM QuotesAlwaysHold == Spec => []QuotesHold
  BY QuotesKept, TypeCorrect, PTL

----------------------------------------------------------------------------
(* The scan for a ticket. *)

\* While the cooldown is not changed, tickets fall due in the order of their ids, and
\* none later than one issued now would: this is what makes the oldest open ticket of an
\* owner the one to ask for.
TicketsInOrder ==
    /\ cooldownPeriod \in Cooldowns
    /\ Cooldowns = {cooldownPeriod} =>
         \A id \in DOMAIN withdrawalQueue :
            /\ withdrawalQueue[id].unlock_ledger <= ledger + cooldownPeriod
            /\ \A older \in DOMAIN withdrawalQueue : older <= id =>
                  withdrawalQueue[older].unlock_ledger <= withdrawalQueue[id].unlock_ledger

\* A step that issues no ticket, and turns back neither the clock nor the cooldown, keeps
\* the tickets in order.
LEMMA QuietQueue ==
    ASSUME TypeOK, TicketsInOrder, ledger' \in Nat, ledger' >= ledger,
           cooldownPeriod' \in Cooldowns,
           DOMAIN withdrawalQueue' = DOMAIN withdrawalQueue,
           \A id \in DOMAIN withdrawalQueue :
              withdrawalQueue'[id].unlock_ledger = withdrawalQueue[id].unlock_ledger
    PROVE  TicketsInOrder'
<1> SUFFICES ASSUME Cooldowns = {cooldownPeriod'}, NEW id \in DOMAIN withdrawalQueue
             PROVE
            /\ withdrawalQueue[id].unlock_ledger <= ledger' + cooldownPeriod'
            /\ \A older \in DOMAIN withdrawalQueue : older <= id =>
                  withdrawalQueue[older].unlock_ledger <= withdrawalQueue[id].unlock_ledger
  BY DEF TicketsInOrder
<1>1. cooldownPeriod' = cooldownPeriod
  BY DEF TicketsInOrder
<1>2. ledger \in Nat /\ cooldownPeriod \in Nat /\ withdrawalQueue[id].unlock_ledger \in Nat
  BY DEF TypeOK, LedgerTypeOK, ConfigTypeOK, QueueTypeOK, WithdrawalRequest
<1>3. /\ withdrawalQueue[id].unlock_ledger <= ledger + cooldownPeriod
      /\ \A older \in DOMAIN withdrawalQueue : older <= id =>
            withdrawalQueue[older].unlock_ledger <= withdrawalQueue[id].unlock_ledger
  BY <1>1 DEF TicketsInOrder
<1> QED
  BY <1>1, <1>2, <1>3

\* A new ticket is the last to fall due.
LEMMA NewTicketInOrder ==
    ASSUME TypeOK, TicketsInOrder, NEW user \in Callers, NEW n \in TokenAmounts,
           DelayedWithdrawal(user, n)
    PROVE  TicketsInOrder'
<1> DEFINE new == withdrawalCounter
           due == ledger + cooldownPeriod
<1>1. /\ new \in Nat /\ due \in Nat /\ DOMAIN withdrawalQueue = 0..(new - 1)
      /\ \A id \in DOMAIN withdrawalQueue : withdrawalQueue[id].unlock_ledger \in Nat
  BY DEF TypeOK, LedgerTypeOK, ConfigTypeOK, QueueTypeOK, WithdrawalRequest
<1>2. /\ DOMAIN withdrawalQueue' = 0..new
      /\ withdrawalQueue'[new].unlock_ledger = due
      /\ \A id \in 0..new : id # new => withdrawalQueue'[id] = withdrawalQueue[id]
      /\ cooldownPeriod' = cooldownPeriod /\ ledger' = ledger
  BY <1>1 DEF DelayedWithdrawal, configVars
<1>3. ASSUME Cooldowns = {cooldownPeriod}, NEW id \in 0..new
      PROVE  /\ withdrawalQueue'[id].unlock_ledger <= due
             /\ \A older \in 0..new : older <= id =>
                   withdrawalQueue'[older].unlock_ledger <= withdrawalQueue'[id].unlock_ledger
  <2>1. \A i \in 0..(new - 1) :
           /\ withdrawalQueue[i].unlock_ledger <= due
           /\ \A older \in 0..(new - 1) : older <= i =>
                 withdrawalQueue[older].unlock_ledger <= withdrawalQueue[i].unlock_ledger
    BY <1>1, <1>3 DEF TicketsInOrder
  <2>2. \A i \in 0..new : i # new => i \in 0..(new - 1)
    BY <1>1
  <2> HIDE DEF new, due
  <2>3. CASE id = new
    <3>1. withdrawalQueue'[id].unlock_ledger = due
      BY <1>2, <2>3
    <3>2. ASSUME NEW older \in 0..new PROVE withdrawalQueue'[older].unlock_ledger <= due
      <4>1. CASE older = new
        BY <1>1, <1>2, <4>1
      <4>2. CASE older # new
        BY <1>2, <2>1, <2>2, <4>2
      <4> QED
        BY <4>1, <4>2
    <3> QED
      BY <1>1, <3>1, <3>2
  <2>4. CASE id # new
    <3>1. \A older \in 0..new : older <= id => older # new
      BY <1>1, <2>4
    <3> QED
      BY <1>2, <2>1, <2>2, <2>4, <3>1
  <2> QED
    BY <2>3, <2>4
<1>4. cooldownPeriod' \in Cooldowns
  BY <1>2 DEF TicketsInOrder
<1> HIDE DEF new, due
<1>5. Cooldowns = {cooldownPeriod'} =>
         \A id \in DOMAIN withdrawalQueue' :
            /\ withdrawalQueue'[id].unlock_ledger <= ledger' + cooldownPeriod'
            /\ \A older \in DOMAIN withdrawalQueue' : older <= id =>
                  withdrawalQueue'[older].unlock_ledger <= withdrawalQueue'[id].unlock_ledger
  BY <1>2, <1>3 DEF due
<1> QED
  BY <1>4, <1>5 DEF TicketsInOrder

\* Every step keeps the tickets in order.
LEMMA NextInOrder == TypeOK /\ TypeOK' /\ TicketsInOrder /\ [Next]_vars => TicketsInOrder'
<1> SUFFICES ASSUME TypeOK, TypeOK', TicketsInOrder, [Next]_vars PROVE TicketsInOrder'
  OBVIOUS
<1>1. ledger \in Nat /\ ledger' \in Nat /\ cooldownPeriod \in Cooldowns
  BY DEF TypeOK, LedgerTypeOK, TicketsInOrder
<1>2. ASSUME UNCHANGED <<queueVars, ledger, cooldownPeriod>> PROVE TicketsInOrder'
  BY <1>1, <1>2, QuietQueue DEF queueVars
<1>3. CASE TokenStep
  BY <1>2, <1>3 DEF TokenStep, configVars
<1>4. CASE UserStep
  <2>1. ASSUME NEW user \in Callers, NEW n \in XlmAmounts, Deposit(user, n) PROVE TicketsInOrder'
    BY <1>2, <2>1 DEF Deposit, configVars
  <2>2. ASSUME NEW user \in Callers, NEW n \in TokenAmounts, InstantWithdrawal(user, n)
        PROVE  TicketsInOrder'
    BY <1>2, <2>2 DEF InstantWithdrawal, configVars
  <2>3. ASSUME NEW user \in Callers, NEW n \in TokenAmounts, DelayedWithdrawal(user, n)
        PROVE  TicketsInOrder'
    BY <2>3, NewTicketInOrder
  <2>4. ASSUME NEW user \in Callers, NEW id \in DOMAIN withdrawalQueue, ClaimWithdrawal(user, id)
        PROVE  TicketsInOrder'
    <3>1. /\ ledger' = ledger /\ cooldownPeriod' = cooldownPeriod
          /\ withdrawalQueue' = [withdrawalQueue EXCEPT ![id].claimed = TRUE]
      BY <2>4 DEF ClaimWithdrawal, configVars
    <3>2. \A i \in DOMAIN withdrawalQueue : withdrawalQueue[i] \in WithdrawalRequest
      BY DEF TypeOK, QueueTypeOK
    <3>3. /\ DOMAIN withdrawalQueue' = DOMAIN withdrawalQueue
          /\ \A i \in DOMAIN withdrawalQueue :
                withdrawalQueue'[i].unlock_ledger = withdrawalQueue[i].unlock_ledger
      BY <3>1, <3>2 DEF WithdrawalRequest
    <3> QED
      BY <1>1, <3>1, <3>3, QuietQueue
  <2>5. ASSUME NEW user \in Callers, NEW n \in XlmAmounts, SendXlmToContract(user, n)
        PROVE  TicketsInOrder'
    BY <1>2, <2>5 DEF SendXlmToContract, configVars
  <2> QED
    BY <1>4, <2>1, <2>2, <2>3, <2>4, <2>5 DEF UserStep
<1>5. CASE AdminStep
  <2>1. \/ UNCHANGED <<queueVars, ledger, cooldownPeriod>>
        \/ \E by \in Callers, n \in Cooldowns : SetCooldownPeriod(by, n)
    BY <1>5 DEF AdminStep, AddRewards, WithdrawFees, ApplySlashing, AddLiquidity, SetPaused,
       SetAdmin, configVars
  <2>2. ASSUME NEW by \in Callers, NEW n \in Cooldowns, SetCooldownPeriod(by, n)
        PROVE  TicketsInOrder'
    BY <1>1, <2>2, QuietQueue DEF SetCooldownPeriod, queueVars
  <2> QED
    BY <1>2, <2>1, <2>2
<1>6. CASE CloseLedger
  <2>1. ledger' >= ledger /\ UNCHANGED <<queueVars, cooldownPeriod>>
    BY <1>1, <1>6 DEF CloseLedger, configVars
  <2> QED
    BY <1>1, <2>1, QuietQueue DEF queueVars
<1>7. CASE UNCHANGED vars
  BY <1>2, <1>7 DEF vars, configVars
<1> QED
  BY <1>3, <1>4, <1>5, <1>6, <1>7 DEF Next

\* The scan finds the oldest open ticket of the owner within its reach, if there is one.
LEMMA ScanFinds ==
    ASSUME TypeOK, NEW user \in Callers, NEW id \in OpenTickets(user), id < MaxScan
    PROVE  /\ FindContractWithdrawal(user) \in OpenTickets(user)
           /\ FindContractWithdrawal(user) \in 0..(MaxScan - 1)
           /\ FindContractWithdrawal(user) <= id
<1> DEFINE seen == OpenTickets(user) \cap 0..(MaxScan - 1)
<1>1. seen \in SUBSET Nat /\ id \in seen
  BY StakingRoutesAssumption DEF StakingRoutesAssumption, OpenTickets, TypeOK, QueueTypeOK
<1>2. FindContractWithdrawal(user) = Min(seen)
  BY <1>1 DEF FindContractWithdrawal
<1>3. Min(seen) \in seen /\ \A n \in seen : Min(seen) <= n
  <2> HIDE DEF seen
  <2>1. PICK least \in seen : \A n \in seen : least <= n
    BY <1>1, LeastOf
  <2> QED
    BY <2>1 DEF Min
<1> QED
  BY <1>1, <1>2, <1>3

\* In order, the ticket that the scan finds is due if any is.
LEMMA ScanFindsDue == TypeOK /\ TicketsInOrder => DueTicketIsClaimable
<1> SUFFICES ASSUME TypeOK, TicketsInOrder, Cooldowns = {cooldownPeriod}, NEW user \in Callers,
                    NEW id \in OpenTickets(user), id < MaxScan, Due(id),
                    \A d \in {i \in OpenTickets(user) : i < MaxScan /\ Due(i)} :
                        xlm[StakingContract] >= withdrawalQueue[d].xlm_amount
             PROVE  ClaimRouteBuilds(user)
  BY DEF DueTicketIsClaimable
<1> DEFINE found == FindContractWithdrawal(user)
<1>1. found \in OpenTickets(user) /\ found \in 0..(MaxScan - 1) /\ found <= id
  BY ScanFinds
<1>2. /\ found \in DOMAIN withdrawalQueue /\ id \in DOMAIN withdrawalQueue
      /\ ledger \in Nat /\ MaxScan \in Nat
      /\ withdrawalQueue[found].unlock_ledger \in Nat /\ withdrawalQueue[id].unlock_ledger \in Nat
  BY <1>1, StakingRoutesAssumption
     DEF StakingRoutesAssumption, OpenTickets, TypeOK, LedgerTypeOK, QueueTypeOK, WithdrawalRequest
<1>3. withdrawalQueue[found].unlock_ledger <= withdrawalQueue[id].unlock_ledger
  BY <1>1, <1>2 DEF TicketsInOrder
<1> HIDE DEF found
<1>4. Due(found)
  BY <1>2, <1>3 DEF Due
<1>5. found < MaxScan /\ found # NotFound
  BY <1>1, <1>2 DEF NotFound
<1> QED
  BY <1>1, <1>4, <1>5 DEF ClaimRouteBuilds, found

\* As long as the cooldown is not changed, the claim route finds a ticket that is due
\* whenever the owner has one within its reach: it is never an older one that is not due
\* yet, however many others claim, leave or stake in between.
THEOREM DueTicketsAlwaysClaimable == Spec => []DueTicketIsClaimable
<1>1. Init => TicketsInOrder
  BY DEF Init, TicketsInOrder
<1> QED
  BY <1>1, NextInOrder, ScanFindsDue, TypeCorrect, PTL DEF Spec
=============================================================================
