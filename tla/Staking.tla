------------------------------- MODULE Staking -------------------------------
(***************************************************************************)
(* The staking contract (contracts/staking/src/lib.rs) composed with the   *)
(* sXLM token it mints and burns, the native XLM ledger it pays with and   *)
(* the ledger clock its withdrawal queue is timed by.                      *)
(*                                                                         *)
(* One action per entry point; as in SxlmToken, a call that panics leaves  *)
(* no trace, so its conditions are guards.  The contract's own arithmetic  *)
(* is unchecked below zero (i128), so the totals are integers here.        *)
(*                                                                         *)
(* xlm[a] is the native balance of address a.  Four ghost counters record  *)
(* what the contract itself does not: the gross rewards booked, the amount *)
(* slashed, the XLM paid out of the liquidity buffer, and the XLM sent to  *)
(* the contract by a plain native transfer (which no entry point sees).    *)
(***************************************************************************)
EXTENDS SxlmToken, ContractArith, Functions

CONSTANTS Admins,           \* addresses that may become the staking admin
          InitialXlm,       \* native balances before the first call
          XlmAmounts,       \* inputs of deposit and of native transfers
          RewardAmounts,    \* inputs of add_rewards
          FeeAmounts,       \* inputs of withdraw_fees (<= 0 means everything)
          SlashAmounts,     \* inputs of apply_slashing
          LiquidityAmounts, \* inputs of add_liquidity
          Cooldowns         \* inputs of set_cooldown_period
CONSTANTS MaxLedger,        \* bound: the clock stops here
          MaxRewarded,      \* bound: gross rewards booked in one behaviour
          MaxSlashed,       \* bound: total slashed in one behaviour
          MaxTickets,       \* bound: delayed withdrawals in one behaviour
          MaxDonated,       \* bound: XLM sent directly to the contract
          MaxForeignSupply  \* bound: a minter other than the contract stops here

Callers == Accounts \ {StakingContract}

ASSUME StakingConstants ==
    /\ Admins \subseteq Callers
    /\ InitialXlm \in [Accounts -> Nat]
    /\ InitialXlm[StakingContract] = 0
    /\ XlmAmounts \subseteq Int /\ RewardAmounts \subseteq Int /\ FeeAmounts \subseteq Int
    /\ SlashAmounts \subseteq Int /\ LiquidityAmounts \subseteq Int
    /\ Cooldowns \subseteq Nat
    /\ MaxLedger \in Nat /\ MaxRewarded \in Nat /\ MaxSlashed \in Nat
    /\ MaxTickets \in Nat /\ MaxDonated \in Nat /\ MaxForeignSupply \in Nat

VARIABLES xlm, ledger,
          totalXlmStaked, totalSxlmSupply, liquidityBuffer, treasuryBalance,
          withdrawalQueue, withdrawalCounter, cooldownPeriod, paused, admin,
          rewarded, slashed, instantPaid, donated

ghostVars  == <<rewarded, slashed, instantPaid, donated>>
configVars == <<cooldownPeriod, paused, admin>>
bookVars   == <<totalXlmStaked, totalSxlmSupply, liquidityBuffer, treasuryBalance>>
queueVars  == <<withdrawalQueue, withdrawalCounter>>
vars == <<tokenVars, xlm, ledger, bookVars, queueVars, configVars, ghostVars>>

ProtocolFeeBps == 1000
BpsDenominator == 10000

WithdrawalRequest ==
    [user : Callers, xlm_amount : Nat \ {0}, unlock_ledger : Nat, claimed : BOOLEAN]

LedgerTypeOK == xlm \in [Accounts -> Nat] /\ ledger \in Nat
BooksTypeOK ==
    /\ totalXlmStaked \in Int /\ totalSxlmSupply \in Int
    /\ liquidityBuffer \in Nat /\ treasuryBalance \in Nat
\* Ids are handed out from 0 by the counter and no entry is ever removed.
QueueTypeOK ==
    /\ withdrawalCounter \in Nat
    /\ withdrawalQueue \in [0..(withdrawalCounter - 1) -> WithdrawalRequest]
ConfigTypeOK == cooldownPeriod \in Nat /\ paused \in BOOLEAN /\ admin \in Callers
GhostTypeOK ==
    rewarded \in Nat /\ slashed \in Nat /\ instantPaid \in Nat /\ donated \in Nat
TypeOK ==
    /\ TokenTypeOK /\ LedgerTypeOK /\ BooksTypeOK
    /\ QueueTypeOK /\ ConfigTypeOK /\ GhostTypeOK

Init ==
    /\ TokenInit
    /\ xlm = InitialXlm
    /\ ledger = 0
    /\ totalXlmStaked = 0 /\ totalSxlmSupply = 0
    /\ liquidityBuffer = 0 /\ treasuryBalance = 0
    /\ withdrawalCounter = 0
    /\ withdrawalQueue = [id \in {} |-> 0]
    /\ cooldownPeriod \in Cooldowns /\ paused = FALSE /\ admin \in Admins
    /\ rewarded = 0 /\ slashed = 0 /\ instantPaid = 0 /\ donated = 0

----------------------------------------------------------------------------
(* Conversions between XLM and sXLM; both round down. *)

\* Mutant of SxlmFor: rounds up.
SxlmForRoundedUp(xlmAmount) ==
    IF totalSxlmSupply = 0 \/ totalXlmStaked = 0
    THEN xlmAmount
    ELSE TruncDiv(xlmAmount * totalSxlmSupply + totalXlmStaked - 1, totalXlmStaked)

SxlmFor(xlmAmount) ==
    IF totalSxlmSupply = 0 \/ totalXlmStaked = 0
    THEN xlmAmount
    ELSE TruncDiv(xlmAmount * totalSxlmSupply, totalXlmStaked)

XlmFor(sxlmAmount) == TruncDiv(sxlmAmount * totalXlmStaked, totalSxlmSupply)

\* A transfer of the native token, which panics on an insufficient balance.
MayPayXlm(from, amount) == xlm[from] >= amount

PayXlm(from, to, amount) ==
    /\ MayPayXlm(from, amount)
    /\ xlm' = [xlm EXCEPT ![from] = @ - amount, ![to] = @ + amount]

----------------------------------------------------------------------------
(* Calls of users. *)

\* The contract's own conditions; the two token calls have theirs.
MayDeposit(xlmAmount) == ~paused /\ xlmAmount > 0 /\ SxlmFor(xlmAmount) > 0

Deposit(user, xlmAmount) ==
    LET sxlmToMint == SxlmFor(xlmAmount)
    IN  /\ MayDeposit(xlmAmount)
        /\ PayXlm(user, StakingContract, xlmAmount)
        /\ totalXlmStaked' = totalXlmStaked + xlmAmount
        /\ totalSxlmSupply' = totalSxlmSupply + sxlmToMint
        /\ Mint(StakingContract, user, sxlmToMint)
        /\ UNCHANGED <<ledger, liquidityBuffer, treasuryBalance, queueVars,
                       configVars, ghostVars>>

MayRequestWithdrawal(sxlmAmount) ==
    ~paused /\ sxlmAmount > 0 /\ totalSxlmSupply # 0 /\ XlmFor(sxlmAmount) > 0

\* Mutant of BurnForWithdrawal: the contract's own supply count is not reduced.
BurnUncounted(user, sxlmAmount) ==
    /\ MayRequestWithdrawal(sxlmAmount)
    /\ Burn(StakingContract, user, sxlmAmount)
    /\ UNCHANGED totalSxlmSupply

\* The part common to both outcomes of request_withdrawal.
BurnForWithdrawal(user, sxlmAmount) ==
    /\ MayRequestWithdrawal(sxlmAmount)
    /\ Burn(StakingContract, user, sxlmAmount)
    /\ totalSxlmSupply' = totalSxlmSupply - sxlmAmount

\* Mutant of InstantWithdrawal: the staked total, not the buffer, has to cover it.
InstantBeyondBuffer(user, sxlmAmount) ==
    LET xlmToReturn == XlmFor(sxlmAmount)
    IN  /\ BurnForWithdrawal(user, sxlmAmount)
        /\ totalXlmStaked >= xlmToReturn
        /\ liquidityBuffer' = liquidityBuffer - xlmToReturn
        /\ totalXlmStaked' = totalXlmStaked - xlmToReturn
        /\ PayXlm(StakingContract, user, xlmToReturn)
        /\ instantPaid' = instantPaid + xlmToReturn
        /\ UNCHANGED <<ledger, treasuryBalance, queueVars, configVars,
                       rewarded, slashed, donated>>

\* The buffer covers the amount: paid at once, and taken off the buffer and off
\* the staked total.
InstantWithdrawal(user, sxlmAmount) ==
    LET xlmToReturn == XlmFor(sxlmAmount)
    IN  /\ BurnForWithdrawal(user, sxlmAmount)
        /\ liquidityBuffer >= xlmToReturn
        /\ liquidityBuffer' = liquidityBuffer - xlmToReturn
        /\ totalXlmStaked' = totalXlmStaked - xlmToReturn
        /\ PayXlm(StakingContract, user, xlmToReturn)
        /\ instantPaid' = instantPaid + xlmToReturn
        /\ UNCHANGED <<ledger, treasuryBalance, queueVars, configVars,
                       rewarded, slashed, donated>>

\* Otherwise the amount is fixed in a ticket; the staked total is not touched.
DelayedWithdrawal(user, sxlmAmount) ==
    LET xlmToReturn == XlmFor(sxlmAmount)
        request == [user |-> user, xlm_amount |-> xlmToReturn,
                    unlock_ledger |-> ledger + cooldownPeriod, claimed |-> FALSE]
    IN  /\ BurnForWithdrawal(user, sxlmAmount)
        /\ liquidityBuffer < xlmToReturn
        /\ withdrawalCounter' = withdrawalCounter + 1
        /\ withdrawalQueue' = [id \in 0..withdrawalCounter |->
               IF id = withdrawalCounter THEN request ELSE withdrawalQueue[id]]
        /\ UNCHANGED <<xlm, ledger, totalXlmStaked, liquidityBuffer, treasuryBalance,
                       configVars, ghostVars>>

\* Mutant of ClaimWithdrawal: the request is not marked as claimed.
ClaimUnmarked(user, id) ==
    LET request == withdrawalQueue[id]
    IN  /\ id \in DOMAIN withdrawalQueue
        /\ request.user = user
        /\ ~request.claimed
        /\ ledger >= request.unlock_ledger
        /\ totalXlmStaked' = totalXlmStaked - request.xlm_amount
        /\ PayXlm(StakingContract, user, request.xlm_amount)
        /\ UNCHANGED <<tokenVars, ledger, totalSxlmSupply, liquidityBuffer,
                       treasuryBalance, queueVars, configVars, ghostVars>>

\* Not guarded by the pause flag, and no check of the staked total.
ClaimWithdrawal(user, id) ==
    LET request == withdrawalQueue[id]
    IN  /\ id \in DOMAIN withdrawalQueue
        /\ request.user = user
        /\ ~request.claimed
        /\ ledger >= request.unlock_ledger
        /\ withdrawalQueue' = [withdrawalQueue EXCEPT ![id].claimed = TRUE]
        /\ totalXlmStaked' = totalXlmStaked - request.xlm_amount
        /\ PayXlm(StakingContract, user, request.xlm_amount)
        /\ UNCHANGED <<tokenVars, ledger, totalSxlmSupply, liquidityBuffer,
                       treasuryBalance, withdrawalCounter, configVars, ghostVars>>

----------------------------------------------------------------------------
(* Calls of the admin. *)

\* Mutant of AddRewards: the fee is booked without being taken off the reward.
AddRewardsWithFeeOnTop(by, amount) ==
    /\ by = admin
    /\ amount > 0
    /\ treasuryBalance' = treasuryBalance + TruncDiv(amount * ProtocolFeeBps, BpsDenominator)
    /\ totalXlmStaked' = totalXlmStaked + amount
    /\ rewarded' = rewarded + amount
    /\ UNCHANGED <<tokenVars, xlm, ledger, totalSxlmSupply, liquidityBuffer,
                   queueVars, configVars, slashed, instantPaid, donated>>

\* Books the reward; no XLM comes in with the call.
AddRewards(by, amount) ==
    LET fee == TruncDiv(amount * ProtocolFeeBps, BpsDenominator)
    IN  /\ by = admin
        /\ amount > 0
        /\ treasuryBalance' = treasuryBalance + fee
        /\ totalXlmStaked' = totalXlmStaked + (amount - fee)
        /\ rewarded' = rewarded + amount
        /\ UNCHANGED <<tokenVars, xlm, ledger, totalSxlmSupply, liquidityBuffer,
                       queueVars, configVars, slashed, instantPaid, donated>>

WithdrawFees(by, amount) ==
    LET withdrawAmount == IF amount <= 0 THEN treasuryBalance ELSE amount
    IN  /\ by = admin
        /\ withdrawAmount > 0
        /\ withdrawAmount <= treasuryBalance
        /\ PayXlm(StakingContract, admin, withdrawAmount)
        /\ treasuryBalance' = treasuryBalance - withdrawAmount
        /\ UNCHANGED <<tokenVars, ledger, totalXlmStaked, totalSxlmSupply,
                       liquidityBuffer, queueVars, configVars, ghostVars>>

ApplySlashing(by, slashAmount) ==
    /\ by = admin
    /\ slashAmount > 0
    /\ slashAmount <= totalXlmStaked
    /\ totalXlmStaked' = totalXlmStaked - slashAmount
    /\ slashed' = slashed + slashAmount
    /\ UNCHANGED <<tokenVars, xlm, ledger, totalSxlmSupply, liquidityBuffer,
                   treasuryBalance, queueVars, configVars,
                   rewarded, instantPaid, donated>>

\* The buffer is kept beside the staked total, not inside it.
AddLiquidity(by, amount) ==
    /\ by = admin
    /\ amount > 0
    /\ PayXlm(admin, StakingContract, amount)
    /\ liquidityBuffer' = liquidityBuffer + amount
    /\ UNCHANGED <<tokenVars, ledger, totalXlmStaked, totalSxlmSupply,
                   treasuryBalance, queueVars, configVars, ghostVars>>

\* pause and unpause.
SetPaused(by, flag) ==
    /\ by = admin
    /\ paused' = flag
    /\ UNCHANGED <<tokenVars, xlm, ledger, bookVars, queueVars, cooldownPeriod,
                   admin, ghostVars>>

SetCooldownPeriod(by, newCooldown) ==
    /\ by = admin
    /\ cooldownPeriod' = newCooldown
    /\ UNCHANGED <<tokenVars, xlm, ledger, bookVars, queueVars, paused, admin,
                   ghostVars>>

SetAdmin(by, newAdmin) ==
    /\ by = admin
    /\ admin' = newAdmin
    /\ UNCHANGED <<tokenVars, xlm, ledger, bookVars, queueVars, cooldownPeriod,
                   paused, ghostVars>>

----------------------------------------------------------------------------
(* The environment: the clock, and plain native transfers to the contract. *)

CloseLedger ==
    /\ ledger < MaxLedger
    /\ ledger' = ledger + 1
    /\ UNCHANGED <<tokenVars, xlm, bookVars, queueVars, configVars, ghostVars>>

SendXlmToContract(from, amount) ==
    /\ amount > 0
    /\ donated + amount <= MaxDonated
    /\ PayXlm(from, StakingContract, amount)
    /\ donated' = donated + amount
    /\ UNCHANGED <<tokenVars, ledger, bookVars, queueVars, configVars,
                   rewarded, slashed, instantPaid>>

----------------------------------------------------------------------------

\* Steps of the token alone: holders' calls, the token admin's, and mints and
\* burns of a minter other than the staking contract.
TokenStep ==
    /\ \/ \E from \in Callers, to \in Accounts, n \in TokenAmounts : Transfer(from, to, n)
       \/ \E from, spender \in Callers, n \in ApproveAmounts : Approve(from, spender, n)
       \/ \E spender, from \in Callers, to \in Accounts, n \in TokenAmounts :
             TransferFrom(spender, from, to, n)
       \/ \E by \in Callers, to \in Accounts, n \in TokenAmounts :
             totalSupply + n <= MaxForeignSupply /\ Mint(by, to, n)
       \/ \E by \in Callers, from \in Accounts, n \in TokenAmounts : Burn(by, from, n)
       \/ \E by \in Callers, m \in Minters : SetMinter(by, m)
       \/ \E by \in Callers, a \in TokenAdmins : SetTokenAdmin(by, a)
    /\ UNCHANGED <<xlm, ledger, bookVars, queueVars, configVars, ghostVars>>

UserStep ==
    \E user \in Callers :
        \/ \E n \in XlmAmounts : Deposit(user, n)
        \/ \E n \in TokenAmounts : InstantWithdrawal(user, n)
        \/ \E n \in TokenAmounts : withdrawalCounter < MaxTickets /\ DelayedWithdrawal(user, n)
        \/ \E id \in DOMAIN withdrawalQueue : ClaimWithdrawal(user, id)
        \/ \E n \in XlmAmounts : SendXlmToContract(user, n)

AdminStep ==
    \E by \in Callers :
        \/ \E n \in RewardAmounts : rewarded + n <= MaxRewarded /\ AddRewards(by, n)
        \/ \E n \in FeeAmounts : WithdrawFees(by, n)
        \/ \E n \in SlashAmounts : slashed + n <= MaxSlashed /\ ApplySlashing(by, n)
        \/ \E n \in LiquidityAmounts : AddLiquidity(by, n)
        \/ \E flag \in BOOLEAN : SetPaused(by, flag)
        \/ \E n \in Cooldowns : SetCooldownPeriod(by, n)
        \/ \E a \in Admins : SetAdmin(by, a)

Next == TokenStep \/ UserStep \/ AdminStep \/ CloseLedger

Spec == Init /\ [][Next]_vars

----------------------------------------------------------------------------
(* Properties. *)

\* The stored total supply is the sum of the balances, whoever mints or burns and
\* whatever is transferred, to oneself or under an allowance.
SupplyIsSumOfBalances == totalSupply = SumFunction(balance)

\* Every XLM the contract holds is explained by its books: what is staked, in the
\* buffer and in the treasury, plus what was slashed (the XLM stays), what was paid
\* out of the buffer (it was deducted from the buffer and from the staked total, but
\* paid once) and what was sent directly, less the rewards, which are booked without
\* any XLM coming in.
BooksBalance ==
    xlm[StakingContract] + rewarded
      = totalXlmStaked + liquidityBuffer + treasuryBalance
          + slashed + instantPaid + donated

\* No call of the contract changes one copy of the supply (the staking contract's)
\* without the other (the token's), as long as the staking contract is the minter.
SuppliesMoveTogether ==
    [][minter = StakingContract =>
         totalSxlmSupply' - totalSxlmSupply = totalSupply' - totalSupply]_vars

\* XLM per sXLM falls only by a slash or by the claim of a ticket: the rounding of
\* deposits and withdrawals never takes value from the remaining holders.
RateFalls ==
    /\ totalSxlmSupply > 0 /\ totalSxlmSupply' > 0
    /\ totalXlmStaked' * totalSxlmSupply < totalXlmStaked * totalSxlmSupply'
TicketClaimed ==
    \E id \in DOMAIN withdrawalQueue :
        ~withdrawalQueue[id].claimed /\ withdrawalQueue'[id].claimed
RateFallsOnlyBySlashOrClaim ==
    [][RateFalls => slashed' > slashed \/ TicketClaimed]_vars

\* The contract implements the promise its withdrawal tickets make: see TicketPromise.
Promise == INSTANCE TicketPromise WITH
    Owners  <- Callers,
    now     <- ledger,
    cash    <- [a \in Callers |-> xlm[a]],
    vault   <- xlm[StakingContract],
    reserve <- liquidityBuffer + treasuryBalance,
    issued  <- withdrawalCounter,
    tickets <- [id \in DOMAIN withdrawalQueue |->
                  [owner  |-> withdrawalQueue[id].user,
                   amount |-> withdrawalQueue[id].xlm_amount,
                   due    |-> withdrawalQueue[id].unlock_ledger,
                   open   |-> ~withdrawalQueue[id].claimed]]
TicketsKeptAsPromised == Promise!Spec
=============================================================================
