---------------------------- MODULE StakingRoutes ----------------------------
(***************************************************************************)
(* The staking routes of the API on the states of the staking contract.    *)
(* They change nothing on chain: POST /staking/stake and /unstake build a  *)
(* call that the simulation accepts and quote what it will bring, at the   *)
(* rate of the contract; POST /staking/claim has no id of a ticket: it     *)
(* asks the contract for ticket 0, 1, 2, ... and takes the first open one  *)
(* of the caller, whether or not it is due.                                *)
(***************************************************************************)
EXTENDS Staking, FiniteSetsExt

CONSTANTS MaxScan,              \* how many ids the claim route asks for: 50
          MinStake, MaxStake,   \* minStakeAmount, maxStakeAmount
          RATE_PRECISION        \* of get_exchange_rate

ASSUME StakingRoutesAssumption ==
    MaxScan \in Nat /\ MinStake \in Nat \ {0} /\ MaxStake \in Nat /\ RATE_PRECISION \in Nat \ {0}
----------------------------------------------------------------------------
(* Stake and unstake. *)

\* Mutant of ShownRate: rounded up.
ShownRateRoundedUp ==
    IF totalSxlmSupply = 0 THEN RATE_PRECISION
    ELSE TruncDiv(totalXlmStaked * RATE_PRECISION + totalSxlmSupply - 1, totalSxlmSupply)

\* get_exchange_rate, when the rate manager has just asked for it.
ShownRate ==
    IF totalSxlmSupply = 0 THEN RATE_PRECISION
    ELSE TruncDiv(totalXlmStaked * RATE_PRECISION, totalSxlmSupply)

\* Within the limits of the route, and the simulation accepts the deposit.
StakeRouteBuilds(user, xlmStroops) ==
    /\ xlmStroops \in MinStake..MaxStake
    /\ MayDeposit(xlmStroops)
    /\ MayPayXlm(user, xlmStroops)
    /\ MayMint(StakingContract, SxlmFor(xlmStroops))

\* What the route looks at itself, before it has the call simulated.
UnstakePreflight(user, sxlmStroops) == sxlmStroops > 0 /\ balance[user] >= sxlmStroops

\* The simulation accepts the withdrawal, an instant or a delayed one.
MayWithdraw(user, sxlmStroops) ==
    /\ MayRequestWithdrawal(sxlmStroops)
    /\ MayBurn(StakingContract, user, sxlmStroops)
    /\ liquidityBuffer >= XlmFor(sxlmStroops) => MayPayXlm(StakingContract, XlmFor(sxlmStroops))

UnstakeRouteBuilds(user, sxlmStroops) ==
    UnstakePreflight(user, sxlmStroops) /\ MayWithdraw(user, sxlmStroops)

\* As long as the contract's rate is positive and nothing changes before the call is
\* included, a staker is credited what the route has quoted, or less by the rounding of
\* the rate and one unit, a leaver is paid the quote or more by no more than that; and
\* the balance check turns nobody away whom the contract would serve.
QuotesHold ==
    \A user \in Callers :
        /\ \A x \in XlmAmounts : ShownRate > 0 /\ StakeRouteBuilds(user, x) =>
              /\ SxlmFor(x) * ShownRate <= x * RATE_PRECISION
              /\ x * RATE_PRECISION < (SxlmFor(x) + 1) * (ShownRate + 1)
        /\ \A n \in TokenAmounts : UnstakeRouteBuilds(user, n) =>
              /\ n * ShownRate < (XlmFor(n) + 1) * RATE_PRECISION
              /\ XlmFor(n) * RATE_PRECISION <= n * (ShownRate + 1)
        /\ \A n \in TokenAmounts : MayWithdraw(user, n) => UnstakePreflight(user, n)
----------------------------------------------------------------------------
(* Claim. *)

NotFound == -1

OpenTickets(user) ==
    {id \in DOMAIN withdrawalQueue : withdrawalQueue[id].user = user /\ ~withdrawalQueue[id].claimed}
Due(id) == ledger >= withdrawalQueue[id].unlock_ledger

\* Mutant of FindContractWithdrawal: the newest open ticket instead of the oldest.
FindNewestWithdrawal(user) ==
    LET seen == OpenTickets(user) \cap 0..(MaxScan - 1)
    IN  IF seen = {} THEN NotFound ELSE Max(seen)

\* The ids are handed out without gaps, so the scan ends at the last one or at MaxScan.
FindContractWithdrawal(user) ==
    LET seen == OpenTickets(user) \cap 0..(MaxScan - 1)
    IN  IF seen = {} THEN NotFound ELSE Min(seen)

\* The route builds a claim, unless it finds none or one that is not due, or the
\* simulation refuses it.
ClaimRouteBuilds(user) ==
    LET id == FindContractWithdrawal(user)
    IN  /\ id # NotFound
        /\ Due(id)
        /\ xlm[StakingContract] >= withdrawalQueue[id].xlm_amount

\* As long as the cooldown is not changed, an owner of a due ticket is never told to
\* wait because of another ticket, nor that there is none, if the scan reaches it: the
\* claim is built whenever the contract could pay each of the owner's due tickets there.
DueTicketIsClaimable ==
    Cooldowns = {cooldownPeriod} =>
        \A user \in Callers :
            LET due == {id \in OpenTickets(user) : id < MaxScan /\ Due(id)}
            IN  due # {} /\ (\A id \in due : xlm[StakingContract] >= withdrawalQueue[id].xlm_amount)
                  => ClaimRouteBuilds(user)
=============================================================================
