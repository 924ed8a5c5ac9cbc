------------------------------- MODULE Keeper -------------------------------
(***************************************************************************)
(* The keeper bot (keeper/index.ts) with RateFlow: every six hours it      *)
(* collects the protocol's fees of the LP pool and books them as rewards   *)
(* of the stakers, every day it withdraws the treasury and books that too, *)
(* and it touches the contracts so that they do not expire.  All of it is  *)
(* signed with the key that the updates of the lending rate use as well.   *)
(*                                                                         *)
(* The lending contract has neither total_accrued_interest nor             *)
(* harvest_interest: the first query answers null, which is taken for no   *)
(* interest, so the second is never called.                                *)
(***************************************************************************)
EXTENDS RateFlow

CONSTANTS FeeBps, BpsDenominator,   \* of add_rewards: 1000 of 10000
          RecycleThreshold,         \* TREASURY_RECYCLE_THRESHOLD: 100 XLM
          TreasuryAtStart
CONSTANTS MaxFees,                  \* bound: fees that swaps leave in the pool, in all
          MaxTouches                \* bound: upkeep calls

ASSUME KeeperAssumption ==
    /\ Callers = Syncs \cup {"harvest", "recycle", "upkeep"}
    /\ Syncs \cap {"harvest", "recycle", "upkeep"} = {}
    /\ FeeBps \in Nat /\ BpsDenominator \in Nat \ {0} /\ FeeBps <= BpsDenominator
    /\ RecycleThreshold \in Nat \ {0} /\ TreasuryAtStart \in Nat /\ MaxFees \in Nat
    /\ MaxTouches \in Nat

VARIABLES treasury,     \* of the staking contract
          lpFees,       \* of the LP pool, not collected
          swapped,      \* ghost: fees there have been so far
          received,     \* ghost: XLM that the keeper took out of the contracts
          booked,       \* ghost: rewards that it had booked
          yield,        \* what the harvest, or the recycling, has read and carries on with
          touches       \* how often the upkeep has run

keeperVars == <<treasury, lpFees, swapped, received, booked, yield, touches>>
vars == <<operatorVars, books, lendingRate, readerVars, managerVars, keeperVars>>

Tasks == {"harvest", "recycle"}
NoYield == [n |-> 0, taken |-> FALSE]

\* What the signed transactions do.
Ops ==
    [is : {"rate"}, rate : Nat \ {NoRate}] \cup [is : {"add_rewards", "withdraw_fees"}, n : Nat]
        \cup [is : {"collect_protocol_fees", "bump_instance"}]

TypeOK ==
    /\ OperatorTypeOK(Ops) /\ RateTypeOK
    /\ treasury \in Nat /\ lpFees \in Nat /\ swapped \in 0..MaxFees
    /\ received \in Nat /\ booked \in Nat
    /\ yield \in [Tasks -> [n : Nat, taken : BOOLEAN]]
    /\ touches \in 0..MaxTouches

Init ==
    /\ RateInit
    /\ treasury = TreasuryAtStart /\ lpFees = 0 /\ swapped = 0
    /\ received = 0 /\ booked = 0
    /\ yield = [t \in Tasks |-> NoYield]
    /\ touches = 0

\* Swaps leave fees in the pool.
Swap ==
    /\ swapped < MaxFees
    /\ swapped' = swapped + 1 /\ lpFees' = lpFees + 1
    /\ UNCHANGED <<operatorVars, books, lendingRate, readerVars, managerVars,
                   treasury, received, booked, yield, touches>>
----------------------------------------------------------------------------
(* What the transactions do. *)

Rewarded(n) ==
    LET fee == (n * FeeBps) \div BpsDenominator
    IN  /\ treasury' = treasury + fee /\ staked' = staked + (n - fee)
        /\ booked' = booked + n
        /\ UNCHANGED <<supply, lendingRate, lpFees, received>>

FeesWithdrawn(n) ==
    /\ treasury' = treasury - n /\ received' = received + n
    /\ UNCHANGED <<books, lendingRate, lpFees, booked>>

FeesCollected ==
    /\ lpFees' = 0 /\ received' = received + lpFees
    /\ UNCHANGED <<books, lendingRate, treasury, booked>>

Effect(op) ==
    CASE op.is = "rate" -> /\ lendingRate' = op.rate
                           /\ UNCHANGED <<books, treasury, lpFees, received, booked>>
      [] op.is = "add_rewards" -> Rewarded(op.n)
      [] op.is = "withdraw_fees" -> FeesWithdrawn(op.n)
      [] op.is = "collect_protocol_fees" -> FeesCollected
      [] op.is = "bump_instance" ->
            UNCHANGED <<books, lendingRate, treasury, lpFees, received, booked>>

\* Mutant of Succeeds: transactions are sent without a simulation, as if none panicked.
SucceedsUnseen(op) == op.is \in {"withdraw_fees", "collect_protocol_fees", "rate", "add_rewards", "bump_instance"}

\* The conditions under which it does not panic.
Succeeds(op) ==
    CASE op.is = "withdraw_fees" -> op.n <= treasury
      [] op.is = "collect_protocol_fees" -> lpFees > 0
      [] OTHER -> TRUE

\* It was simulated on the books that it finds: they only move by such transactions,
\* by deposits and by swaps, none of which makes one fail.
IncludeCall(tx) ==
    /\ Include(tx, TRUE) /\ Effect(tx.op)
    /\ UNCHANGED <<readerVars, managerVars, swapped, yield, touches>>

\* Simulation refuses what would panic when it is sent.
SendCall(c) ==
    /\ Waiting(c) /\ Send(c, Succeeds(calls[c].op))
    /\ UNCHANGED <<books, lendingRate, readerVars, managerVars, keeperVars>>

DropCall ==
    /\ \E tx \in pool : RunOut(tx)
    /\ UNCHANGED <<books, lendingRate, readerVars, managerVars, keeperVars>>

BuildCall(c) ==
    /\ Build(c)
    /\ UNCHANGED <<books, lendingRate, readerVars, managerVars, keeperVars>>

\* Updates of the rate and touches of the contracts, whose outcome is only logged.
EndOther(c) ==
    /\ Return(c) \/ Throw(c)
    /\ UNCHANGED <<books, lendingRate, readerVars, managerVars, keeperVars>>

----------------------------------------------------------------------------
(* The tasks of the keeper. *)

\* getLpAccruedProtocolFees, of which the harvest takes all.
AccruedFees == lpFees
\* getTreasuryBalance, which is left alone below the threshold.
Recyclable == IF treasury < RecycleThreshold THEN 0 ELSE treasury

Available(t) == IF t = "harvest" THEN AccruedFees ELSE Recyclable
Taking(t, n) == IF t = "harvest" THEN [is |-> "collect_protocol_fees"]
                                 ELSE [is |-> "withdraw_fees", n |-> n]

\* runHarvestCycle and recycleTreasury read what there is.
StartTask(t) ==
    /\ t \in services
    /\ ~Waiting(t) /\ yield[t] = NoYield
    /\ Available(t) > 0
    /\ yield' = [yield EXCEPT ![t] = [n |-> Available(t), taken |-> FALSE]]
    /\ UNCHANGED <<operatorVars, books, lendingRate, readerVars, managerVars,
                   treasury, lpFees, swapped, received, booked, touches>>

\* It is to be paid out; collect_protocol_fees pays what there is by then.
TakeYield(t) ==
    /\ yield[t].n > 0 /\ ~Waiting(t)
    /\ Begin(t, Taking(t, yield[t].n))
    /\ UNCHANGED <<pool, faults, books, lendingRate, readerVars, managerVars, keeperVars>>

\* Paid out: the same amount is booked as rewards.
BookYield(t) ==
    /\ yield[t].n > 0 /\ ~yield[t].taken
    /\ StepOf(t, "done")
    /\ yield' = [yield EXCEPT ![t].taken = TRUE]
    /\ Begin(t, [is |-> "add_rewards", n |-> yield[t].n])
    /\ UNCHANGED <<pool, faults, books, lendingRate, readerVars, managerVars,
                   treasury, lpFees, swapped, received, booked, touches>>

\* Mutant of TaskFails: an add_rewards that failed, or was not seen in time, is repeated.
TaskRetriesBooking(t) ==
    /\ IF yield[t].taken
       THEN /\ \/ StepOf(t, "failed") /\ UNCHANGED faults
               \/ StepOf(t, "sent") /\ faults < MaxFaults /\ faults' = faults + 1
            /\ Begin(t, calls[t].op) /\ UNCHANGED <<pool, yield>>
       ELSE yield[t].n > 0 /\ Throw(t) /\ yield' = [yield EXCEPT ![t] = NoYield]
    /\ UNCHANGED <<books, lendingRate, readerVars, managerVars,
                   treasury, lpFees, swapped, received, booked, touches>>

\* A call threw: the task is over, and what it took out stays unbooked.
TaskFails(t) ==
    /\ yield[t].n > 0
    /\ Throw(t)
    /\ yield' = [yield EXCEPT ![t] = NoYield]
    /\ UNCHANGED <<books, lendingRate, readerVars, managerVars,
                   treasury, lpFees, swapped, received, booked, touches>>

EndTask(t) ==
    /\ yield[t].taken
    /\ Return(t)
    /\ yield' = [yield EXCEPT ![t] = NoYield]
    /\ UNCHANGED <<books, lendingRate, readerVars, managerVars,
                   treasury, lpFees, swapped, received, booked, touches>>

\* bumpAllContractTTLs, contract by contract, and recalibrateStakingRate.
Touch ==
    /\ "upkeep" \in services
    /\ ~Waiting("upkeep")
    /\ Begin("upkeep", [is |-> "bump_instance"])
    /\ touches < MaxTouches /\ touches' = touches + 1
    /\ UNCHANGED <<pool, faults, books, lendingRate, readerVars, managerVars,
                   treasury, lpFees, swapped, received, booked, yield>>

Restart ==
    /\ ForgetCalls /\ ForgetReaders
    /\ yield' = [t \in Tasks |-> NoYield]
    /\ UNCHANGED <<books, lendingRate, treasury, lpFees, swapped, received, booked, touches>>

TaskStep(t) ==
    StartTask(t) \/ TakeYield(t) \/ BookYield(t) \/ TaskFails(t) \/ EndTask(t)
CallStep(c) == BuildCall(c) \/ SendCall(c) \/ (c \notin Tasks /\ EndOther(c))

Next ==
    \/ \E x \in Deposits : Deposit(x) /\ UNCHANGED keeperVars
    \/ Swap
    \/ ReaderStep /\ UNCHANGED keeperVars
    \/ \E r \in Refreshers : ManagerStep(r) /\ UNCHANGED keeperVars
    \/ \E t \in Tasks : TaskStep(t)
    \/ Touch
    \/ \E c \in Callers : CallStep(c)
    \/ \E tx \in pool : IncludeCall(tx)
    \/ DropCall \/ Restart

Spec == Init /\ [][Next]_vars

\* The timers keep firing and what they start goes on; the network includes what it was
\* sent.
Fairness ==
    /\ \A r \in Readers : WF_vars(ReadBooks(r) /\ UNCHANGED keeperVars)
    /\ WF_vars(TakeMetrics /\ UNCHANGED keeperVars)
    /\ WF_vars(\E s \in Syncs : TakeSnapshot(s) /\ UNCHANGED keeperVars)
    /\ \A r \in Refreshers : WF_vars(ManagerStep(r) /\ UNCHANGED keeperVars)
    /\ \A t \in Tasks : WF_vars(TaskStep(t))
    /\ \A c \in Callers : WF_vars(CallStep(c))
    /\ WF_vars(\E tx \in pool : IncludeCall(tx))

FairSpec == Spec /\ Fairness

----------------------------------------------------------------------------
(* Properties. *)

\* However its calls fail, time out and land late, and although three tasks compete for
\* one sequence number, the keeper never books more than it has taken out.
NothingBookedTwice == booked <= received

\* When the books change no more, and the keeper takes no more sequence numbers, the
\* lending rate, the rows and the cached rate agree with the books at last and go on to
\* do so, whatever was in flight or failed before.
RatesCatchUp == <>[]CaughtUp
=============================================================================
