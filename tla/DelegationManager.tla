------------------------- MODULE DelegationManager -------------------------
(***************************************************************************)
(* How the delegation manager shares deposits and withdrawals out among    *)
(* validators: what each of its operations would write, given a copy of    *)
(* the table.  Nothing in the backend calls it, so its plans are functions *)
(* here and are judged on every table that the others can produce.         *)
(***************************************************************************)
EXTENDS ValidatorTable

CONSTANTS BufferPercent,    \* liquidityBufferPercent: 5
          SafetyTenths,     \* liquidityBufferSafetyFactor, in tenths: 25
          LookbackDays,     \* liquidityBufferLookbackDays: 7
          MinDelta          \* 1 XLM: smaller corrections are not made

ASSUME DelegationAssumption ==
    BufferPercent \in 0..100 /\ SafetyTenths \in Nat /\ LookbackDays \in Nat \ {0} /\ MinDelta \in Nat

Active(t) == Validators \ DownIn(t)
Most(m, n) == IF m > n THEN m ELSE n

\* calculateRequiredBuffer: a multiple of the daily average of what was withdrawn in the
\* lookback period, but never less than a fixed part of the total.
RequiredBuffer(total, withdrawn) ==
    Most((total * BufferPercent) \div 100, (withdrawn * SafetyTenths) \div (LookbackDays * 10))

\* Mutant of Delegatable: the buffer is not taken off.
DelegatableAll(total, withdrawn) == total

Delegatable(total, withdrawn) == Most(total - RequiredBuffer(total, withdrawn), 0)

\* rebalanceDelegations: what each active row is set to; the others keep theirs.
RebalancedStake(t, total, withdrawn) ==
    [v \in Validators |->
        IF v \notin Active(t) THEN t[v].stake
        ELSE LET target == ShareOf(t, Active(t), v, Delegatable(total, withdrawn))
                 gap == target - t[v].stake
             IN  IF (IF gap < 0 THEN -gap ELSE gap) < MinDelta THEN t[v].stake ELSE target]

\* allocateDeposit: the increments.  At most half of a deposit is kept as buffer.
DepositShares(t, amount, withdrawn) ==
    LET buffer == Least(RequiredBuffer(amount, withdrawn), (amount + 1) \div 2)
    IN  [v \in Active(t) |-> ShareOf(t, Active(t), v, amount - buffer)]

\* deallocateWithdrawal: the decrements, those with the lowest score first.
WithdrawalCuts(t, order, amount) ==
    LET before(i) == SumFunction([j \in 1..i-1 |-> t[order[j]].stake])
    IN  [i \in DOMAIN order |-> Most(Least(amount - before(i), t[order[i]].stake), 0)]

LowestFirst(t) ==
    LET held == {v \in Validators : t[v].stake > 0}
    IN  {q \in SetToSeqs(held) : \A i, j \in DOMAIN q : i < j => t[q[i]].score <= t[q[j]].score}
=============================================================================
