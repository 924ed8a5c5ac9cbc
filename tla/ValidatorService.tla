-------------------------- MODULE ValidatorService --------------------------
(***************************************************************************)
(* The validator service next to the risk engine: every five minutes it    *)
(* measures one validator after the other, overwrites the row of each with *)
(* what it found, and publishes VALIDATOR_DOWN for those below 95%.  Stake *)
(* that was moved or slashed in the table while a validator was measured   *)
(* is overwritten too.                                                     *)
(***************************************************************************)
EXTENDS RiskEngine, DelegationManager

CONSTANTS Findings,     \* what Horizon may answer about a validator
          MaxFetches    \* bound: runs of the service

ASSUME ServiceAssumption ==
    /\ MaxFetches \in Nat
    /\ Findings \subseteq
          [is : {"error", "missing"}] \cup
          [is : {"found"}, balance : Nat, power : 0..150, rate : 0..100, quiet : BOOLEAN]

VARIABLES fetch,        \* the run that is under way
          fetches

ServiceInit == fetch = Idle /\ fetches = 0

\* calculateMetrics: 99% and no stake for an account that does not exist; otherwise its
\* balance, and the part of its last transactions that succeeded, at least 90%, less 5
\* if the last is more than a day old.
UptimeOf(found) ==
    IF found.is = "missing" THEN 99
    ELSE IF found.quiet THEN Most(Most(found.rate, 90) - 5, 80) ELSE Most(found.rate, 90)

\* computePerformanceScore, rounded to thousandths: the uptime counts twice, for itself
\* and for the history.
PerformanceScore(uptime, rest) ==
    LET numerator == 535 * Least(uptime, MinUptime) + (rest + 15) * MinUptime
    IN  (2 * numerator + MinUptime) \div (2 * MinUptime)

\* If Horizon cannot be reached, what the row says is taken as measured.
Measured(row, found) ==
    LET uptime == IF found.is = "error" THEN row.uptime ELSE UptimeOf(found)
        stake == CASE found.is = "error" -> row.stake [] found.is = "missing" -> 0
                   [] OTHER -> found.balance
        rest == CASE found.is = "error" -> row.rest [] found.is = "missing" -> 300
                  [] OTHER -> 225 + found.power
    IN  [uptime |-> uptime, rest |-> rest, score |-> PerformanceScore(uptime, rest),
         stake |-> stake, late |-> FALSE]
----------------------------------------------------------------------------
(* fetchAndUpdateValidators. *)

\* The list is that of the rows, in no particular order.
StartFetch ==
    /\ fetch = Idle
    /\ fetches < MaxFetches /\ fetches' = fetches + 1
    /\ \E order \in SetToSeqs(Validators) : fetch' = [at |-> "measure", left |-> order]
    /\ UNCHANGED vars

Measure ==
    /\ fetch.at = "measure" /\ fetch.left # <<>>
    /\ \E found \in Findings :
          LET v == Head(fetch.left) IN
          fetch' = [at |-> "write", left |-> fetch.left, row |-> Measured(table[v], found)]
    /\ UNCHANGED vars

Upsert ==
    /\ fetch.at = "write"
    /\ WriteRow(Head(fetch.left), fetch.row)
    /\ fetch' = [fetch EXCEPT !.at = "alert"]

\* The history row is written, and an alert published if there is cause.
Alert ==
    /\ fetch.at = "alert"
    /\ IF IsDown(fetch.row) THEN HandleDown(Head(fetch.left), fetch.row.uptime)
                            ELSE UNCHANGED procs
    /\ fetch' = [at |-> "measure", left |-> Tail(fetch.left)]
    /\ UNCHANGED <<operatorVars, table, emergencyMode, asked, chainVars, owed, booked, slips>>

EndFetch ==
    /\ fetch.at = "measure" /\ fetch.left = <<>>
    /\ fetch' = Idle
    /\ UNCHANGED vars

\* A call of the database fails: the rest of the run is dropped.
FetchFails ==
    /\ fetch # Idle
    /\ faults < MaxFaults /\ faults' = faults + 1
    /\ fetch' = Idle
    /\ UNCHANGED <<calls, pool, table, riskVars>>

ServiceStep ==
    \/ StartFetch
    \/ (Measure \/ Upsert \/ Alert \/ EndFetch \/ FetchFails) /\ UNCHANGED fetches

WatchInit == RiskInit /\ ServiceInit

WatchNext ==
    \/ RiskStep /\ UNCHANGED <<fetch, fetches>>
    \/ Restart /\ fetch' = Idle /\ UNCHANGED fetches
    \/ ServiceStep

watchVars == <<vars, fetch, fetches>>

WatchSpec == TableTypeOK /\ WatchInit /\ [][WatchNext]_watchVars
-----------------------------------------------------------------------------
(* Properties. *)

\* Whatever reallocations, slashes and measurements overlap, stake only moves: the rows
\* and what reallocations have taken and not yet given add up to what was measured, less
\* what interrupted moves lost.
StakeIsAccounted ==
    StakeOf(table, Validators) + TakenByMoves = booked

\* "Pending withdrawals should reflect the new (lower) exchange rate": when a slash has
\* been dealt with, no pending row is above its part of what is left, or below it by
\* more than rounding, unless a call failed, the backend restarted, or another slash
\* came in between.
RowsFollowSlashes ==
    slips \subseteq {"admin", "overtaken"} /\ Recalculating = {}
    /\ (\A c \in Callers : procs[c].at \notin {"slashing", "recalibrating"})
        => \A r \in Payouts :
              LET part == (OwedAtStart[r] * staked) \div StakedAtStart
              IN  owed[r] \in (part - (StakedAtStart - staked))..part

\* On every table that can come about, no plan hands out more than there is: moves take
\* from the unhealthy no more stake than they have and give all of it on, deposits and
\* rebalancing keep the buffer, and a withdrawal takes from each row what it has at most
\* and no more than asked in all.
PlansStayWithin ==
    /\ \A plan \in Reallocations(table) :
          /\ Carried(plan) = 0
          /\ SumFunction([i \in DOMAIN plan |-> Most(plan[i].n, 0)]) <= StakeOf(table, Unhealthy(table))
    /\ \A total \in {7, 20} :
          LET free == Delegatable(total, 1)
              target == RebalancedStake(table, total, 1)
          IN  /\ free <= total - (total * BufferPercent) \div 100
              /\ SumFunction([v \in Active(table) |-> target[v] - MinDelta]) <= free
              /\ SumFunction(DepositShares(table, total, 20)) <= total
    /\ \E order \in LowestFirst(table) :
          LET cuts == WithdrawalCuts(table, order, 25) IN
          /\ \A i \in DOMAIN cuts : cuts[i] <= table[order[i]].stake
          /\ SumFunction(cuts) = Least(25, StakeOf(table, ToSet(order)))
=============================================================================
