------------------------------ MODULE RateFlow ------------------------------
(***************************************************************************)
(* The exchange rate on its way from the staking contract to those who use *)
(* it: the reward engine reads the staked total and the supply in two      *)
(* calls, keeps a snapshot and sends their ratio to the lending contract   *)
(* without waiting; the metrics cron reads the same pair for a row of its  *)
(* own; the exchange rate manager caches what the contract says it is.     *)
(*                                                                         *)
(* Of the contracts only the books that the backend reads or changes are   *)
(* here.  A rate is an integer over RatePrecision, as on chain: the float  *)
(* in between is rounded back to it.                                       *)
(***************************************************************************)
EXTENDS OperatorAccount

CONSTANTS Syncs,        \* the updates of the lending rate that may be under way at a time
          Refreshers,   \* the timer of the rate manager, and the requests that ask it
          RatePrecision,
          StakedAtStart, SupplyAtStart,
          Deposits      \* amounts that users deposit
CONSTANTS MaxSupply,    \* bound: deposits stop here
          Mixes         \* bound: the services that run in one behaviour; all, in the code

ASSUME RateAssumption ==
    /\ Syncs \subseteq Callers
    /\ RatePrecision \in Nat \ {0}
    /\ StakedAtStart \in Nat \ {0} /\ SupplyAtStart \in Nat \ {0}
    /\ Deposits \subseteq Nat \ {0} /\ MaxSupply \in Nat
    /\ Mixes \subseteq SUBSET {"rewards", "metrics", "manager", "harvest", "recycle", "upkeep"}

VARIABLES staked, supply,   \* of the staking contract
          lendingRate,      \* of the lending contract
          reading,          \* what the snapshot, and the row of the cron, under way have read
          lastSnapshot,     \* the newest row of the reward engine
          metrics,          \* the newest row of the cron
          cached,           \* the rate manager's rate, or NoRate
          refreshing,       \* its isRefreshing
          refreshes,        \* its calls of refreshRate
          services          \* which of the backend's services run

books == <<staked, supply>>
readerVars == <<reading, lastSnapshot, metrics, services>>
managerVars == <<cached, refreshing, refreshes>>

NoRate == 0
Unread == 0
Pair == [staked : Nat, supply : Nat]
NothingRead == [staked |-> Unread, supply |-> Unread]
Readers == {"rewards", "metrics"}
NoRefresh == [at |-> "none", rate |-> NoRate]

\* computeExchangeRate, rounded to nearest on the way to the lending contract.
RateOf(pair) == (2 * pair.staked * RatePrecision + pair.supply) \div (2 * pair.supply)
\* get_exchange_rate of the contract.
ContractRate == (staked * RatePrecision) \div supply

RateTypeOK ==
    /\ staked \in Nat /\ supply \in Nat /\ lendingRate \in Nat \ {0}
    /\ reading \in [Readers -> Pair]
    /\ lastSnapshot \in Pair /\ metrics \in Pair
    /\ services \in Mixes /\ cached \in Nat /\ refreshing \in BOOLEAN
    /\ refreshes \in [Refreshers -> [at : {"none", "waiting", "asking", "got"}, rate : Nat]]

RateInit ==
    /\ OperatorInit
    /\ staked = StakedAtStart /\ supply = SupplyAtStart
    /\ lendingRate = RatePrecision
    /\ reading = [r \in Readers |-> NothingRead]
    /\ lastSnapshot = NothingRead /\ metrics = NothingRead
    /\ cached = NoRate /\ refreshing = FALSE
    /\ refreshes = [r \in Refreshers |-> NoRefresh]
    /\ services \in Mixes

\* A call of the RPC or of the database fails.
Fault == faults < MaxFaults /\ faults' = faults + 1 /\ UNCHANGED <<calls, pool>>

Deposit(x) ==
    LET shares == (x * supply) \div staked
    IN  /\ shares > 0 /\ supply + shares <= MaxSupply
        /\ staked' = staked + x /\ supply' = supply + shares
        /\ UNCHANGED <<operatorVars, lendingRate, readerVars, managerVars>>
----------------------------------------------------------------------------
(* The reward engine and the metrics cron. *)

\* getTotalStaked and getTotalSupply are called together and answer one by one.
ReadBooks(r) ==
    /\ r \in services
    /\ \/ reading[r].staked = Unread /\ reading' = [reading EXCEPT ![r].staked = staked]
       \/ reading[r].supply = Unread /\ reading' = [reading EXCEPT ![r].supply = supply]
    /\ UNCHANGED <<operatorVars, books, lendingRate, lastSnapshot, metrics, services, managerVars>>

HasRead(r) == reading[r].staked # Unread /\ reading[r].supply # Unread

\* callUpdateLendingExchangeRate; a rate that rounds to zero is skipped.
SyncRate(s, rate) ==
    IF rate = NoRate THEN UNCHANGED calls ELSE Begin(s, [is |-> "rate", rate |-> rate])

\* Mutant of TakeSnapshot: the rate is only sent if it is not that of the last row.
TakeSnapshotIfChanged(s) ==
    /\ HasRead("rewards") /\ ~Waiting(s)
    /\ lastSnapshot' = reading["rewards"]
    /\ reading' = [reading EXCEPT !["rewards"] = NothingRead]
    /\ IF lastSnapshot # NothingRead /\ RateOf(lastSnapshot) = RateOf(reading["rewards"])
       THEN UNCHANGED calls ELSE SyncRate(s, RateOf(reading["rewards"]))
    /\ UNCHANGED <<pool, faults, books, lendingRate, metrics, services, managerVars>>

\* takeSnapshot writes its row and starts the update of the lending rate, for which
\* nobody waits.
TakeSnapshot(s) ==
    /\ HasRead("rewards") /\ ~Waiting(s)
    /\ lastSnapshot' = reading["rewards"]
    /\ reading' = [reading EXCEPT !["rewards"] = NothingRead]
    /\ SyncRate(s, RateOf(reading["rewards"]))
    /\ UNCHANGED <<pool, faults, books, lendingRate, metrics, services, managerVars>>

TakeMetrics ==
    /\ HasRead("metrics")
    /\ metrics' = reading["metrics"]
    /\ reading' = [reading EXCEPT !["metrics"] = NothingRead]
    /\ UNCHANGED <<operatorVars, books, lendingRate, lastSnapshot, services, managerVars>>

\* A failing read leaves no snapshot, and a row of metrics that repeats the last one.
ReadFails(r) ==
    /\ reading[r] # NothingRead
    /\ reading' = [reading EXCEPT ![r] = NothingRead]
    /\ Fault
    /\ UNCHANGED <<books, lendingRate, lastSnapshot, metrics, services, managerVars>>

----------------------------------------------------------------------------
(* The exchange rate manager. *)

Refresh(r, at) == refreshes' = [refreshes EXCEPT ![r].at = at]

\* refreshRate, from the timer or from getCurrentRate, whose rate has become stale.
\* While another call refreshes, it waits 500 ms.
StartRefresh(r) ==
    /\ "manager" \in services
    /\ refreshes[r].at = "none"
    /\ IF refreshing THEN Refresh(r, "waiting") /\ UNCHANGED refreshing
                     ELSE Refresh(r, "asking") /\ refreshing' = TRUE
    /\ UNCHANGED <<operatorVars, books, lendingRate, readerVars, cached>>

\* After the wait any cached rate will do; with none it asks all the same.
EndWait(r) ==
    /\ refreshes[r].at = "waiting"
    /\ IF cached # NoRate THEN Refresh(r, "none") /\ UNCHANGED refreshing
                          ELSE Refresh(r, "asking") /\ refreshing' = TRUE
    /\ UNCHANGED <<operatorVars, books, lendingRate, readerVars, cached>>

ReadRate(r) ==
    /\ refreshes[r].at = "asking"
    /\ refreshes' = [refreshes EXCEPT ![r] = [at |-> "got", rate |-> ContractRate]]
    /\ UNCHANGED <<operatorVars, books, lendingRate, readerVars, cached, refreshing>>

\* The answer arrives; a rate that is not positive is a failure.
EndRefresh(r) ==
    /\ refreshes[r].at = "got"
    /\ cached' = IF refreshes[r].rate > 0 THEN refreshes[r].rate ELSE cached
    /\ refreshes' = [refreshes EXCEPT ![r] = NoRefresh]
    /\ refreshing' = FALSE
    /\ UNCHANGED <<operatorVars, books, lendingRate, readerVars>>

\* The caller gets the cached rate, however old, or one to one; nothing is kept.
RefreshFails(r) ==
    /\ refreshes[r].at = "asking"
    /\ Fault
    /\ Refresh(r, "none") /\ refreshing' = FALSE
    /\ UNCHANGED <<books, lendingRate, readerVars, cached>>

ManagerStep(r) ==
    StartRefresh(r) \/ EndWait(r) \/ ReadRate(r) \/ EndRefresh(r) \/ RefreshFails(r)

ReaderStep ==
    \/ \E r \in Readers : ReadBooks(r) \/ ReadFails(r)
    \/ \E s \in Syncs : TakeSnapshot(s)
    \/ TakeMetrics

ForgetReaders ==
    /\ reading' = [r \in Readers |-> NothingRead]
    /\ cached' = NoRate /\ refreshing' = FALSE
    /\ refreshes' = [r \in Refreshers |-> NoRefresh]
    /\ UNCHANGED <<lastSnapshot, metrics, services>>

----------------------------------------------------------------------------
(* What users are shown. *)

\* getExchangeRate: the cached rate, or one to one.
EngineRate == IF cached # NoRate THEN cached ELSE RatePrecision

\* GET /protocol-stats: the totals are asked for anew, the rate is not.
StatsPage == [now |-> [staked |-> staked, supply |-> supply], rate |-> EngineRate]

\* GET /apy: the newest row, or the rate manager's rate before there is one.
ApyPage == IF lastSnapshot = NothingRead THEN EngineRate ELSE RateOf(lastSnapshot)

\* All that is derived from the books agrees with them, and what the pages show with what
\* the contract uses: one rate is rounded where the other is cut off.
CaughtUp ==
    /\ "rewards" \in services => /\ lendingRate = RateOf(StatsPage.now)
                                 /\ ApyPage - ContractRate \in {0, 1}
    /\ "metrics" \in services => metrics = StatsPage.now
    /\ "manager" \in services => StatsPage.rate = ContractRate
=============================================================================
