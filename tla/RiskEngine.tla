----------------------------- MODULE RiskEngine -----------------------------
(***************************************************************************)
(* The risk engine, with what it sets off: a health check starts every     *)
(* minute, whether or not the one before has ended, reads the validators,  *)
(* and pauses or unpauses the staking contract; alerts of the event bus    *)
(* slash the stake on chain and move it between rows; after a slash the    *)
(* staking engine rewrites the pending withdrawals.  The admin's routes    *)
(* make the same contract calls with the same key.                         *)
(*                                                                         *)
(* The event bus is the default, in-memory one: publishing starts the      *)
(* handlers, which run on their own from their first await on, and what    *)
(* they throw is logged.  Between two awaits nothing else runs, so one     *)
(* action is what happens from one await to the next.  Notifications are   *)
(* left out: their failures are caught, and nothing waits for them but the *)
(* check or the handler that sends them.                                   *)
(***************************************************************************)
EXTENDS OperatorAccount, ValidatorTable

CONSTANTS Checks,       \* the health checks that may be under way at a time
          Tasks,        \* the handlers that may hold on to data at a time
          Admin,        \* the admin's request
          Payouts,      \* the pending rows of the Withdrawal table
          StakedAtStart, OwedAtStart,
          AdminCommands, \* of pause and unpause, what the admin may ask for
          AdminSlashes  \* amounts that the admin slashes
CONSTANTS MaxAsked      \* bound: reallocations that have not read the table yet

ASSUME RiskAssumption ==
    /\ Callers = Checks \cup Tasks \cup {Admin}
    /\ Checks \cap Tasks = {} /\ Admin \notin Checks \cup Tasks
    /\ IsFiniteSet(Tasks) /\ IsFiniteSet(Payouts)
    /\ StakedAtStart \in Nat /\ OwedAtStart \in [Payouts -> Nat] /\ AdminSlashes \subseteq Nat
    /\ AdminCommands \subseteq {"pause", "unpause"}
    /\ MaxAsked \in Nat

VARIABLES emergencyMode,  \* in memory only
          procs,          \* where each check, handler and request is
          asked,          \* reallocations that wait for their list of validators
          paused, staked, \* of the staking contract
          owed,           \* the amounts of the pending rows
          booked,         \* ghost: the stake there should be in the table
          slips           \* ghost: what has gone wrong so far

riskVars == <<emergencyMode, procs, asked, paused, staked, owed, booked, slips>>
chainVars == <<paused, staked>>

Idle == [at |-> "idle"]
Places == {"idle", "decide", "pausing", "unpausing", "risks", "find", "slashing",
           "commanding", "recalibrating", "totals", "list", "move", "rewrite"}

\* What the signed transactions do.
Ops == [is : {"pause", "unpause", "recalibrate"}] \cup [is : {"slash"}, n : Nat]

RiskTypeOK ==
    /\ OperatorTypeOK(Ops) /\ TableTypeOK
    /\ emergencyMode \in BOOLEAN /\ paused \in BOOLEAN
    /\ \A c \in Callers : procs[c].at \in Places
    /\ asked \in 0..MaxAsked
    /\ staked \in Nat /\ owed \in [Payouts -> Nat]

RiskInit ==
    /\ OperatorInit
    /\ emergencyMode = FALSE /\ asked = 0
    /\ procs = [c \in Callers |-> Idle]
    /\ paused = FALSE /\ staked = StakedAtStart /\ owed = OwedAtStart
    /\ booked = StakeOf(table, Validators) /\ slips = {}

At(c, place) == procs[c].at = place
Goes(c, proc) == procs' = [procs EXCEPT ![c] = proc]
Ends(c) == Goes(c, Idle)
Slip(what) == slips' = slips \cup {what}
Publishes(n) == asked + n <= MaxAsked /\ asked' = asked + n

\* What the reallocation that t carries out has taken and not yet given.
InMove(t) == IF At(t, "move") THEN Carried(procs[t].left) ELSE 0
TakenByMoves == SumFunction([t \in Tasks |-> InMove(t)])
----------------------------------------------------------------------------
(* The health check. *)

MostDown(t) == 10 * Cardinality(DownIn(t)) > 3 * Cardinality(Validators)
AllHealthy(t) == DownIn(t) = {}

AtRisk(t) == {v \in DownIn(t) : t[v].late /\ t[v].uptime < 90}

\* checkAllocationDeviation: the rows whose part of the stake is more than a tenth
\* away from their part of the score.
Deviating(t) ==
    LET up == Validators \ DownIn(t)
        stakes == StakeOf(t, up)
        scores == ScoreOf(t, up)
    IN  IF stakes = 0 \/ scores = 0 THEN {}
        ELSE {v \in up : LET gap == t[v].stake * scores - t[v].score * stakes
                         IN  10 * (IF gap < 0 THEN -gap ELSE gap) >
                                (IF stakes < 0 THEN -stakes ELSE stakes) * scores}

\* What a check makes of its list of validators: all of it is read before it decides.
Seen(t) == [mostDown |-> MostDown(t), allHealthy |-> AllHealthy(t),
            risks |-> Cardinality(AtRisk(t)) + Cardinality(Deviating(t))]

\* Mutant of StartCheck: there is no check while an emergency lasts.
StartCheckOutsideEmergency(c) ==
    /\ At(c, "idle") /\ ~emergencyMode
    /\ Goes(c, [at |-> "decide", seen |-> Seen(table)])
    /\ UNCHANGED <<operatorVars, table, emergencyMode, asked, chainVars, owed, booked, slips>>

\* The timer starts a check, and the list of validators arrives.
StartCheck(c) ==
    /\ At(c, "idle")
    /\ Goes(c, [at |-> "decide", seen |-> Seen(table)])
    /\ UNCHANGED <<operatorVars, table, emergencyMode, asked, chainVars, owed, booked, slips>>

\* More than 30% down starts an emergency; only when none is down does it end.
Decide(c) ==
    /\ At(c, "decide")
    /\ LET seen == procs[c].seen IN
       \/ /\ seen.mostDown /\ ~emergencyMode
          /\ emergencyMode' = TRUE
          /\ Begin(c, [is |-> "pause"]) /\ Goes(c, [at |-> "pausing", risks |-> seen.risks])
       \/ /\ seen.allHealthy /\ emergencyMode
          /\ emergencyMode' = FALSE
          /\ Begin(c, [is |-> "unpause"]) /\ Goes(c, [at |-> "unpausing", risks |-> seen.risks])
       \/ /\ ~(seen.mostDown /\ ~emergencyMode) /\ ~(seen.allHealthy /\ emergencyMode)
          /\ Goes(c, [at |-> "risks", risks |-> seen.risks])
          /\ UNCHANGED <<calls, emergencyMode>>
    /\ UNCHANGED <<pool, faults, table, asked, chainVars, owed, booked, slips>>

\* The call ends, one way or the other: a pause that failed is only logged.
CallEnds(c) ==
    \/ Return(c) /\ UNCHANGED slips
    \/ Throw(c) /\ Slip("threw")

AfterPause(c) ==
    /\ c \in Checks /\ At(c, "pausing") /\ CallEnds(c)
    /\ Publishes(1)
    /\ Goes(c, [procs[c] EXCEPT !.at = "risks"])
    /\ UNCHANGED <<table, emergencyMode, chainVars, owed, booked>>

AfterUnpause(c) ==
    /\ c \in Checks /\ At(c, "unpausing") /\ CallEnds(c)
    /\ Goes(c, [procs[c] EXCEPT !.at = "risks"])
    /\ UNCHANGED <<table, emergencyMode, asked, chainVars, owed, booked>>

\* The rest of the check: one request to reallocate for each row at risk or deviating.
ReportRisks(c) ==
    /\ At(c, "risks")
    /\ Publishes(procs[c].risks)
    /\ Ends(c)
    /\ UNCHANGED <<operatorVars, table, emergencyMode, chainVars, owed, booked, slips>>
----------------------------------------------------------------------------
(* Handlers of REBALANCE_REQUIRED. *)

\* executeAutoReallocation has its list: nothing to move, or a plan to carry out.
Reallocate ==
    /\ asked > 0 /\ asked' = asked - 1
    /\ \E plan \in Reallocations(table) :
          \/ plan = <<>> /\ UNCHANGED procs
          \/ /\ plan # <<>>
             /\ \E t \in Tasks : At(t, "idle") /\ Goes(t, [at |-> "move", left |-> plan])
    /\ UNCHANGED <<operatorVars, table, emergencyMode, chainVars, owed, booked, slips>>

NextOf(c, more) == Goes(c, IF more = <<>> THEN Idle ELSE [procs[c] EXCEPT !.left = more])

\* Mutant of Move: a debit that would overdraw its row is left out.
MoveWithinStake(t) ==
    /\ At(t, "move")
    /\ LET change == Head(procs[t].left)
           stake == table[change.validator].stake + change.n
       IN  table' = IF stake < 0 THEN table ELSE [table EXCEPT ![change.validator].stake = stake]
    /\ NextOf(t, Tail(procs[t].left))
    /\ UNCHANGED <<operatorVars, emergencyMode, asked, chainVars, owed, booked, slips>>

\* One update of a row, relative to what is in it by now.
Move(t) ==
    /\ At(t, "move")
    /\ LET change == Head(procs[t].left) IN
       table' = [table EXCEPT ![change.validator].stake = @ + change.n]
    /\ NextOf(t, Tail(procs[t].left))
    /\ UNCHANGED <<operatorVars, emergencyMode, asked, chainVars, owed, booked, slips>>
----------------------------------------------------------------------------
(* Handlers of VALIDATOR_DOWN and SLASHING_APPLIED. *)

SlashFor(row, uptime) == IF uptime < 50 THEN row.stake \div 10 ELSE row.stake \div 20

\* The handler of an alert, which does nothing unless the uptime is below 85%.
HandleDown(v, uptime) ==
    IF uptime >= 85 THEN UNCHANGED procs
    ELSE \E t \in Tasks : At(t, "idle") /\ Goes(t, [at |-> "find", validator |-> v, uptime |-> uptime])

\* The row has come: the slash is sent, if there is any, and otherwise the
\* handler only asks for a reallocation.
FindDown(t) ==
    /\ At(t, "find")
    /\ LET row == table[procs[t].validator]
           n == SlashFor(row, procs[t].uptime)
       IN  \/ /\ row.stake > 0 /\ n > 0
              /\ Begin(t, [is |-> "slash", n |-> n]) /\ Goes(t, [at |-> "slashing", n |-> n])
              /\ UNCHANGED asked
           \/ ~(row.stake > 0 /\ n > 0) /\ Ends(t) /\ Publishes(1) /\ UNCHANGED calls
    /\ UNCHANGED <<pool, faults, table, emergencyMode, chainVars, owed, booked, slips>>

Recalculating == {t \in Tasks : procs[t].at \in {"totals", "list", "rewrite"}}

\* Whose slash is on chain, and the pending rows do not have it yet.
Unsettled ==
    Recalculating \cup {c \in Callers : \/ At(c, "slashing") /\ StepOf(c, "done")
                                      \/ At(c, "recalibrating")}

\* The slash is on chain: the staking engine's handler starts, here in the place of
\* the one that ends; or it has failed.  A reallocation is asked for in both cases.
AfterSlash(t) ==
    /\ t \in Tasks /\ At(t, "slashing")
    /\ \/ Return(t) /\ Goes(t, [at |-> "totals", n |-> procs[t].n]) /\ UNCHANGED slips
       \/ Throw(t) /\ Ends(t) /\ Slip("threw")
    /\ Publishes(1)
    /\ UNCHANGED <<table, emergencyMode, chainVars, owed, booked>>

\* Mutant of ReadTotals: the slash is not put back to get the total before it.
ReadTotalsUnslashed(t) ==
    /\ At(t, "totals")
    /\ Goes(t, [at |-> "list", new |-> staked, old |-> staked])
    /\ UNCHANGED <<operatorVars, table, emergencyMode, asked, chainVars, owed, booked, slips>>

\* recalculateWithdrawalQueueAfterSlash: the totals, ...  The supply is read next to the
\* stake and cancels out, unless it is zero: there is some here, and only the read of the
\* stake counts.
ReadTotals(t) ==
    /\ At(t, "totals")
    /\ Goes(t, [at |-> "list", new |-> staked, old |-> staked + procs[t].n])
    /\ UNCHANGED <<operatorVars, table, emergencyMode, asked, chainVars, owed, booked, slips>>

\* ... the pending rows, and what each will be ...
ListPending(t) ==
    /\ At(t, "list")
    /\ LET cut(r) == (owed[r] * procs[t].new) \div procs[t].old
           changed == {r \in Payouts : procs[t].old > 0 /\ cut(r) # owed[r]}
       IN  IF changed = {} THEN Ends(t)
           ELSE \E order \in SetToSeqs(changed) :
                   Goes(t, [at |-> "rewrite", left |-> [i \in DOMAIN order |-> <<order[i], cut(order[i])>>]])
    /\ UNCHANGED <<operatorVars, table, emergencyMode, asked, chainVars, owed, booked, slips>>

\* ... and one write after the other, of the amounts computed before.
Rewrite(t) ==
    /\ At(t, "rewrite")
    /\ LET write == Head(procs[t].left) IN owed' = [owed EXCEPT ![write[1]] = write[2]]
    /\ NextOf(t, Tail(procs[t].left))
    /\ UNCHANGED <<operatorVars, table, emergencyMode, asked, chainVars, booked, slips>>

\* A call of the database or the RPC fails: the handler or the check ends there.
AwaitFails(c) ==
    /\ procs[c].at \in {"find", "totals", "list", "move", "rewrite"}
    /\ faults < MaxFaults /\ faults' = faults + 1
    /\ Ends(c)
    /\ booked' = booked - InMove(c)
    /\ Slip("threw")
    /\ UNCHANGED <<calls, pool, table, emergencyMode, asked, chainVars, owed>>
----------------------------------------------------------------------------
(* The admin's routes. *)

\* Bound: the admin steps in once.
AdminCalls ==
    /\ At(Admin, "idle") /\ "admin" \notin slips /\ Slip("admin")
    /\ \/ \E command \in AdminCommands :
             Begin(Admin, [is |-> command]) /\ Goes(Admin, [at |-> "commanding"])
       \/ \E n \in AdminSlashes :
             Begin(Admin, [is |-> "slash", n |-> n]) /\ Goes(Admin, [at |-> "slashing", n |-> n])
    /\ UNCHANGED <<pool, faults, table, emergencyMode, asked, chainVars, owed, booked>>

AdminAnswered ==
    /\ At(Admin, "commanding")
    /\ CallEnds(Admin) /\ Ends(Admin)
    /\ UNCHANGED <<table, emergencyMode, asked, chainVars, owed, booked>>

\* applySlashing calls recalibrate_rate next, which only publishes an event.
AdminSlashed ==
    /\ At(Admin, "slashing")
    /\ \/ /\ StepOf(Admin, "done")
          /\ Begin(Admin, [is |-> "recalibrate"]) /\ UNCHANGED <<pool, faults, slips>>
          /\ Goes(Admin, [procs[Admin] EXCEPT !.at = "recalibrating"])
       \/ Throw(Admin) /\ Ends(Admin) /\ Slip("threw")
    /\ UNCHANGED <<table, emergencyMode, asked, chainVars, owed, booked>>

\* Its failure is logged; then SLASHING_APPLIED starts the handler.
AdminRecalibrated ==
    /\ At(Admin, "recalibrating")
    /\ Return(Admin) \/ Throw(Admin)
    /\ \E t \in Tasks :
          /\ At(t, "idle")
          /\ procs' = [procs EXCEPT ![Admin] = Idle, ![t] = [at |-> "totals", n |-> procs[Admin].n]]
    /\ UNCHANGED <<table, emergencyMode, asked, chainVars, owed, booked, slips>>
----------------------------------------------------------------------------
(* The network, and restarts. *)

Accepted(op) == op.is = "slash" => op.n <= staked

\* Check c makes the contract what the mode is by now.
Wanted(c) == At(c, "pausing") <=> emergencyMode

\* A check changed the mode after c did, its call is on chain already, and c has yet to
\* read the account: no sequence number will keep the older call out.
Overtaken(c) ==
    /\ c \in Checks /\ ~Wanted(c)
    /\ \A d \in Checks : Waiting(d) /\ Wanted(d) => StepOf(d, "done")

BuildCall(c) ==
    /\ Build(c)
    /\ IF Overtaken(c) THEN Slip("overtaken") ELSE UNCHANGED slips
    /\ UNCHANGED <<table, emergencyMode, procs, asked, chainVars, owed, booked>>

SendCall(c) ==
    /\ Send(c, Accepted(calls[c].op))
    /\ UNCHANGED <<table, riskVars>>

\* A slash that comes while the rows do not have the one before yet crosses that.
IncludeCall(tx) ==
    /\ Include(tx, Accepted(tx.op))
    /\ paused' = CASE tx.op.is = "pause" -> TRUE [] tx.op.is = "unpause" -> FALSE [] OTHER -> paused
    /\ IF tx.op.is = "slash" /\ Accepted(tx.op)
       THEN /\ staked' = staked - tx.op.n
            /\ IF Unsettled = {} THEN UNCHANGED slips ELSE Slip("crossed")
       ELSE UNCHANGED <<staked, slips>>
    /\ UNCHANGED <<table, emergencyMode, procs, asked, owed, booked>>

DropCall(tx) == RunOut(tx) /\ UNCHANGED <<table, riskVars>>

\* The memory is lost: the mode, the checks, the handlers and the requests.
Restart ==
    /\ ForgetCalls
    /\ emergencyMode' = FALSE /\ asked' = 0
    /\ procs' = [c \in Callers |-> Idle]
    /\ booked' = booked - TakenByMoves
    /\ Slip("restart")
    /\ UNCHANGED <<table, chainVars, owed>>

CheckStep(c) ==
    StartCheck(c) \/ Decide(c) \/ AfterPause(c) \/ AfterUnpause(c) \/ ReportRisks(c)
TaskStep(t) ==
    Move(t) \/ FindDown(t) \/ AfterSlash(t) \/ ReadTotals(t) \/ ListPending(t) \/ Rewrite(t)
    \/ AwaitFails(t)
AdminStep == AdminCalls \/ AdminAnswered \/ AdminSlashed \/ AdminRecalibrated
NetworkStep == \E tx \in pool : IncludeCall(tx) \/ DropCall(tx)

\* What goes on of itself while no alert, no plan and no request is being dealt with.
WatchStep ==
    \/ \E c \in Checks : CheckStep(c)
    \/ Reallocate
    \/ \E c \in Callers : BuildCall(c) \/ (Waiting(c) /\ SendCall(c))
    \/ NetworkStep

RiskStep ==
    \/ WatchStep
    \/ \E t \in Tasks : TaskStep(t)
    \/ AdminStep

\* Whoever writes to the Validator table: the service (module ValidatorService), or
\* someone at the database.  A row that nobody writes to grows old.
WriteRow(v, row) ==
    /\ table' = [table EXCEPT ![v] = row]
    /\ booked' = booked + row.stake - table[v].stake
    /\ UNCHANGED <<operatorVars, emergencyMode, procs, asked, chainVars, owed, slips>>

\* What else the rest of the backend does here: it publishes VALIDATOR_DOWN, and has
\* faults of its own.
AlertsOf(v, uptime) ==
    /\ HandleDown(v, uptime)
    /\ UNCHANGED <<operatorVars, table, emergencyMode, asked, chainVars, owed, booked, slips>>
FailsElsewhere ==
    /\ faults < MaxFaults /\ faults' = faults + 1
    /\ UNCHANGED <<calls, pool, table, riskVars>>

vars == <<operatorVars, table, riskVars>>

\* The risk engine among components that write, alert and fail whenever they like.
RiskNext ==
    \/ RiskStep
    \/ Restart
    \/ \E v \in Validators, row \in Row : WriteRow(v, row)
    \/ \E v \in Validators, uptime \in 0..100 : AlertsOf(v, uptime)
    \/ FailsElsewhere

RiskSpec == TableTypeOK /\ RiskInit /\ [][RiskNext]_vars
----------------------------------------------------------------------------
(* Properties of the emergency mode. *)

NothingFailed == slips \subseteq {"crossed", "overtaken"}
NothingWrong == slips \subseteq {"crossed"}
Recovered == \A v \in Validators : ~IsDown(table[v])
InTrouble == \E S \in SUBSET Validators :
                 10 * Cardinality(S) > 3 * Cardinality(Validators) /\ \A v \in S : IsDown(table[v])

\* Unless a call threw, the backend restarted, the admin paused or unpaused by hand, or a
\* check read the account only when the call of a newer one was on chain, the contract
\* is paused exactly in an emergency, as soon as the checks that changed the mode have
\* made their call: of two calls that have read the account the sequence number lets
\* only one through, whichever of them is sent first.
PauseMatchesMode ==
    NothingWrong /\ (\A c \in Checks : procs[c].at \notin {"pausing", "unpausing"})
        => paused = emergencyMode

\* When the validators stay healthy the contract is unpaused for good, and paused for
\* good when more than 30% stay down, unless one of the same things went wrong.
PauseFollowsHealth ==
    /\ <>[]Recovered => <>[](~paused \/ ~NothingWrong)
    /\ <>[]InTrouble => <>[](paused \/ ~NothingWrong)

\* "All validators healthy. Protocol unpaused.": when the validators stay healthy the
\* contract is unpaused for good, if no call threw, the backend did not restart and the
\* admin stayed away.
RecoveryUnpauses == <>[]Recovered => <>[](~paused \/ ~NothingFailed)
=============================================================================
