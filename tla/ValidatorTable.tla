--------------------------- MODULE ValidatorTable ---------------------------
(***************************************************************************)
(* The Validator table of the backend, and what is computed from a copy of *)
(* it: who is down, how stake is shared out by performance score, and the  *)
(* updates that a reallocation consists of.  Uptimes and commissions are   *)
(* in hundredths, scores in thousandths, stakes in units of their own; a   *)
(* share of a stake is the rounded-down quotient of whole numbers.         *)
(***************************************************************************)
EXTENDS Integers, Sequences, SequencesExt, FiniteSetsExt

CONSTANTS Validators    \* the rows: nothing in the backend adds or deletes one

ASSUME ValidatorsAssumption == IsFiniteSet(Validators)

MinUptime == 95         \* validatorMinUptime

VARIABLE table

\* rest is what the commission, 300 at most, and the voting power, 150 at most, give to
\* the score, which is never 0; late says that lastChecked is more than two hours ago.
Row == [uptime : 0..100, score : 1..1000, rest : 0..450, stake : Int, late : BOOLEAN]
TableTypeOK == table \in [Validators -> Row]

IsDown(row) == row.uptime < MinUptime
DownIn(t) == {v \in Validators : IsDown(t[v])}
StakeOf(t, S) == SumFunction([v \in S |-> t[v].stake])
ScoreOf(t, S) == SumFunction([v \in S |-> t[v].score])

\* orderBy performanceScore: rows of the same score come in any order.
Ranked(t, S) ==
    {q \in SetToSeqs(S) : \A i, j \in DOMAIN q : i < j => t[q[i]].score >= t[q[j]].score}

\* The part of an amount that falls to v, by its score among S.
ShareOf(t, S, v, amount) == (amount * t[v].score) \div ScoreOf(t, S)
----------------------------------------------------------------------------
(* Reallocation. *)

\* One update of a row: {increment}, or {decrement} when n is negative.
Change(v, n) == [validator |-> v, n |-> n]

Least(m, n) == IF m < n THEN m ELSE n

\* What goes from the first of the unhealthy to a healthy row.  The copy of the
\* table is not changed on the way, so the first is the source of every move.
MoveTo(t, unhealthy, v) ==
    Least(ShareOf(t, Validators \ DownIn(t), v, StakeOf(t, ToSet(unhealthy))), t[Head(unhealthy)].stake)

MovesFor(t, healthy, unhealthy) ==
    FlattenSeq([i \in DOMAIN healthy |->
        LET n == MoveTo(t, unhealthy, healthy[i])
        IN IF n > 0 THEN <<Change(Head(unhealthy), -n), Change(healthy[i], n)>> ELSE <<>>])

Unhealthy(t) == {v \in DownIn(t) : t[v].stake > 0}

\* The updates that executeAutoReallocation makes of a copy of the table, two to a move.
Reallocations(t) ==
    IF Cardinality(Validators) < 2 \/ Unhealthy(t) = {} \/ DownIn(t) = Validators
    THEN {<<>>}
    ELSE {MovesFor(t, p[1], p[2]) :
             p \in Ranked(t, Validators \ DownIn(t)) \X Ranked(t, Unhealthy(t))}

\* What was taken from a row and not yet given to the other.
Carried(changes) == SumFunction([i \in DOMAIN changes |-> changes[i].n])
=============================================================================
