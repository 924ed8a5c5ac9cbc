---------------------------- MODULE MCRiskEngine ----------------------------
(* Four validators of which two go down and come back: none, a quarter or half of    *)
(* them are down.  Those that go down have no stake, so the reallocations that are   *)
(* asked for find nothing to move, nobody alerts, and the admin stays away: what is  *)
(* left of the risk engine is its emergency mode.  v4 has more than its part of the  *)
(* stake.                                                                            *)
EXTENDS RiskEngine

CONSTANTS v1, v2, v3, v4, c1, c2

MCCallers == {c1, c2, Admin}
MCOwed == [r \in {} |-> 0]

Healthy == [uptime |-> 99, score |-> 940, rest |-> 380, stake |-> 10, late |-> FALSE]
Down == [Healthy EXCEPT !.uptime = 85, !.score = 890, !.stake = 0]

MCInit ==
    /\ table = [v \in Validators |-> IF v = v4 THEN [Healthy EXCEPT !.stake = 16] ELSE Healthy]
    /\ RiskInit

Flap(v) == WriteRow(v, IF IsDown(table[v]) THEN Healthy ELSE Down)

MCNext == WatchStep \/ Restart \/ \E v \in {v1, v2} : Flap(v)

\* Timers go off, the network includes or drops what it has, and every await ends.  The
\* fairness of the checks is strong only because the bound on asked may hold one up.
MCSpec ==
    /\ MCInit /\ [][MCNext]_vars
    /\ \A c \in Checks : SF_vars(CheckStep(c))
    /\ WF_vars(Reallocate) /\ WF_vars(NetworkStep)
    /\ \A c \in Callers : WF_vars(BuildCall(c) \/ (Waiting(c) /\ SendCall(c)))
=============================================================================
