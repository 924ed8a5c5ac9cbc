------------------------- MODULE MCValidatorService -------------------------
(* Three validators, two of them at 80%: alerts that slash, reallocations that may     *)
(* overlap, and the rewriting of a pending withdrawal, with the admin slashing too.    *)
EXTENDS ValidatorService

CONSTANTS v1, v2, v3, t1, t2, w1

MCCallers == {t1, t2, Admin}
MCOwed == [r \in {w1} |-> 100]

Seeded(uptime, score) == [uptime |-> uptime, score |-> score, rest |-> 300, stake |-> 20, late |-> FALSE]
MCFindings ==
    {[is |-> "found", balance |-> 20, power |-> 75, rate |-> 99, quiet |-> FALSE],
     [is |-> "error"]}

Alike == Permutations({v1, v2}) \cup Permutations({t1, t2})

MCInit ==
    /\ table = [v \in Validators |-> IF v = v3 THEN Seeded(99, 850) ELSE Seeded(80, 760)]
    /\ WatchInit

MCSpec == MCInit /\ [][WatchNext]_watchVars
=============================================================================
