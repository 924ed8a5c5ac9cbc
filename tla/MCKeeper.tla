------------------------------- MODULE MCKeeper -------------------------------
(* Two updates of the rate under way, one deposit, one fee in the pool and a     *)
(* treasury to recycle.                                                          *)
EXTENDS Keeper

CONSTANTS s1, s2, r1, r2

MCCallers == Syncs \cup {"harvest", "recycle", "upkeep"}
MCMixes ==
    {{"rewards", "upkeep"}, {"metrics", "manager"}, {"harvest", "recycle", "upkeep"}}
=============================================================================
