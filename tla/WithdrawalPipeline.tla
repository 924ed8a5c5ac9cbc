------------------------ MODULE WithdrawalPipeline ------------------------
(***************************************************************************)
(* A delayed withdrawal from the contract to the user's list: the staking  *)
(* contract, the event listener, the queue processor and the routes, all   *)
(* at work on one table.  The listener and the processor are tasks of one  *)
(* process: they interleave at their awaits, and a restart takes both.     *)
(***************************************************************************)
EXTENDS QueueProcessor

pipelineVars == <<vars, processorVars>>

PipelineInit == Init /\ ProcessorInit

Restart == RestartListener /\ RestartProcessor /\ UNCHANGED chainVars

PipelineNext ==
    \/ ChainNext /\ UNCHANGED <<rows, listenerVars, faults, crashes, processorVars>>
    \/ Route /\ UNCHANGED <<chainVars, listenerVars, faults, crashes, processorVars>>
    \/ /\ \E p \in Polls : PollStep(p) \/ Refuse(p) \/ CallFails(p)
       /\ UNCHANGED <<chainVars, crashes, processorVars>>
    \/ /\ ProcessorStep \/ Include \/ \E tx \in orphans : IncludeOrphan(tx)
       /\ UNCHANGED <<listenerVars, crashes>>
    \/ Restart

\* The processor's timer and its awaits: each attempt ends within a minute.
ProcessorFairness == WF_pipelineVars(ProcessorStep /\ UNCHANGED <<listenerVars, crashes>>)

PipelineSpec == PipelineInit /\ [][PipelineNext]_pipelineVars /\ ProcessorFairness
-----------------------------------------------------------------------------
(* Properties. *)

\* Every variable has its type.
PipelineTypeOK == TypeOK /\ ProcessorTypeOK

Processing == {r \in DOMAIN rows : rows[r].status = "processing"}

\* Rows in processing are never selected again, so each is lost to the queue.
\* A restart or a failing call strands one row at most: the one in hand.
StrandsOneRowAtMost ==
    Cardinality(Processing) <= crashes + faults + (IF current = 0 THEN 0 ELSE 1)

\* Without restarts and failing calls, rows do not pile up in processing: the
\* table always gets back to having none.
ProcessingEnds == (Processing # {}) ~> (Processing = {} \/ crashes + faults > 0)
=============================================================================
