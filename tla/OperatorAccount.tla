-------------------------- MODULE OperatorAccount --------------------------
(***************************************************************************)
(* Contract calls that the backend signs with its own key.  Every one runs *)
(* the same three awaits (read the account's sequence number, prepare and  *)
(* send, wait for the outcome), whoever makes it, and nothing keeps two    *)
(* callers from using the same sequence number, or a call from reading it  *)
(* after one that was started later has been included.                     *)
(*                                                                         *)
(* What is kept of a sequence number is whether it is still the account's  *)
(* next one; that of a transaction is who sent it and what it does.  What  *)
(* a call does on chain, and what its caller does next, is the business of *)
(* the modules that extend this one.                                       *)
(***************************************************************************)
EXTENDS Integers

CONSTANTS Callers,      \* the tasks of the backend that make such calls, one at a time each
          MaxFaults     \* bound: RPC calls that fail, time out or cannot be read, and restarts

ASSUME OperatorAssumption == MaxFaults \in Nat

VARIABLES calls, pool, faults

operatorVars == <<calls, pool, faults>>

NoCall == [step |-> "none"]
Step == {"asked", "built", "stale", "sent", "done", "failed"}
Call(ops) == {NoCall} \cup [step : Step, op : ops]
Tx(ops) == [by : Callers, op : ops]

\* What the transactions do is one of ops.
OperatorTypeOK(ops) ==
    /\ calls \in [Callers -> Call(ops)]
    /\ pool \subseteq Tx(ops)
    /\ faults \in 0..MaxFaults

OperatorInit ==
    /\ calls = [c \in Callers |-> NoCall]
    /\ pool = {}
    /\ faults = 0

Waiting(c) == calls[c] # NoCall
StepOf(c, step) == calls[c].step = step
----------------------------------------------------------------------------

\* The call starts: getSourceAccount asks for the account.
Begin(c, op) == calls' = [calls EXCEPT ![c] = [step |-> "asked", op |-> op]]

\* Its answer arrives, and the transaction gets the number after the one in it.
Build(c) ==
    /\ StepOf(c, "asked")
    /\ calls' = [calls EXCEPT ![c].step = "built"]
    /\ UNCHANGED <<pool, faults>>

\* Mutant of Send: a transaction whose number is spent gets a new one and is sent.
SendAnew(c, accepted) ==
    /\ calls[c].step \in {"built", "stale"}
    /\ IF pool = {} /\ accepted
       THEN /\ pool' = {[by |-> c, op |-> calls[c].op]}
            /\ calls' = [calls EXCEPT ![c].step = "sent"]
       ELSE /\ calls' = [calls EXCEPT ![c].step = "failed"]
            /\ UNCHANGED pool
    /\ UNCHANGED faults

\* prepareTransaction, sign, sendTransaction.  A number that is no longer next is
\* refused, as is one that a waiting transaction already has, or a call that the
\* simulation finds to panic.
Send(c, accepted) ==
    /\ calls[c].step \in {"built", "stale"}
    /\ IF StepOf(c, "built") /\ pool = {} /\ accepted
       THEN /\ pool' = {[by |-> c, op |-> calls[c].op]}
            /\ calls' = [calls EXCEPT ![c].step = "sent"]
       ELSE /\ calls' = [calls EXCEPT ![c].step = "failed"]
            /\ UNCHANGED pool
    /\ UNCHANGED faults

\* The network includes the transaction, which succeeds or not: its number is spent.
Include(tx, succeeds) ==
    /\ tx \in pool
    /\ pool' = {}
    /\ calls' = [c \in Callers |->
                   CASE c = tx.by /\ StepOf(c, "sent") ->
                          [calls[c] EXCEPT !.step = IF succeeds THEN "done" ELSE "failed"]
                     [] StepOf(c, "built") -> [calls[c] EXCEPT !.step = "stale"]
                     [] OTHER -> calls[c]]
    /\ UNCHANGED faults

\* It was not included in the 300 s it is valid for.
RunOut(tx) ==
    /\ tx \in pool
    /\ pool' = {}
    /\ calls' = [c \in Callers |->
                   IF c = tx.by /\ StepOf(c, "sent") THEN [calls[c] EXCEPT !.step = "failed"]
                                                    ELSE calls[c]]
    /\ faults < MaxFaults /\ faults' = faults + 1

\* pollTransaction finds the transaction included, and the call returns.
Return(c) ==
    /\ StepOf(c, "done")
    /\ calls' = [calls EXCEPT ![c] = NoCall]
    /\ UNCHANGED <<pool, faults>>

\* The call throws: the transaction was refused or has failed, or a call of the RPC
\* did, or thirty looks did not find it; it may then still be in the pool.
Throw(c) ==
    /\ \/ StepOf(c, "failed") /\ UNCHANGED faults
       \/ Waiting(c) /\ ~StepOf(c, "failed") /\ faults < MaxFaults /\ faults' = faults + 1
    /\ calls' = [calls EXCEPT ![c] = NoCall]
    /\ UNCHANGED pool

\* A restart ends every call; what was sent stays sent.
ForgetCalls ==
    /\ calls' = [c \in Callers |-> NoCall]
    /\ faults < MaxFaults /\ faults' = faults + 1
    /\ UNCHANGED pool
=============================================================================
