-------------------------- MODULE QueueProcessor --------------------------
(***************************************************************************)
(* The withdrawal queue processor: one batch at a time, it lists the       *)
(* pending rows that are due, and for each marks the row, sends a claim    *)
(* signed by the backend's own key, waits a minute for the transaction and *)
(* writes the outcome.  The contract asks for the signature of the ticket's *)
(* owner, so only claims for the backend's own wallet can go through.      *)
(***************************************************************************)
EXTENDS EventListener, FiniteSets

CONSTANTS Operator,     \* the wallet whose key the backend holds
          BatchLimit    \* take

ASSUME ProcessorAssumption == BatchLimit \in Nat \ {0}

VARIABLES step,      \* where the batch is
          listed,    \* the rows of the batch that are still to be handled
          current,   \* the row in hand, 0 if there is none
          answer,    \* what became of the claim that was sent for it
          orphans    \* claims that were given up and may still be included

processorVars == <<step, listed, current, answer, orphans>>

Steps == {"idle", "loop", "send", "wait", "revert"}
ClaimTx == [wallet : Wallets, id : Nat]

ProcessorTypeOK ==
    /\ step \in Steps
    /\ listed \subseteq DOMAIN rows
    /\ current \in 0..Len(rows)
    /\ answer \in {"none", "success", "failed"}
    /\ orphans \subseteq ClaimTx

ProcessorInit ==
    /\ step = "idle" /\ listed = {} /\ current = 0 /\ answer = "none"
    /\ orphans = {}

\* The row's id goes out as the number of the ticket.
Sent == [wallet |-> rows[current].wallet, id |-> current]

\* isProcessing keeps a second batch from starting.  Rows are taken in the
\* order in which they were created.
List ==
    /\ step = "idle"
    /\ \E due \in SUBSET Pending \ {{}} :
         listed' = {r \in due : Cardinality({q \in due : q < r}) < BatchLimit}
    /\ step' = "loop"
    /\ UNCHANGED <<chainVars, rows, current, answer, orphans, faults>>

\* On to the next row of the batch.
Continue ==
    /\ step' = IF listed = {} THEN "idle" ELSE "loop"
    /\ current' = 0 /\ answer' = "none"

\* Mutant of Mark: the whole batch is marked before its first claim.
MarkBatch ==
    /\ step = "loop"
    /\ \E r \in listed :
         /\ \A q \in listed : r <= q
         /\ current' = r /\ listed' = listed \ {r}
         /\ \/ /\ rows' = [q \in DOMAIN rows |-> IF q \in listed THEN [rows[q] EXCEPT !.status = "processing"]
                                                                 ELSE rows[q]]
               /\ step' = "send" /\ UNCHANGED faults
            \/ UNCHANGED rows /\ step' = "revert" /\ Fault
    /\ UNCHANGED <<chainVars, answer, orphans>>

\* The row is marked whatever its status is by now.
Mark ==
    /\ step = "loop"
    /\ \E r \in listed :
         /\ \A q \in listed : r <= q
         /\ current' = r /\ listed' = listed \ {r}
         /\ \/ SetStatus(r, "processing") /\ step' = "send" /\ UNCHANGED faults
            \/ UNCHANGED rows /\ step' = "revert" /\ Fault
    /\ UNCHANGED <<chainVars, answer, orphans>>

\* The simulation finds the ticket claimable, and the transaction is sent.
Send ==
    /\ step = "send"
    /\ Claimable(Sent.wallet, Sent.id)
    /\ step' = "wait"
    /\ UNCHANGED <<chainVars, rows, listed, current, answer, orphans, faults>>

\* The simulation fails (no such ticket, another owner, claimed, not due), or
\* the RPC cannot be reached.
NotSent ==
    /\ step = "send"
    /\ step' = "revert"
    /\ UNCHANGED <<chainVars, rows, listed, current, answer, orphans, faults>>

\* The network includes a claim: it pays, if it carries the owner's signature
\* and the ticket is still open, or fails.
Included(tx) == tx.wallet = Operator /\ Claim(tx.wallet, tx.id)

Include ==
    /\ step = "wait" /\ answer = "none"
    /\ \/ Included(Sent) /\ answer' = "success"
       \/ UNCHANGED chainVars /\ answer' = "failed"
    /\ UNCHANGED <<rows, step, listed, current, orphans, faults>>

\* A claim that was given up is included after all, or runs out.
IncludeOrphan(tx) ==
    /\ Included(tx) \/ UNCHANGED chainVars
    /\ orphans' = orphans \ {tx}
    /\ UNCHANGED <<rows, step, listed, current, answer, faults>>

\* Mutant of GiveUp: the client looks for the transaction until it is found.
GiveUpNever ==
    /\ step = "wait" /\ answer = "failed"
    /\ step' = "revert"
    /\ orphans' = IF answer = "none" THEN orphans \union {Sent} ELSE orphans
    /\ UNCHANGED <<chainVars, rows, listed, current, answer, faults>>

\* The claim has failed, or thirty looks in a minute did not find it.
GiveUp ==
    /\ step = "wait" /\ answer # "success"
    /\ step' = "revert"
    /\ orphans' = IF answer = "none" THEN orphans \union {Sent} ELSE orphans
    /\ UNCHANGED <<chainVars, rows, listed, current, answer, faults>>

\* The claim is confirmed.  claim_withdrawal returns no value, and the client
\* turns the value into a BigInt, which throws: the row is never completed.
DecodeThrows ==
    /\ step = "wait" /\ answer = "success"
    /\ step' = "revert"
    /\ UNCHANGED <<chainVars, rows, listed, current, answer, orphans, faults>>

\* The catch: back to pending.  The error texts that would make it failed come
\* from the contract only in words the network does not pass on; what is left
\* is "Account not found", an RPC failure.  If the update throws, the rest of
\* the batch is dropped.
Revert ==
    /\ step = "revert"
    /\ \/ SetStatus(current, "pending") /\ Continue /\ UNCHANGED <<listed, faults>>
       \/ SetStatus(current, "failed") /\ Continue /\ Fault /\ UNCHANGED listed
       \/ /\ Fault
          /\ step' = "idle" /\ listed' = {} /\ current' = 0 /\ answer' = "none"
          /\ UNCHANGED rows
    /\ UNCHANGED <<chainVars, orphans>>

ProcessorStep == List \/ Mark \/ Send \/ NotSent \/ GiveUp \/ DecodeThrows \/ Revert

\* A restart forgets the batch; a claim that is under way goes on without it.
RestartProcessor ==
    /\ step' = "idle" /\ listed' = {} /\ current' = 0 /\ answer' = "none"
    /\ orphans' = IF step = "wait" /\ answer = "none" THEN orphans \union {Sent} ELSE orphans
=============================================================================
