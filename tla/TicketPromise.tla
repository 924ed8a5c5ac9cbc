---------------------------- MODULE TicketPromise ----------------------------
(***************************************************************************)
(* What a delayed withdrawal promises its owner.                           *)
(*                                                                         *)
(* A ticket names an owner, an amount and a due time.  Once issued, it     *)
(* changes in one way only: when it is due, the whole amount reaches its   *)
(* owner out of the vault and the ticket is closed for good.  Nothing else *)
(* that happens in the system alters a ticket, and nothing else takes cash *)
(* out of the vault beyond what is taken off the reserve kept for it.      *)
(***************************************************************************)
EXTENDS Integers

CONSTANT Owners
VARIABLES now, cash,        \* the clock; the cash of every owner
          vault, reserve,   \* cash held; how much of it may leave without a ticket
          issued, tickets

tvars == <<now, cash, vault, reserve, issued, tickets>>

Ticket == [owner : Owners, amount : Nat \ {0}, due : Nat, open : BOOLEAN]

Init ==
    /\ now = 0
    /\ cash \in [Owners -> Nat]
    /\ vault = 0 /\ reserve = 0
    /\ issued = 0
    /\ tickets = [id \in {} |-> 0]

\* Tickets are numbered 0, 1, 2, ... in the order of issue.
Issue ==
    /\ issued' = issued + 1
    /\ DOMAIN tickets' = 0..issued
    /\ \A id \in DOMAIN tickets : tickets'[id] = tickets[id]
    /\ tickets'[issued] \in Ticket
    /\ tickets'[issued].open
    /\ tickets'[issued].due >= now
    /\ UNCHANGED <<now, cash, vault, reserve>>

Settle(id) ==
    /\ tickets[id].open
    /\ tickets[id].due <= now
    /\ tickets' = [tickets EXCEPT ![id].open = FALSE]
    /\ cash' = [cash EXCEPT ![tickets[id].owner] = @ + tickets[id].amount]
    /\ vault' = vault - tickets[id].amount
    /\ UNCHANGED <<now, reserve, issued>>

\* Everything else: deposits, immediate withdrawals, transfers, fees.
Trade ==
    /\ cash' \in [Owners -> Nat]
    /\ vault' >= vault \/ vault - vault' = reserve - reserve'
    /\ UNCHANGED <<now, issued, tickets>>

Pass ==
    /\ now' > now
    /\ UNCHANGED <<cash, vault, reserve, issued, tickets>>

Next == Issue \/ (\E id \in DOMAIN tickets : Settle(id)) \/ Trade \/ Pass

Spec == Init /\ [][Next]_tvars
=============================================================================
