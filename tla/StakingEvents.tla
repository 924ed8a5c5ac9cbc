--------------------------- MODULE StakingEvents ---------------------------
(***************************************************************************)
(* The staking contract as the backend sees it: the tickets it can be      *)
(* asked about and the log of events it has published.                     *)
(*                                                                         *)
(* Staking models the contract itself.  Here a call is reduced to what     *)
(* reaches the backend: whether a ticket is open and who owns it, and the  *)
(* event with its wallet and amount.  Ledger numbers matter because the    *)
(* backend reads the log by ledger; the cooldown does not, so which open   *)
(* tickets are due is a free choice.                                       *)
(***************************************************************************)
EXTENDS Integers, Sequences

CONSTANTS Wallets, Amounts,
          PlainKinds,             \* bound: the plain events that occur
          MaxEvents, MaxLedger    \* bounds of the log and of the clock

ASSUME EventsAssumption ==
    /\ PlainKinds \subseteq {"rewards", "other"}
    /\ MaxEvents \in Nat /\ MaxLedger \in Nat

VARIABLES ledger,     \* the last ledger that is closed: what getEvents calls latestLedger
          log,        \* every event published so far, in order
          tickets     \* the withdrawal queue; the ticket with id n is tickets[n + 1]

chainVars == <<ledger, log, tickets>>

Event == [ledger : Nat, kind : {"delayed", "instant", "claimed"}, wallet : Wallets, amount : Amounts]
         \union [ledger : Nat, kind : {"rewards", "other"}]
Ticket == [owner : Wallets, amount : Amounts, open : BOOLEAN]

ChainTypeOK ==
    /\ ledger \in Nat
    /\ log \in Seq(Event)
    /\ tickets \in Seq(Ticket)

ChainInit ==
    /\ ledger = 1
    /\ log = <<>>
    /\ tickets = <<>>

\* Events of the ledger that is being built become visible when it closes.
Publish(e) ==
    /\ Len(log) < MaxEvents
    /\ log' = Append(log, e)

WalletEvent(kind, w, a) == [ledger |-> ledger + 1, kind |-> kind, wallet |-> w, amount |-> a]

RequestDelayed(w, a) ==
    /\ tickets' = Append(tickets, [owner |-> w, amount |-> a, open |-> TRUE])
    /\ Publish(WalletEvent("delayed", w, a))
    /\ UNCHANGED ledger

RequestInstant(w, a) ==
    /\ Publish(WalletEvent("instant", w, a))
    /\ UNCHANGED <<ledger, tickets>>

\* claim_withdrawal(w, id) goes through.
Claimable(w, id) ==
    /\ id + 1 \in DOMAIN tickets
    /\ tickets[id + 1].owner = w
    /\ tickets[id + 1].open

Claim(w, id) ==
    /\ Claimable(w, id)
    /\ tickets' = [tickets EXCEPT ![id + 1].open = FALSE]
    /\ Publish(WalletEvent("claimed", w, tickets[id + 1].amount))
    /\ UNCHANGED ledger

\* add_rewards, and the calls whose events change nothing in the backend.
PublishPlain(kind) ==
    /\ Publish([ledger |-> ledger + 1, kind |-> kind])
    /\ UNCHANGED <<ledger, tickets>>

CloseLedger ==
    /\ ledger < MaxLedger
    /\ ledger' = ledger + 1
    /\ UNCHANGED <<log, tickets>>

ChainNext ==
    \/ \E w \in Wallets, a \in Amounts : RequestDelayed(w, a) \/ RequestInstant(w, a)
    \/ \E w \in Wallets, id \in 0..Len(tickets) : Claim(w, id)
    \/ \E kind \in PlainKinds : PublishPlain(kind)
    \/ CloseLedger
=============================================================================
