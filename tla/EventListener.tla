--------------------------- MODULE EventListener ---------------------------
(***************************************************************************)
(* The event listener: a timer starts a poll every five seconds, whether   *)
(* or not the one before has ended.  A poll asks for the events from       *)
(* lastLedger on, handles them one by one with a database call or two      *)
(* each, and moves lastLedger, which is kept in memory and written to disk *)
(* at the end of every poll.  Between two awaits nothing else runs, so one *)
(* action is what happens from one await to the next.                      *)
(***************************************************************************)
EXTENDS WithdrawalRows

CONSTANTS Polls,        \* the polls that may be under way at a time
          PageLimit,    \* pagination.limit
          SavedAtStart, \* what .last_ledger holds at first, 0 if it does not exist
          MaxFaults,    \* bound: failed calls of the database, the RPC or the bus
          MaxCrashes    \* bound: restarts of the backend

ASSUME ListenerAssumption ==
    /\ PageLimit \in Nat \ {0}
    /\ SavedAtStart \in 0..1
    /\ MaxFaults \in Nat /\ MaxCrashes \in Nat

VARIABLES lastLedger, savedLedger, polls,
          faults, crashes,
          cut            \* ghost: events that some response had no room for

listenerVars == <<lastLedger, savedLedger, polls, cut>>

Idle == [at |-> "idle", start |-> 0, next |-> 1, last |-> 0, latest |-> 0, known |-> FALSE]
Poll == [at : {"idle", "asked", "reading", "looked"},
         start : Nat, next : Nat, last : Nat, latest : Nat, known : BOOLEAN]

ListenerTypeOK ==
    /\ lastLedger \in Nat /\ savedLedger \in Nat
    /\ polls \in [Polls -> Poll]
    /\ faults \in Nat /\ crashes \in Nat
    /\ cut \subseteq DOMAIN log

ListenerInit ==
    /\ lastLedger = SavedAtStart /\ savedLedger = SavedAtStart
    /\ polls = [p \in Polls |-> Idle]
    /\ faults = 0 /\ crashes = 0
    /\ cut = {}

Larger(m, n) == IF m > n THEN m ELSE n
Fault == faults < MaxFaults /\ faults' = faults + 1

\* The event that poll p has to handle next.
Current(p) == log[polls[p].next]
At(p, place) == polls[p].at = place
Reading(p, kinds) ==
    /\ At(p, "reading")
    /\ polls[p].next <= polls[p].last
    /\ Current(p).kind \in kinds

\* The poll ends without having passed the event: it was logged, or swallowed.
End(p) == polls' = [polls EXCEPT ![p] = Idle]

\* Seen: i events of the log come before the ledger the poll asked for, j are visible.
Visible(i, j, from) ==
    \A k \in DOMAIN log : (k > i <=> log[k].ledger >= from) /\ (k <= j <=> log[k].ledger <= ledger)
-----------------------------------------------------------------------------
(* One poll. *)

Ask(p) ==
    /\ At(p, "idle")
    /\ polls' = [polls EXCEPT ![p] = [Idle EXCEPT !.at = "asked", !.start = lastLedger]]
    /\ UNCHANGED <<rows, lastLedger, savedLedger, faults, cut>>

\* Mutant of Answer: lastLedger moves when the page arrives, before it is handled.
AnswerAdvancing(p) ==
    /\ At(p, "asked")
    /\ \E i, j \in 0..Len(log) :
         LET last == IF j < i + PageLimit THEN j ELSE i + PageLimit IN
         /\ Visible(i, j, polls[p].start)
         /\ polls' = [polls EXCEPT ![p] = [Idle EXCEPT !.at = "reading", !.next = i + 1,
                                                       !.last = last, !.latest = ledger]]
         /\ cut' = cut \union (last + 1)..j
    /\ lastLedger' = ledger
    /\ UNCHANGED <<rows, savedLedger, faults>>

\* The response: one page, and the latest ledger of the network whatever the
\* page holds.  Without a startLedger the RPC answers from the first event.
Answer(p) ==
    /\ At(p, "asked")
    /\ \E i, j \in 0..Len(log) :
         LET last == IF j < i + PageLimit THEN j ELSE i + PageLimit IN
         /\ Visible(i, j, polls[p].start)
         /\ polls' = [polls EXCEPT ![p] = [Idle EXCEPT !.at = "reading", !.next = i + 1,
                                                       !.last = last, !.latest = ledger]]
         /\ cut' = cut \union (last + 1)..j
    /\ UNCHANGED <<rows, lastLedger, savedLedger, faults>>

\* Without a startLedger the RPC may as well refuse.
Refuse(p) ==
    /\ At(p, "asked") /\ polls[p].start = 0
    /\ End(p)
    /\ UNCHANGED <<rows, lastLedger, savedLedger, faults, cut>>

\* The event is done: go to the next one.
Pass(p) ==
    /\ lastLedger' = Larger(lastLedger, Current(p).ledger)
    /\ polls' = [polls EXCEPT ![p] = [polls[p] EXCEPT !.at = "reading", !.next = polls[p].next + 1,
                                                     !.known = FALSE]]
    /\ UNCHANGED faults

\* The event's effect is there, and then publishing it on the bus throws.
PublishFails(p) ==
    /\ Fault
    /\ End(p)
    /\ UNCHANGED lastLedger

\* delayed, first await: is there a pending row with its wallet and amount?
Look(p) ==
    /\ Reading(p, {"delayed"})
    /\ polls' = [polls EXCEPT ![p].at = "looked",
                   ![p].known = \E r \in Pending : /\ rows[r].wallet = Current(p).wallet
                                                   /\ rows[r].amount = Current(p).amount]
    /\ UNCHANGED <<rows, lastLedger, savedLedger, faults, cut>>

\* There is a row, whatever its status, with the wallet and the amount of event i.
Recorded(i) == \E r \in DOMAIN rows : rows[r].wallet = log[i].wallet /\ rows[r].amount = log[i].amount

\* delayed, second await: write the row, if none was found then.  Bound: a
\* further copy of a row is not kept once there are MaxRows rows.  The awaits
\* of publishing are not steps of their own: they delay nothing but the move of
\* lastLedger, and a poll that asks meanwhile might as well have asked before.
Record(p) ==
    /\ At(p, "looked")
    /\ rows' = IF polls[p].known \/ (Len(rows) >= MaxRows /\ Recorded(polls[p].next))
               THEN rows
               ELSE Append(rows, NewRow(Current(p).wallet, Current(p).amount))
    /\ Pass(p) \/ PublishFails(p)
    /\ UNCHANGED <<savedLedger, cut>>

\* instant: every pending row of the wallet.
Complete(p) ==
    /\ Reading(p, {"instant"})
    /\ SetPendingOf(Current(p).wallet, "completed")
    /\ Pass(p) \/ PublishFails(p)
    /\ UNCHANGED <<savedLedger, cut>>

\* claimed: every pending row of the wallet; nothing is published.
CloseClaimed(p) ==
    /\ Reading(p, {"claimed"})
    /\ SetPendingOf(Current(p).wallet, "claimed")
    /\ Pass(p)
    /\ UNCHANGED <<savedLedger, cut>>

\* Events that are logged, or published at most.
Skip(p) ==
    /\ Reading(p, {"other"})
    /\ Pass(p) \/ PublishFails(p)
    /\ UNCHANGED <<rows, savedLedger, cut>>

\* rewards: its three numbers are read as one, which throws.
Choke(p) ==
    /\ Reading(p, {"rewards"})
    /\ End(p)
    /\ UNCHANGED <<rows, lastLedger, savedLedger, faults, cut>>

\* Mutant of Finish: a flag against overlapping polls that the end does not clear.
FinishHolding(p) ==
    /\ At(p, "reading") /\ polls[p].next > polls[p].last
    /\ lastLedger' = Larger(lastLedger, polls[p].latest)
    /\ \/ savedLedger' = lastLedger' /\ UNCHANGED faults
       \/ UNCHANGED savedLedger /\ Fault
    /\ UNCHANGED <<polls, rows, cut>>

\* The page is done; the disk may refuse the write.
Finish(p) ==
    /\ At(p, "reading") /\ polls[p].next > polls[p].last
    /\ lastLedger' = Larger(lastLedger, polls[p].latest)
    /\ \/ savedLedger' = lastLedger' /\ UNCHANGED faults
       \/ UNCHANGED savedLedger /\ Fault
    /\ End(p)
    /\ UNCHANGED <<rows, cut>>

\* The RPC or the database throws at an await.
CallFails(p) ==
    /\ ~At(p, "idle")
    /\ Fault
    /\ End(p)
    /\ UNCHANGED <<rows, lastLedger, savedLedger, cut>>

PollStep(p) ==
    \/ Ask(p) \/ Answer(p)
    \/ Look(p) \/ Record(p) \/ Complete(p) \/ CloseClaimed(p) \/ Skip(p) \/ Choke(p)
    \/ Finish(p)

\* Mutant of RestartListener: goes back one ledger, to be on the safe side.
RestartOneBack ==
    /\ crashes < MaxCrashes
    /\ crashes' = crashes + 1
    /\ polls' = [p \in Polls |-> Idle]
    /\ lastLedger' = savedLedger - 1
    /\ UNCHANGED <<rows, savedLedger, faults, cut>>

\* A restart forgets the polls; lastLedger is read back from the file.
RestartListener ==
    /\ crashes < MaxCrashes
    /\ crashes' = crashes + 1
    /\ polls' = [p \in Polls |-> Idle]
    /\ lastLedger' = savedLedger
    /\ UNCHANGED <<rows, savedLedger, faults, cut>>

ListenerStep ==
    \/ \E p \in Polls : (PollStep(p) \/ Refuse(p) \/ CallFails(p)) /\ UNCHANGED crashes
    \/ RestartListener
-----------------------------------------------------------------------------
(* The listener beside the contract and the routes. *)

vars == <<chainVars, rows, listenerVars, faults, crashes>>

Route ==
    \/ \E w \in Wallets, a \in Amounts : Unstake(w, a)
    \/ \E w \in Wallets, r \in DOMAIN rows : MarkClaimed(w, r)

Init == ChainInit /\ rows = <<>> /\ ListenerInit

Next ==
    \/ ChainNext /\ UNCHANGED <<rows, listenerVars, faults, crashes>>
    \/ Route /\ UNCHANGED <<chainVars, listenerVars, faults, crashes>>
    \/ ListenerStep /\ UNCHANGED chainVars

\* The timer fires for ever and every await settles; nothing is assumed of
\* the chain, of the users, or of failures, which are only bounded in number.
Fairness == \A p \in Polls : WF_vars(PollStep(p) /\ UNCHANGED <<chainVars, crashes>>)

Spec == Init /\ [][Next]_vars /\ Fairness
-----------------------------------------------------------------------------
(* Properties. *)

\* Every variable has its type.
TypeOK == ChainTypeOK /\ RowsTypeOK /\ ListenerTypeOK

Delayed(i) == i \in DOMAIN log /\ log[i].kind = "delayed"
Mirrored(i) == Delayed(i) /\ (Recorded(i) \/ i \in cut)

\* Whatever polls overlap, fail in the middle or are forgotten by a restart,
\* no delayed withdrawal is left behind: once the listener, in memory or on
\* disk, is past the ledger of its event, there is a row for it, except for
\* the events that a full page cut off.
NothingLeftBehind ==
    \A i \in DOMAIN log :
      Delayed(i) /\ log[i].ledger < Larger(lastLedger, savedLedger) => Mirrored(i)

\* Every delayed withdrawal that the network shows is mirrored at last, through
\* failures and restarts, if no rewards event came before it and the listener has ever
\* written its ledger to disk.  Until then it is not promised anything: a first boot
\* asks with lastLedger || undefined, and an RPC that wants a startLedger refuses that
\* for ever.
DelayedIsMirrored ==
    \A i \in 1..MaxEvents :
      (/\ Delayed(i) /\ log[i].ledger <= ledger /\ savedLedger > 0
       /\ \A k \in 1..i : log[k].kind # "rewards") ~> Mirrored(i)

\* "Silently fail -- will retry next poll": an event on which a poll fails is
\* passed by a later one.
RetriesGetPast ==
    \A i \in 1..MaxEvents :
      (i \in DOMAIN log /\ log[i].ledger <= ledger) ~> (i \in DOMAIN log /\ lastLedger >= log[i].ledger)
=============================================================================
