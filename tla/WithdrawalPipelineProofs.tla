---------------------- MODULE WithdrawalPipelineProofs ----------------------
(***************************************************************************)
(* Proofs about the backend's table of withdrawals, for any number of      *)
(* overlapping polls, any page limit and batch size, and any number of     *)
(* failures and restarts: first about the event listener alone, then about *)
(* the listener with the queue processor rewriting the same table, and     *)
(* claims included at any time.                                            *)
(*                                                                         *)
(* NothingLeftBehind says what holds of the ledgers the listener has left; *)
(* its inductive invariant says why: every poll has mirrored what lies     *)
(* before the event it is at, and what lies beyond its page is cut off or  *)
(* younger than its response.                                              *)
(***************************************************************************)
EXTENDS WithdrawalPipeline, SequenceTheorems, FiniteSetTheorems, TLAPS

\* The log is in the order of its ledgers, and at most one ledger ahead.
LogInOrder ==
    \A i, k \in DOMAIN log : log[i].ledger <= ledger + 1 /\ (i <= k => log[i].ledger <= log[k].ledger)

\* Delayed withdrawals of the ledgers before n are mirrored.
MirroredBefore(n) == \A i \in DOMAIN log : Delayed(i) /\ log[i].ledger < n => Mirrored(i)

PollInv(p) ==
    /\ polls[p].at = "asked" => polls[p].start <= ledger /\ MirroredBefore(polls[p].start)
    /\ polls[p].at \in {"reading", "looked"} =>
         /\ polls[p].next \in 1..(Len(log) + 1) /\ polls[p].last <= Len(log) /\ polls[p].latest <= ledger
         /\ \A i \in DOMAIN log : Delayed(i) /\ i < polls[p].next => Mirrored(i)
         /\ \A i \in DOMAIN log : i > polls[p].last /\ log[i].ledger <= polls[p].latest => i \in cut
         /\ \A i \in DOMAIN log : i <= polls[p].last => log[i].ledger <= polls[p].latest
    /\ polls[p].at = "looked" =>
         /\ polls[p].next <= polls[p].last
         /\ \A i \in DOMAIN log : i = polls[p].next => Delayed(i) /\ (polls[p].known => Recorded(i))

IInv ==
    /\ TypeOK
    /\ LogInOrder
    /\ lastLedger <= ledger /\ MirroredBefore(lastLedger)
    /\ savedLedger <= ledger /\ MirroredBefore(savedLedger)
    /\ \A p \in Polls : PollInv(p)

-----------------------------------------------------------------------------
(* What the rest of the system may do to the log and to the rows. *)

\* Rows are not deleted and keep their wallet and amount.
RowsKept ==
    /\ rows' \in Seq(Row)
    /\ \A r \in DOMAIN rows : /\ r \in DOMAIN rows'
                             /\ rows'[r].wallet = rows[r].wallet /\ rows'[r].amount = rows[r].amount

\* Events are only appended, in the ledger that is being built.
LogKept ==
    /\ ledger' \in Nat /\ ledger' >= ledger
    /\ \/ log' = log
       \/ ledger' = ledger /\ \E e \in Event : e.ledger = ledger + 1 /\ log' = Append(log, e)
    /\ tickets' \in Seq(Ticket)

LEMMA FunctionIsSeq ==
    ASSUME NEW S, NEW n \in Nat, NEW f \in [1..n -> S]
    PROVE  f \in Seq(S) /\ Len(f) = n
BY SMT

\* Rewriting the status of rows keeps them.
LEMMA StatusKeepsRows ==
    ASSUME RowsTypeOK, NEW T \in SUBSET DOMAIN rows, NEW s \in Status,
           rows' = [r \in DOMAIN rows |-> IF r \in T THEN [rows[r] EXCEPT !.status = s] ELSE rows[r]]
    PROVE  RowsKept /\ Len(rows') = Len(rows)
<1>1. DOMAIN rows = 1..Len(rows) /\ Len(rows) \in Nat /\ \A r \in DOMAIN rows : rows[r] \in Row
  BY DEF RowsTypeOK
<1>2. \A r \in DOMAIN rows : [rows[r] EXCEPT !.status = s] \in Row
  BY <1>1 DEF Row
<1>3. rows' \in [1..Len(rows) -> Row]
  BY <1>1, <1>2
<1>4. rows' \in Seq(Row) /\ Len(rows') = Len(rows)
  BY <1>1, <1>3, FunctionIsSeq
<1> QED
  BY <1>1, <1>4 DEF RowsKept, Row

LEMMA SetStatusKeepsRows ==
    ASSUME RowsTypeOK, NEW r \in DOMAIN rows, NEW s \in Status, SetStatus(r, s)
    PROVE  RowsKept /\ Len(rows') = Len(rows)
<1>1. rows' = [q \in DOMAIN rows |-> IF q \in {r} THEN [rows[q] EXCEPT !.status = s] ELSE rows[q]]
  BY DEF SetStatus, RowsTypeOK
<1> QED
  BY <1>1, StatusKeepsRows

LEMMA SetPendingKeepsRows ==
    ASSUME RowsTypeOK, NEW w \in Wallets, NEW s \in Status, SetPendingOf(w, s)
    PROVE  RowsKept /\ Len(rows') = Len(rows)
<1> DEFINE T == {r \in Pending : rows[r].wallet = w}
<1>1. T \in SUBSET DOMAIN rows
  BY DEF Pending
<1>2. rows' = [r \in DOMAIN rows |-> IF r \in T THEN [rows[r] EXCEPT !.status = s] ELSE rows[r]]
  BY DEF SetPendingOf
<1> QED
  BY <1>1, <1>2, StatusKeepsRows

LEMMA AppendKeepsRows ==
    ASSUME RowsTypeOK, NEW w \in Wallets, NEW a \in Amounts, rows' = Append(rows, NewRow(w, a))
    PROVE  RowsKept
BY DEF RowsTypeOK, RowsKept, NewRow, Row, Status

LEMMA LogFacts ==
    ASSUME ChainTypeOK, LogKept
    PROVE  /\ log' \in Seq(Event)
           /\ Len(log) \in Nat /\ DOMAIN log = 1..Len(log)
           /\ Len(log') \in Nat /\ DOMAIN log' = 1..Len(log') /\ Len(log) <= Len(log')
           /\ \A i \in DOMAIN log : log'[i] = log[i] /\ log[i].ledger \in Nat
           /\ \A i \in DOMAIN log' \ DOMAIN log : log'[i].ledger = ledger + 1 /\ ledger' = ledger
<1>1. Len(log) \in Nat /\ DOMAIN log = 1..Len(log) /\ \A i \in DOMAIN log : log[i].ledger \in Nat
  BY DEF ChainTypeOK, Event
<1>2. CASE log' = log
  BY <1>1, <1>2 DEF ChainTypeOK
<1>3. CASE ledger' = ledger /\ \E e \in Event : e.ledger = ledger + 1 /\ log' = Append(log, e)
  <2>1. PICK e \in Event : e.ledger = ledger + 1 /\ log' = Append(log, e)
    BY <1>3
  <2>2. /\ log' \in Seq(Event) /\ Len(log') = Len(log) + 1
        /\ \A i \in 1..Len(log) : log'[i] = log[i]
        /\ log'[Len(log) + 1] = e
    BY <2>1, AppendProperties DEF ChainTypeOK
  <2> QED
    BY <1>1, <1>3, <2>1, <2>2
<1> QED
  BY <1>2, <1>3 DEF LogKept

\* What was mirrored stays so.
LEMMA MirrorsKept ==
    ASSUME ChainTypeOK, RowsKept, LogKept, cut \subseteq cut', NEW i \in DOMAIN log
    PROVE  /\ i \in DOMAIN log' /\ log'[i] = log[i]
           /\ Delayed(i)' <=> Delayed(i)
           /\ Delayed(i) /\ Recorded(i) => Recorded(i)'
           /\ Mirrored(i) => Mirrored(i)'
<1>1. i \in DOMAIN log' /\ log'[i] = log[i]
  BY LogFacts
<1>2. Delayed(i)' <=> Delayed(i)
  BY <1>1 DEF Delayed
<1>3. Delayed(i) /\ Recorded(i) => Recorded(i)'
  BY <1>1 DEF Recorded, RowsKept
<1> QED
  BY <1>1, <1>2, <1>3 DEF Mirrored

LEMMA BeforeKept ==
    ASSUME ChainTypeOK, RowsKept, LogKept, cut \subseteq cut',
           NEW n \in Nat, n <= ledger, MirroredBefore(n)
    PROVE  \A i \in DOMAIN log' : Delayed(i)' /\ log'[i].ledger < n => Mirrored(i)'
<1> SUFFICES ASSUME NEW i \in DOMAIN log', Delayed(i)', log'[i].ledger < n PROVE Mirrored(i)'
  OBVIOUS
<1>1. i \in DOMAIN log
  BY LogFacts DEF ChainTypeOK
<1> QED
  BY <1>1, MirrorsKept DEF MirroredBefore

\* A poll that stands still keeps its part of the invariant.
LEMMA PollKept ==
    ASSUME TypeOK, RowsKept, LogKept, cut \subseteq cut',
           NEW p \in Polls, PollInv(p), polls'[p] = polls[p]
    PROVE  PollInv(p)'
<1>0. ChainTypeOK /\ ledger \in Nat /\ ledger' \in Nat /\ ledger' >= ledger /\ polls[p] \in Poll
  BY DEF TypeOK, ChainTypeOK, ListenerTypeOK, LogKept
<1>1. PollInv(p) /\ polls[p] \in Poll /\ polls'[p] = polls[p]
  BY <1>0
<1>2. polls[p].at = "asked" => polls[p].start <= ledger' /\ MirroredBefore(polls[p].start)'
  BY <1>0, <1>1, BeforeKept DEF PollInv, Poll, MirroredBefore
<1>3. ASSUME polls[p].at \in {"reading", "looked"}
      PROVE  /\ polls[p].next \in 1..(Len(log') + 1) /\ polls[p].last <= Len(log') /\ polls[p].latest <= ledger'
             /\ \A i \in DOMAIN log' : Delayed(i)' /\ i < polls[p].next => Mirrored(i)'
             /\ \A i \in DOMAIN log' : i > polls[p].last /\ log'[i].ledger <= polls[p].latest => i \in cut'
             /\ \A i \in DOMAIN log' : i <= polls[p].last => log'[i].ledger <= polls[p].latest
  <2>1. /\ polls[p].next \in 1..(Len(log) + 1) /\ polls[p].last <= Len(log) /\ polls[p].latest <= ledger
        /\ \A i \in DOMAIN log : Delayed(i) /\ i < polls[p].next => Mirrored(i)
        /\ \A i \in DOMAIN log : i > polls[p].last /\ log[i].ledger <= polls[p].latest => i \in cut
        /\ \A i \in DOMAIN log : i <= polls[p].last => log[i].ledger <= polls[p].latest
        /\ polls[p].next \in Nat /\ polls[p].last \in Nat /\ polls[p].latest \in Nat
    BY <1>1, <1>3 DEF PollInv, Poll
  <2>2. polls[p].next \in 1..(Len(log') + 1) /\ polls[p].last <= Len(log') /\ polls[p].latest <= ledger'
    BY <1>0, <2>1, LogFacts
  <2>3. \A i \in DOMAIN log' : Delayed(i)' /\ i < polls[p].next => Mirrored(i)'
    BY <1>0, <2>1, LogFacts, MirrorsKept
  <2>4. \A i \in DOMAIN log' : i > polls[p].last /\ log'[i].ledger <= polls[p].latest => i \in cut'
    BY <1>0, <2>1, LogFacts
  <2>5. \A i \in DOMAIN log' : i <= polls[p].last => log'[i].ledger <= polls[p].latest
    BY <1>0, <2>1, LogFacts
  <2> QED
    BY <2>2, <2>3, <2>4, <2>5
<1>4. ASSUME polls[p].at = "looked"
      PROVE  /\ polls[p].next <= polls[p].last
             /\ \A i \in DOMAIN log' : i = polls[p].next => Delayed(i)' /\ (polls[p].known => Recorded(i)')
  <2>1. /\ polls[p].next <= polls[p].last /\ polls[p].last <= Len(log)
        /\ polls[p].next \in Nat /\ polls[p].last \in Nat
        /\ \A i \in DOMAIN log : i = polls[p].next => Delayed(i) /\ (polls[p].known => Recorded(i))
    BY <1>1, <1>4 DEF PollInv, Poll
  <2> QED
    BY <1>0, <2>1, LogFacts, MirrorsKept
<1> QED
  BY <1>1, <1>2, <1>3, <1>4 DEF PollInv

\* The contract and the rest of the backend cannot make the listener lose an event.
LEMMA OthersPreserve ==
    ASSUME IInv, LogKept, RowsKept, UNCHANGED listenerVars, faults' \in Nat, crashes' \in Nat
    PROVE  IInv'
<1>1. TypeOK /\ ChainTypeOK /\ cut' = cut /\ cut \subseteq cut'
  BY DEF IInv, TypeOK, listenerVars
<1>2. ledger \in Nat /\ ledger' \in Nat /\ ledger' >= ledger
  BY <1>1 DEF ChainTypeOK, LogKept
<1>3. TypeOK'
  <2>1. ChainTypeOK'
    BY <1>1, <1>2, LogFacts DEF ChainTypeOK, LogKept
  <2>2. ListenerTypeOK'
    BY <1>1, LogFacts DEF TypeOK, ListenerTypeOK, listenerVars
  <2> QED
    BY <2>1, <2>2 DEF TypeOK, RowsTypeOK, RowsKept
<1>4. LogInOrder'
  <2>1. \A i, k \in DOMAIN log : log[i].ledger <= ledger + 1 /\ (i <= k => log[i].ledger <= log[k].ledger)
    BY DEF IInv, LogInOrder
  <2> QED
    BY <1>1, <1>2, <2>1, LogFacts DEF LogInOrder
<1>5. /\ lastLedger' <= ledger' /\ MirroredBefore(lastLedger)'
      /\ savedLedger' <= ledger' /\ MirroredBefore(savedLedger)'
  <2>1. lastLedger \in Nat /\ lastLedger <= ledger /\ MirroredBefore(lastLedger) /\ lastLedger' = lastLedger
    BY <1>1 DEF IInv, TypeOK, ListenerTypeOK, listenerVars
  <2>2. savedLedger \in Nat /\ savedLedger <= ledger /\ MirroredBefore(savedLedger) /\ savedLedger' = savedLedger
    BY <1>1 DEF IInv, TypeOK, ListenerTypeOK, listenerVars
  <2> QED
    BY <1>1, <1>2, <2>1, <2>2, BeforeKept DEF MirroredBefore
<1>6. ASSUME NEW p \in Polls PROVE PollInv(p)'
  BY <1>1, PollKept DEF IInv, listenerVars
<1> QED
  BY <1>3, <1>4, <1>5, <1>6 DEF IInv

\* What is left to show of a step of poll p: its own part, and lastLedger.
LEMMA PollMoves ==
    ASSUME IInv, NEW p \in Polls, NEW q \in Poll, polls' = [polls EXCEPT ![p] = q],
           UNCHANGED chainVars, RowsKept, cut \subseteq cut', cut' \subseteq DOMAIN log,
           lastLedger' \in Nat, lastLedger' <= ledger, MirroredBefore(lastLedger)',
           savedLedger' \in {savedLedger, lastLedger'}, faults' \in Nat, crashes' \in Nat,
           PollInv(p)'
    PROVE  IInv'
<1>1. TypeOK /\ ChainTypeOK /\ ledger' = ledger /\ log' = log /\ tickets' = tickets
  BY DEF IInv, TypeOK, chainVars
<1>2. LogKept
  BY <1>1 DEF LogKept, ChainTypeOK
<1>3. TypeOK'
  BY <1>1 DEF TypeOK, ChainTypeOK, RowsTypeOK, RowsKept, ListenerTypeOK
<1>4. LogInOrder'
  BY <1>1 DEF IInv, LogInOrder
<1>5. savedLedger' <= ledger' /\ MirroredBefore(savedLedger)'
  <2>1. savedLedger \in Nat /\ savedLedger <= ledger /\ MirroredBefore(savedLedger)
    BY <1>1 DEF IInv, TypeOK, ListenerTypeOK
  <2> QED
    BY <1>1, <1>2, <2>1, BeforeKept DEF MirroredBefore
<1>6. ASSUME NEW p2 \in Polls PROVE PollInv(p2)'
  <2>1. CASE p2 = p
    BY <2>1
  <2>2. CASE p2 # p
    <3>1. polls'[p2] = polls[p2] /\ PollInv(p2)
      BY <1>1, <2>2 DEF IInv, TypeOK, ListenerTypeOK
    <3> QED
      BY <1>1, <1>2, <3>1, PollKept
  <2> QED
    BY <2>1, <2>2
<1> QED
  BY <1>1, <1>3, <1>4, <1>5, <1>6 DEF IInv

-----------------------------------------------------------------------------
(* One lemma for each way in which a poll goes on. *)

LEMMA SameRowsKept ==
    ASSUME RowsTypeOK, rows' = rows
    PROVE  RowsKept
BY DEF RowsTypeOK, RowsKept

\* What a step of a poll may take for granted.
LEMMA Given ==
    ASSUME IInv, NEW p \in Polls, UNCHANGED chainVars
    PROVE  /\ ChainTypeOK /\ RowsTypeOK /\ ListenerTypeOK /\ LogInOrder /\ PollInv(p) /\ LogKept
           /\ polls[p] \in Poll /\ ledger' = ledger /\ log' = log /\ ledger \in Nat
           /\ Len(log) \in Nat /\ DOMAIN log = 1..Len(log)
           /\ \A k \in DOMAIN log : log[k] \in Event /\ log[k].ledger \in Nat
           /\ lastLedger \in Nat /\ lastLedger <= ledger /\ MirroredBefore(lastLedger)
           /\ savedLedger \in Nat /\ faults \in Nat /\ crashes \in Nat /\ cut \subseteq DOMAIN log
BY DEF IInv, TypeOK, ChainTypeOK, ListenerTypeOK, LogKept, chainVars, Event

LEMMA BeforeStays ==
    ASSUME IInv, UNCHANGED chainVars, RowsKept, cut \subseteq cut', lastLedger' = lastLedger
    PROVE  MirroredBefore(lastLedger)'
<1>1. /\ ChainTypeOK /\ LogKept /\ log' = log
      /\ lastLedger \in Nat /\ lastLedger <= ledger /\ MirroredBefore(lastLedger)
  BY DEF IInv, TypeOK, ChainTypeOK, ListenerTypeOK, LogKept, chainVars
<1> QED
  BY <1>1, BeforeKept DEF MirroredBefore

\* A poll may end anywhere, as long as lastLedger stays.
LEMMA PollEnds ==
    ASSUME IInv, NEW p \in Polls, End(p), UNCHANGED <<chainVars, lastLedger, savedLedger, cut>>,
           RowsKept, faults' \in Nat, crashes' \in Nat
    PROVE  IInv'
<1>1. Idle \in Poll /\ polls' = [polls EXCEPT ![p] = Idle]
  BY DEF Idle, Poll, End
<1>2. PollInv(p)'
  BY <1>1, Given DEF PollInv, ListenerTypeOK, Idle
<1> QED
  BY <1>1, <1>2, Given, PollMoves, BeforeStays

\* How lastLedger moves: never past an event that is not mirrored.
LEMMA LastMoves ==
    ASSUME IInv, UNCHANGED chainVars, RowsKept, cut \subseteq cut',
           NEW m \in Nat, m <= ledger, lastLedger' = Larger(lastLedger, m),
           \A i \in DOMAIN log : Delayed(i) /\ log[i].ledger < m => Mirrored(i)'
    PROVE  lastLedger' \in Nat /\ lastLedger' <= ledger /\ MirroredBefore(lastLedger)'
<1>1. /\ ChainTypeOK /\ LogKept /\ log' = log
      /\ \A k \in DOMAIN log : log[k].ledger \in Nat
      /\ lastLedger \in Nat /\ lastLedger <= ledger /\ MirroredBefore(lastLedger)
  BY DEF IInv, TypeOK, ChainTypeOK, ListenerTypeOK, LogKept, chainVars, Event
<1>2. lastLedger' = lastLedger \/ lastLedger' = m
  BY DEF Larger
<1>3. \A i \in DOMAIN log' : Delayed(i)' /\ log'[i].ledger < lastLedger => Mirrored(i)'
  BY <1>1, BeforeKept
<1>4. \A i \in DOMAIN log' : Delayed(i)' /\ log'[i].ledger < m => Mirrored(i)'
  BY <1>1, MirrorsKept
<1> QED
  BY <1>1, <1>2, <1>3, <1>4 DEF MirroredBefore

\* A poll passes an event once this is mirrored.
LEMMA PollPasses ==
    ASSUME IInv, NEW p \in Polls, Pass(p), UNCHANGED <<chainVars, savedLedger, cut, crashes>>, RowsKept,
           polls[p].at \in {"reading", "looked"}, polls[p].next <= polls[p].last,
           \A k \in DOMAIN log : k = polls[p].next /\ Delayed(k) => Mirrored(k)'
    PROVE  IInv'
<1> DEFINE n == polls[p].next
           q == [polls[p] EXCEPT !.at = "reading", !.next = n + 1, !.known = FALSE]
<1>1. /\ n \in 1..(Len(log) + 1) /\ polls[p].last <= Len(log) /\ polls[p].latest <= ledger
      /\ \A k \in DOMAIN log : Delayed(k) /\ k < n => Mirrored(k)
      /\ \A k \in DOMAIN log : k > polls[p].last /\ log[k].ledger <= polls[p].latest => k \in cut
      /\ \A k \in DOMAIN log : k <= polls[p].last => log[k].ledger <= polls[p].latest
      /\ n \in Nat /\ polls[p].last \in Nat /\ polls[p].latest \in Nat /\ n \in DOMAIN log /\ n <= polls[p].last
  BY Given DEF PollInv, Poll
<1>2. /\ q \in Poll /\ polls' = [polls EXCEPT ![p] = q]
      /\ q.at = "reading" /\ q.next = n + 1 /\ q.last = polls[p].last /\ q.latest = polls[p].latest
  <2>1. polls[p] \in Poll /\ n + 1 \in Nat
    BY <1>1, Given
  <2>2. q \in Poll
    BY <2>1 DEF Poll
  <2>3. polls' = [polls EXCEPT ![p] = q]
    BY DEF Pass
  <2> QED
    BY <2>1, <2>2, <2>3 DEF Poll
<1>3. \A k \in DOMAIN log : Delayed(k)' /\ k < n + 1 => Mirrored(k)'
  BY <1>1, Given, MirrorsKept
<1>4. PollInv(p)'
  <2>1. polls'[p] = q /\ log' = log /\ ledger' = ledger /\ cut' = cut
    BY <1>2, Given DEF ListenerTypeOK
  <2>2. n + 1 \in 1..(Len(log) + 1)
    BY <1>1, Given
  <2> HIDE DEF q
  <2> QED
    BY <1>1, <1>2, <1>3, <2>1, <2>2 DEF PollInv
<1>5. lastLedger' \in Nat /\ lastLedger' <= ledger /\ MirroredBefore(lastLedger)'
  <2>1. log[n].ledger \in Nat /\ log[n].ledger <= ledger
    <3> HIDE DEF n
    <3>1. log[n].ledger \in Nat /\ ledger \in Nat
      BY <1>1, Given
    <3>2. log[n].ledger <= polls[p].latest
      BY <1>1
    <3> QED
      BY <1>1, <3>1, <3>2
  <2>2. \A i \in DOMAIN log : Delayed(i) /\ log[i].ledger < log[n].ledger => Mirrored(i)'
    <3>1. ASSUME NEW i \in DOMAIN log, Delayed(i), log[i].ledger < log[n].ledger PROVE Mirrored(i)
      <4>1. log[i].ledger \in Nat /\ i \in Nat /\ (n <= i => log[n].ledger <= log[i].ledger)
        BY <1>1, Given DEF LogInOrder
      <4>2. i < n
        BY <1>1, <2>1, <3>1, <4>1
      <4> QED
        BY <1>1, <3>1, <4>2
    <3> QED
      BY <3>1, Given, MirrorsKept
  <2> QED
    BY <2>1, <2>2, LastMoves DEF Pass, Current
<1> QED
  BY <1>2, <1>4, <1>5, Given, PollMoves DEF Pass

LEMMA FaultIsNat ==
    ASSUME faults \in Nat, Fault \/ UNCHANGED faults
    PROVE  faults' \in Nat
BY DEF Fault

LEMMA AskPreserves ==
    ASSUME IInv, NEW p \in Polls, Ask(p), UNCHANGED <<chainVars, crashes>>
    PROVE  IInv'
<1> DEFINE q == [Idle EXCEPT !.at = "asked", !.start = lastLedger]
<1>1. /\ polls' = [polls EXCEPT ![p] = q]
      /\ UNCHANGED <<rows, lastLedger, savedLedger, faults, cut>>
  BY DEF Ask
<1>2. q \in Poll /\ q.at = "asked" /\ q.start = lastLedger
  BY Given DEF Idle, Poll
<1>3. RowsKept
  BY <1>1, Given, SameRowsKept
<1>4. PollInv(p)'
  <2>1. polls'[p] = q /\ log' = log /\ ledger' = ledger
    BY <1>1, Given DEF ListenerTypeOK
  <2>2. \A i \in DOMAIN log' : Delayed(i)' /\ log'[i].ledger < lastLedger => Mirrored(i)'
    BY <1>1, <1>3, Given, BeforeKept
  <2> HIDE DEF q
  <2> QED
    BY <1>2, <2>1, <2>2, Given DEF PollInv, MirroredBefore
<1> QED
  BY <1>1, <1>2, <1>3, <1>4, Given, PollMoves, BeforeStays

LEMMA AnswerPreserves ==
    ASSUME IInv, NEW p \in Polls, Answer(p), UNCHANGED <<chainVars, crashes>>
    PROVE  IInv'
<1>1. PICK i, j \in 0..Len(log) :
        LET last == IF j < i + PageLimit THEN j ELSE i + PageLimit IN
        /\ Visible(i, j, polls[p].start)
        /\ polls' = [polls EXCEPT ![p] = [Idle EXCEPT !.at = "reading", !.next = i + 1,
                                                      !.last = last, !.latest = ledger]]
        /\ cut' = cut \union (last + 1)..j
  BY DEF Answer
<1> DEFINE last == IF j < i + PageLimit THEN j ELSE i + PageLimit
           q == [Idle EXCEPT !.at = "reading", !.next = i + 1, !.last = last, !.latest = ledger]
<1>2. /\ polls' = [polls EXCEPT ![p] = q] /\ cut' = cut \union (last + 1)..j
      /\ \A k \in DOMAIN log : (k > i <=> log[k].ledger >= polls[p].start) /\ (k <= j <=> log[k].ledger <= ledger)
  BY <1>1 DEF Visible
<1>3. /\ polls[p].at = "asked" /\ MirroredBefore(polls[p].start) /\ polls[p].start \in Nat
      /\ UNCHANGED <<rows, lastLedger, savedLedger, faults>>
  BY Given DEF Answer, At, PollInv, Poll
<1>4. i \in Nat /\ j \in Nat /\ last \in Nat /\ last <= j /\ j <= Len(log) /\ i <= Len(log)
  BY Given, ListenerAssumption
<1>5. q \in Poll /\ q.at = "reading" /\ q.next = i + 1 /\ q.last = last /\ q.latest = ledger
  <2> HIDE DEF last
  <2>1. i + 1 \in Nat /\ ledger \in Nat /\ last \in Nat
    BY <1>4, Given
  <2> QED
    BY <2>1 DEF Idle, Poll
<1>6. RowsKept /\ cut \subseteq cut'
  BY <1>2, <1>3, Given, SameRowsKept
<1>7. cut' \subseteq DOMAIN log
  BY <1>2, <1>4, Given
<1>8. PollInv(p)'
  <2>1. polls'[p] = q /\ log' = log /\ ledger' = ledger
    BY <1>2, Given DEF ListenerTypeOK
  <2>2. i + 1 \in 1..(Len(log) + 1) /\ last <= Len(log)
    BY <1>4, Given
  <2>3. \A k \in DOMAIN log : Delayed(k)' /\ k < i + 1 => Mirrored(k)'
    <3>1. ASSUME NEW k \in DOMAIN log, Delayed(k), k < i + 1 PROVE Mirrored(k)
      <4>1. ~(k > i)
        BY <1>4, <3>1, Given
      <4>2. log[k].ledger < polls[p].start
        BY <1>2, <1>3, <4>1, Given
      <4> QED
        BY <1>3, <3>1, <4>2 DEF MirroredBefore
    <3> QED
      BY <3>1, <1>6, Given, MirrorsKept
  <2>4. \A k \in DOMAIN log : k > last /\ log[k].ledger <= ledger => k \in cut'
    BY <1>2, <1>4, Given
  <2>5. \A k \in DOMAIN log : k <= last => log[k].ledger <= ledger
    BY <1>2, <1>4, Given
  <2> HIDE DEF q, last
  <2> QED
    BY <1>5, <2>1, <2>2, <2>3, <2>4, <2>5, Given DEF PollInv
<1> HIDE DEF q, last
<1> QED
  BY <1>2, <1>3, <1>5, <1>6, <1>7, <1>8, Given, PollMoves, BeforeStays

LEMMA LookPreserves ==
    ASSUME IInv, NEW p \in Polls, Look(p), UNCHANGED <<chainVars, crashes>>
    PROVE  IInv'
<1> DEFINE n == polls[p].next
           found == \E r \in Pending : rows[r].wallet = Current(p).wallet /\ rows[r].amount = Current(p).amount
           q == [polls[p] EXCEPT !.at = "looked", !.known = found]
<1>1. /\ polls[p].at = "reading" /\ n <= polls[p].last /\ log[n].kind = "delayed"
      /\ UNCHANGED <<rows, lastLedger, savedLedger, faults, cut>>
  BY DEF Look, Reading, At, Current
<1>2. /\ n \in 1..(Len(log) + 1) /\ polls[p].last <= Len(log) /\ polls[p].latest <= ledger
      /\ \A k \in DOMAIN log : Delayed(k) /\ k < n => Mirrored(k)
      /\ \A k \in DOMAIN log : k > polls[p].last /\ log[k].ledger <= polls[p].latest => k \in cut
      /\ \A k \in DOMAIN log : k <= polls[p].last => log[k].ledger <= polls[p].latest
      /\ n \in Nat /\ polls[p].last \in Nat /\ polls[p].latest \in Nat
  BY <1>1, Given DEF PollInv, Poll
<1>3. polls' = [polls EXCEPT ![p] = q]
  BY Given DEF Look, ListenerTypeOK
<1>4. /\ q \in Poll /\ q.at = "looked" /\ q.next = n /\ q.last = polls[p].last
      /\ q.latest = polls[p].latest /\ q.known = found
  BY Given DEF Poll
<1>5. RowsKept
  BY <1>1, Given, SameRowsKept
<1>6. \A k \in DOMAIN log : k = n => Delayed(k) /\ (found => Recorded(k))
  BY <1>1 DEF Delayed, Recorded, Pending, Current
<1>7. PollInv(p)'
  <2>1. polls'[p] = q /\ log' = log /\ ledger' = ledger /\ cut' = cut
    BY <1>1, <1>3, Given DEF ListenerTypeOK
  <2>2. \A k \in DOMAIN log : /\ Delayed(k)' <=> Delayed(k)
                              /\ Recorded(k) /\ Delayed(k) => Recorded(k)'
                              /\ Mirrored(k) => Mirrored(k)'
    BY <1>1, <1>5, Given, MirrorsKept
  <2> HIDE DEF q, found
  <2> QED
    BY <1>1, <1>2, <1>4, <1>6, <2>1, <2>2 DEF PollInv
<1> HIDE DEF q
<1> QED
  BY <1>1, <1>3, <1>4, <1>5, <1>7, Given, PollMoves, BeforeStays

LEMMA RecordPreserves ==
    ASSUME IInv, NEW p \in Polls, Record(p), UNCHANGED <<chainVars, crashes>>
    PROVE  IInv'
<1> DEFINE n == polls[p].next
<1>1. /\ polls[p].at = "looked" /\ UNCHANGED <<savedLedger, cut>>
      /\ rows' = IF polls[p].known \/ (Len(rows) >= MaxRows /\ Recorded(n))
                 THEN rows ELSE Append(rows, NewRow(Current(p).wallet, Current(p).amount))
  BY DEF Record, At
<1>2. /\ n <= polls[p].last /\ n \in DOMAIN log
      /\ Delayed(n) /\ (polls[p].known => Recorded(n))
  BY <1>1, Given DEF PollInv, Poll
<1>3. log[n].wallet \in Wallets /\ log[n].amount \in Amounts
  BY <1>2, Given DEF Delayed, Event
<1>4. CASE rows' = rows /\ Recorded(n)
  <2>1. RowsKept
    BY <1>4, Given, SameRowsKept
  <2>2. \A k \in DOMAIN log : k = n /\ Delayed(k) => Mirrored(k)
    BY <1>4 DEF Mirrored
  <2>3. \A k \in DOMAIN log : k = n /\ Delayed(k) => Mirrored(k)'
    BY <1>1, <2>1, <2>2, Given, MirrorsKept
  <2> QED
    BY <1>1, <1>2, <2>1, <2>3, Given, PollPasses, PollEnds, FaultIsNat DEF Record, PublishFails
<1>5. CASE rows' = Append(rows, NewRow(log[n].wallet, log[n].amount))
  <2>1. RowsKept
    BY <1>3, <1>5, Given, AppendKeepsRows
  <2>2. \E r \in DOMAIN rows' : rows'[r].wallet = log[n].wallet /\ rows'[r].amount = log[n].amount
    <3>1. Len(rows) + 1 \in DOMAIN rows' /\ rows'[Len(rows) + 1] = NewRow(log[n].wallet, log[n].amount)
      BY <1>5, Given DEF RowsTypeOK
    <3> QED
      BY <3>1 DEF NewRow
  <2>3. \A k \in DOMAIN log : k = n /\ Delayed(k) => Mirrored(k)'
    <3>1. log' = log
      BY Given
    <3> QED
      BY <2>2, <3>1 DEF Mirrored, Delayed, Recorded
  <2> QED
    BY <1>1, <1>2, <2>1, <2>3, Given, PollPasses, PollEnds, FaultIsNat DEF Record, PublishFails
<1> QED
  BY <1>1, <1>2, <1>4, <1>5 DEF Current

\* The other events have nothing to mirror.
LEMMA OtherEventPasses ==
    ASSUME IInv, NEW p \in Polls, UNCHANGED <<chainVars, savedLedger, cut, crashes>>, RowsKept,
           Reading(p, {"instant", "claimed", "other"}), Pass(p) \/ PublishFails(p)
    PROVE  IInv'
<1>1. /\ polls[p].at = "reading" /\ polls[p].next <= polls[p].last
      /\ log[polls[p].next].kind # "delayed"
  BY DEF Reading, At, Current
<1>2. \A k \in DOMAIN log : k = polls[p].next /\ Delayed(k) => Mirrored(k)'
  BY <1>1 DEF Delayed
<1> QED
  BY <1>1, <1>2, Given, PollPasses, PollEnds, FaultIsNat DEF PublishFails

LEMMA CompletePreserves ==
    ASSUME IInv, NEW p \in Polls, Complete(p) \/ CloseClaimed(p) \/ Skip(p), UNCHANGED <<chainVars, crashes>>
    PROVE  IInv'
<1>1. /\ Reading(p, {"instant", "claimed", "other"})
      /\ Pass(p) \/ PublishFails(p)
      /\ UNCHANGED <<savedLedger, cut>>
  BY DEF Complete, CloseClaimed, Skip, Reading
<1>2. RowsKept
  <2>1. CASE Skip(p)
    BY <2>1, Given, SameRowsKept DEF Skip
  <2>2. CASE Complete(p) \/ CloseClaimed(p)
    <3>1. /\ polls[p].next \in DOMAIN log /\ log[polls[p].next].kind \in {"instant", "claimed"}
      BY <2>2, Given DEF Complete, CloseClaimed, Reading, At, Current, PollInv, Poll
    <3>2. log[polls[p].next].wallet \in Wallets
      BY <3>1, Given DEF Event
    <3> QED
      BY <2>2, <3>2, Given, SetPendingKeepsRows DEF Complete, CloseClaimed, Current, Status
  <2> QED
    BY <2>1, <2>2
<1> QED
  BY <1>1, <1>2, OtherEventPasses

LEMMA FinishPreserves ==
    ASSUME IInv, NEW p \in Polls, Finish(p), UNCHANGED <<chainVars, crashes>>
    PROVE  IInv'
<1>1. /\ polls[p].at = "reading" /\ polls[p].next > polls[p].last
      /\ lastLedger' = Larger(lastLedger, polls[p].latest)
      /\ savedLedger' \in {savedLedger, lastLedger'}
      /\ Fault \/ UNCHANGED faults
      /\ polls' = [polls EXCEPT ![p] = Idle]
      /\ UNCHANGED <<rows, cut>>
  BY DEF Finish, At, End
<1>2. RowsKept
  BY <1>1, Given, SameRowsKept
<1>3. polls[p].latest \in Nat /\ polls[p].latest <= ledger
  BY <1>1, Given DEF PollInv, Poll
<1>4. \A i \in DOMAIN log : Delayed(i) /\ log[i].ledger < polls[p].latest => Mirrored(i)'
  <2>1. ASSUME NEW i \in DOMAIN log, Delayed(i), log[i].ledger < polls[p].latest PROVE Mirrored(i)
    <3>1. /\ polls[p].next \in Nat /\ polls[p].last \in Nat
          /\ Delayed(i) /\ i < polls[p].next => Mirrored(i)
          /\ i > polls[p].last /\ log[i].ledger <= polls[p].latest => i \in cut
      BY <1>1, Given DEF PollInv, Poll
    <3>2. i \in Nat /\ log[i].ledger \in Nat
      BY Given
    <3>3. CASE i < polls[p].next
      BY <2>1, <3>1, <3>3
    <3>4. CASE i > polls[p].last
      BY <1>3, <2>1, <3>1, <3>2, <3>4 DEF Mirrored
    <3> QED
      BY <1>1, <3>1, <3>2, <3>3, <3>4
  <2> QED
    BY <2>1, <1>1, <1>2, Given, MirrorsKept
<1>5. lastLedger' \in Nat /\ lastLedger' <= ledger /\ MirroredBefore(lastLedger)'
  BY <1>1, <1>2, <1>3, <1>4, LastMoves
<1>6. Idle \in Poll
  BY DEF Idle, Poll
<1>7. PollInv(p)'
  BY <1>1, Given DEF PollInv, ListenerTypeOK, Idle
<1> QED
  BY <1>1, <1>2, <1>5, <1>6, <1>7, Given, PollMoves, FaultIsNat

LEMMA PollEndsPreserve ==
    ASSUME IInv, NEW p \in Polls, Choke(p) \/ Refuse(p) \/ CallFails(p), UNCHANGED <<chainVars, crashes>>
    PROVE  IInv'
<1>1. End(p) /\ UNCHANGED <<rows, lastLedger, savedLedger, cut>> /\ (Fault \/ UNCHANGED faults)
  BY DEF Choke, Refuse, CallFails
<1> QED
  BY <1>1, Given, SameRowsKept, PollEnds, FaultIsNat

LEMMA RestartPreserves ==
    ASSUME IInv, RestartListener, UNCHANGED chainVars
    PROVE  IInv'
<1>1. /\ polls' = [p \in Polls |-> Idle] /\ lastLedger' = savedLedger /\ crashes' = crashes + 1
      /\ UNCHANGED <<rows, savedLedger, faults, cut>>
      /\ ledger' = ledger /\ log' = log /\ tickets' = tickets
  BY DEF RestartListener, chainVars
<1>2. TypeOK /\ LogInOrder /\ savedLedger <= ledger /\ MirroredBefore(savedLedger) /\ savedLedger \in Nat
  BY DEF IInv, TypeOK, ListenerTypeOK
<1>3. TypeOK'
  <2>1. Idle \in Poll
    BY DEF Idle, Poll
  <2> QED
    BY <1>1, <1>2, <2>1 DEF TypeOK, ChainTypeOK, RowsTypeOK, ListenerTypeOK
<1>4. LogInOrder'
  BY <1>1, <1>2 DEF LogInOrder
<1>5. \A i \in DOMAIN log' : Delayed(i)' /\ log'[i].ledger < savedLedger => Mirrored(i)'
  <2>1. RowsKept /\ LogKept /\ cut \subseteq cut'
    BY <1>1, <1>2, SameRowsKept DEF LogKept, TypeOK, ChainTypeOK
  <2> QED
    BY <1>2, <2>1, BeforeKept DEF TypeOK
<1>6. MirroredBefore(lastLedger)' /\ MirroredBefore(savedLedger)'
  BY <1>1, <1>5 DEF MirroredBefore
<1>7. \A p \in Polls : PollInv(p)'
  BY <1>1 DEF PollInv, Idle
<1> QED
  BY <1>1, <1>2, <1>3, <1>4, <1>6, <1>7 DEF IInv

LEMMA ListenerPreserves ==
    ASSUME IInv, ListenerStep, UNCHANGED chainVars
    PROVE  IInv'
<1>1. ASSUME NEW p \in Polls, PollStep(p) \/ Refuse(p) \/ CallFails(p), UNCHANGED crashes PROVE IInv'
  <2>1. UNCHANGED <<chainVars, crashes>>
    BY <1>1
  <2> QED
    BY <1>1, <2>1, AskPreserves, AnswerPreserves, LookPreserves, RecordPreserves, CompletePreserves,
       FinishPreserves, PollEndsPreserve
       DEF PollStep
<1> QED
  BY <1>1, RestartPreserves DEF ListenerStep
-----------------------------------------------------------------------------
(* The contract and the routes. *)

LEMMA PublishKeepsLog ==
    ASSUME ChainTypeOK, NEW e \in Event, e.ledger = ledger + 1, Publish(e),
           ledger' = ledger, tickets' \in Seq(Ticket)
    PROVE  LogKept
BY DEF Publish, LogKept, ChainTypeOK

LEMMA ChainKeepsLog ==
    ASSUME ChainTypeOK, ChainNext
    PROVE  LogKept
<1>1. ASSUME NEW kind \in {"delayed", "instant", "claimed"}, NEW w \in Wallets, NEW a \in Amounts
      PROVE  WalletEvent(kind, w, a) \in Event /\ WalletEvent(kind, w, a).ledger = ledger + 1
  BY <1>1 DEF WalletEvent, Event, ChainTypeOK
<1>2. ASSUME NEW w \in Wallets, NEW a \in Amounts, RequestDelayed(w, a) PROVE LogKept
  <2>1. tickets' \in Seq(Ticket)
    BY <1>2 DEF RequestDelayed, ChainTypeOK, Ticket
  <2> QED
    BY <1>1, <1>2, <2>1, PublishKeepsLog DEF RequestDelayed
<1>3. ASSUME NEW w \in Wallets, NEW a \in Amounts, RequestInstant(w, a) PROVE LogKept
  BY <1>1, <1>3, PublishKeepsLog DEF RequestInstant, ChainTypeOK
<1>4. ASSUME NEW w \in Wallets, NEW id \in 0..Len(tickets), Claim(w, id) PROVE LogKept
  <2>1. id + 1 \in DOMAIN tickets /\ tickets[id + 1] \in Ticket
    BY <1>4 DEF Claim, Claimable, ChainTypeOK
  <2>2. tickets[id + 1].amount \in Amounts /\ [tickets[id + 1] EXCEPT !.open = FALSE] \in Ticket
    BY <2>1 DEF Ticket
  <2>3. tickets' \in Seq(Ticket)
    BY <1>4, <2>1, <2>2, ExceptSeq DEF Claim, ChainTypeOK
  <2> QED
    BY <1>1, <1>4, <2>2, <2>3, PublishKeepsLog DEF Claim
<1>5. ASSUME NEW kind \in PlainKinds, PublishPlain(kind) PROVE LogKept
  <2>1. [ledger |-> ledger + 1, kind |-> kind] \in Event
    BY EventsAssumption DEF Event, ChainTypeOK
  <2> QED
    BY <1>5, <2>1, PublishKeepsLog DEF PublishPlain, ChainTypeOK
<1>6. CASE CloseLedger
  BY <1>6 DEF CloseLedger, LogKept, ChainTypeOK
<1> QED
  BY <1>2, <1>3, <1>4, <1>5, <1>6 DEF ChainNext

LEMMA RouteKeepsRows ==
    ASSUME RowsTypeOK, Route
    PROVE  RowsKept
BY AppendKeepsRows, SetStatusKeepsRows DEF Route, Unstake, MarkClaimed, Status

-----------------------------------------------------------------------------
(* The theorem. *)

LEMMA InitEstablishes == Init => IInv
<1> SUFFICES ASSUME Init PROVE IInv
  OBVIOUS
<1>1. /\ ledger = 1 /\ log = <<>> /\ tickets = <<>> /\ rows = <<>>
      /\ lastLedger = SavedAtStart /\ savedLedger = SavedAtStart
      /\ polls = [p \in Polls |-> Idle] /\ faults = 0 /\ crashes = 0 /\ cut = {}
  BY DEF Init, ChainInit, ListenerInit
<1>2. TypeOK
  BY <1>1, ListenerAssumption DEF TypeOK, ChainTypeOK, RowsTypeOK, ListenerTypeOK, Idle, Poll
<1>3. \A p \in Polls : PollInv(p)
  BY <1>1 DEF PollInv, Idle
<1> QED
  BY <1>1, <1>2, <1>3, ListenerAssumption DEF IInv, LogInOrder, MirroredBefore

LEMMA NextPreserves == IInv /\ [Next]_vars => IInv'
<1> SUFFICES ASSUME IInv, [Next]_vars PROVE IInv'
  OBVIOUS
<1>1. /\ ChainTypeOK /\ RowsTypeOK /\ faults \in Nat /\ crashes \in Nat
  BY DEF IInv, TypeOK, ListenerTypeOK
<1>2. ASSUME ChainNext, UNCHANGED <<rows, listenerVars, faults, crashes>> PROVE IInv'
  BY <1>1, <1>2, ChainKeepsLog, SameRowsKept, OthersPreserve
<1>3. ASSUME Route, UNCHANGED <<chainVars, listenerVars, faults, crashes>> PROVE IInv'
  <2>1. LogKept
    BY <1>1, <1>3 DEF LogKept, chainVars, ChainTypeOK
  <2> QED
    BY <1>1, <1>3, <2>1, RouteKeepsRows, OthersPreserve
<1>4. ASSUME ListenerStep, UNCHANGED chainVars PROVE IInv'
  BY <1>4, ListenerPreserves
<1>5. CASE UNCHANGED vars
  <2>1. LogKept /\ RowsKept
    BY <1>1, <1>5, SameRowsKept DEF vars, LogKept, chainVars, ChainTypeOK
  <2> QED
    BY <1>1, <1>5, <2>1, OthersPreserve DEF vars
<1> QED
  BY <1>2, <1>3, <1>4, <1>5 DEF Next

LEMMA InvariantImplies == IInv => NothingLeftBehind
<1> SUFFICES ASSUME IInv, NEW i \in DOMAIN log, Delayed(i), log[i].ledger < Larger(lastLedger, savedLedger)
             PROVE  Mirrored(i)
  BY DEF NothingLeftBehind
<1> QED
  BY DEF IInv, MirroredBefore, Larger

\* Whatever polls overlap, fail in the middle or are forgotten by a restart,
\* the listener (event-listener/index.ts) never moves past the ledger of a
\* delayed withdrawal that has no row, except one that a full page cut off.
THEOREM NothingIsLeftBehind == Spec => []NothingLeftBehind
<1>1. Init => IInv
  BY InitEstablishes
<1>2. IInv /\ [Next]_vars => IInv'
  BY NextPreserves
<1>3. IInv => NothingLeftBehind
  BY InvariantImplies
<1> QED
  BY <1>1, <1>2, <1>3, PTL DEF Spec

-----------------------------------------------------------------------------
(* The listener beside the queue processor. *)

\* The row in hand exists while something is being done for it.
RowInHand == step \in {"send", "wait", "revert"} => current # 0

PipelineInv == IInv /\ ProcessorTypeOK /\ RowInHand

\* What ProcessorTypeOK says of one row number or one set of them outlives a change of the table.
LEMMA IdsKept ==
    ASSUME RowsTypeOK, RowsKept
    PROVE  /\ DOMAIN rows \subseteq DOMAIN rows' /\ 0..Len(rows) \subseteq 0..Len(rows')
           /\ Len(rows) \in Nat /\ DOMAIN rows = 1..Len(rows)
<1>1. Len(rows) \in Nat /\ DOMAIN rows = 1..Len(rows) /\ Len(rows') \in Nat /\ DOMAIN rows' = 1..Len(rows')
  BY DEF RowsTypeOK, RowsKept
<1>2. DOMAIN rows \subseteq DOMAIN rows'
  BY DEF RowsKept
<1>3. Len(rows) <= Len(rows')
  BY <1>1, <1>2
<1> QED
  BY <1>1, <1>2, <1>3

LEMMA ListenerKeepsRows ==
    ASSUME IInv, ListenerStep, UNCHANGED chainVars
    PROVE  RowsKept
<1>1. CASE RestartListener
  BY <1>1, SameRowsKept DEF IInv, TypeOK, RestartListener
<1>2. ASSUME NEW p \in Polls, PollStep(p) \/ Refuse(p) \/ CallFails(p) PROVE RowsKept
  <2>1. RowsTypeOK
    BY Given
  <2>2. CASE \/ Ask(p) \/ Answer(p) \/ Look(p) \/ Skip(p) \/ Choke(p) \/ Finish(p) \/ Refuse(p) \/ CallFails(p)
    BY <2>1, <2>2, SameRowsKept DEF Ask, Answer, Look, Skip, Choke, Finish, Refuse, CallFails
  <2>3. CASE Complete(p) \/ CloseClaimed(p)
    <3>1. /\ polls[p].next \in DOMAIN log /\ log[polls[p].next].kind \in {"instant", "claimed"}
      BY <2>3, Given DEF Complete, CloseClaimed, Reading, At, Current, PollInv, Poll
    <3>2. log[polls[p].next].wallet \in Wallets
      BY <3>1, Given DEF Event
    <3> QED
      BY <2>1, <2>3, <3>2, SetPendingKeepsRows DEF Complete, CloseClaimed, Current, Status
  <2>4. CASE Record(p)
    <3>1. polls[p].next \in DOMAIN log /\ Delayed(polls[p].next)
      BY <2>4, Given DEF Record, At, PollInv, Poll
    <3>2. log[polls[p].next].wallet \in Wallets /\ log[polls[p].next].amount \in Amounts
      BY <3>1, Given DEF Delayed, Event
    <3> QED
      BY <2>1, <2>4, <3>2, AppendKeepsRows, SameRowsKept DEF Record, Current
  <2> QED
    BY <1>2, <2>2, <2>3, <2>4 DEF PollStep
<1> QED
  BY <1>1, <1>2 DEF ListenerStep

\* Others than the processor leave its variables alone.
LEMMA ProcessorUntouched ==
    ASSUME RowsTypeOK, RowsKept, ProcessorTypeOK, RowInHand, UNCHANGED processorVars
    PROVE  ProcessorTypeOK' /\ RowInHand'
BY IdsKept DEF ProcessorTypeOK, RowInHand, processorVars

LEMMA SentIsClaim ==
    ASSUME RowsTypeOK, ProcessorTypeOK, RowInHand, step = "wait"
    PROVE  Sent \in ClaimTx
<1>1. current \in DOMAIN rows /\ current \in Nat
  BY DEF RowsTypeOK, ProcessorTypeOK, RowInHand
<1>2. rows[current] \in Row
  BY <1>1 DEF RowsTypeOK
<1> QED
  BY <1>1, <1>2 DEF Row, Sent, ClaimTx

\* A claim, whoever it reaches, appends one event.
LEMMA IncludedKeepsLog ==
    ASSUME ChainTypeOK, NEW tx \in ClaimTx, Included(tx)
    PROVE  LogKept
<1>1. tx.id + 1 \in DOMAIN tickets /\ tx.wallet \in Wallets /\ tx.id \in Nat
  BY DEF Included, Claim, Claimable, ClaimTx
<1>2. tx.id \in 0..Len(tickets)
  BY <1>1 DEF ChainTypeOK
<1> QED
  BY <1>1, <1>2, ChainKeepsLog DEF Included, ChainNext

\* What a step of the processor, or the fate of its claims, does to the rest.
Beside == LogKept /\ RowsKept /\ faults' \in Nat /\ ProcessorTypeOK' /\ RowInHand'

LEMMA ChainStill ==
    ASSUME ChainTypeOK, UNCHANGED chainVars
    PROVE  LogKept
BY DEF LogKept, chainVars, ChainTypeOK

LEMMA MarkBeside ==
    ASSUME PipelineInv, Mark
    PROVE  Beside
<1>1. ChainTypeOK /\ RowsTypeOK /\ ProcessorTypeOK /\ faults \in Nat
  BY DEF PipelineInv, IInv, TypeOK, ListenerTypeOK
<1>2. PICK r \in listed :
        /\ current' = r /\ listed' = listed \ {r}
        /\ \/ SetStatus(r, "processing") /\ step' = "send" /\ UNCHANGED faults
           \/ UNCHANGED rows /\ step' = "revert" /\ Fault
  BY DEF Mark
<1>3. UNCHANGED <<chainVars, answer, orphans>>
  BY DEF Mark
<1>4. r \in DOMAIN rows
  BY <1>1 DEF ProcessorTypeOK
<1>5. RowsKept
  BY <1>1, <1>2, <1>4, SetStatusKeepsRows, SameRowsKept DEF Status
<1>6. LogKept /\ faults' \in Nat
  BY <1>1, <1>2, <1>3, ChainStill, FaultIsNat
<1>7. ProcessorTypeOK' /\ RowInHand'
  BY <1>1, <1>2, <1>3, <1>4, <1>5, IdsKept DEF ProcessorTypeOK, RowInHand, Steps
<1> QED
  BY <1>5, <1>6, <1>7 DEF Beside

LEMMA RevertBeside ==
    ASSUME PipelineInv, Revert
    PROVE  Beside
<1>1. ChainTypeOK /\ RowsTypeOK /\ ProcessorTypeOK /\ faults \in Nat /\ RowInHand
  BY DEF PipelineInv, IInv, TypeOK, ListenerTypeOK
<1>2. /\ current \in DOMAIN rows
      /\ UNCHANGED <<chainVars, orphans>>
      /\ step' \in {"idle", "loop"} /\ listed' \in {listed, {}} /\ current' = 0 /\ answer' = "none"
      /\ Fault \/ UNCHANGED faults
      /\ \/ SetStatus(current, "pending") \/ SetStatus(current, "failed")
         \/ UNCHANGED rows
  BY <1>1, IdsKept DEF Revert, Continue, RowInHand, ProcessorTypeOK, RowsTypeOK
<1>3. RowsKept
  BY <1>1, <1>2, SetStatusKeepsRows, SameRowsKept DEF Status
<1>4. LogKept /\ faults' \in Nat
  BY <1>1, <1>2, ChainStill, FaultIsNat
<1>5. ProcessorTypeOK' /\ RowInHand'
  BY <1>1, <1>2, <1>3, IdsKept DEF ProcessorTypeOK, RowInHand, Steps
<1> QED
  BY <1>3, <1>4, <1>5 DEF Beside

\* Listing, sending and giving up write nothing to the table.
LEMMA QuietBeside ==
    ASSUME PipelineInv, List \/ Send \/ NotSent \/ GiveUp \/ DecodeThrows
    PROVE  Beside
<1>1. ChainTypeOK /\ RowsTypeOK /\ ProcessorTypeOK /\ faults \in Nat /\ RowInHand
  BY DEF PipelineInv, IInv, TypeOK, ListenerTypeOK
<1>2. /\ UNCHANGED <<chainVars, rows, faults, current, answer>>
      /\ listed' \subseteq DOMAIN rows
      /\ orphans' \subseteq orphans \union {Sent}
      /\ step = "wait" \/ orphans' = orphans
      /\ step' = "loop" \/ (step' \in {"wait", "revert"} /\ step \in {"send", "wait"})
  BY <1>1 DEF List, Send, NotSent, GiveUp, DecodeThrows, ProcessorTypeOK, Pending
<1>3. RowsKept
  BY <1>1, <1>2, SameRowsKept
<1>4. LogKept
  BY <1>1, <1>2, ChainStill
<1>5. orphans' \subseteq ClaimTx
  BY <1>1, <1>2, SentIsClaim DEF ProcessorTypeOK
<1>6. ProcessorTypeOK' /\ RowInHand'
  BY <1>1, <1>2, <1>5 DEF ProcessorTypeOK, RowInHand, Steps
<1> QED
  BY <1>1, <1>2, <1>3, <1>4, <1>6 DEF Beside

LEMMA IncludeBeside ==
    ASSUME PipelineInv, Include \/ \E tx \in orphans : IncludeOrphan(tx)
    PROVE  Beside
<1>1. ChainTypeOK /\ RowsTypeOK /\ ProcessorTypeOK /\ faults \in Nat /\ RowInHand
  BY DEF PipelineInv, IInv, TypeOK, ListenerTypeOK
<1>2. LogKept
  <2>1. CASE Include
    BY <1>1, <2>1, SentIsClaim, IncludedKeepsLog, ChainStill DEF Include
  <2>2. ASSUME NEW tx \in orphans, IncludeOrphan(tx) PROVE LogKept
    BY <1>1, <2>2, IncludedKeepsLog, ChainStill DEF IncludeOrphan, ProcessorTypeOK
  <2> QED
    BY <2>1, <2>2
<1>3. /\ UNCHANGED <<rows, step, listed, current, faults>> /\ orphans' \subseteq orphans
      /\ answer' \in {answer, "success", "failed"}
  BY DEF Include, IncludeOrphan
<1>4. RowsKept
  BY <1>1, <1>3, SameRowsKept
<1>5. ProcessorTypeOK' /\ RowInHand'
  BY <1>1, <1>3 DEF ProcessorTypeOK, RowInHand
<1> QED
  BY <1>1, <1>2, <1>3, <1>4, <1>5 DEF Beside

LEMMA RestartKeepsProcessor ==
    ASSUME PipelineInv, Restart
    PROVE  PipelineInv'
<1>1. RowsTypeOK /\ ProcessorTypeOK /\ RowInHand /\ IInv
  BY DEF PipelineInv, IInv, TypeOK
<1>2. rows' = rows /\ IInv'
  BY <1>1, RestartPreserves DEF Restart, RestartListener
<1>3. /\ step' = "idle" /\ listed' = {} /\ current' = 0 /\ answer' = "none"
      /\ orphans' \subseteq orphans \union {Sent} /\ (step = "wait" \/ orphans' = orphans)
  BY DEF Restart, RestartProcessor
<1>4. orphans' \subseteq ClaimTx
  BY <1>1, <1>3, SentIsClaim DEF ProcessorTypeOK
<1>5. ProcessorTypeOK' /\ RowInHand'
  BY <1>1, <1>2, <1>3, <1>4, IdsKept, SameRowsKept DEF ProcessorTypeOK, RowInHand, Steps
<1> QED
  BY <1>2, <1>5 DEF PipelineInv

-----------------------------------------------------------------------------
(* The theorems. *)

LEMMA PipelinePreserves == PipelineInv /\ [PipelineNext]_pipelineVars => PipelineInv'
<1> SUFFICES ASSUME PipelineInv, [PipelineNext]_pipelineVars PROVE PipelineInv'
  OBVIOUS
<1>1. /\ IInv /\ ChainTypeOK /\ RowsTypeOK /\ ProcessorTypeOK /\ RowInHand
      /\ faults \in Nat /\ crashes \in Nat
  BY DEF PipelineInv, IInv, TypeOK, ListenerTypeOK
<1>2. ASSUME ChainNext, UNCHANGED <<rows, listenerVars, faults, crashes, processorVars>> PROVE PipelineInv'
  <2>1. RowsKept /\ LogKept
    BY <1>1, <1>2, ChainKeepsLog, SameRowsKept
  <2> QED
    BY <1>1, <1>2, <2>1, OthersPreserve, ProcessorUntouched DEF PipelineInv
<1>3. ASSUME Route, UNCHANGED <<chainVars, listenerVars, faults, crashes, processorVars>> PROVE PipelineInv'
  <2>1. RowsKept /\ LogKept
    BY <1>1, <1>3, RouteKeepsRows, ChainStill
  <2> QED
    BY <1>1, <1>3, <2>1, OthersPreserve, ProcessorUntouched DEF PipelineInv
<1>4. ASSUME \E p \in Polls : PollStep(p) \/ Refuse(p) \/ CallFails(p),
             UNCHANGED <<chainVars, crashes, processorVars>>
      PROVE  PipelineInv'
  <2>1. ListenerStep
    BY <1>4 DEF ListenerStep
  <2> QED
    BY <1>1, <1>4, <2>1, ListenerPreserves, ListenerKeepsRows, ProcessorUntouched DEF PipelineInv
<1>5. ASSUME ProcessorStep \/ Include \/ \E tx \in orphans : IncludeOrphan(tx),
             UNCHANGED <<listenerVars, crashes>>
      PROVE  PipelineInv'
  <2>1. Beside
    BY <1>5, MarkBeside, RevertBeside, QuietBeside, IncludeBeside DEF ProcessorStep
  <2> QED
    BY <1>1, <1>5, <2>1, OthersPreserve DEF PipelineInv, Beside
<1>6. CASE Restart
  BY <1>6, RestartKeepsProcessor
<1>7. CASE UNCHANGED pipelineVars
  <2>1. UNCHANGED <<chainVars, rows, listenerVars, faults, crashes, processorVars>>
    BY <1>7 DEF pipelineVars, vars
  <2>2. RowsKept /\ LogKept
    BY <1>1, <2>1, SameRowsKept, ChainStill
  <2> QED
    BY <1>1, <2>1, <2>2, OthersPreserve, ProcessorUntouched DEF PipelineInv
<1> QED
  BY <1>2, <1>3, <1>4, <1>5, <1>6, <1>7 DEF PipelineNext

LEMMA PipelineInitEstablishes == PipelineInit => PipelineInv
BY InitEstablishes DEF PipelineInit, PipelineInv, ProcessorInit, ProcessorTypeOK, RowInHand, Steps, IInv, TypeOK,
   RowsTypeOK

\* The queue processor and its claims cannot make the listener leave a delayed
\* withdrawal behind: the composed backend keeps the listener's promise.
THEOREM PipelineLeavesNothing == PipelineSpec => []NothingLeftBehind
<1>1. PipelineInv => NothingLeftBehind
  BY InvariantImplies DEF PipelineInv
<1> QED
  BY <1>1, PipelineInitEstablishes, PipelinePreserves, PTL DEF PipelineSpec

\* Every variable of the composed backend keeps its type; the rows that the
\* processor holds across its awaits exist.
THEOREM PipelineTypes == PipelineSpec => []PipelineTypeOK
<1>1. PipelineInv => PipelineTypeOK
  BY DEF PipelineInv, IInv, PipelineTypeOK
<1> QED
  BY <1>1, PipelineInitEstablishes, PipelinePreserves, PTL DEF PipelineSpec

-----------------------------------------------------------------------------
(* Rows in processing. *)

\* Rows in processing that nothing is being done for.
Stranded == Processing \ {current}

\* The inductive invariant: each was left there by a failure or a restart.  Between two
\* rows the processor has none in hand.
StrandedByFaults ==
    /\ step \in {"idle", "loop"} => current = 0
    /\ Cardinality(Stranded) <= crashes + faults

LEMMA FewRows ==
    ASSUME RowsTypeOK
    PROVE  IsFiniteSet(Processing) /\ IsFiniteSet(Stranded) /\ 0 \notin Processing
<1>1. DOMAIN rows = 1..Len(rows) /\ Len(rows) \in Nat
  BY DEF RowsTypeOK
<1>2. IsFiniteSet(DOMAIN rows)
  BY <1>1, FS_Interval
<1>3. Processing \subseteq DOMAIN rows /\ Stranded \subseteq DOMAIN rows
  BY DEF Processing, Stranded
<1> QED
  BY <1>1, <1>2, <1>3, FS_Subset

LEMMA OneMore ==
    ASSUME NEW S, IsFiniteSet(S), NEW x
    PROVE  /\ IsFiniteSet(S \cup {x}) /\ Cardinality(S) \in Nat /\ Cardinality(S \cup {x}) \in Nat
           /\ Cardinality(S \cup {x}) <= Cardinality(S) + 1
<1> DEFINE T == S \cup {x}
           m == Cardinality(S)
           n == Cardinality(T)
<1>1. IsFiniteSet(T) /\ n = IF x \in S THEN m ELSE m + 1
  BY FS_AddElement
<1>2. m \in Nat
  BY FS_CardinalityType
<1> HIDE DEF m, n, T
<1>3. n \in Nat /\ n <= m + 1
  BY <1>1, <1>2
<1> QED
  BY <1>1, <1>2, <1>3 DEF m, n, T

\* A step that strands nothing more, and one that strands the row in hand at the cost of
\* a failure or a restart.
LEMMA StrandsNone ==
    ASSUME RowsTypeOK, crashes \in Nat, faults \in Nat, crashes' \in Nat, faults' \in Nat,
           StrandedByFaults, Stranded' \subseteq Stranded, crashes' >= crashes, faults' >= faults
    PROVE  Cardinality(Stranded') <= crashes' + faults'
<1>1. /\ Cardinality(Stranded) \in Nat /\ Cardinality(Stranded') \in Nat
      /\ Cardinality(Stranded') <= Cardinality(Stranded)
  <2>1. IsFiniteSet(Stranded)
    BY FewRows
  <2>2. IsFiniteSet(Stranded') /\ Cardinality(Stranded') <= Cardinality(Stranded)
    BY <2>1, FS_Subset
  <2> QED
    BY <2>1, <2>2, FS_CardinalityType
<1> QED
  BY <1>1 DEF StrandedByFaults

LEMMA OneMoreIsAllowed ==
    ASSUME NEW before \in Nat, NEW most \in Nat, NEW after \in Nat,
           NEW c \in Nat, NEW f \in Nat, NEW c2 \in Nat, NEW f2 \in Nat,
           most <= before + 1, after <= most, before <= c + f,
           (c2 = c + 1 /\ f2 = f) \/ (c2 = c /\ f2 = f + 1)
    PROVE  after <= c2 + f2
OBVIOUS

LEMMA StrandsTheRowInHand ==
    ASSUME RowsTypeOK, crashes \in Nat, faults \in Nat, crashes' \in Nat, faults' \in Nat,
           StrandedByFaults, Stranded' \subseteq Stranded \cup {current},
           \/ crashes' = crashes + 1 /\ faults' = faults
           \/ crashes' = crashes /\ faults' = faults + 1
    PROVE  Cardinality(Stranded') <= crashes' + faults'
<1>1. IsFiniteSet(Stranded)
  BY FewRows
<1>2. /\ IsFiniteSet(Stranded \cup {current}) /\ Cardinality(Stranded) \in Nat
      /\ Cardinality(Stranded \cup {current}) <= Cardinality(Stranded) + 1
      /\ Cardinality(Stranded \cup {current}) \in Nat
  BY <1>1, OneMore
<1>3. /\ Cardinality(Stranded') \in Nat
      /\ Cardinality(Stranded') <= Cardinality(Stranded \cup {current})
  BY <1>2, FS_Subset, FS_CardinalityType
<1>4. Cardinality(Stranded) <= crashes + faults
  BY DEF StrandedByFaults
<1> QED
  BY <1>2, <1>3, <1>4, OneMoreIsAllowed

\* The routes and the listener take rows out of processing, if anything.
LEMMA OthersProcessing ==
    ASSUME RowsTypeOK, \/ Route
                       \/ \E p \in Polls : PollStep(p) \/ Refuse(p) \/ CallFails(p)
    PROVE  Processing' \subseteq Processing
<1>1. DOMAIN rows = 1..Len(rows) /\ Len(rows) \in Nat /\ \A r \in DOMAIN rows : rows[r] \in Row
  BY DEF RowsTypeOK
<1>2. ASSUME rows' = rows PROVE Processing' \subseteq Processing
  BY <1>2 DEF Processing
<1>3. ASSUME NEW w, NEW a, rows' = Append(rows, NewRow(w, a))
      PROVE  Processing' \subseteq Processing
  BY <1>1, <1>3 DEF Processing, NewRow, RowsTypeOK
<1>4. ASSUME NEW w, NEW s, s # "processing", SetPendingOf(w, s)
      PROVE  Processing' \subseteq Processing
  BY <1>1, <1>4 DEF Processing, Pending, SetPendingOf, Row
<1>5. ASSUME NEW r \in DOMAIN rows, SetStatus(r, "claimed") PROVE Processing' \subseteq Processing
  BY <1>1, <1>5 DEF Processing, SetStatus, Row
<1>6. CASE Route
  BY <1>3, <1>5, <1>6 DEF Route, Unstake, MarkClaimed
<1>7. ASSUME NEW p \in Polls, PollStep(p) \/ Refuse(p) \/ CallFails(p)
      PROVE  Processing' \subseteq Processing
  <2>1. CASE Complete(p) \/ CloseClaimed(p)
    BY <1>4, <2>1 DEF Complete, CloseClaimed
  <2>2. CASE Record(p)
    BY <1>2, <1>3, <2>2 DEF Record
  <2>3. CASE Ask(p) \/ Answer(p) \/ Look(p) \/ Skip(p) \/ Choke(p) \/ Finish(p) \/ Refuse(p) \/ CallFails(p)
    BY <1>2, <2>3 DEF Ask, Answer, Look, Skip, Choke, Finish, Refuse, CallFails
  <2> QED
    BY <1>7, <2>1, <2>2, <2>3 DEF PollStep
<1> QED
  BY <1>6, <1>7

\* What the processor's own steps strand: the row in hand, when writing its outcome fails.
LEMMA ProcessorStrands ==
    ASSUME PipelineInv, StrandedByFaults, ProcessorStep
    PROVE  /\ step' \in {"idle", "loop"} => current' = 0
           /\ \/ Stranded' \subseteq Stranded /\ (Fault \/ UNCHANGED faults)
              \/ Stranded' \subseteq Stranded \cup {current} /\ faults' = faults + 1
<1>1. /\ RowsTypeOK /\ DOMAIN rows = 1..Len(rows) /\ 0 \notin DOMAIN rows
      /\ \A r \in DOMAIN rows : rows[r] \in Row
      /\ RowInHand /\ current \in 0..Len(rows) /\ listed \subseteq DOMAIN rows
  <2>1. RowsTypeOK /\ RowInHand /\ ProcessorTypeOK
    BY DEF PipelineInv, IInv, TypeOK
  <2>2. DOMAIN rows = 1..Len(rows) /\ \A r \in DOMAIN rows : rows[r] \in Row
    BY <2>1 DEF RowsTypeOK
  <2> QED
    BY <2>1, <2>2 DEF ProcessorTypeOK
<1>2. CASE Mark
  <2>1. PICK r \in listed :
          /\ current' = r
          /\ \/ SetStatus(r, "processing") /\ step' = "send" /\ UNCHANGED faults
             \/ UNCHANGED rows /\ step' = "revert" /\ Fault
    BY <1>2 DEF Mark
  <2>2. Processing' \subseteq Processing \cup {r}
    BY <1>1, <2>1 DEF SetStatus, Processing, Row
  <2>3. current = 0 /\ 0 \notin Processing
    BY <1>1, <1>2 DEF Mark, StrandedByFaults, Processing
  <2> QED
    BY <2>1, <2>2, <2>3 DEF Stranded
<1>3. CASE Revert
  <2>1. step' \in {"idle", "loop"} /\ current' = 0
    BY <1>3 DEF Revert, Continue
  <2>2. CASE SetStatus(current, "pending") \/ SetStatus(current, "failed")
    <3>1. Processing' \subseteq Processing \ {current}
      BY <1>1, <2>2 DEF SetStatus, Processing, Row
    <3> QED
      BY <1>3, <2>1, <3>1 DEF Revert, Stranded
  <2>3. CASE UNCHANGED rows /\ Fault
    BY <2>1, <2>3 DEF Fault, Stranded, Processing
  <2> QED
    BY <1>3, <2>2, <2>3 DEF Revert
<1>4. CASE List \/ Send \/ NotSent \/ GiveUp \/ DecodeThrows
  <2>1. UNCHANGED <<rows, current, faults>>
    BY <1>4 DEF List, Send, NotSent, GiveUp, DecodeThrows
  <2>2. step' \in {"idle", "loop"} => current' = 0
    BY <1>4 DEF List, Send, NotSent, GiveUp, DecodeThrows, StrandedByFaults
  <2> QED
    BY <2>1, <2>2 DEF Stranded, Processing
<1> QED
  BY <1>2, <1>3, <1>4 DEF ProcessorStep

LEMMA NextStranded ==
    PipelineInv /\ PipelineInv' /\ StrandedByFaults /\ [PipelineNext]_pipelineVars => StrandedByFaults'
<1> SUFFICES ASSUME PipelineInv, PipelineInv', StrandedByFaults, [PipelineNext]_pipelineVars
             PROVE  StrandedByFaults'
  OBVIOUS
<1>1. RowsTypeOK /\ faults \in Nat /\ crashes \in Nat /\ faults' \in Nat /\ crashes' \in Nat
  BY DEF PipelineInv, IInv, TypeOK, ListenerTypeOK
<1>2. ASSUME Processing' \subseteq Processing, UNCHANGED <<step, current>>,
             faults' >= faults, crashes' >= crashes
      PROVE  StrandedByFaults'
  BY <1>1, <1>2, StrandsNone DEF StrandedByFaults, Stranded
<1>3. ASSUME UNCHANGED <<rows, crashes, processorVars>>, Fault \/ UNCHANGED faults
      PROVE  StrandedByFaults'
  BY <1>1, <1>2, <1>3 DEF processorVars, Processing, Fault
<1>4. CASE ChainNext /\ UNCHANGED <<rows, listenerVars, faults, crashes, processorVars>>
  BY <1>3, <1>4
<1>5. CASE Route /\ UNCHANGED <<chainVars, listenerVars, faults, crashes, processorVars>>
  BY <1>1, <1>2, <1>5, OthersProcessing DEF processorVars
<1>6. ASSUME NEW p \in Polls, PollStep(p) \/ Refuse(p) \/ CallFails(p),
             UNCHANGED <<chainVars, crashes, processorVars>>
      PROVE  StrandedByFaults'
  <2>1. Fault \/ UNCHANGED faults
    BY <1>6 DEF PollStep, Ask, Answer, Look, Record, Pass, PublishFails, Complete, CloseClaimed,
                Skip, Choke, Finish, Refuse, CallFails
  <2>2. faults' >= faults
    BY <1>1, <2>1 DEF Fault
  <2> QED
    BY <1>1, <1>2, <1>6, <2>2, OthersProcessing DEF processorVars
<1>7. CASE ProcessorStep /\ UNCHANGED <<listenerVars, crashes>>
  <2>1. /\ step' \in {"idle", "loop"} => current' = 0
        /\ \/ Stranded' \subseteq Stranded /\ faults' >= faults
           \/ Stranded' \subseteq Stranded \cup {current} /\ faults' = faults + 1
    BY <1>1, <1>7, ProcessorStrands DEF Fault
  <2>2. crashes' = crashes
    BY <1>7
  <2>3. Cardinality(Stranded') <= crashes' + faults'
    <3>1. CASE Stranded' \subseteq Stranded /\ faults' >= faults
      BY <1>1, <2>2, <3>1, StrandsNone
    <3>2. CASE Stranded' \subseteq Stranded \cup {current} /\ faults' = faults + 1
      BY <1>1, <2>2, <3>2, StrandsTheRowInHand
    <3> QED
      BY <2>1, <3>1, <3>2
  <2> QED
    BY <2>1, <2>3 DEF StrandedByFaults
<1>8. CASE (Include \/ \E tx \in orphans : IncludeOrphan(tx)) /\ UNCHANGED <<listenerVars, crashes>>
  <2>1. UNCHANGED <<rows, step, current, faults, crashes>>
    BY <1>8 DEF Include, IncludeOrphan
  <2> QED
    BY <1>1, <1>2, <2>1 DEF Processing
<1>9. CASE Restart
  <2>1. /\ rows' = rows /\ faults' = faults /\ crashes' = crashes + 1
        /\ step' = "idle" /\ current' = 0
    BY <1>9 DEF Restart, RestartListener, RestartProcessor
  <2>2. Stranded' \subseteq Stranded \cup {current}
    BY <2>1 DEF Stranded, Processing
  <2> QED
    BY <1>1, <2>1, <2>2, StrandsTheRowInHand DEF StrandedByFaults
<1>10. CASE UNCHANGED pipelineVars
  BY <1>3, <1>10 DEF pipelineVars, vars
<1> QED
  BY <1>4, <1>5, <1>6, <1>7, <1>8, <1>9, <1>10 DEF PipelineNext

\* However batches, polls, restarts and failures interleave, each of these strands one row
\* in processing at most, and the only other row there is the one in hand.
THEOREM AlwaysStrandsOneRowAtMost == PipelineSpec => []StrandsOneRowAtMost
<1>1. PipelineInit => StrandedByFaults
  <2> SUFFICES ASSUME PipelineInit PROVE StrandedByFaults
    OBVIOUS
  <2>1. Stranded = {} /\ crashes = 0 /\ faults = 0 /\ current = 0
    BY DEF PipelineInit, Init, ListenerInit, ProcessorInit, Stranded, Processing
  <2> QED
    BY <2>1, FS_EmptySet DEF StrandedByFaults
<1>2. PipelineInv /\ StrandedByFaults => StrandsOneRowAtMost
  <2> SUFFICES ASSUME PipelineInv, StrandedByFaults PROVE StrandsOneRowAtMost
    OBVIOUS
  <2>1. RowsTypeOK /\ faults \in Nat /\ crashes \in Nat
    BY DEF PipelineInv, IInv, TypeOK, ListenerTypeOK
  <2>2. CASE current = 0
    <3>1. Processing = Stranded
      BY <2>1, <2>2, FewRows DEF Stranded
    <3> QED
      BY <2>1, <2>2, <3>1, FewRows, FS_CardinalityType DEF StrandedByFaults, StrandsOneRowAtMost
  <2>3. CASE current # 0
    <3>1. IsFiniteSet(Stranded) /\ IsFiniteSet(Processing)
      BY <2>1, FewRows
    <3> DEFINE T == Stranded \cup {current}
    <3>2. IsFiniteSet(T) /\ Cardinality(T) <= Cardinality(Stranded) + 1 /\ Processing \subseteq T
      BY <3>1, OneMore DEF Stranded
    <3>3. /\ Cardinality(Processing) \in Nat /\ Cardinality(T) \in Nat
          /\ Cardinality(Stranded) \in Nat /\ Cardinality(Processing) <= Cardinality(T)
      BY <3>1, <3>2, FS_Subset, FS_CardinalityType
    <3> HIDE DEF T
    <3> QED
      BY <2>1, <2>3, <3>2, <3>3 DEF StrandedByFaults, StrandsOneRowAtMost
  <2> QED
    BY <2>2, <2>3
<1> QED
  BY <1>1, <1>2, PipelineInitEstablishes, PipelinePreserves, NextStranded, PTL DEF PipelineSpec
=============================================================================
