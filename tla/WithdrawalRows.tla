-------------------------- MODULE WithdrawalRows --------------------------
(***************************************************************************)
(* The Withdrawal table of the backend and the two routes that write to it *)
(* without looking at the chain.  A row's id is its position: ids are      *)
(* assigned in order, starting from 1, and rows are never deleted.         *)
(*                                                                         *)
(* Times are left out: which pending rows are due is a free choice.        *)
(* Amounts are only compared for equality.                                 *)
(***************************************************************************)
EXTENDS StakingEvents

CONSTANTS MaxUnstaked,   \* bound: the route adds no row beyond these
          MaxRows        \* bound: the listener adds no copy of a row beyond these

ASSUME RowsAssumption == MaxUnstaked \in Nat /\ MaxRows \in Nat

VARIABLE rows

Status == {"pending", "processing", "completed", "claimed", "failed"}
Row == [wallet : Wallets, amount : Amounts, status : Status]
RowsTypeOK == rows \in Seq(Row)

Pending == {r \in DOMAIN rows : rows[r].status = "pending"}
NewRow(w, a) == [wallet |-> w, amount |-> a, status |-> "pending"]

\* update({where: {id}}).
SetStatus(r, s) == rows' = [rows EXCEPT ![r].status = s]

\* updateMany({where: {wallet, status: "pending"}}).
SetPendingOf(w, s) ==
    rows' = [r \in DOMAIN rows |->
               IF r \in Pending /\ rows[r].wallet = w
               THEN [rows[r] EXCEPT !.status = s] ELSE rows[r]]

\* POST /staking/unstake builds a transaction for the user to sign and writes
\* the row at once, with the amount of sXLM; the user may never sign.
Unstake(w, a) ==
    /\ Len(rows) < MaxUnstaked
    /\ rows' = Append(rows, NewRow(w, a))

\* POST /staking/withdrawals/mark-claimed takes the caller's word for it.
MarkClaimed(w, r) ==
    /\ rows[r].wallet = w
    /\ SetStatus(r, "claimed")
=============================================================================
