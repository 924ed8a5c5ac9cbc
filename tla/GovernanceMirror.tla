-------------------------- MODULE GovernanceMirror --------------------------
(***************************************************************************)
(* The governance routes of the API (routes/governance.ts) between the     *)
(* hooks of the frontend and the governance contract: they build           *)
(* transactions for users, keep a table of proposals beside the contract's *)
(* own, copy tallies and statuses into it when proposals are listed, and   *)
(* send what was decided to the contract that the parameter is about.      *)
(*                                                                         *)
(* Row i of the table is taken to be proposal i - 1 of the contract.  The  *)
(* contract counts in the order in which transactions are included, the    *)
(* table in the order in which they were asked for, once for each time the *)
(* client repeated the request: see Aligned.                               *)
(***************************************************************************)
EXTENDS Governance, WalletFlow, SequencesExt

CONSTANTS Mapped,       \* the keys applyGovernanceParam knows
          Numeric,      \* the values parseInt can read
          Lists,        \* the requests for the list that may be under way at a time
          MaxListed     \* how many proposals GET /governance/proposals looks at: 50
CONSTANT  MaxRows       \* bound: rows of the table

ASSUME MirrorAssumption ==
    /\ Mapped \subseteq Keys /\ Numeric \subseteq Values /\ MaxListed \in Nat
    /\ Wallets \subseteq Holders
    /\ Requests \subseteq [kind : {"create"}, key : Keys, value : Values]
                      \cup [kind : {"vote"}, id : Nat, support : BOOLEAN]
                      \cup [kind : {"execute"}, id : Nat]

VARIABLES rows,         \* the GovernanceProposal table, by id
          executing,    \* proposals whose execute route has simulated and not yet written
          listing,      \* where each list is, with what it has read and not yet copied
          inForce       \* ghost: the last value the backend applied for each key

mirrorVars == <<rows, executing, listing, inForce>>
allVars == <<vars, walletVars, mirrorVars>>

Row == [proposer : Accounts, param_key : Keys, new_value : Values,
        votes_for : Nat, votes_against : Nat, executed : BOOLEAN]
NotListing == [next |-> 0]

MirrorTypeOK ==
    /\ WalletTypeOK
    /\ rows \in Seq(Row)
    /\ executing \subseteq Nat
    /\ listing \in [Lists -> {NotListing} \cup [next : Nat] \cup [next : Ids, read : Proposal]]
    /\ inForce \in [Keys -> Values \cup {NoValue}]

MirrorInit ==
    /\ Init /\ WalletInit
    /\ rows = <<>>
    /\ executing = {}
    /\ listing = [l \in Lists |-> NotListing]
    /\ inForce = [k \in Keys |-> NoValue]
----------------------------------------------------------------------------
(* The routes that build transactions. *)

\* What the transaction of a request does on chain.
Effect(w, request) ==
    CASE request.kind = "create" -> /\ proposalCount < MaxProposals
                                    /\ CreateProposal(w, request.key, request.value)
      [] request.kind = "vote" -> request.id \in Ids /\ Vote(w, request.id, request.support)
      [] request.kind = "execute" -> request.id \in Ids /\ ExecuteProposal(request.id)

\* The route refuses a request that the simulation of its transaction finds to panic.
Simulates(w, request) ==
    CASE request.kind = "create" -> proposalCount < MaxProposals /\ MayPropose(w)
      [] request.kind = "vote" -> request.id \in Ids /\ MayVote(w, request.id)
      [] request.kind = "execute" -> request.id \in Ids /\ MayExecute(request.id)

NewRow(w, request) ==
    [proposer |-> w, param_key |-> request.key, new_value |-> request.value,
     votes_for |-> 0, votes_against |-> 0, executed |-> FALSE]

\* POST /governance/create-proposal writes its row whether or not anyone signs.
CreateRoute(w) ==
    /\ At(w, "asking") /\ hook[w].request.kind = "create"
    /\ Len(rows) < MaxRows
    /\ IF Simulates(w, hook[w].request)
       THEN rows' = Append(rows, NewRow(w, hook[w].request)) /\ Built(w)
       ELSE UNCHANGED rows /\ GiveUp(w)
    /\ UNCHANGED <<vars, executing, listing, inForce>>

\* POST /governance/vote; its look at the caller's balance is one of the contract's too.
VoteRoute(w) ==
    /\ At(w, "asking") /\ hook[w].request.kind = "vote"
    /\ IF Simulates(w, hook[w].request) THEN Built(w) ELSE GiveUp(w)
    /\ UNCHANGED <<vars, mirrorVars>>

\* Mutant of ExecuteRoute: the row is looked up and applied although the simulation failed.
ExecuteRouteUnsimulated(w) ==
    /\ At(w, "asking") /\ hook[w].request.kind = "execute"
    /\ executing' = executing \cup {hook[w].request.id}
    /\ IF Simulates(w, hook[w].request) THEN Built(w) ELSE GiveUp(w)
    /\ UNCHANGED <<vars, rows, listing, inForce>>

\* POST /governance/execute up to its simulation.  The answer waits for what follows,
\* which no longer fails: both are taken to end before the client does.
ExecuteRoute(w) ==
    /\ At(w, "asking") /\ hook[w].request.kind = "execute"
    /\ IF Simulates(w, hook[w].request)
       THEN executing' = executing \cup {hook[w].request.id} /\ Built(w)
       ELSE UNCHANGED executing /\ GiveUp(w)
    /\ UNCHANGED <<vars, rows, listing, inForce>>

\* The admin call of the contract that the key is about.
SetParam(key, value) == inForce' = [inForce EXCEPT ![key] = value]

\* applyGovernanceParam: only a number, for a key it knows; a failing call is caught.
Applied(row) ==
    \/ UNCHANGED inForce
    \/ /\ row.param_key \in Mapped /\ row.new_value \in Numeric
       /\ SetParam(row.param_key, row.new_value)

\* The rest of the execute route: findFirst, the status, the parameter.
MarkAndApply(id) ==
    /\ executing' = executing \ {id}
    /\ IF id + 1 \in DOMAIN rows
       THEN /\ rows' = [rows EXCEPT ![id + 1].executed = TRUE]
            /\ Applied(rows[id + 1])
       ELSE UNCHANGED <<rows, inForce>>
    /\ UNCHANGED <<vars, walletVars, listing>>

----------------------------------------------------------------------------
(* GET /governance/proposals. *)

\* queryContractView of get_proposal and get_vote_count, which change together or not
\* at all.
View(id) == proposals[id]

ReadNext(l) ==
    /\ listing[l] \in {NotListing} \cup [next : 1..MaxListed]
    /\ listing[l].next \in Ids /\ listing[l].next < MaxListed
    /\ listing' = [listing EXCEPT ![l] = [next |-> @.next, read |-> View(@.next)]]
    /\ UNCHANGED <<vars, walletVars, rows, executing, inForce>>

SameSubject(row, proposal) ==
    row.proposer = proposal.proposer /\ row.param_key = proposal.param_key

\* Mutant of CopyToRow: the row with the proposal's number.
CopyToRowByNumber(l) ==
    /\ "read" \in DOMAIN listing[l]
    /\ LET read == listing[l].read
           i == listing[l].next + 1
       IN  rows' = IF i \notin DOMAIN rows THEN rows
                   ELSE [rows EXCEPT ![i].votes_for = read.votes_for,
                                     ![i].votes_against = read.votes_against,
                                     ![i].executed = read.executed]
    /\ listing' = [listing EXCEPT ![l] = [next |-> @.next + 1]]
    /\ UNCHANGED <<vars, walletVars, executing, inForce>>

\* The row to update is the first one of this proposer for this key.
CopyToRow(l) ==
    /\ "read" \in DOMAIN listing[l]
    /\ LET read == listing[l].read
           i == SelectInSeq(rows, LAMBDA row : SameSubject(row, read))
       IN  rows' = IF i = 0 THEN rows
                   ELSE [rows EXCEPT ![i].votes_for = read.votes_for,
                                     ![i].votes_against = read.votes_against,
                                     ![i].executed = read.executed]
    /\ listing' = [listing EXCEPT ![l] = [next |-> @.next + 1]]
    /\ UNCHANGED <<vars, walletVars, executing, inForce>>

\* All were read, or a call failed on the way (which skips one or ends the list).
EndList(l) ==
    /\ listing[l] # NotListing
    /\ listing' = [listing EXCEPT ![l] = NotListing]
    /\ UNCHANGED <<vars, walletVars, rows, executing, inForce>>

\* What the two pages show when the contract does not answer.
ListFromTable == ToSet(rows)
OneFromTable(id) == rows[id + 1]
----------------------------------------------------------------------------

\* The network includes the transaction of a wallet.
Include(w) ==
    /\ \/ Effect(w, network[w].request) /\ Included(w, TRUE)
       \/ ~Simulates(w, network[w].request) /\ UNCHANGED vars /\ Included(w, FALSE)
    /\ UNCHANGED mirrorVars

UserStep ==
    \E w \in Wallets :
        \/ \E request \in Requests : Ask(w, request) /\ UNCHANGED <<vars, mirrorVars>>
        \/ WalletStep(w) /\ UNCHANGED <<vars, mirrorVars>>
        \/ network[w] # Nothing /\ Include(w)

RouteStep ==
    \/ \E w \in Wallets : CreateRoute(w) \/ VoteRoute(w) \/ ExecuteRoute(w)
    \/ \E id \in executing : MarkAndApply(id)
    \/ \E l \in Lists : ReadNext(l) \/ CopyToRow(l) \/ EndList(l)

\* A restart of the backend forgets what its routes were doing.
RestartRoutes ==
    /\ executing' = {} /\ listing' = [l \in Lists |-> NotListing]
    /\ UNCHANGED <<vars, walletVars, rows, inForce>>

\* sXLM moves about in the runs of Governance; here it is only handed out.
HandOut ==
    /\ \E w \in Wallets, n \in TokenAmounts :
          totalSupply + n <= MaxSupply /\ Mint(minter, w, n)
    /\ UNCHANGED <<ledger, voteVars>>

MirrorNext ==
    \/ UserStep \/ RouteStep \/ RestartRoutes
    \/ (CloseLedger \/ HandOut) /\ UNCHANGED <<walletVars, mirrorVars>>

MirrorSpec == MirrorInit /\ [][MirrorNext]_allVars

----------------------------------------------------------------------------
(* Properties. *)

\* The table has the contract's proposals in the contract's order: the page of one
\* proposal is about that proposal even when it is taken from the table.
Aligned ==
    \A id \in Ids :
        id + 1 \in DOMAIN rows =>
            /\ SameSubject(OneFromTable(id), proposals[id])
            /\ OneFromTable(id).new_value = proposals[id].new_value

Approved(proposal) ==
    /\ ledger > proposal.end_ledger
    /\ proposal.votes_for > proposal.votes_against

\* While the table is aligned, what the backend marks as executed or sends on was
\* approved for good, although it acts before anyone has signed the execution.
ActsOnApproval ==
    Aligned =>
        /\ \A k \in Keys : inForce[k] # NoValue =>
              \E id \in Ids : /\ proposals[id].param_key = k
                              /\ proposals[id].new_value = inForce[k]
                              /\ Approved(proposals[id])
        /\ \A i \in DOMAIN rows : rows[i].executed =>
              \E id \in Ids : SameSubject(rows[i], proposals[id]) /\ Approved(proposals[id])

\* The list that is shown without the contract never has votes that no proposal of the
\* row's proposer for its key has, whichever of them the row was copied from and however
\* old the copy is.
RowsFollowProposals ==
    \A row \in ListFromTable :
        \/ row.votes_for = 0 /\ row.votes_against = 0
        \/ \E id \in Ids : /\ SameSubject(row, proposals[id])
                           /\ row.votes_for <= proposals[id].votes_for
                           /\ row.votes_against <= proposals[id].votes_against

\* "Transaction successful!": what a hook shows as such is on chain, however often the
\* request was repeated or the signed transaction handed in, unless the network had it
\* and the submit route answered that it was still pending.
ConfirmedIsOnChain ==
    \A w \in Wallets : At(w, "confirmed") /\ hook[w].fate # "waiting" =>
        LET request == hook[w].request
        IN  CASE request.kind = "create" ->
                   \E id \in Ids : /\ proposals[id].proposer = w
                                   /\ proposals[id].param_key = request.key
                                   /\ proposals[id].new_value = request.value
              [] request.kind = "vote" -> <<request.id, w>> \in voted
              [] request.kind = "execute" -> proposals[request.id].executed
=============================================================================
