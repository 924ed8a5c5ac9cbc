------------------------------ MODULE Governance ------------------------------
(***************************************************************************)
(* The governance contract (contracts/governance/src/lib.rs) composed with *)
(* the sXLM token, whose balances are the voting power: holders propose a  *)
(* new value for a parameter, vote while the voting period lasts, and      *)
(* anyone may then execute what was approved, which stores the value for   *)
(* others to read.                                                         *)
(*                                                                         *)
(* One action per entry point; a call that panics leaves no trace, so its  *)
(* conditions are guards.  The contract escrows nothing: a vote weighs the *)
(* balance of its moment, and tokens may move on and vote again.           *)
(***************************************************************************)
EXTENDS SxlmToken, ContractArith, Functions

CONSTANTS MinProposalBalance,   \* MIN_PROPOSAL_BALANCE: 100 sXLM in the code
          VotingPeriodLedgers,  \* argument of initialize; 17280 as deployed
          QuorumBps,            \* argument of initialize; 1000 as deployed
          Keys, Values,         \* parameter names and proposed values
          NoValue,              \* what get_param answers for a key never decided
          Supplies              \* inputs of set_reference_supply
CONSTANTS MaxLedger,            \* bound: the clock stops here
          MaxProposals,         \* bound: proposals in one behaviour
          MaxSupply             \* bound: the minter stops here

BPS_DENOMINATOR == 10000

\* The staking contract may be sent sXLM but calls nothing here.
Holders == Accounts \ {StakingContract}

ASSUME GovernanceConstants ==
    /\ MinProposalBalance \in Nat /\ VotingPeriodLedgers \in Nat /\ QuorumBps \in Nat
    /\ NoValue \notin Values
    /\ Supplies \subseteq Int
    /\ MaxLedger \in Nat /\ MaxProposals \in Nat /\ MaxSupply \in Nat

VARIABLES ledger,
          proposals, proposalCount,
          voted,            \* the Vote(id, voter) entries, which are only ever set
          params,           \* the Param(key) entries
          referenceSupply,
          ballots           \* ghost: every vote that was counted

voteVars == <<proposals, proposalCount, voted, params, referenceSupply, ballots>>
vars == <<tokenVars, ledger, voteVars>>

Ids == 0..(proposalCount - 1)

Proposal ==
    [proposer : Accounts, param_key : Keys, new_value : Values,
     votes_for : Nat, votes_against : Nat, end_ledger : Nat, executed : BOOLEAN]

Ballot == [id : Nat, voter : Accounts, support : BOOLEAN, weight : Nat \ {0}]

TypeOK ==
    /\ TokenTypeOK
    /\ ledger \in Nat
    /\ proposalCount \in Nat
    /\ proposals \in [Ids -> Proposal]
    /\ voted \subseteq Ids \X Accounts
    /\ params \in [Keys -> Values \cup {NoValue}]
    /\ referenceSupply \in Nat
    /\ ballots \subseteq Ballot

Init ==
    /\ TokenInit
    /\ ledger = 0
    /\ proposalCount = 0
    /\ proposals = [id \in {} |-> 0]
    /\ voted = {}
    /\ params = [k \in Keys |-> NoValue]
    /\ referenceSupply = 0
    /\ ballots = {}

----------------------------------------------------------------------------
(* Calls of the contract. *)

SetReferenceSupply(supply) ==
    /\ supply >= 0
    /\ referenceSupply' = supply
    /\ UNCHANGED <<tokenVars, ledger, proposals, proposalCount, voted, params, ballots>>

MayPropose(proposer) == balance[proposer] >= MinProposalBalance

CreateProposal(proposer, key, value) ==
    /\ MayPropose(proposer)
    /\ LET proposal == [proposer |-> proposer, param_key |-> key, new_value |-> value,
                        votes_for |-> 0, votes_against |-> 0,
                        end_ledger |-> ledger + VotingPeriodLedgers, executed |-> FALSE]
       IN  proposals' = [id \in Ids \cup {proposalCount} |->
                            IF id = proposalCount THEN proposal ELSE proposals[id]]
    /\ proposalCount' = proposalCount + 1
    /\ UNCHANGED <<tokenVars, ledger, voted, params, referenceSupply, ballots>>

Counted(proposal, support, weight) ==
    IF support THEN [proposal EXCEPT !.votes_for = @ + weight]
               ELSE [proposal EXCEPT !.votes_against = @ + weight]

CastBallot(voter, id, support) ==
    /\ proposals' = [proposals EXCEPT ![id] = Counted(@, support, balance[voter])]
    /\ ballots' = ballots \cup {[id |-> id, voter |-> voter, support |-> support,
                                 weight |-> balance[voter]]}
    /\ UNCHANGED <<tokenVars, ledger, proposalCount, params, referenceSupply>>

\* Mutant of Vote: the end of the voting period is not checked.
VoteAfterTheEnd(voter, id, support) ==
    /\ <<id, voter>> \notin voted
    /\ balance[voter] > 0
    /\ voted' = voted \cup {<<id, voter>>}
    /\ CastBallot(voter, id, support)

\* Mutant of Vote: a voter is recorded only for a vote against.
VoteRecordedAgainst(voter, id, support) ==
    /\ ledger <= proposals[id].end_ledger
    /\ <<id, voter>> \notin voted
    /\ balance[voter] > 0
    /\ voted' = IF support THEN voted ELSE voted \cup {<<id, voter>>}
    /\ CastBallot(voter, id, support)

\* The last ledger of the period is still open.
MayVote(voter, id) ==
    /\ ledger <= proposals[id].end_ledger
    /\ <<id, voter>> \notin voted
    /\ balance[voter] > 0

Vote(voter, id, support) ==
    /\ MayVote(voter, id)
    /\ voted' = voted \cup {<<id, voter>>}
    /\ CastBallot(voter, id, support)

TotalVotes(proposal) == proposal.votes_for + proposal.votes_against

\* There is no quorum while the reference supply is zero, as it is until it is set.
QuorumMet(proposal) ==
    referenceSupply > 0 =>
        TotalVotes(proposal) >= TruncDiv(referenceSupply * QuorumBps, BPS_DENOMINATOR)

MayExecute(id) ==
    /\ ~proposals[id].executed
    /\ ledger > proposals[id].end_ledger
    /\ TotalVotes(proposals[id]) > 0
    /\ QuorumMet(proposals[id])
    /\ proposals[id].votes_for > proposals[id].votes_against

\* Mutant of ExecuteProposal: the value is stored but the proposal is not marked.
ExecuteUnmarked(id) ==
    /\ MayExecute(id)
    /\ params' = [params EXCEPT ![proposals[id].param_key] = proposals[id].new_value]
    /\ UNCHANGED <<tokenVars, ledger, proposals, proposalCount, voted, referenceSupply, ballots>>

\* Anyone may execute, at any time after the period, in any order.
ExecuteProposal(id) ==
    /\ MayExecute(id)
    /\ params' = [params EXCEPT ![proposals[id].param_key] = proposals[id].new_value]
    /\ proposals' = [proposals EXCEPT ![id].executed = TRUE]
    /\ UNCHANGED <<tokenVars, ledger, proposalCount, voted, referenceSupply, ballots>>

----------------------------------------------------------------------------
(* The environment: ledgers close and sXLM changes hands. *)

CloseLedger ==
    /\ ledger < MaxLedger
    /\ ledger' = ledger + 1
    /\ UNCHANGED <<tokenVars, voteVars>>

TokenStep ==
    /\ \/ \E from \in Holders, to \in Accounts, n \in TokenAmounts : Transfer(from, to, n)
       \/ \E to \in Holders, n \in TokenAmounts :
             totalSupply + n <= MaxSupply /\ Mint(minter, to, n)
       \/ \E from \in Holders, n \in TokenAmounts : Burn(minter, from, n)
    /\ UNCHANGED <<ledger, voteVars>>

GovernanceStep ==
    \/ \E supply \in Supplies : SetReferenceSupply(supply)
    \/ \E a \in Holders, key \in Keys, value \in Values :
          proposalCount < MaxProposals /\ CreateProposal(a, key, value)
    \/ \E a \in Holders, id \in Ids, support \in BOOLEAN : Vote(a, id, support)
    \/ \E id \in Ids : ExecuteProposal(id)

Next == GovernanceStep \/ TokenStep \/ CloseLedger

Spec == Init /\ [][Next]_vars

----------------------------------------------------------------------------
(* Properties. *)

WeightOf(id, support) ==
    SumFunctionOnSet([b \in ballots |-> b.weight],
                     {b \in ballots : b.id = id /\ b.support = support})

\* The tallies are the weights of the ballots, and nobody has two on a proposal,
\* however often they call vote and wherever their tokens go in between.
OneBallotEach ==
    /\ \A b, c \in ballots : b.id = c.id /\ b.voter = c.voter => b = c
    /\ \A id \in Ids : /\ proposals[id].votes_for = WeightOf(id, TRUE)
                       /\ proposals[id].votes_against = WeightOf(id, FALSE)

\* What was executed stays approved: its period is over and its final tallies are a
\* majority in favour, so no late vote can turn a decision that took effect.
ExecutedStaysApproved ==
    \A id \in Ids :
        proposals[id].executed =>
            /\ ledger > proposals[id].end_ledger
            /\ proposals[id].votes_for > proposals[id].votes_against

\* A parameter has the value of an executed proposal for it, and has one as soon as any
\* was executed.
ParamsWereDecided ==
    \A k \in Keys :
        LET decided == {id \in Ids : proposals[id].executed /\ proposals[id].param_key = k}
        IN  IF decided = {} THEN params[k] = NoValue
            ELSE \E id \in decided : params[k] = proposals[id].new_value
=============================================================================
