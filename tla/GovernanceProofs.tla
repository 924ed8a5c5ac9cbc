--------------------------- MODULE GovernanceProofs ---------------------------
(***************************************************************************)
(* Proofs about the governance contract, for every set of holders, keys    *)
(* and values, every voting period and every quorum, and about the API's   *)
(* governance routes beside it, for every set of wallets and requests.     *)
(***************************************************************************)
EXTENDS GovernanceMirror, ContractLemmas, SequenceTheorems, TLAPS

LEMMA ConstantTypes ==
    /\ StakingContract \in Accounts /\ TokenAdmins \subseteq Accounts /\ Minters \subseteq Accounts
    /\ Holders \subseteq Accounts
    /\ TokenAmounts \subseteq Int
    /\ MinProposalBalance \in Nat /\ VotingPeriodLedgers \in Nat
    /\ NoValue \notin Values /\ Supplies \subseteq Int
BY TokenConstants, GovernanceConstants DEF TokenConstants, GovernanceConstants, Holders

----------------------------------------------------------------------------
(* Type correctness. *)

LEMMA InitTypes == Init => TypeOK
<1> SUFFICES ASSUME Init PROVE TypeOK
  OBVIOUS
<1>1. TokenTypeOK
  BY ConstantTypes DEF Init, TokenInit, TokenTypeOK
<1>2. Ids = {} /\ proposalCount \in Nat
  BY DEF Init, Ids
<1> QED
  BY <1>1, <1>2 DEF Init, TypeOK

\* Numbering the proposals from zero: one more proposal has the next number.
LEMMA NextId ==
    ASSUME TypeOK, proposalCount' = proposalCount + 1
    PROVE  Ids' = Ids \cup {proposalCount} /\ proposalCount \notin Ids
BY DEF TypeOK, Ids

\* What is added to a tally leaves a proposal a proposal, and touches nothing else.
LEMMA CountedType ==
    ASSUME NEW p \in Proposal, NEW support \in BOOLEAN, NEW w \in Nat
    PROVE  /\ Counted(p, support, w) \in Proposal
           /\ Counted(p, support, w).param_key = p.param_key
           /\ Counted(p, support, w).new_value = p.new_value
           /\ Counted(p, support, w).end_ledger = p.end_ledger
           /\ Counted(p, support, w).executed = p.executed
BY DEF Counted, Proposal

LEMMA CreateTypes ==
    ASSUME TypeOK, NEW a \in Holders, NEW key \in Keys, NEW value \in Values,
           CreateProposal(a, key, value)
    PROVE  TypeOK'
<1>1. proposalCount' = proposalCount + 1 /\ UNCHANGED <<tokenVars, ledger, voted, params, referenceSupply, ballots>>
  BY DEF CreateProposal, MayPropose
<1>2. Ids' = Ids \cup {proposalCount} /\ proposalCount \notin Ids
  BY <1>1, NextId
<1> DEFINE proposal == [proposer |-> a, param_key |-> key, new_value |-> value,
                        votes_for |-> 0, votes_against |-> 0,
                        end_ledger |-> ledger + VotingPeriodLedgers, executed |-> FALSE]
<1>3. proposal \in Proposal
  BY ConstantTypes DEF Proposal, TypeOK
<1>4. proposals' = [id \in Ids \cup {proposalCount} |->
                      IF id = proposalCount THEN proposal ELSE proposals[id]]
  BY DEF CreateProposal, MayPropose
<1> HIDE DEF proposal
<1>5. proposals' \in [Ids' -> Proposal]
  BY <1>2, <1>3, <1>4 DEF TypeOK
<1>6. TokenTypeOK'
  BY <1>1 DEF TypeOK, TokenTypeOK, tokenVars
<1>7. voted' \subseteq Ids' \X Accounts
  BY <1>1, <1>2 DEF TypeOK
<1> QED
  BY <1>1, <1>5, <1>6, <1>7 DEF TypeOK

LEMMA VoteTypes ==
    ASSUME TypeOK, NEW a \in Holders, NEW id \in Ids, NEW support \in BOOLEAN, Vote(a, id, support)
    PROVE  TypeOK'
<1>1. /\ proposals' = [proposals EXCEPT ![id] = Counted(@, support, balance[a])]
      /\ ballots' = ballots \cup {[id |-> id, voter |-> a, support |-> support,
                                   weight |-> balance[a]]}
      /\ UNCHANGED <<tokenVars, ledger, proposalCount, params, referenceSupply>>
      /\ voted' = voted \cup {<<id, a>>}
      /\ balance[a] > 0
  BY DEF Vote, MayVote, CastBallot
<1>2. a \in Accounts /\ balance[a] \in Nat \ {0} /\ id \in Nat
  BY <1>1, ConstantTypes DEF TypeOK, TokenTypeOK, Ids
<1>3. Ids' = Ids
  BY <1>1 DEF Ids
<1>4. proposals' \in [Ids' -> Proposal]
  <2>1. Counted(proposals[id], support, balance[a]) \in Proposal
    BY <1>2, CountedType DEF TypeOK
  <2> QED
    BY <1>1, <1>3, <2>1 DEF TypeOK
<1>5. ballots' \subseteq Ballot
  BY <1>1, <1>2 DEF TypeOK, Ballot
<1>6. voted' \subseteq Ids' \X Accounts
  BY <1>1, <1>2, <1>3 DEF TypeOK
<1>7. TokenTypeOK'
  BY <1>1 DEF TypeOK, TokenTypeOK, tokenVars
<1> QED
  BY <1>1, <1>4, <1>5, <1>6, <1>7 DEF TypeOK

LEMMA ExecuteTypes ==
    ASSUME TypeOK, NEW id \in Ids, ExecuteProposal(id)
    PROVE  TypeOK'
<1>1. /\ params' = [params EXCEPT ![proposals[id].param_key] = proposals[id].new_value]
      /\ proposals' = [proposals EXCEPT ![id].executed = TRUE]
      /\ UNCHANGED <<tokenVars, ledger, proposalCount, voted, referenceSupply, ballots>>
  BY DEF ExecuteProposal, MayExecute
<1>2. Ids' = Ids
  BY <1>1 DEF Ids
<1>3. proposals[id] \in Proposal
  BY DEF TypeOK
<1>4. proposals' \in [Ids' -> Proposal]
  <2>1. [proposals[id] EXCEPT !.executed = TRUE] \in Proposal
    BY <1>3 DEF Proposal
  <2> QED
    BY <1>1, <1>2, <2>1 DEF TypeOK
<1>5. params' \in [Keys -> Values \cup {NoValue}]
  BY <1>1, <1>3 DEF TypeOK, Proposal
<1>6. TokenTypeOK'
  BY <1>1 DEF TypeOK, TokenTypeOK, tokenVars
<1> QED
  BY <1>1, <1>2, <1>4, <1>5, <1>6 DEF TypeOK

\* Voting power changing hands.
LEMMA TokenStepTypes == ASSUME TypeOK, TokenStep PROVE TypeOK'
<1>1. UNCHANGED <<ledger, voteVars>> /\ Ids' = Ids
  BY DEF TokenStep, voteVars, Ids
<1>2. TokenTypeOK'
  <2> USE DEF TypeOK, TokenTypeOK
  <2>1. ASSUME NEW from \in Holders, NEW to \in Accounts, NEW n \in TokenAmounts,
               Transfer(from, to, n)
        PROVE  TokenTypeOK'
    <3>1. from \in Accounts /\ n \in Nat /\ balance[from] >= n
      BY <2>1, ConstantTypes DEF Transfer
    <3>2. balance' \in [Accounts -> Nat]
      BY <2>1, <3>1, MovedType DEF Transfer
    <3> QED
      BY <2>1, <3>2 DEF Transfer
  <2>2. ASSUME NEW to \in Holders, NEW n \in TokenAmounts, Mint(minter, to, n)
        PROVE  TokenTypeOK'
    BY <2>2, ConstantTypes DEF Mint, MayMint
  <2>3. ASSUME NEW from \in Holders, NEW n \in TokenAmounts, Burn(minter, from, n)
        PROVE  TokenTypeOK'
    BY <2>3, ConstantTypes DEF Burn, MayBurn
  <2> QED
    BY <2>1, <2>2, <2>3 DEF TokenStep
<1> QED
  BY <1>1, <1>2 DEF TypeOK, voteVars

LEMMA NextTypes == TypeOK /\ [Next]_vars => TypeOK'
<1> SUFFICES ASSUME TypeOK, [Next]_vars PROVE TypeOK'
  OBVIOUS
<1>1. ASSUME NEW supply \in Supplies, SetReferenceSupply(supply) PROVE TypeOK'
  <2>1. /\ UNCHANGED <<tokenVars, ledger, proposals, proposalCount, voted, params, ballots>>
        /\ referenceSupply' \in Nat
    BY <1>1, ConstantTypes DEF SetReferenceSupply
  <2>2. Ids' = Ids /\ TokenTypeOK'
    BY <2>1 DEF Ids, TypeOK, TokenTypeOK, tokenVars
  <2> QED
    BY <2>1, <2>2 DEF TypeOK
<1>2. CASE CloseLedger
  BY <1>2 DEF CloseLedger, TypeOK, TokenTypeOK, tokenVars, voteVars, Ids
<1>3. CASE UNCHANGED vars
  BY <1>3 DEF vars, TypeOK, TokenTypeOK, tokenVars, voteVars, Ids
<1> QED
  BY <1>1, <1>2, <1>3, CreateTypes, VoteTypes, ExecuteTypes, TokenStepTypes
     DEF Next, GovernanceStep

\* Every reachable state of governance and its token is well typed.
THEOREM TypeCorrect == Spec => []TypeOK
BY InitTypes, NextTypes, PTL DEF Spec

----------------------------------------------------------------------------
(* Decisions. *)

\* A proposal in the numbering, as the steps that do not vote, execute or create leave it.
Undisturbed == UNCHANGED <<proposals, proposalCount, params>> /\ ledger' >= ledger

LEMMA QuietSteps ==
    ASSUME TypeOK, [Next]_vars,
           ~ \E a \in Holders, key \in Keys, value \in Values : CreateProposal(a, key, value),
           ~ \E a \in Holders, id \in Ids, support \in BOOLEAN : Vote(a, id, support),
           ~ \E id \in Ids : ExecuteProposal(id)
    PROVE  Undisturbed
<1>1. ledger \in Nat
  BY DEF TypeOK
<1>2. CASE \E supply \in Supplies : SetReferenceSupply(supply)
  BY <1>1, <1>2 DEF SetReferenceSupply, Undisturbed
<1>3. CASE TokenStep
  BY <1>1, <1>3 DEF TokenStep, Undisturbed, voteVars
<1>4. CASE CloseLedger
  BY <1>1, <1>4 DEF CloseLedger, Undisturbed, voteVars
<1>5. CASE UNCHANGED vars
  BY <1>1, <1>5 DEF vars, voteVars, Undisturbed
<1> QED
  BY <1>2, <1>3, <1>4, <1>5 DEF Next, GovernanceStep

\* The inductive invariant: what was executed is approved and closed to votes, and the
\* parameters are what was executed.
Decisions == ExecutedStaysApproved /\ ParamsWereDecided

LEMMA CreateDecisions ==
    ASSUME TypeOK, Decisions, NEW a \in Holders, NEW key \in Keys, NEW value \in Values,
           CreateProposal(a, key, value)
    PROVE  Decisions'
<1>1. proposalCount' = proposalCount + 1 /\ params' = params /\ ledger' = ledger
  BY DEF CreateProposal, MayPropose
<1>2. Ids' = Ids \cup {proposalCount} /\ proposalCount \notin Ids
  BY <1>1, NextId
<1>3. /\ \A id \in Ids : proposals'[id] = proposals[id]
      /\ proposals'[proposalCount].executed = FALSE
  BY <1>2 DEF CreateProposal, MayPropose
<1>4. ExecutedStaysApproved'
  BY <1>1, <1>2, <1>3 DEF Decisions, ExecutedStaysApproved
<1>5. ASSUME NEW k \in Keys
      PROVE  {id \in Ids' : proposals'[id].executed /\ proposals'[id].param_key = k}
               = {id \in Ids : proposals[id].executed /\ proposals[id].param_key = k}
  BY <1>2, <1>3
<1>6. ParamsWereDecided'
  BY <1>1, <1>3, <1>5 DEF Decisions, ParamsWereDecided
<1> QED
  BY <1>4, <1>6 DEF Decisions

LEMMA VoteDecisions ==
    ASSUME TypeOK, Decisions, NEW a \in Holders, NEW i \in Ids, NEW support \in BOOLEAN,
           Vote(a, i, support)
    PROVE  Decisions'
<1>1. /\ proposals' = [proposals EXCEPT ![i] = Counted(@, support, balance[a])]
      /\ proposalCount' = proposalCount /\ params' = params /\ ledger' = ledger
      /\ ledger <= proposals[i].end_ledger
  BY DEF Vote, MayVote, CastBallot
<1>2. Ids' = Ids
  BY <1>1 DEF Ids
<1>3. balance[a] \in Nat /\ proposals[i] \in Proposal /\ ledger \in Nat
  BY ConstantTypes DEF TypeOK, TokenTypeOK
<1>4. \A id \in Ids : /\ proposals'[id].executed = proposals[id].executed
                      /\ proposals'[id].param_key = proposals[id].param_key
                      /\ proposals'[id].new_value = proposals[id].new_value
                      /\ proposals'[id].end_ledger = proposals[id].end_ledger
                      /\ id # i => proposals'[id] = proposals[id]
  <2>1. \A id \in Ids : proposals'[id] = IF id = i THEN Counted(proposals[i], support, balance[a])
                                                   ELSE proposals[id]
    BY <1>1 DEF TypeOK
  <2> QED
    BY <1>3, <2>1, CountedType
<1>5. ~proposals[i].executed
  <2>1. proposals[i].end_ledger \in Nat
    BY <1>3 DEF Proposal
  <2> QED
    BY <1>1, <1>3, <2>1 DEF Decisions, ExecutedStaysApproved
<1>6. ExecutedStaysApproved'
  BY <1>1, <1>2, <1>4, <1>5 DEF Decisions, ExecutedStaysApproved
<1>7. ASSUME NEW k \in Keys
      PROVE  {id \in Ids' : proposals'[id].executed /\ proposals'[id].param_key = k}
               = {id \in Ids : proposals[id].executed /\ proposals[id].param_key = k}
  BY <1>2, <1>4
<1>8. ParamsWereDecided'
  BY <1>1, <1>4, <1>7 DEF Decisions, ParamsWereDecided
<1> QED
  BY <1>6, <1>8 DEF Decisions

LEMMA ExecuteDecisions ==
    ASSUME TypeOK, Decisions, NEW i \in Ids, ExecuteProposal(i)
    PROVE  Decisions'
<1>1. /\ proposals' = [proposals EXCEPT ![i].executed = TRUE]
      /\ params' = [params EXCEPT ![proposals[i].param_key] = proposals[i].new_value]
      /\ proposalCount' = proposalCount /\ ledger' = ledger
      /\ ledger > proposals[i].end_ledger
      /\ proposals[i].votes_for > proposals[i].votes_against
  BY DEF ExecuteProposal, MayExecute
<1>2. Ids' = Ids
  BY <1>1 DEF Ids
<1>3. proposals[i] \in Proposal /\ params \in [Keys -> Values \cup {NoValue}]
  BY DEF TypeOK
<1>4. \A id \in Ids : /\ proposals'[id].executed = (id = i \/ proposals[id].executed)
                      /\ proposals'[id].param_key = proposals[id].param_key
                      /\ proposals'[id].new_value = proposals[id].new_value
                      /\ proposals'[id].end_ledger = proposals[id].end_ledger
                      /\ proposals'[id].votes_for = proposals[id].votes_for
                      /\ proposals'[id].votes_against = proposals[id].votes_against
  <2>1. \A id \in Ids : proposals'[id] = IF id = i THEN [proposals[i] EXCEPT !.executed = TRUE]
                                                   ELSE proposals[id]
    BY <1>1 DEF TypeOK
  <2>2. \A id \in Ids : proposals[id] \in Proposal
    BY DEF TypeOK
  <2>3. ASSUME NEW id \in Ids, id # i PROVE proposals'[id] = proposals[id]
    BY <2>1, <2>3
  <2>4. /\ proposals'[i].executed = TRUE
        /\ proposals'[i].param_key = proposals[i].param_key
        /\ proposals'[i].new_value = proposals[i].new_value
        /\ proposals'[i].end_ledger = proposals[i].end_ledger
        /\ proposals'[i].votes_for = proposals[i].votes_for
        /\ proposals'[i].votes_against = proposals[i].votes_against
    BY <1>3, <2>1 DEF Proposal
  <2>5. \A id \in Ids : proposals[id].executed \in BOOLEAN
    BY <2>2 DEF Proposal
  <2> QED
    BY <2>3, <2>4, <2>5
<1>5. ExecutedStaysApproved'
  BY <1>1, <1>2, <1>4 DEF Decisions, ExecutedStaysApproved
<1>6. ASSUME NEW k \in Keys
      PROVE  LET decided == {id \in Ids' : proposals'[id].executed /\ proposals'[id].param_key = k}
             IN  IF decided = {} THEN params'[k] = NoValue
                 ELSE \E id \in decided : params'[k] = proposals'[id].new_value
  <2> DEFINE decided == {id \in Ids : proposals[id].executed /\ proposals[id].param_key = k}
             after == {id \in Ids' : proposals'[id].executed /\ proposals'[id].param_key = k}
  <2>1. CASE proposals[i].param_key = k
    <3>1. i \in after
      BY <1>2, <1>4, <2>1
    <3>2. params'[k] = proposals'[i].new_value
      BY <1>1, <1>3, <1>4, <2>1
    <3> QED
      BY <3>1, <3>2
  <2>2. CASE proposals[i].param_key # k
    <3>1. after = decided
      BY <1>2, <1>4, <2>2
    <3>2. params'[k] = params[k]
      BY <1>1, <1>3, <2>2
    <3>3. IF decided = {} THEN params[k] = NoValue
          ELSE \E id \in decided : params[k] = proposals[id].new_value
      BY DEF Decisions, ParamsWereDecided
    <3> QED
      BY <1>4, <3>1, <3>2, <3>3
  <2> QED
    BY <2>1, <2>2
<1>7. ParamsWereDecided'
  BY <1>6 DEF ParamsWereDecided
<1> QED
  BY <1>5, <1>7 DEF Decisions

LEMMA QuietDecisions ==
    ASSUME TypeOK, Decisions, TypeOK', Undisturbed
    PROVE  Decisions'
<1>1. Ids' = Ids /\ proposals' = proposals /\ params' = params /\ ledger' >= ledger
  BY DEF Undisturbed, Ids
<1>2. /\ ledger \in Nat /\ ledger' \in Nat
      /\ \A id \in Ids : proposals[id].end_ledger \in Nat
  BY DEF TypeOK, Proposal
<1>3. ExecutedStaysApproved'
  BY <1>1, <1>2 DEF Decisions, ExecutedStaysApproved
<1>4. ParamsWereDecided'
  BY <1>1 DEF Decisions, ParamsWereDecided
<1> QED
  BY <1>3, <1>4 DEF Decisions

LEMMA InitDecisions == Init => Decisions
BY DEF Init, Ids, Decisions, ExecutedStaysApproved, ParamsWereDecided

LEMMA NextDecisions == TypeOK /\ TypeOK' /\ Decisions /\ [Next]_vars => Decisions'
BY CreateDecisions, VoteDecisions, ExecuteDecisions, QuietDecisions, QuietSteps

LEMMA AlwaysDecisions == Spec => []Decisions
BY TypeCorrect, InitDecisions, NextDecisions, PTL DEF Spec

\* However tokens move and votes arrive, what was executed has a majority in its final
\* tallies, which no later vote can change.
THEOREM ExecutedAlwaysStaysApproved == Spec => []ExecutedStaysApproved
<1>1. Decisions => ExecutedStaysApproved
  BY DEF Decisions
<1> QED
  BY <1>1, AlwaysDecisions, PTL

\* Every parameter that has a value got it from an executed proposal for it.
THEOREM ParamsAlwaysDecided == Spec => []ParamsWereDecided
<1>1. Decisions => ParamsWereDecided
  BY DEF Decisions
<1> QED
  BY <1>1, AlwaysDecisions, PTL

----------------------------------------------------------------------------
(* The tallies are sums of ballots. *)

\* The votes of one side of a proposal.
Votes(proposal, support) == IF support THEN proposal.votes_for ELSE proposal.votes_against

BallotsOn(id, support) == {b \in ballots : b.id = id /\ b.support = support}
Weights == [b \in ballots |-> b.weight]

\* The inductive invariant: whose ballot was counted is recorded as having voted, so
\* nobody's is counted twice, and each tally is the sum of its side's ballots.
Tallied ==
    /\ IsFiniteSet(ballots)
    /\ \A b \in ballots : b.id \in Ids /\ <<b.id, b.voter>> \in voted
    /\ \A b, c \in ballots : b.id = c.id /\ b.voter = c.voter => b = c
    /\ \A id \in Ids, support \in BOOLEAN :
          Votes(proposals[id], support) = SumFunctionOnSet(Weights, BallotsOn(id, support))

\* Ballots on other proposals, or for the other side, leave a tally alone, and a
\* ballot of its own adds its weight to it.
LEMMA BallotAdded ==
    ASSUME NEW B \in SUBSET Ballot, IsFiniteSet(B), NEW b \in Ballot, b \notin B,
           NEW D \in SUBSET B
    PROVE  LET before == [x \in B |-> x.weight]
               after == [x \in B \cup {b} |-> x.weight]
           IN  /\ SumFunctionOnSet(before, D) \in Int
               /\ SumFunctionOnSet(after, D) = SumFunctionOnSet(before, D)
               /\ SumFunctionOnSet(after, D \cup {b}) = SumFunctionOnSet(before, D) + b.weight
<1> DEFINE before == [x \in B |-> x.weight]
           after == [x \in B \cup {b} |-> x.weight]
           E == D \cup {b}
<1>1. IsFiniteSet(D) /\ IsFiniteSet(E)
  BY FS_Subset, FS_AddElement
<1>2. /\ \A x \in D : before[x] = after[x] /\ before[x] \in Int
      /\ \A x \in E : after[x] \in Int
      /\ after[b] = b.weight /\ b \in E /\ E \ {b} = D
  BY DEF Ballot
<1> HIDE DEF before, after, E
<1>3. SumFunctionOnSet(before, D) = SumFunctionOnSet(after, D)
  BY <1>1, <1>2, SumAgree
<1>4. SumFunctionOnSet(before, D) \in Int
  BY <1>1, <1>2, SumInt
<1>5. SumFunctionOnSet(after, E) = after[b] + SumFunctionOnSet(after, E \ {b})
  BY <1>1, <1>2, SumTake
<1>6. b.weight \in Int
  BY DEF Ballot
<1>7. SumFunctionOnSet(after, E) = SumFunctionOnSet(before, D) + b.weight
  <2>1. SumFunctionOnSet(after, E) = b.weight + SumFunctionOnSet(before, D)
    BY <1>2, <1>3, <1>5
  <2> DEFINE sum == SumFunctionOnSet(before, D)
  <2>2. sum \in Int
    BY <1>4
  <2> HIDE DEF sum
  <2> QED
    BY <1>6, <2>1, <2>2 DEF sum
<1> QED
  BY <1>3, <1>4, <1>7 DEF before, after, E

LEMMA VoteTallied ==
    ASSUME TypeOK, Tallied, NEW a \in Holders, NEW i \in Ids, NEW side \in BOOLEAN,
           Vote(a, i, side)
    PROVE  Tallied'
<1> DEFINE b == [id |-> i, voter |-> a, support |-> side, weight |-> balance[a]]
<1>1. /\ proposals' = [proposals EXCEPT ![i] = Counted(@, side, balance[a])]
      /\ ballots' = ballots \cup {b}
      /\ voted' = voted \cup {<<i, a>>} /\ <<i, a>> \notin voted
      /\ proposalCount' = proposalCount /\ balance[a] > 0
  BY DEF Vote, MayVote, CastBallot
<1>2. /\ a \in Accounts /\ balance[a] \in Nat \ {0} /\ i \in Nat
      /\ ballots \in SUBSET Ballot
  <2>1. a \in Accounts /\ balance[a] \in Nat \ {0} /\ i \in Nat
    BY <1>1, ConstantTypes DEF TypeOK, TokenTypeOK, Ids
  <2> QED
    BY <2>1 DEF TypeOK
<1>3. b \in Ballot /\ b.id = i /\ b.voter = a /\ b.support = side /\ b.weight = balance[a]
  BY <1>2 DEF Ballot
<1> HIDE DEF b
<1>4. Ids' = Ids /\ b \notin ballots
  BY <1>1, <1>3 DEF Ids, Tallied
<1>5. IsFiniteSet(ballots')
  BY <1>1, FS_AddElement DEF Tallied
<1>6. \A c \in ballots' : c.id \in Ids' /\ <<c.id, c.voter>> \in voted'
  BY <1>1, <1>3, <1>4 DEF Tallied
<1>7. \A c, d \in ballots' : c.id = d.id /\ c.voter = d.voter => c = d
  BY <1>1, <1>3 DEF Tallied
<1>8. ASSUME NEW id \in Ids, NEW support \in BOOLEAN
      PROVE  Votes(proposals'[id], support)
               = SumFunctionOnSet(Weights', BallotsOn(id, support)')
  <2> DEFINE D == BallotsOn(id, support)
             before == SumFunctionOnSet(Weights, D)
             after == [x \in ballots \cup {b} |-> x.weight]
  <2>1. Votes(proposals[id], support) = before
    BY DEF Tallied
  <2>2. D \in SUBSET ballots
    BY DEF BallotsOn
  <2> HIDE DEF D
  <2>3. /\ before \in Int
        /\ SumFunctionOnSet(after, D) = before
        /\ SumFunctionOnSet(after, D \cup {b}) = before + b.weight
    BY <1>2, <1>3, <1>4, <2>2, BallotAdded DEF Tallied, Weights
  <2>4. Weights' = after
    BY <1>1 DEF Weights
  <2>5. BallotsOn(id, support)' = IF id = i /\ support = side THEN D \cup {b} ELSE D
    BY <1>1, <1>3 DEF BallotsOn, D
  <2>6. proposals'[id] = IF id = i THEN Counted(proposals[i], side, balance[a])
                                   ELSE proposals[id]
    BY <1>1 DEF TypeOK
  <2>7. proposals[id] \in Proposal
    BY DEF TypeOK
  <2>8. Votes(proposals'[id], support)
          = IF id = i /\ support = side THEN before + balance[a] ELSE before
    BY <2>1, <2>6, <2>7 DEF Votes, Counted, Proposal
  <2> HIDE DEF before, after
  <2> QED
    BY <1>3, <2>3, <2>4, <2>5, <2>8
<1>9. \A id \in Ids', support \in BOOLEAN :
         Votes(proposals'[id], support) = SumFunctionOnSet(Weights', BallotsOn(id, support)')
  BY <1>4, <1>8
<1> QED
  BY <1>5, <1>6, <1>7, <1>9 DEF Tallied

\* Nobody has voted on a proposal before it is there.
LEMMA CreateTallied ==
    ASSUME TypeOK, Tallied, NEW a \in Holders, NEW key \in Keys, NEW value \in Values,
           CreateProposal(a, key, value)
    PROVE  Tallied'
<1>1. /\ proposalCount' = proposalCount + 1
      /\ UNCHANGED <<voted, ballots>>
  BY DEF CreateProposal, MayPropose
<1>2. Ids' = Ids \cup {proposalCount} /\ proposalCount \notin Ids
  BY <1>1, NextId
<1>3. /\ \A id \in Ids : proposals'[id] = proposals[id]
      /\ proposals'[proposalCount].votes_for = 0
      /\ proposals'[proposalCount].votes_against = 0
  BY <1>2 DEF CreateProposal, MayPropose
<1>4. Weights' = Weights /\ \A id, support : BallotsOn(id, support)' = BallotsOn(id, support)
  BY <1>1 DEF Weights, BallotsOn
<1>5. ASSUME NEW support \in BOOLEAN
      PROVE  Votes(proposals'[proposalCount], support)
               = SumFunctionOnSet(Weights, BallotsOn(proposalCount, support))
  <2>1. BallotsOn(proposalCount, support) = {}
    BY <1>2 DEF BallotsOn, Tallied
  <2>2. SumFunctionOnSet(Weights, {}) = 0
    BY SumPick DEF Tallied
  <2> QED
    BY <1>3, <2>1, <2>2 DEF Votes
<1>6. \A id \in Ids', support \in BOOLEAN :
         Votes(proposals'[id], support) = SumFunctionOnSet(Weights', BallotsOn(id, support)')
  BY <1>2, <1>3, <1>4, <1>5 DEF Tallied
<1> QED
  BY <1>1, <1>2, <1>6 DEF Tallied

LEMMA ExecuteTallied ==
    ASSUME TypeOK, Tallied, NEW i \in Ids, ExecuteProposal(i)
    PROVE  Tallied'
<1>1. /\ proposals' = [proposals EXCEPT ![i].executed = TRUE]
      /\ UNCHANGED <<proposalCount, voted, ballots>>
  BY DEF ExecuteProposal, MayExecute
<1>2. Ids' = Ids
  BY <1>1 DEF Ids
<1>3. Weights' = Weights /\ \A id, support : BallotsOn(id, support)' = BallotsOn(id, support)
  BY <1>1 DEF Weights, BallotsOn
<1>4. \A id \in Ids : /\ proposals'[id].votes_for = proposals[id].votes_for
                      /\ proposals'[id].votes_against = proposals[id].votes_against
  BY <1>1 DEF TypeOK, Proposal
<1>5. \A id \in Ids', support \in BOOLEAN :
         Votes(proposals'[id], support) = SumFunctionOnSet(Weights', BallotsOn(id, support)')
  BY <1>2, <1>3, <1>4 DEF Tallied, Votes
<1> QED
  BY <1>1, <1>2, <1>5 DEF Tallied

LEMMA NextTallied == TypeOK /\ Tallied /\ [Next]_vars => Tallied'
<1> SUFFICES ASSUME TypeOK, Tallied, [Next]_vars PROVE Tallied'
  OBVIOUS
<1>1. ASSUME UNCHANGED <<proposals, proposalCount, voted, ballots>> PROVE Tallied'
  BY <1>1 DEF Tallied, Ids, Weights, BallotsOn
<1>2. ASSUME NEW supply \in Supplies, SetReferenceSupply(supply) PROVE Tallied'
  BY <1>1, <1>2 DEF SetReferenceSupply
<1>3. CASE TokenStep \/ CloseLedger \/ UNCHANGED vars
  BY <1>1, <1>3 DEF TokenStep, CloseLedger, vars, voteVars
<1> QED
  BY <1>2, <1>3, VoteTallied, CreateTallied, ExecuteTallied DEF Next, GovernanceStep

LEMMA InitTallied == Init => Tallied
BY FS_EmptySet DEF Init, Ids, Tallied

LEMMA AlwaysTallied == Spec => []Tallied
BY TypeCorrect, InitTallied, NextTallied, PTL DEF Spec

\* A holder's voting power is counted at most once on each proposal, and the tallies
\* that decide it are what the counted ballots weigh, wherever the tokens went since.
THEOREM AlwaysOneBallotEach == Spec => []OneBallotEach
<1>1. Tallied => OneBallotEach
  BY DEF Tallied, OneBallotEach, Votes, WeightOf, Weights, BallotsOn
<1> QED
  BY <1>1, AlwaysTallied, PTL

----------------------------------------------------------------------------
(* The hooks: what a wallet's step does to its hook and its transaction. *)

LEMMA WalletTypes ==
    /\ Wallets \subseteq Holders /\ MaxRetries \in Nat
    /\ \A request \in Requests :
          \/ request.kind = "create" /\ request.key \in Keys /\ request.value \in Values
          \/ request.kind = "vote" /\ request.id \in Nat /\ request.support \in BOOLEAN
          \/ request.kind = "execute" /\ request.id \in Nat
BY MirrorAssumption, WalletAssumption DEF MirrorAssumption, WalletAssumption

\* A hook that is at some step is not at rest.
LEMMA HookIn ==
    ASSUME WalletTypeOK, NEW w \in Wallets,
           \/ hook[w].step \in {"asking", "signing", "submitting", "polling", "confirmed"}
           \/ hook[w] # Nothing
    PROVE  hook[w] \in Hook
BY DEF WalletTypeOK, Nothing

LEMMA ForgottenTypes ==
    ASSUME WalletTypeOK, NEW w \in Wallets, Forgotten(w)
    PROVE  network' \in [Wallets -> {Nothing} \cup Waiting]
<1>1. (IF network[w] = Nothing THEN network[w] ELSE [network[w] EXCEPT !.ofHook = FALSE])
         \in {Nothing} \cup Waiting
  BY DEF WalletTypeOK, Waiting
<1> QED
  BY <1>1 DEF WalletTypeOK, Forgotten

LEMMA GiveUpTypes == ASSUME WalletTypeOK, NEW w \in Wallets, GiveUp(w) PROVE WalletTypeOK'
<1>1. hook' \in [Wallets -> {Nothing} \cup Hook]
  BY DEF WalletTypeOK, GiveUp
<1> QED
  BY <1>1, ForgottenTypes DEF WalletTypeOK, GiveUp

LEMMA ReportTypes ==
    ASSUME WalletTypeOK, NEW w \in Wallets, hook[w] \in Hook, Report(w)
    PROVE  WalletTypeOK'
<1>1. [hook[w] EXCEPT !.step = "confirmed"] \in Hook
  BY DEF Hook
<1>2. hook' = [hook EXCEPT ![w] = [hook[w] EXCEPT !.step = "confirmed"]]
  BY DEF Report
<1>3. hook' \in [Wallets -> {Nothing} \cup Hook]
  BY <1>1, <1>2 DEF WalletTypeOK
<1> QED
  BY <1>3, ForgottenTypes DEF WalletTypeOK, Report

\* What a hook becomes when only its step, its fate and its retries change.
LEMMA HookMoves ==
    ASSUME WalletTypeOK, NEW w \in Wallets, hook[w] \in Hook, NEW h \in Hook,
           hook' = [hook EXCEPT ![w] = h], UNCHANGED network
    PROVE  WalletTypeOK'
BY DEF WalletTypeOK

LEMMA ToTypes ==
    ASSUME WalletTypeOK, NEW w \in Wallets, hook[w] \in Hook,
           NEW step \in {"asking", "signing", "submitting", "polling", "confirmed"}, To(w, step)
    PROVE  WalletTypeOK'
<1>1. [hook[w] EXCEPT !.step = step] \in Hook
  BY DEF Hook
<1>2. hook' = [hook EXCEPT ![w] = [hook[w] EXCEPT !.step = step]] /\ UNCHANGED network
  BY DEF To
<1> QED
  BY <1>1, <1>2, HookMoves

LEMMA NoAnswerTypes ==
    ASSUME WalletTypeOK, NEW w \in Wallets, hook[w] \in Hook,
           NEW step \in {"asking", "submitting"}, NoAnswer(w, step)
    PROVE  WalletTypeOK'
<1>1. CASE hook[w].tries = MaxRetries
  BY <1>1, GiveUpTypes DEF NoAnswer
<1>2. CASE hook[w].tries # MaxRetries
  <2>1. hook[w].tries + 1 \in 0..MaxRetries
    BY <1>2, WalletTypes DEF Hook
  <2> DEFINE h == [hook[w] EXCEPT !.step = step, !.tries = hook[w].tries + 1]
  <2>2. h \in Hook
    BY <2>1 DEF Hook
  <2>3. hook' = [hook EXCEPT ![w] = h] /\ UNCHANGED network
    BY <1>2 DEF NoAnswer, WalletTypeOK
  <2> HIDE DEF h
  <2> QED
    BY <2>2, <2>3, HookMoves
<1> QED
  BY <1>1, <1>2

LEMMA BuiltTypes ==
    ASSUME WalletTypeOK, NEW w \in Wallets, At(w, "asking"), Built(w)
    PROVE  WalletTypeOK'
<1>1. hook[w] \in Hook
  BY HookIn DEF At
<1>2. ASSUME hook' = [hook EXCEPT ![w].step = "signing", ![w].tries = 0], UNCHANGED network
      PROVE  WalletTypeOK'
  <2> DEFINE h == [hook[w] EXCEPT !.step = "signing", !.tries = 0]
  <2>1. h \in Hook
    <3>1. 0 \in 0..MaxRetries
      BY WalletTypes
    <3> QED
      BY <1>1, <3>1 DEF Hook
  <2>2. hook' = [hook EXCEPT ![w] = h]
    BY <1>2 DEF WalletTypeOK
  <2> HIDE DEF h
  <2> QED
    BY <1>1, <1>2, <2>1, <2>2, HookMoves
<1> QED
  BY <1>1, <1>2, NoAnswerTypes DEF Built

LEMMA LeavesTypes ==
    ASSUME WalletTypeOK, NEW w \in Wallets, NEW fate \in Fate, Leaves(w, fate),
           network[w].ofHook => hook[w] \in Hook
    PROVE  WalletTypeOK'
<1>1. network' \in [Wallets -> {Nothing} \cup Waiting]
  BY DEF Leaves, WalletTypeOK
<1>2. CASE network[w].ofHook
  <2>1. [hook[w] EXCEPT !.fate = fate] \in Hook
    BY <1>2 DEF Hook
  <2>2. hook' = [hook EXCEPT ![w] = [hook[w] EXCEPT !.fate = fate]]
    BY <1>2 DEF Leaves
  <2> QED
    BY <1>1, <2>1, <2>2 DEF WalletTypeOK
<1>3. CASE ~network[w].ofHook
  <2>1. hook' = [hook EXCEPT ![w] = hook[w]]
    BY <1>3 DEF Leaves
  <2> QED
    BY <1>1, <2>1 DEF WalletTypeOK
<1> QED
  BY <1>2, <1>3

LEMMA SubmitTypes ==
    ASSUME WalletTypeOK, NEW w \in Wallets, Submit(w)
    PROVE  WalletTypeOK'
<1>1. hook[w] \in Hook
  BY HookIn DEF Submit, At
<1>2. CASE hook[w].fate = "waiting"
  BY <1>1, <1>2, ToTypes DEF Submit
<1>3. CASE hook[w].fate = "unsent" /\ network[w] = Nothing
  <2> DEFINE h == [hook[w] EXCEPT !.step = "polling", !.fate = "waiting"]
             sent == [request |-> hook[w].request, ofHook |-> TRUE]
  <2>1. h \in Hook /\ sent \in Waiting
    BY <1>1 DEF Hook, Waiting, Fate
  <2>2. hook' = [hook EXCEPT ![w] = h] /\ network' = [network EXCEPT ![w] = sent]
    BY <1>3 DEF Submit, WalletTypeOK
  <2> HIDE DEF h, sent
  <2> QED
    BY <2>1, <2>2 DEF WalletTypeOK
<1>4. CASE ~(hook[w].fate = "waiting") /\ ~(hook[w].fate = "unsent" /\ network[w] = Nothing)
  BY <1>4, GiveUpTypes DEF Submit
<1> QED
  BY <1>2, <1>3, <1>4

\* The transaction that a hook waits for is the one it asked for; what is polled for was
\* sent, and what is confirmed did not fail; what was included, OnChain has.
Follows(w) ==
    /\ network[w] # Nothing /\ network[w].ofHook =>
          /\ hook[w] # Nothing /\ hook[w].fate = "waiting" /\ ~At(w, "confirmed")
          /\ hook[w].request = network[w].request
    /\ At(w, "polling") => hook[w].fate \in {"waiting", "included", "failed"}
    /\ At(w, "confirmed") => hook[w].fate \in {"waiting", "included"}

LEMMA WalletStepTypes ==
    ASSUME WalletTypeOK, NEW w \in Wallets, Follows(w), WalletStep(w)
    PROVE  WalletTypeOK'
<1>1. CASE Unreachable(w)
  BY <1>1, HookIn, NoAnswerTypes DEF Unreachable, At
<1>2. CASE Sign(w)
  BY <1>2, HookIn, ToTypes, GiveUpTypes DEF Sign, At
<1>3. CASE Submit(w)
  BY <1>3, SubmitTypes
<1>4. CASE Found(w)
  BY <1>4, HookIn, ReportTypes, GiveUpTypes DEF Found, At
<1>5. CASE PollCutOff(w)
  BY <1>5, HookIn, NoAnswerTypes DEF PollCutOff, At
<1>6. CASE RanOut(w)
  <2>1. network[w].ofHook => hook[w] \in Hook
    BY <1>6, HookIn DEF RanOut, Leaves, Follows
  <2> QED
    BY <1>6, <2>1, LeavesTypes DEF RanOut, Fate
<1> QED
  BY <1>1, <1>2, <1>3, <1>4, <1>5, <1>6 DEF WalletStep

LEMMA IncludedTypes ==
    ASSUME WalletTypeOK, NEW w \in Wallets, Follows(w), NEW succeeds \in BOOLEAN,
           network[w] # Nothing, Included(w, succeeds)
    PROVE  WalletTypeOK'
<1>1. CASE network[w].ofHook \/ hook[w].step \notin {"signing", "submitting"}
  <2>1. network[w].ofHook => hook[w] \in Hook
    BY HookIn DEF Follows
  <2>2. Leaves(w, IF succeeds THEN "included" ELSE "failed")
    BY <1>1 DEF Included
  <2>3. (IF succeeds THEN "included" ELSE "failed") \in Fate
    BY DEF Fate
  <2> QED
    BY <2>1, <2>2, <2>3, LeavesTypes
<1>2. CASE ~(network[w].ofHook \/ hook[w].step \notin {"signing", "submitting"})
  <2>1. hook[w] \in Hook
    BY <1>2, HookIn
  <2> DEFINE h == [hook[w] EXCEPT !.fate = "stale"]
  <2>2. h \in Hook
    BY <2>1 DEF Hook, Fate
  <2>3. hook' = [hook EXCEPT ![w] = h] /\ network' = [network EXCEPT ![w] = Nothing]
    BY <1>2 DEF Included
  <2> HIDE DEF h
  <2> QED
    BY <2>2, <2>3 DEF WalletTypeOK
<1> QED
  BY <1>1, <1>2

LEMMA AskTypes ==
    ASSUME WalletTypeOK, NEW w \in Wallets, NEW request \in Requests, Ask(w, request)
    PROVE  WalletTypeOK'
<1> DEFINE h == [step |-> "asking", request |-> request, fate |-> "unsent", tries |-> 0]
<1>1. h \in Hook
  BY WalletTypes DEF Hook, Fate
<1>2. hook' = [hook EXCEPT ![w] = h] /\ UNCHANGED network
  BY DEF Ask
<1> HIDE DEF h
<1> QED
  BY <1>1, <1>2 DEF WalletTypeOK

\* A step of one wallet alone: it puts nothing on chain.
Alone(w) ==
    /\ \A u \in Wallets \ {w} : hook'[u] = hook[u] /\ network'[u] = network[u]
    /\ Follows(w)'
    /\ hook'[w] # Nothing /\ hook'[w].fate = "included" =>
          hook[w] # Nothing /\ hook[w].fate = "included" /\ hook'[w].request = hook[w].request

LEMMA GiveUpAlone ==
    ASSUME WalletTypeOK, NEW w \in Wallets, GiveUp(w)
    PROVE  Alone(w)
<1>1. /\ hook'[w] = Nothing
      /\ \A u \in Wallets \ {w} : hook'[u] = hook[u] /\ network'[u] = network[u]
  BY DEF GiveUp, Forgotten, WalletTypeOK
<1>2. network'[w] # Nothing => ~network'[w].ofHook
  BY DEF GiveUp, Forgotten, WalletTypeOK, Waiting
<1> QED
  BY <1>1, <1>2 DEF Alone, Follows, At, Nothing

LEMMA ReportAlone ==
    ASSUME WalletTypeOK, NEW w \in Wallets, hook[w] \in Hook,
           hook[w].fate \in {"waiting", "included"}, Report(w)
    PROVE  Alone(w)
<1> DEFINE h == [hook[w] EXCEPT !.step = "confirmed"]
<1>1. h.step = "confirmed" /\ h.fate = hook[w].fate /\ h.request = hook[w].request
  BY DEF Hook
<1>2. /\ hook'[w] = h
      /\ \A u \in Wallets \ {w} : hook'[u] = hook[u] /\ network'[u] = network[u]
  BY DEF Report, Forgotten, WalletTypeOK
<1>3. network'[w] # Nothing => ~network'[w].ofHook
  BY DEF Report, Forgotten, WalletTypeOK, Waiting
<1>4. hook[w] # Nothing
  BY DEF Hook, Nothing
<1> HIDE DEF h
<1> QED
  BY <1>1, <1>2, <1>3, <1>4 DEF Alone, Follows, At

\* The hook's request and fate stay, and so does its transaction.
LEMMA HookMovesAlone ==
    ASSUME WalletTypeOK, NEW w \in Wallets, Follows(w), hook[w] \in Hook, NEW h \in Hook,
           h.request = hook[w].request, h.fate = hook[w].fate,
           h.step \in {"asking", "signing", "submitting"} \/ (h.step = "polling" /\ h.fate = "waiting"),
           hook' = [hook EXCEPT ![w] = h], UNCHANGED network
    PROVE  Alone(w)
<1>1. hook'[w] = h /\ \A u \in Wallets \ {w} : hook'[u] = hook[u] /\ network'[u] = network[u]
  BY DEF WalletTypeOK
<1>2. hook[w] # Nothing /\ h # Nothing
  BY DEF Hook, Nothing
<1> QED
  BY <1>1, <1>2 DEF Alone, Follows, At

LEMMA ToAlone ==
    ASSUME WalletTypeOK, NEW w \in Wallets, Follows(w), hook[w] \in Hook,
           NEW step \in {"asking", "signing", "submitting", "polling"}, To(w, step),
           step = "polling" => hook[w].fate = "waiting"
    PROVE  Alone(w)
<1> DEFINE h == [hook[w] EXCEPT !.step = step]
<1>1. h \in Hook /\ h.request = hook[w].request /\ h.fate = hook[w].fate /\ h.step = step
  BY DEF Hook
<1>2. hook' = [hook EXCEPT ![w] = h] /\ UNCHANGED network
  BY DEF To
<1> HIDE DEF h
<1> QED
  BY <1>1, <1>2, HookMovesAlone

LEMMA NoAnswerAlone ==
    ASSUME WalletTypeOK, NEW w \in Wallets, Follows(w), hook[w] \in Hook,
           NEW step \in {"asking", "submitting"}, NoAnswer(w, step)
    PROVE  Alone(w)
<1>1. CASE hook[w].tries = MaxRetries
  BY <1>1, GiveUpAlone DEF NoAnswer
<1>2. CASE hook[w].tries # MaxRetries
  <2> DEFINE h == [hook[w] EXCEPT !.step = step, !.tries = hook[w].tries + 1]
  <2>1. hook[w].tries + 1 \in 0..MaxRetries
    BY <1>2, WalletTypes DEF Hook
  <2>2. h \in Hook /\ h.request = hook[w].request /\ h.fate = hook[w].fate /\ h.step = step
    BY <2>1 DEF Hook
  <2>3. hook' = [hook EXCEPT ![w] = h] /\ UNCHANGED network
    BY <1>2 DEF NoAnswer, WalletTypeOK
  <2> HIDE DEF h
  <2> QED
    BY <2>2, <2>3, HookMovesAlone
<1> QED
  BY <1>1, <1>2

LEMMA BuiltAlone ==
    ASSUME WalletTypeOK, NEW w \in Wallets, Follows(w), At(w, "asking"), Built(w)
    PROVE  Alone(w)
<1>1. hook[w] \in Hook
  BY HookIn DEF At
<1>2. ASSUME hook' = [hook EXCEPT ![w].step = "signing", ![w].tries = 0], UNCHANGED network
      PROVE  Alone(w)
  <2> DEFINE h == [hook[w] EXCEPT !.step = "signing", !.tries = 0]
  <2>1. 0 \in 0..MaxRetries
    BY WalletTypes
  <2>2. h \in Hook /\ h.request = hook[w].request /\ h.fate = hook[w].fate /\ h.step = "signing"
    BY <1>1, <2>1 DEF Hook
  <2>3. hook' = [hook EXCEPT ![w] = h]
    BY <1>2 DEF WalletTypeOK
  <2> HIDE DEF h
  <2> QED
    BY <1>1, <1>2, <2>2, <2>3, HookMovesAlone
<1> QED
  BY <1>1, <1>2, NoAnswerAlone DEF Built

LEMMA AskAlone ==
    ASSUME WalletTypeOK, NEW w \in Wallets, Follows(w), NEW request \in Requests, Ask(w, request)
    PROVE  Alone(w)
<1>1. /\ hook'[w] = [step |-> "asking", request |-> request, fate |-> "unsent", tries |-> 0]
      /\ \A u \in Wallets \ {w} : hook'[u] = hook[u]
      /\ network' = network
  BY DEF Ask, WalletTypeOK
<1>2. hook[w] = Nothing \/ At(w, "confirmed")
  BY HookIn DEF Ask, At, WalletTypeOK, Hook
<1>3. ~(network[w] # Nothing /\ network[w].ofHook)
  BY <1>2 DEF Follows
<1> QED
  BY <1>1, <1>3 DEF Alone, Follows, At

LEMMA SubmitAlone ==
    ASSUME WalletTypeOK, NEW w \in Wallets, Follows(w), Submit(w)
    PROVE  Alone(w)
<1>1. hook[w] \in Hook
  BY HookIn DEF Submit, At
<1>2. CASE hook[w].fate = "waiting"
  BY <1>1, <1>2, ToAlone DEF Submit
<1>3. CASE hook[w].fate = "unsent" /\ network[w] = Nothing
  <2> DEFINE h == [hook[w] EXCEPT !.step = "polling", !.fate = "waiting"]
             sent == [request |-> hook[w].request, ofHook |-> TRUE]
  <2>1. h \in Hook /\ h.fate = "waiting" /\ h.request = hook[w].request /\ h.step = "polling"
    BY <1>1 DEF Hook, Fate
  <2>2. hook' = [hook EXCEPT ![w] = h] /\ network' = [network EXCEPT ![w] = sent]
    BY <1>3 DEF Submit, WalletTypeOK
  <2>3. sent.request = hook[w].request
    OBVIOUS
  <2>4. h # Nothing
    BY <2>1 DEF Hook, Nothing
  <2> HIDE DEF h, sent
  <2>5. /\ hook'[w] = h /\ network'[w] = sent
        /\ \A u \in Wallets \ {w} : hook'[u] = hook[u] /\ network'[u] = network[u]
    BY <2>2 DEF WalletTypeOK
  <2> QED
    BY <2>1, <2>3, <2>4, <2>5 DEF Alone, Follows, At
<1>4. CASE ~(hook[w].fate = "waiting") /\ ~(hook[w].fate = "unsent" /\ network[w] = Nothing)
  BY <1>4, GiveUpAlone DEF Submit
<1> QED
  BY <1>2, <1>3, <1>4

\* The transaction of a wallet leaves the network: only its own hook learns of it.
LEMMA LeavesHook ==
    ASSUME WalletTypeOK, NEW w \in Wallets, Follows(w), NEW fate \in {"included", "failed"},
           Leaves(w, fate)
    PROVE  /\ \A u \in Wallets \ {w} : hook'[u] = hook[u] /\ network'[u] = network[u]
           /\ Follows(w)'
           /\ hook'[w] # hook[w] =>
                 /\ hook[w] # Nothing /\ network[w].ofHook
                 /\ hook'[w].fate = fate /\ hook'[w].request = network[w].request
<1>1. /\ network'[w] = Nothing
      /\ \A u \in Wallets \ {w} : hook'[u] = hook[u] /\ network'[u] = network[u]
  BY DEF Leaves, WalletTypeOK
<1>2. CASE network[w].ofHook
  <2>1. hook[w] \in Hook /\ hook[w].fate = "waiting" /\ hook[w].request = network[w].request
    BY <1>2, HookIn DEF Leaves, Follows
  <2> DEFINE h == [hook[w] EXCEPT !.fate = fate]
  <2>2. h.step = hook[w].step /\ h.fate = fate /\ h.request = hook[w].request
    BY <2>1 DEF Hook
  <2>3. hook'[w] = h
    BY <1>2 DEF Leaves, WalletTypeOK
  <2> HIDE DEF h
  <2>4. hook[w].step # "confirmed" /\ hook[w] # Nothing
    BY <1>2, <2>1 DEF Follows, At, Hook, Nothing, Leaves
  <2> QED
    BY <1>1, <1>2, <2>1, <2>2, <2>3, <2>4 DEF Follows, At
<1>3. CASE ~network[w].ofHook
  <2>1. hook'[w] = hook[w]
    BY <1>3 DEF Leaves, WalletTypeOK
  <2> QED
    BY <1>1, <2>1 DEF Follows, At
<1> QED
  BY <1>2, <1>3

LEMMA WalletStepAlone ==
    ASSUME WalletTypeOK, NEW w \in Wallets, Follows(w), WalletStep(w)
    PROVE  Alone(w)
<1>1. CASE Unreachable(w)
  BY <1>1, HookIn, NoAnswerAlone DEF Unreachable, At
<1>2. CASE Sign(w)
  BY <1>2, HookIn, ToAlone, GiveUpAlone DEF Sign, At
<1>3. CASE Submit(w)
  BY <1>3, SubmitAlone
<1>4. CASE Found(w)
  <2>1. hook[w] \in Hook /\ hook[w].fate \in {"waiting", "included", "failed"}
    BY <1>4, HookIn DEF Found, At, Follows
  <2> QED
    BY <1>4, <2>1, ReportAlone, GiveUpAlone DEF Found
<1>5. CASE PollCutOff(w)
  BY <1>5, HookIn, NoAnswerAlone DEF PollCutOff, At
<1>6. CASE RanOut(w)
  BY <1>6, LeavesHook DEF RanOut, Alone
<1> QED
  BY <1>1, <1>2, <1>3, <1>4, <1>5, <1>6 DEF WalletStep

----------------------------------------------------------------------------
(* The routes beside the contract. *)

\* What is in a hook or on the network was asked for.
LEMMA AskedFor ==
    ASSUME WalletTypeOK, NEW w \in Wallets
    PROVE  /\ hook[w] # Nothing => hook[w].request \in Requests
           /\ network[w] # Nothing => network[w].request \in Requests
<1>1. hook[w] # Nothing => hook[w] \in Hook
  BY HookIn
<1>2. network[w] # Nothing => network[w] \in Waiting
  BY DEF WalletTypeOK
<1> QED
  BY <1>1, <1>2 DEF Hook, Waiting

\* A transaction does on chain what one of the contract's entry points does.
LEMMA EffectIsCall ==
    ASSUME NEW w \in Wallets, NEW request \in Requests, Effect(w, request)
    PROVE  Next
<1>1. w \in Holders
  BY WalletTypes
<1>2. CASE request.kind = "create"
  <2>1. request.key \in Keys /\ request.value \in Values
    BY <1>2, WalletTypes
  <2>2. proposalCount < MaxProposals /\ CreateProposal(w, request.key, request.value)
    BY <1>2 DEF Effect
  <2> QED
    BY <1>1, <2>1, <2>2 DEF Next, GovernanceStep
<1>3. CASE request.kind = "vote"
  <2>1. request.support \in BOOLEAN
    BY <1>3, WalletTypes
  <2>2. request.id \in Ids /\ Vote(w, request.id, request.support)
    BY <1>3 DEF Effect
  <2> QED
    BY <1>1, <2>1, <2>2 DEF Next, GovernanceStep
<1>4. CASE request.kind = "execute"
  <2>1. request.id \in Ids /\ ExecuteProposal(request.id)
    BY <1>4 DEF Effect
  <2> QED
    BY <2>1 DEF Next, GovernanceStep
<1> QED
  BY <1>2, <1>3, <1>4, WalletTypes

\* A step of the whole: a step of one wallet alone, of a route, of the chain with a
\* wallet's transaction, or of the chain without the wallets.
LEMMA MirrorSteps ==
    ASSUME WalletTypeOK, [MirrorNext]_allVars
    PROVE  \/ \E w \in Wallets : /\ \/ \E request \in Requests : Ask(w, request)
                                    \/ WalletStep(w)
                                 /\ UNCHANGED <<vars, mirrorVars>>
           \/ \E w \in Wallets : network[w] # Nothing /\ Include(w)
           \/ RouteStep
           \/ RestartRoutes
           \/ [Next]_vars /\ UNCHANGED <<walletVars, mirrorVars>>
<1>1. CASE UserStep
  BY <1>1 DEF UserStep
<1>2. CASE RouteStep \/ RestartRoutes
  BY <1>2
<1>3. CASE HandOut /\ UNCHANGED <<walletVars, mirrorVars>>
  <2>1. PICK w \in Wallets, n \in TokenAmounts : totalSupply + n <= MaxSupply /\ Mint(minter, w, n)
    BY <1>3 DEF HandOut
  <2>2. w \in Holders
    BY WalletTypes
  <2>3. TokenStep
    BY <1>3, <2>1, <2>2 DEF HandOut, TokenStep
  <2> QED
    BY <1>3, <2>3 DEF Next
<1>4. CASE CloseLedger /\ UNCHANGED <<walletVars, mirrorVars>>
  BY <1>4 DEF Next
<1>5. CASE UNCHANGED allVars
  BY <1>5 DEF allVars
<1> QED
  BY <1>1, <1>2, <1>3, <1>4, <1>5 DEF MirrorNext

\* The routes and the hooks do nothing to the contract that a call of it does not.
LEMMA MirrorStepIsGovernanceStep ==
    ASSUME WalletTypeOK, [MirrorNext]_allVars
    PROVE  [Next]_vars
<1>1. ASSUME NEW w \in Wallets, network[w] # Nothing, Include(w) PROVE [Next]_vars
  <2>1. CASE Effect(w, network[w].request)
    BY <1>1, <2>1, AskedFor, EffectIsCall
  <2> QED
    BY <1>1, <2>1 DEF Include
<1>2. CASE RouteStep
  BY <1>2 DEF RouteStep, CreateRoute, VoteRoute, ExecuteRoute, MarkAndApply, ReadNext,
              CopyToRow, EndList
<1>3. CASE RestartRoutes
  BY <1>3 DEF RestartRoutes
<1> QED
  BY <1>1, <1>2, <1>3, MirrorSteps

LEMMA OthersFollow ==
    ASSUME \A u \in Wallets : Follows(u), NEW w \in Wallets, Follows(w)',
           \A u \in Wallets \ {w} : hook'[u] = hook[u] /\ network'[u] = network[u]
    PROVE  \A u \in Wallets : Follows(u)'
BY DEF Follows, At

LEMMA IncludedFollows ==
    ASSUME WalletTypeOK, NEW w \in Wallets, Follows(w), NEW succeeds \in BOOLEAN,
           network[w] # Nothing, Included(w, succeeds)
    PROVE  /\ \A u \in Wallets \ {w} : hook'[u] = hook[u] /\ network'[u] = network[u]
           /\ Follows(w)'
           /\ hook'[w] # Nothing /\ hook'[w].fate = "included" =>
                 \/ hook[w] = hook'[w]
                 \/ succeeds /\ hook'[w].request = network[w].request
<1>1. CASE network[w].ofHook \/ hook[w].step \notin {"signing", "submitting"}
  <2> DEFINE fate == IF succeeds THEN "included" ELSE "failed"
  <2>1. fate \in {"included", "failed"} /\ (fate = "included" => succeeds)
    OBVIOUS
  <2>2. Leaves(w, fate)
    BY <1>1 DEF Included
  <2> HIDE DEF fate
  <2> QED
    BY <2>1, <2>2, LeavesHook
<1>2. CASE ~(network[w].ofHook \/ hook[w].step \notin {"signing", "submitting"})
  <2>1. hook[w] \in Hook /\ hook[w].step \in {"signing", "submitting"}
    BY <1>2, HookIn
  <2> DEFINE h == [hook[w] EXCEPT !.fate = "stale"]
  <2>2. h.fate = "stale" /\ h.step = hook[w].step
    BY <2>1 DEF Hook
  <2>3. hook' = [hook EXCEPT ![w] = h] /\ network' = [network EXCEPT ![w] = Nothing]
    BY <1>2 DEF Included
  <2> HIDE DEF h
  <2>4. /\ hook'[w] = h /\ network'[w] = Nothing
        /\ \A u \in Wallets \ {w} : hook'[u] = hook[u] /\ network'[u] = network[u]
    BY <2>3 DEF WalletTypeOK
  <2> QED
    BY <2>1, <2>2, <2>4 DEF Follows, At
<1> QED
  BY <1>1, <1>2

LEMMA WalletsRouted ==
    ASSUME WalletTypeOK, \A w \in Wallets : Follows(w), [MirrorNext]_allVars
    PROVE  WalletTypeOK' /\ \A w \in Wallets : Follows(w)'
<1>1. ASSUME NEW w \in Wallets,
             (\E request \in Requests : Ask(w, request)) \/ WalletStep(w)
      PROVE  WalletTypeOK' /\ \A u \in Wallets : Follows(u)'
  <2>1. WalletTypeOK' /\ Alone(w)
    BY <1>1, AskTypes, WalletStepTypes, AskAlone, WalletStepAlone
  <2> QED
    BY <2>1, OthersFollow DEF Alone
<1>2. ASSUME NEW w \in Wallets, network[w] # Nothing, Include(w)
      PROVE  WalletTypeOK' /\ \A u \in Wallets : Follows(u)'
  <2>1. PICK succeeds \in BOOLEAN : Included(w, succeeds)
    BY <1>2 DEF Include
  <2> QED
    BY <1>2, <2>1, IncludedTypes, IncludedFollows, OthersFollow
<1>3. ASSUME NEW w \in Wallets, CreateRoute(w) \/ VoteRoute(w) \/ ExecuteRoute(w)
      PROVE  WalletTypeOK' /\ \A u \in Wallets : Follows(u)'
  <2>1. At(w, "asking") /\ (Built(w) \/ GiveUp(w))
    BY <1>3 DEF CreateRoute, VoteRoute, ExecuteRoute
  <2>2. WalletTypeOK' /\ Alone(w)
    BY <2>1, BuiltTypes, GiveUpTypes, BuiltAlone, GiveUpAlone
  <2> QED
    BY <2>2, OthersFollow DEF Alone
<1>4. ASSUME UNCHANGED walletVars
      PROVE  WalletTypeOK' /\ \A u \in Wallets : Follows(u)'
  BY <1>4 DEF WalletTypeOK, walletVars, Follows, At
<1>5. CASE RouteStep
  <2>1. \/ \E w \in Wallets : CreateRoute(w) \/ VoteRoute(w) \/ ExecuteRoute(w)
        \/ UNCHANGED walletVars
    BY <1>5 DEF RouteStep, MarkAndApply, ReadNext, CopyToRow, EndList
  <2> QED
    BY <1>3, <1>4, <2>1
<1>6. CASE RestartRoutes
  BY <1>4, <1>6 DEF RestartRoutes
<1> QED
  BY <1>1, <1>2, <1>4, <1>5, <1>6, MirrorSteps

\* What the contract does not take back: its proposals and who proposed what, the votes,
\* and what was approved.
Keeps ==
    /\ Ids \subseteq Ids' /\ voted \subseteq voted'
    /\ \A id \in Ids :
          /\ SameSubject(proposals'[id], proposals[id])
          /\ proposals'[id].new_value = proposals[id].new_value
          /\ proposals[id].votes_for <= proposals'[id].votes_for
          /\ proposals[id].votes_against <= proposals'[id].votes_against
          /\ proposals[id].executed => proposals'[id].executed
          /\ Approved(proposals[id]) => Approved(proposals[id])'

LEMMA VoteKeeps ==
    ASSUME TypeOK, NEW a \in Holders, NEW i \in Ids, NEW support \in BOOLEAN, Vote(a, i, support)
    PROVE  Keeps
<1>1. /\ proposals' = [proposals EXCEPT ![i] = Counted(@, support, balance[a])]
      /\ proposalCount' = proposalCount /\ ledger' = ledger
      /\ voted' = voted \cup {<<i, a>>}
      /\ ledger <= proposals[i].end_ledger
  BY DEF Vote, MayVote, CastBallot
<1>2. Ids' = Ids
  BY <1>1 DEF Ids
<1>3. balance[a] \in Nat /\ ledger \in Nat /\ \A id \in Ids : proposals[id] \in Proposal
  BY ConstantTypes DEF TypeOK, TokenTypeOK
<1>4. \A id \in Ids : proposals'[id] = IF id = i THEN Counted(proposals[i], support, balance[a])
                                                 ELSE proposals[id]
  BY <1>1 DEF TypeOK
<1>5. /\ SameSubject(proposals'[i], proposals[i])
      /\ proposals'[i].new_value = proposals[i].new_value
      /\ proposals[i].votes_for <= proposals'[i].votes_for
      /\ proposals[i].votes_against <= proposals'[i].votes_against
      /\ proposals[i].executed => proposals'[i].executed
      /\ ~Approved(proposals[i])
  <2>1. ~Approved(proposals[i])
    BY <1>1, <1>3 DEF Approved, Proposal
  <2>2. proposals'[i] = Counted(proposals[i], support, balance[a]) /\ proposals[i] \in Proposal
    BY <1>3, <1>4
  <2> QED
    BY <1>3, <2>1, <2>2 DEF Counted, Proposal, SameSubject
<1>6. ASSUME NEW id \in Ids, id # i
      PROVE  /\ proposals'[id] = proposals[id]
             /\ Approved(proposals[id]) => Approved(proposals[id])'
             /\ proposals[id].votes_for \in Nat /\ proposals[id].votes_against \in Nat
  BY <1>1, <1>3, <1>4, <1>6 DEF Approved, Proposal
<1> QED
  BY <1>1, <1>2, <1>5, <1>6 DEF Keeps, SameSubject

LEMMA ExecuteKeeps ==
    ASSUME TypeOK, NEW i \in Ids, ExecuteProposal(i)
    PROVE  Keeps
<1>1. /\ proposals' = [proposals EXCEPT ![i].executed = TRUE]
      /\ proposalCount' = proposalCount /\ ledger' = ledger /\ voted' = voted
  BY DEF ExecuteProposal, MayExecute
<1>2. Ids' = Ids /\ \A id \in Ids : proposals[id] \in Proposal
  BY <1>1 DEF Ids, TypeOK
<1>3. \A id \in Ids : proposals'[id] = IF id = i THEN [proposals[i] EXCEPT !.executed = TRUE]
                                                 ELSE proposals[id]
  BY <1>1 DEF TypeOK
<1>4. ASSUME NEW id \in Ids
      PROVE  /\ SameSubject(proposals'[id], proposals[id])
             /\ proposals'[id].new_value = proposals[id].new_value
             /\ proposals[id].votes_for = proposals'[id].votes_for
             /\ proposals[id].votes_against = proposals'[id].votes_against
             /\ proposals[id].end_ledger = proposals'[id].end_ledger
             /\ proposals[id].votes_for \in Nat /\ proposals[id].votes_against \in Nat
             /\ proposals[id].executed => proposals'[id].executed
  <2>1. proposals[id] \in Proposal /\ proposals[i] \in Proposal
    BY <1>2
  <2>2. CASE id = i
    <3>1. proposals'[i] = [proposals[i] EXCEPT !.executed = TRUE]
      BY <1>3
    <3> QED
      BY <2>1, <2>2, <3>1 DEF Proposal, SameSubject
  <2>3. CASE id # i
    BY <1>3, <2>1, <2>3 DEF Proposal, SameSubject
  <2> QED
    BY <2>2, <2>3
<1>5. ASSUME NEW id \in Ids
      PROVE  /\ proposals[id].votes_for <= proposals'[id].votes_for
             /\ proposals[id].votes_against <= proposals'[id].votes_against
             /\ Approved(proposals[id]) => Approved(proposals[id])'
  BY <1>1, <1>4 DEF Approved
<1> QED
  BY <1>1, <1>2, <1>4, <1>5 DEF Keeps

LEMMA CreateKeeps ==
    ASSUME TypeOK, NEW a \in Holders, NEW key \in Keys, NEW value \in Values,
           CreateProposal(a, key, value)
    PROVE  Keeps
<1>1. proposalCount' = proposalCount + 1 /\ ledger' = ledger /\ voted' = voted
  BY DEF CreateProposal, MayPropose
<1>2. Ids' = Ids \cup {proposalCount} /\ proposalCount \notin Ids
  BY <1>1, NextId
<1>3. \A id \in Ids : proposals'[id] = proposals[id] /\ proposals[id] \in Proposal
  BY <1>2 DEF CreateProposal, MayPropose, TypeOK
<1> QED
  BY <1>1, <1>2, <1>3 DEF Keeps, Approved, SameSubject, Proposal

LEMMA NextKeeps == ASSUME TypeOK, [Next]_vars PROVE Keeps
<1>1. ASSUME UNCHANGED <<proposals, proposalCount, voted>>, ledger' >= ledger, ledger' \in Nat
      PROVE  Keeps
  <2>1. Ids' = Ids /\ ledger \in Nat /\ \A id \in Ids : proposals[id] \in Proposal
    BY <1>1 DEF Ids, TypeOK
  <2> QED
    BY <1>1, <2>1 DEF Keeps, Approved, SameSubject, Proposal
<1>2. ledger \in Nat
  BY DEF TypeOK
<1>3. ASSUME NEW supply \in Supplies, SetReferenceSupply(supply) PROVE Keeps
  BY <1>1, <1>2, <1>3 DEF SetReferenceSupply
<1>4. CASE TokenStep \/ CloseLedger \/ UNCHANGED vars
  BY <1>1, <1>2, <1>4 DEF TokenStep, CloseLedger, vars, voteVars
<1> QED
  BY <1>3, <1>4, VoteKeeps, ExecuteKeeps, CreateKeeps DEF Next, GovernanceStep

\* What a confirmed request has left on chain.
OnChain(w, request) ==
    /\ request.kind = "create" =>
          \E id \in Ids : /\ proposals[id].proposer = w
                          /\ proposals[id].param_key = request.key
                          /\ proposals[id].new_value = request.value
    /\ request.kind = "vote" => <<request.id, w>> \in voted
    /\ request.kind = "execute" => request.id \in Ids /\ proposals[request.id].executed

LEMMA EffectOnChain ==
    ASSUME TypeOK, NEW w \in Wallets, NEW request \in Requests, Effect(w, request)
    PROVE  OnChain(w, request)'
<1>1. CASE request.kind = "create"
  <2>1. CreateProposal(w, request.key, request.value)
    BY <1>1 DEF Effect
  <2>2. Ids' = Ids \cup {proposalCount}
    <3>1. proposalCount' = proposalCount + 1
      BY <2>1 DEF CreateProposal
    <3> QED
      BY <3>1, NextId
  <2>3. /\ proposals'[proposalCount].proposer = w
        /\ proposals'[proposalCount].param_key = request.key
        /\ proposals'[proposalCount].new_value = request.value
    BY <2>1 DEF CreateProposal
  <2> QED
    BY <1>1, <2>2, <2>3 DEF OnChain
<1>2. CASE request.kind = "vote"
  BY <1>2 DEF Effect, Vote, OnChain
<1>3. CASE request.kind = "execute"
  <2>1. /\ request.id \in Ids /\ proposalCount' = proposalCount
        /\ proposals' = [proposals EXCEPT ![request.id].executed = TRUE]
    BY <1>3 DEF Effect, ExecuteProposal
  <2>2. Ids' = Ids
    BY <2>1 DEF Ids
  <2>3. proposals'[request.id].executed
    BY <2>1 DEF TypeOK, Proposal
  <2> QED
    BY <1>3, <2>1, <2>2, <2>3 DEF OnChain
<1> QED
  BY <1>1, <1>2, <1>3, WalletTypes

LEMMA OnChainStays ==
    ASSUME Keeps, NEW w \in Wallets, NEW request \in Requests, OnChain(w, request)
    PROVE  OnChain(w, request)'
<1>1. CASE request.kind = "create"
  <2>1. PICK id \in Ids : /\ proposals[id].proposer = w
                          /\ proposals[id].param_key = request.key
                          /\ proposals[id].new_value = request.value
    BY <1>1 DEF OnChain
  <2>2. /\ id \in Ids' /\ proposals'[id].proposer = w
        /\ proposals'[id].param_key = request.key
        /\ proposals'[id].new_value = request.value
    BY <2>1 DEF Keeps, SameSubject
  <2> QED
    BY <1>1, <2>2 DEF OnChain
<1>2. CASE request.kind = "vote"
  BY <1>2 DEF OnChain, Keeps
<1>3. CASE request.kind = "execute"
  BY <1>3 DEF OnChain, Keeps
<1> QED
  BY <1>1, <1>2, <1>3, WalletTypes

\* The inductive invariant of the hooks: a hook follows its transaction, and when that
\* was included, what was asked for is on chain.
Reported ==
    \A w \in Wallets :
        /\ Follows(w)
        /\ hook[w] # Nothing /\ hook[w].fate = "included" => OnChain(w, hook[w].request)

\* A hook only learns of an inclusion when the transaction it asked for took effect.
LEMMA NewsOfInclusion ==
    ASSUME WalletTypeOK, \A u \in Wallets : Follows(u), [MirrorNext]_allVars, NEW w \in Wallets,
           hook'[w] # Nothing, hook'[w].fate = "included"
    PROVE  \/ hook[w] # Nothing /\ hook[w].fate = "included" /\ hook'[w].request = hook[w].request
           \/ /\ network[w] # Nothing /\ hook'[w].request = network[w].request
              /\ Effect(w, network[w].request)
<1> DEFINE Known == /\ hook[w] # Nothing /\ hook[w].fate = "included"
                    /\ hook'[w].request = hook[w].request
           New == /\ network[w] # Nothing /\ hook'[w].request = network[w].request
                  /\ Effect(w, network[w].request)
<1>1. ASSUME NEW u \in Wallets, Alone(u) PROVE Known
  BY <1>1 DEF Alone
<1>2. ASSUME UNCHANGED walletVars PROVE Known
  BY <1>2 DEF walletVars
<1>3. ASSUME NEW u \in Wallets, network[u] # Nothing, Include(u) PROVE Known \/ New
  <2>1. \/ Effect(u, network[u].request) /\ Included(u, TRUE)
        \/ Included(u, FALSE)
    BY <1>3 DEF Include
  <2>2. CASE u = w
    BY <1>3, <2>1, <2>2, IncludedFollows
  <2>3. CASE u # w
    BY <1>3, <2>1, <2>3, IncludedFollows
  <2> QED
    BY <2>2, <2>3
<1>4. ASSUME NEW u \in Wallets, (\E request \in Requests : Ask(u, request)) \/ WalletStep(u)
      PROVE  Known
  BY <1>1, <1>4, AskAlone, WalletStepAlone
<1>5. ASSUME NEW u \in Wallets, CreateRoute(u) \/ VoteRoute(u) \/ ExecuteRoute(u)
      PROVE  Known
  <2>1. At(u, "asking") /\ (Built(u) \/ GiveUp(u))
    BY <1>5 DEF CreateRoute, VoteRoute, ExecuteRoute
  <2> QED
    BY <1>1, <2>1, BuiltAlone, GiveUpAlone
<1>6. ASSUME RouteStep PROVE Known
  <2>1. \/ \E u \in Wallets : CreateRoute(u) \/ VoteRoute(u) \/ ExecuteRoute(u)
        \/ UNCHANGED walletVars
    BY <1>6 DEF RouteStep, MarkAndApply, ReadNext, CopyToRow, EndList
  <2> QED
    BY <1>2, <1>5, <2>1
<1>7. ASSUME RestartRoutes PROVE Known
  BY <1>2, <1>7 DEF RestartRoutes
<1> HIDE DEF Known, New
<1>8. Known \/ New
  <2>1. CASE \E u \in Wallets : \/ \E request \in Requests : Ask(u, request)
                                \/ WalletStep(u)
    BY <1>4, <2>1
  <2>2. CASE [Next]_vars /\ UNCHANGED <<walletVars, mirrorVars>>
    BY <1>2, <2>2
  <2> QED
    BY <1>3, <1>6, <1>7, <2>1, <2>2, MirrorSteps
<1> QED
  BY <1>8 DEF Known, New

LEMMA NextReported ==
    ASSUME TypeOK, WalletTypeOK, Reported, [MirrorNext]_allVars
    PROVE  Reported'
<1>1. Keeps
  BY MirrorStepIsGovernanceStep, NextKeeps
<1>2. \A w \in Wallets : Follows(w)
  BY DEF Reported
<1>3. WalletTypeOK' /\ \A w \in Wallets : Follows(w)'
  BY <1>2, WalletsRouted
<1>4. ASSUME NEW w \in Wallets, NEW request \in Requests, hook'[w].request = request,
             hook'[w] # Nothing, hook'[w].fate = "included"
      PROVE  OnChain(w, request)'
  <2>1. CASE /\ hook[w] # Nothing /\ hook[w].fate = "included"
             /\ hook[w].request = request
    BY <1>1, <2>1, OnChainStays DEF Reported
  <2>2. CASE Effect(w, request)
    BY <2>2, EffectOnChain
  <2> QED
    BY <1>2, <1>4, <2>1, <2>2, NewsOfInclusion
<1>5. \A w \in Wallets : hook'[w] # Nothing => hook'[w].request \in Requests
  BY <1>3 DEF WalletTypeOK, Hook
<1> QED
  BY <1>3, <1>4, <1>5 DEF Reported, OnChain

LEMMA ReportedIsOnChain == ASSUME WalletTypeOK, Reported PROVE ConfirmedIsOnChain
<1> SUFFICES ASSUME NEW w \in Wallets, At(w, "confirmed"), hook[w].fate # "waiting"
             PROVE  LET request == hook[w].request
                    IN  CASE request.kind = "create" ->
                               \E id \in Ids : /\ proposals[id].proposer = w
                                               /\ proposals[id].param_key = request.key
                                               /\ proposals[id].new_value = request.value
                          [] request.kind = "vote" -> <<request.id, w>> \in voted
                          [] request.kind = "execute" -> proposals[request.id].executed
  BY DEF ConfirmedIsOnChain
<1>1. hook[w] # Nothing
  BY DEF At, Nothing
<1> DEFINE request == hook[w].request
<1>2. request \in Requests /\ OnChain(w, request)
  BY <1>1, AskedFor DEF Reported, Follows
<1> HIDE DEF request
<1>3. request.kind = "create" \/ request.kind = "vote" \/ request.kind = "execute"
  BY <1>2, WalletTypes
<1> QED
  BY <1>2, <1>3 DEF OnChain, request

----------------------------------------------------------------------------
(* The table. *)

\* SelectInSeq finds a row of the subject, or there is none.
LEMMA FirstOfSubject ==
    ASSUME NEW s \in Seq(Row), NEW read
    PROVE  LET i == SelectInSeq(s, LAMBDA row : SameSubject(row, read))
           IN  i = 0 \/ (i \in 1..Len(s) /\ SameSubject(s[i], read))
<1> DEFINE I == {i \in 1..Len(s) : SameSubject(s[i], read)}
           Upto == {1..i : i \in I}
<1>1. SelectInSeq(s, LAMBDA row : SameSubject(row, read)) = IF I # {} THEN Min(I) ELSE 0
  BY DEF SelectInSeq
<1>2. ASSUME I # {} PROVE Min(I) \in I
  <2> DEFINE N == 1..Len(s)
  <2>1. IsFiniteSet(N) /\ Len(s) \in Nat
    BY FS_Interval, LenProperties
  <2>2. Upto \in SUBSET SUBSET N /\ Upto # {}
    BY <1>2, <2>1
  <2>3. PICK part \in Upto : \A t \in Upto : t \subseteq part => t = part
    <3> HIDE DEF Upto, N
    <3> QED
      BY <2>1, <2>2, SmallestPart
  <2>4. PICK i \in I : part = 1..i
    OBVIOUS
  <2>5. ASSUME NEW j \in I PROVE i <= j
    <3>1. i \in Nat \ {0} /\ j \in Nat \ {0} /\ 1..j \in Upto
      BY <2>1
    <3>2. CASE j < i
      <4>1. 1..j \subseteq 1..i /\ i \in 1..i /\ i \notin 1..j
        BY <3>1, <3>2
      <4>2. 1..j = 1..i
        BY <2>3, <2>4, <3>1, <4>1
      <4> QED
        BY <4>1, <4>2
    <3> QED
      BY <3>1, <3>2
  <2> HIDE DEF I
  <2> QED
    BY <2>5 DEF Min
<1> HIDE DEF I
<1>3. SelectInSeq(s, LAMBDA row : SameSubject(row, read)) = 0
        \/ SelectInSeq(s, LAMBDA row : SameSubject(row, read)) \in I
  BY <1>1, <1>2
<1> QED
  BY <1>3 DEF I

\* A row keeps its subject and value whatever the routes write into it, and rows are
\* only added.
RowsKept ==
    /\ rows' \in Seq(Row) /\ Len(rows) <= Len(rows')
    /\ \A i \in 1..Len(rows) : /\ SameSubject(rows'[i], rows[i])
                               /\ rows'[i].new_value = rows[i].new_value

LEMMA CreateRouteRows ==
    ASSUME MirrorTypeOK, NEW w \in Wallets, CreateRoute(w)
    PROVE  /\ RowsKept /\ UNCHANGED <<vars, executing, listing, inForce>>
           /\ \A i \in 1..Len(rows) : rows'[i] = rows[i]
           /\ \A i \in 1..Len(rows') :
                 i > Len(rows) => ~rows'[i].executed /\ rows'[i].votes_for = 0
                                                     /\ rows'[i].votes_against = 0
<1>1. rows \in Seq(Row) /\ Len(rows) \in Nat
  BY LenProperties DEF MirrorTypeOK
<1>2. UNCHANGED <<vars, executing, listing, inForce>>
  BY DEF CreateRoute
<1> DEFINE row == NewRow(w, hook[w].request)
<1>3. row \in Row /\ ~row.executed /\ row.votes_for = 0 /\ row.votes_against = 0
  <2>1. hook[w].request \in Requests /\ hook[w].request.kind = "create"
    <3>1. hook[w] # Nothing
      BY DEF CreateRoute, At, Nothing
    <3> QED
      BY <3>1, AskedFor DEF CreateRoute, MirrorTypeOK
  <2>2. hook[w].request.key \in Keys /\ hook[w].request.value \in Values
    BY <2>1, WalletTypes
  <2>3. w \in Accounts
    BY WalletTypes, ConstantTypes
  <2> QED
    BY <2>2, <2>3 DEF NewRow, Row
<1> HIDE DEF row
<1>4. CASE rows' = rows
  BY <1>1, <1>2, <1>4 DEF RowsKept, SameSubject
<1>5. CASE rows' = Append(rows, row)
  <2>1. /\ rows' \in Seq(Row) /\ Len(rows') = Len(rows) + 1
        /\ \A i \in 1..Len(rows) : rows'[i] = rows[i]
        /\ rows'[Len(rows) + 1] = row
    BY <1>1, <1>3, <1>5, AppendProperties
  <2>2. \A i \in 1..Len(rows') : i > Len(rows) => i = Len(rows) + 1
    BY <1>1, <2>1
  <2> QED
    BY <1>1, <1>2, <1>3, <2>1, <2>2 DEF RowsKept, SameSubject
<1> QED
  BY <1>4, <1>5 DEF CreateRoute, row

\* A row in which only the status and the votes are written.
LEMMA RowWritten ==
    ASSUME rows \in Seq(Row), NEW i \in 1..Len(rows), NEW row \in Row,
           SameSubject(row, rows[i]), row.new_value = rows[i].new_value,
           rows' = [rows EXCEPT ![i] = row]
    PROVE  /\ RowsKept /\ Len(rows') = Len(rows)
           /\ \A j \in 1..Len(rows) : rows'[j] = IF j = i THEN row ELSE rows[j]
<1>1. /\ rows' \in Seq(Row) /\ Len(rows') = Len(rows)
      /\ \A j \in 1..Len(rows) : rows'[j] = IF j = i THEN row ELSE rows[j]
  BY ExceptSeq
<1>2. Len(rows) \in Nat
  BY LenProperties
<1> QED
  BY <1>1, <1>2 DEF RowsKept, SameSubject

LEMMA MarkRows ==
    ASSUME MirrorTypeOK, NEW id \in executing, MarkAndApply(id)
    PROVE  /\ RowsKept /\ Len(rows') = Len(rows)
           /\ UNCHANGED <<vars, walletVars, listing>> /\ executing' = executing \ {id}
           /\ \A j \in 1..Len(rows) : /\ rows'[j].votes_for = rows[j].votes_for
                                      /\ rows'[j].votes_against = rows[j].votes_against
                                      /\ j # id + 1 => rows'[j].executed = rows[j].executed
           /\ inForce' # inForce =>
                 /\ id + 1 \in 1..Len(rows)
                 /\ rows[id + 1].param_key \in Keys /\ rows[id + 1].new_value \in Values
                 /\ inForce' = [inForce EXCEPT ![rows[id + 1].param_key] = rows[id + 1].new_value]
<1>1. rows \in Seq(Row) /\ Len(rows) \in Nat /\ DOMAIN rows = 1..Len(rows)
  BY LenProperties DEF MirrorTypeOK
<1>2. UNCHANGED <<vars, walletVars, listing>> /\ executing' = executing \ {id}
  BY DEF MarkAndApply
<1>3. CASE id + 1 \in 1..Len(rows)
  <2> DEFINE i == id + 1
             row == [rows[i] EXCEPT !.executed = TRUE]
  <2>1. rows[i] \in Row
    BY <1>1, <1>3, ElementOfSeq
  <2>2. /\ row \in Row /\ SameSubject(row, rows[i]) /\ row.new_value = rows[i].new_value
        /\ row.votes_for = rows[i].votes_for /\ row.votes_against = rows[i].votes_against
    BY <2>1 DEF Row, SameSubject
  <2>3. rows' = [rows EXCEPT ![i] = row] /\ Applied(rows[i])
    BY <1>1, <1>3 DEF MarkAndApply
  <2> HIDE DEF row
  <2>4. /\ RowsKept /\ Len(rows') = Len(rows)
        /\ \A j \in 1..Len(rows) : rows'[j] = IF j = i THEN row ELSE rows[j]
    BY <1>1, <1>3, <2>2, <2>3, RowWritten
  <2>5. rows[i].param_key \in Keys /\ rows[i].new_value \in Values
    BY <2>1 DEF Row
  <2> QED
    BY <1>2, <1>3, <2>2, <2>3, <2>4, <2>5 DEF Applied, SetParam
<1>4. CASE id + 1 \notin 1..Len(rows)
  <2>1. UNCHANGED <<rows, inForce>>
    BY <1>1, <1>4 DEF MarkAndApply
  <2> QED
    BY <1>1, <1>2, <2>1 DEF RowsKept, SameSubject
<1> QED
  BY <1>3, <1>4

LEMMA CopyRows ==
    ASSUME MirrorTypeOK, NEW l \in Lists, CopyToRow(l)
    PROVE  /\ "read" \in DOMAIN listing[l]
           /\ listing' = [listing EXCEPT ![l] = [next |-> listing[l].next + 1]]
           /\ RowsKept /\ Len(rows') = Len(rows)
           /\ UNCHANGED <<vars, walletVars, executing, inForce>>
           /\ \A j \in 1..Len(rows) :
                 \/ rows'[j] = rows[j]
                 \/ /\ SameSubject(rows[j], listing[l].read)
                    /\ rows'[j].votes_for = listing[l].read.votes_for
                    /\ rows'[j].votes_against = listing[l].read.votes_against
                    /\ rows'[j].executed = listing[l].read.executed
<1>1. /\ "read" \in DOMAIN listing[l]
      /\ listing' = [listing EXCEPT ![l] = [next |-> listing[l].next + 1]]
      /\ UNCHANGED <<vars, walletVars, executing, inForce>>
  BY DEF CopyToRow
<1>2. rows \in Seq(Row) /\ Len(rows) \in Nat
  BY LenProperties DEF MirrorTypeOK
<1> DEFINE read == listing[l].read
<1>3. read \in Proposal
  <2>1. listing[l] \in {NotListing} \cup [next : Nat] \cup [next : Ids, read : Proposal]
    BY DEF MirrorTypeOK
  <2> QED
    BY <1>1, <2>1 DEF NotListing
<1> DEFINE i == SelectInSeq(rows, LAMBDA row : SameSubject(row, read))
           row == [rows[i] EXCEPT !.votes_for = read.votes_for,
                                  !.votes_against = read.votes_against,
                                  !.executed = read.executed]
<1>4. i = 0 \/ (i \in 1..Len(rows) /\ SameSubject(rows[i], read))
  BY <1>2, FirstOfSubject
<1>5. rows' = IF i = 0 THEN rows
              ELSE [rows EXCEPT ![i].votes_for = read.votes_for,
                                ![i].votes_against = read.votes_against,
                                ![i].executed = read.executed]
  BY DEF CopyToRow
<1> HIDE DEF i
<1>6. CASE i = 0
  BY <1>1, <1>2, <1>5, <1>6 DEF RowsKept, SameSubject
<1>7. CASE i \in 1..Len(rows) /\ SameSubject(rows[i], read)
  <2>1. rows[i] \in Row /\ i # 0
    BY <1>2, <1>7, ElementOfSeq
  <2>2. /\ row \in Row /\ SameSubject(row, rows[i]) /\ row.new_value = rows[i].new_value
        /\ row.votes_for = read.votes_for /\ row.votes_against = read.votes_against
        /\ row.executed = read.executed
    BY <1>3, <2>1 DEF Row, SameSubject, Proposal
  <2>3. rows' = [rows EXCEPT ![i] = row]
    BY <1>2, <1>5, <1>7, <2>1
  <2> HIDE DEF row, read
  <2>4. /\ RowsKept /\ Len(rows') = Len(rows)
        /\ \A j \in 1..Len(rows) : rows'[j] = IF j = i THEN row ELSE rows[j]
    BY <1>2, <1>7, <2>2, <2>3, RowWritten
  <2> QED
    BY <1>1, <1>7, <2>2, <2>4 DEF read
<1> QED
  BY <1>4, <1>6, <1>7

\* Outside the routes nothing is written into the table.
LEMMA TableSteps ==
    ASSUME MirrorTypeOK, [MirrorNext]_allVars
    PROVE  \/ UNCHANGED mirrorVars
           \/ \E w \in Wallets : CreateRoute(w) \/ ExecuteRoute(w)
           \/ \E id \in executing : MarkAndApply(id)
           \/ \E l \in Lists : ReadNext(l) \/ CopyToRow(l) \/ EndList(l)
           \/ RestartRoutes
<1>1. WalletTypeOK
  BY DEF MirrorTypeOK
<1>2. ASSUME NEW w \in Wallets, Include(w) PROVE UNCHANGED mirrorVars
  BY <1>2 DEF Include
<1>3. ASSUME NEW w \in Wallets, VoteRoute(w) PROVE UNCHANGED mirrorVars
  BY <1>3 DEF VoteRoute
<1> QED
  BY <1>1, <1>2, <1>3, MirrorSteps DEF RouteStep

LEMMA ExecuteRouteApproved ==
    ASSUME MirrorTypeOK, NEW w \in Wallets, ExecuteRoute(w)
    PROVE  /\ UNCHANGED <<vars, rows, listing, inForce>>
           /\ \A id \in executing' : id \in executing \/ (id \in Ids /\ Approved(proposals[id]))
<1>1. UNCHANGED <<vars, rows, listing, inForce>> /\ hook[w].request.kind = "execute"
  BY DEF ExecuteRoute
<1> DEFINE request == hook[w].request
<1>2. CASE Simulates(w, request)
  <2>1. request.id \in Ids /\ MayExecute(request.id)
    BY <1>1, <1>2 DEF Simulates
  <2>2. executing' = executing \cup {request.id}
    BY <1>2 DEF ExecuteRoute
  <2> QED
    BY <1>1, <2>1, <2>2 DEF MayExecute, Approved
<1>3. CASE ~Simulates(w, request)
  BY <1>1, <1>3 DEF ExecuteRoute
<1> QED
  BY <1>2, <1>3

LEMMA MirrorTypes ==
    ASSUME TypeOK, MirrorTypeOK, \A w \in Wallets : Follows(w), [MirrorNext]_allVars
    PROVE  MirrorTypeOK'
<1>1. WalletTypeOK'
  BY WalletsRouted DEF MirrorTypeOK
<1>2. /\ rows \in Seq(Row) /\ Len(rows) \in Nat /\ executing \subseteq Nat
      /\ inForce \in [Keys -> Values \cup {NoValue}]
      /\ listing \in [Lists -> {NotListing} \cup [next : Nat] \cup [next : Ids, read : Proposal]]
  BY LenProperties DEF MirrorTypeOK
<1>3. Ids \subseteq Ids' /\ Ids \subseteq Nat
  BY <1>1, MirrorStepIsGovernanceStep, NextKeeps DEF Keeps, Ids, MirrorTypeOK
<1>4. CASE UNCHANGED mirrorVars
  BY <1>1, <1>2, <1>3, <1>4 DEF mirrorVars, MirrorTypeOK
<1>5. ASSUME NEW w \in Wallets, CreateRoute(w) PROVE MirrorTypeOK'
  <2>1. rows' \in Seq(Row) /\ UNCHANGED <<executing, listing, inForce>>
    BY <1>5, CreateRouteRows DEF RowsKept
  <2> QED
    BY <1>1, <1>2, <1>3, <2>1 DEF MirrorTypeOK
<1>6. ASSUME NEW w \in Wallets, ExecuteRoute(w) PROVE MirrorTypeOK'
  <2>1. UNCHANGED <<rows, listing, inForce>> /\ executing' \subseteq Nat
    BY <1>2, <1>3, <1>6, ExecuteRouteApproved
  <2> QED
    BY <1>1, <1>2, <1>3, <2>1 DEF MirrorTypeOK
<1>7. ASSUME NEW id \in executing, MarkAndApply(id) PROVE MirrorTypeOK'
  <2>1. /\ rows' \in Seq(Row) /\ UNCHANGED listing /\ executing' \subseteq Nat
        /\ inForce' \in [Keys -> Values \cup {NoValue}]
    BY <1>2, <1>7, MarkRows DEF RowsKept
  <2> QED
    BY <1>1, <1>2, <1>3, <2>1 DEF MirrorTypeOK
<1>8. ASSUME NEW l \in Lists, NEW x \in {NotListing} \cup [next : Nat] \cup [next : Ids, read : Proposal],
             listing' = [listing EXCEPT ![l] = x], rows' \in Seq(Row),
             UNCHANGED <<executing, inForce>>
      PROVE  MirrorTypeOK'
  <2>1. x \in {NotListing} \cup [next : Nat] \cup [next : Ids', read : Proposal]
    BY <1>3
  <2>2. listing' \in [Lists -> {NotListing} \cup [next : Nat] \cup [next : Ids', read : Proposal]]
    BY <1>2, <1>3, <1>8, <2>1
  <2> QED
    BY <1>1, <1>2, <1>8, <2>2 DEF MirrorTypeOK
<1>9. ASSUME NEW l \in Lists, ReadNext(l) PROVE MirrorTypeOK'
  <2> DEFINE x == [next |-> listing[l].next, read |-> proposals[listing[l].next]]
  <2>1. x \in [next : Ids, read : Proposal]
    BY <1>9 DEF ReadNext, TypeOK
  <2>2. UNCHANGED <<rows, executing, inForce>> /\ listing' = [listing EXCEPT ![l] = x]
    BY <1>9 DEF ReadNext, View
  <2> HIDE DEF x
  <2> QED
    BY <1>2, <1>8, <2>1, <2>2
<1>10. ASSUME NEW l \in Lists, CopyToRow(l) PROVE MirrorTypeOK'
  <2>1. /\ rows' \in Seq(Row) /\ UNCHANGED <<executing, inForce>>
        /\ listing' = [listing EXCEPT ![l] = [next |-> listing[l].next + 1]]
    BY <1>10, CopyRows DEF RowsKept
  <2>2. listing[l].next \in Nat
    <3>1. \/ listing[l] = NotListing
          \/ listing[l] \in [next : Nat]
          \/ listing[l] \in [next : Ids, read : Proposal]
      BY <1>2
    <3>2. CASE listing[l] = NotListing
      BY <3>2 DEF NotListing
    <3>3. CASE listing[l] \in [next : Nat]
      BY <3>3
    <3>4. CASE listing[l] \in [next : Ids, read : Proposal]
      BY <1>3, <3>4
    <3> QED
      BY <3>1, <3>2, <3>3, <3>4
  <2> DEFINE x == [next |-> listing[l].next + 1]
  <2>3. x \in [next : Nat]
    BY <2>2
  <2>4. listing' = [listing EXCEPT ![l] = x]
    BY <2>1
  <2> HIDE DEF x
  <2> QED
    BY <1>8, <2>1, <2>3, <2>4
<1>11. ASSUME NEW l \in Lists, EndList(l) PROVE MirrorTypeOK'
  <2>1. UNCHANGED <<rows, executing, inForce>> /\ listing' = [listing EXCEPT ![l] = NotListing]
    BY <1>11 DEF EndList
  <2> QED
    BY <1>2, <1>8, <2>1
<1>12. CASE RestartRoutes
  <2>1. /\ UNCHANGED <<rows, inForce>> /\ executing' = {}
        /\ listing' = [l \in Lists |-> NotListing]
    BY <1>12 DEF RestartRoutes
  <2> QED
    BY <1>1, <1>2, <2>1 DEF MirrorTypeOK
<1> QED
  BY <1>4, <1>5, <1>6, <1>7, <1>9, <1>10, <1>11, <1>12, TableSteps

\* What is in the hands of the routes is true of the contract: what is to be marked was
\* approved, and what a list has read is a past state of the proposal it was read from.
IsPast(list) ==
    "read" \in DOMAIN list =>
        /\ list.next \in Ids /\ SameSubject(list.read, proposals[list.next])
        /\ list.read.votes_for <= proposals[list.next].votes_for
        /\ list.read.votes_against <= proposals[list.next].votes_against
        /\ list.read.executed => Approved(proposals[list.next])
InHand ==
    /\ \A id \in executing : id \in Ids /\ Approved(proposals[id])
    /\ \A l \in Lists : IsPast(listing[l])

\* A row with votes follows a proposal, and so does, while the table is aligned, what
\* was marked or sent on.
RowFollows(row) ==
    \/ row.votes_for = 0 /\ row.votes_against = 0
    \/ \E id \in Ids : /\ SameSubject(row, proposals[id])
                       /\ row.votes_for <= proposals[id].votes_for
                       /\ row.votes_against <= proposals[id].votes_against
RowApproved(row) == \E id \in Ids : SameSubject(row, proposals[id]) /\ Approved(proposals[id])
ValueApproved(k, value) ==
    \E id \in Ids : /\ proposals[id].param_key = k /\ proposals[id].new_value = value
                    /\ Approved(proposals[id])

\* The inductive invariant of the routes.
Mirrored ==
    /\ InHand
    /\ \A i \in 1..Len(rows) : RowFollows(rows[i])
    /\ Aligned => /\ \A k \in Keys : inForce[k] # NoValue => ValueApproved(k, inForce[k])
                  /\ \A i \in 1..Len(rows) : rows[i].executed => RowApproved(rows[i])

\* What holds of a row, a value or what is in hand still holds when the contract moves.
LEMMA FollowsStay ==
    ASSUME TypeOK, TypeOK', Keeps, NEW row, row.votes_for \in Nat, row.votes_against \in Nat,
           RowFollows(row)
    PROVE  RowFollows(row)'
<1>1. CASE row.votes_for = 0 /\ row.votes_against = 0
  BY <1>1 DEF RowFollows
<1>2. ASSUME NEW id \in Ids, SameSubject(row, proposals[id]),
             row.votes_for <= proposals[id].votes_for,
             row.votes_against <= proposals[id].votes_against
      PROVE  RowFollows(row)'
  <2>1. /\ id \in Ids' /\ proposals[id] \in Proposal /\ proposals'[id] \in Proposal
        /\ SameSubject(proposals'[id], proposals[id])
        /\ proposals[id].votes_for <= proposals'[id].votes_for
        /\ proposals[id].votes_against <= proposals'[id].votes_against
    BY DEF Keeps, TypeOK
  <2>2. /\ row.votes_for <= proposals'[id].votes_for
        /\ row.votes_against <= proposals'[id].votes_against
    BY <1>2, <2>1 DEF Proposal
  <2>3. SameSubject(row, proposals'[id])
    BY <1>2, <2>1 DEF SameSubject
  <2> QED
    BY <2>1, <2>2, <2>3 DEF RowFollows
<1> QED
  BY <1>1, <1>2 DEF RowFollows

LEMMA ApprovedStay ==
    ASSUME Keeps
    PROVE  /\ \A row : RowApproved(row) => RowApproved(row)'
           /\ \A k, value : ValueApproved(k, value) => ValueApproved(k, value)'
<1>1. ASSUME NEW row, NEW id \in Ids, SameSubject(row, proposals[id]), Approved(proposals[id])
      PROVE  RowApproved(row)'
  <2>1. id \in Ids' /\ SameSubject(row, proposals'[id]) /\ Approved(proposals[id])'
    BY <1>1 DEF Keeps, SameSubject
  <2> QED
    BY <2>1 DEF RowApproved
<1>2. ASSUME NEW k, NEW value, NEW id \in Ids, proposals[id].param_key = k,
             proposals[id].new_value = value, Approved(proposals[id])
      PROVE  ValueApproved(k, value)'
  <2>1. /\ id \in Ids' /\ proposals'[id].param_key = k /\ proposals'[id].new_value = value
        /\ Approved(proposals[id])'
    BY <1>2 DEF Keeps, SameSubject
  <2> QED
    BY <2>1 DEF ValueApproved
<1> QED
  BY <1>1, <1>2 DEF RowApproved, ValueApproved

LEMMA PastStays ==
    ASSUME TypeOK, TypeOK', Keeps, NEW list, IsPast(list),
           "read" \in DOMAIN list => list \in [next : Ids, read : Proposal]
    PROVE  IsPast(list)'
<1> SUFFICES ASSUME "read" \in DOMAIN list
             PROVE  /\ list.next \in Ids' /\ SameSubject(list.read, proposals'[list.next])
                    /\ list.read.votes_for <= proposals'[list.next].votes_for
                    /\ list.read.votes_against <= proposals'[list.next].votes_against
                    /\ list.read.executed => Approved(proposals[list.next])'
  BY DEF IsPast
<1> DEFINE id == list.next
           read == list.read
<1>1. id \in Ids /\ id \in Ids' /\ read \in Proposal
  BY DEF Keeps
<1>2. /\ SameSubject(read, proposals[id]) /\ read.votes_for <= proposals[id].votes_for
      /\ read.votes_against <= proposals[id].votes_against
      /\ read.executed => Approved(proposals[id])
  BY DEF IsPast
<1> HIDE DEF id, read
<1>3. proposals[id] \in Proposal /\ proposals'[id] \in Proposal
  BY <1>1 DEF TypeOK
<1>4. /\ SameSubject(proposals'[id], proposals[id])
      /\ proposals[id].votes_for <= proposals'[id].votes_for
      /\ proposals[id].votes_against <= proposals'[id].votes_against
  BY <1>1 DEF Keeps
<1>5. read.executed => Approved(proposals[id])'
  BY <1>1, <1>2 DEF Keeps, id
<1>6. read.votes_for <= proposals'[id].votes_for /\ read.votes_against <= proposals'[id].votes_against
  BY <1>1, <1>2, <1>3, <1>4 DEF Proposal
<1>7. SameSubject(read, proposals'[id])
  BY <1>2, <1>4 DEF SameSubject
<1> QED
  BY <1>1, <1>5, <1>6, <1>7 DEF id, read

LEMMA InHandStays ==
    ASSUME TypeOK, TypeOK', MirrorTypeOK, Keeps, InHand,
           executing' \subseteq executing, listing' = listing
    PROVE  InHand'
<1>1. \A id \in executing' : id \in Ids' /\ Approved(proposals[id])'
  BY DEF InHand, Keeps
<1>2. ASSUME NEW l \in Lists PROVE IsPast(listing[l])'
  <2>1. "read" \in DOMAIN listing[l] => listing[l] \in [next : Ids, read : Proposal]
    <3>1. listing[l] \in {NotListing} \cup [next : Nat] \cup [next : Ids, read : Proposal]
      BY DEF MirrorTypeOK
    <3> QED
      BY <3>1 DEF NotListing
  <2>2. \A x : x = listing[l] => IsPast(x)'
    BY <2>1, PastStays DEF InHand
  <2> QED
    BY <2>2 DEF IsPast
<1> QED
  BY <1>1, <1>2 DEF InHand

\* Subjects and values never change, so rows and proposals that came apart stay apart.
LEMMA AlignedBefore ==
    ASSUME TypeOK, MirrorTypeOK, RowsKept, Keeps, Aligned'
    PROVE  Aligned
<1>1. /\ rows \in Seq(Row) /\ DOMAIN rows = 1..Len(rows) /\ Len(rows) \in Nat
      /\ rows' \in Seq(Row) /\ DOMAIN rows' = 1..Len(rows') /\ Len(rows') \in Nat
      /\ Len(rows) <= Len(rows')
  BY LenProperties DEF MirrorTypeOK, RowsKept
<1>2. ASSUME NEW id \in Ids, id + 1 \in DOMAIN rows
      PROVE  /\ SameSubject(rows[id + 1], proposals[id])
             /\ rows[id + 1].new_value = proposals[id].new_value
  <2>1. id \in Ids' /\ id + 1 \in DOMAIN rows'
    BY <1>1, <1>2 DEF Keeps, Ids
  <2>2. /\ SameSubject(rows'[id + 1], proposals'[id])
        /\ rows'[id + 1].new_value = proposals'[id].new_value
    BY <2>1 DEF Aligned, OneFromTable
  <2>3. /\ SameSubject(rows'[id + 1], rows[id + 1])
        /\ rows'[id + 1].new_value = rows[id + 1].new_value
    BY <1>1, <1>2 DEF RowsKept
  <2>4. /\ SameSubject(proposals'[id], proposals[id])
        /\ proposals'[id].new_value = proposals[id].new_value
    BY DEF Keeps
  <2> QED
    BY <2>2, <2>3, <2>4 DEF SameSubject
<1> QED
  BY <1>2 DEF Aligned, OneFromTable

\* RowFollows and RowApproved ask of a row its subject and its votes.
LEMMA SameFollows ==
    ASSUME NEW r, NEW q, SameSubject(q, r)
    PROVE  /\ RowApproved(r) => RowApproved(q)
           /\ RowFollows(r) /\ q.votes_for = r.votes_for /\ q.votes_against = r.votes_against
                 => RowFollows(q)
BY DEF RowApproved, RowFollows, SameSubject

LEMMA ContractMirrored ==
    ASSUME TypeOK, TypeOK', MirrorTypeOK, Keeps, Mirrored, UNCHANGED mirrorVars
    PROVE  Mirrored'
<1>1. InHand'
  BY InHandStays DEF Mirrored, mirrorVars
<1>2. rows' = rows /\ inForce' = inForce /\ rows \in Seq(Row)
  BY DEF mirrorVars, MirrorTypeOK
<1>3. \A i \in 1..Len(rows) : rows[i].votes_for \in Nat /\ rows[i].votes_against \in Nat
  <2>1. \A i \in 1..Len(rows) : rows[i] \in Row
    BY <1>2, ElementOfSeq
  <2> QED
    BY <2>1 DEF Row
<1>4. ASSUME NEW i \in 1..Len(rows) PROVE RowFollows(rows[i])'
  <2> DEFINE row == rows[i]
  <2>1. /\ row.votes_for \in Nat /\ row.votes_against \in Nat /\ RowFollows(row)
        /\ row' = row
    BY <1>2, <1>3 DEF Mirrored
  <2> HIDE DEF row
  <2>2. \A r : r = row => RowFollows(r)'
    BY <2>1, FollowsStay
  <2> QED
    BY <1>2, <2>2 DEF row
<1>5. Aligned' => Aligned
  <2>1. RowsKept
    BY <1>2, LenProperties DEF RowsKept, SameSubject
  <2> QED
    BY <2>1, AlignedBefore
<1>6. ASSUME Aligned, NEW k \in Keys, inForce[k] # NoValue
      PROVE  ValueApproved(k, inForce[k])'
  <2>1. \A v : v = inForce[k] => ValueApproved(k, v)'
    BY <1>6, ApprovedStay DEF Mirrored
  <2> QED
    BY <1>2, <2>1 DEF ValueApproved
<1>7. ASSUME Aligned, NEW i \in 1..Len(rows), rows[i].executed PROVE RowApproved(rows[i])'
  <2>1. \A r : r = rows[i] => RowApproved(r)'
    BY <1>7, ApprovedStay DEF Mirrored
  <2> QED
    BY <1>2, <2>1 DEF RowApproved
<1>8. \A i \in 1..Len(rows') : RowFollows(rows[i])'
  BY <1>2, <1>4
<1>9. Aligned' => /\ \A k \in Keys : inForce'[k] # NoValue => ValueApproved(k, inForce[k])'
                  /\ \A i \in 1..Len(rows') : rows'[i].executed => RowApproved(rows[i])'
  BY <1>2, <1>5, <1>6, <1>7
<1> QED
  BY <1>1, <1>8, <1>9 DEF Mirrored

\* A step of a route, which leaves the contract alone: it is enough to look at the rows
\* and the values it writes.
LEMMA RouteMirrored ==
    ASSUME TypeOK, MirrorTypeOK, Mirrored, UNCHANGED vars, RowsKept, InHand',
           \A i \in 1..Len(rows') : RowFollows(rows'[i]),
           Aligned => /\ \A k \in Keys : inForce'[k] # NoValue => ValueApproved(k, inForce'[k])
                      /\ \A i \in 1..Len(rows') : rows'[i].executed => RowApproved(rows'[i])
    PROVE  Mirrored'
<1>1. Ids' = Ids /\ proposals' = proposals /\ ledger' = ledger
  BY DEF vars, voteVars, Ids
<1>2. Aligned' => Aligned
  <2>1. [Next]_vars
    OBVIOUS
  <2> QED
    BY <2>1, NextKeeps, AlignedBefore
<1>3. \A i \in 1..Len(rows') : RowFollows(rows[i])'
  BY <1>1 DEF RowFollows
<1>4. Aligned' => /\ \A k \in Keys : inForce'[k] # NoValue => ValueApproved(k, inForce[k])'
                  /\ \A i \in 1..Len(rows') : rows'[i].executed => RowApproved(rows[i])'
  BY <1>1, <1>2 DEF ValueApproved, RowApproved, Approved
<1> QED
  BY <1>3, <1>4 DEF Mirrored

LEMMA InHandAgain ==
    ASSUME InHand, UNCHANGED vars,
           \A id \in executing' : id \in executing \/ (id \in Ids /\ Approved(proposals[id])),
           \A l \in Lists : listing'[l] = listing[l] \/ IsPast(listing'[l])
    PROVE  InHand'
<1>1. Ids' = Ids /\ proposals' = proposals /\ ledger' = ledger
  BY DEF vars, voteVars, Ids
<1>2. \A id \in executing' : id \in Ids' /\ Approved(proposals[id])'
  BY <1>1 DEF InHand, Approved
<1>3. ASSUME NEW l \in Lists PROVE IsPast(listing[l])'
  <2>1. IsPast(listing'[l])
    BY DEF InHand
  <2> QED
    BY <1>1, <2>1 DEF IsPast, Approved
<1> QED
  BY <1>2, <1>3 DEF InHand

LEMMA CreateRouteMirrored ==
    ASSUME TypeOK, MirrorTypeOK, Mirrored, NEW w \in Wallets, CreateRoute(w)
    PROVE  Mirrored'
<1>1. /\ RowsKept /\ UNCHANGED <<vars, executing, listing, inForce>>
      /\ \A i \in 1..Len(rows) : rows'[i] = rows[i]
      /\ \A i \in 1..Len(rows') :
            i > Len(rows) => ~rows'[i].executed /\ rows'[i].votes_for = 0
                                                /\ rows'[i].votes_against = 0
  BY CreateRouteRows
<1>2. InHand'
  BY <1>1, InHandAgain DEF Mirrored
<1>3. \A i \in 1..Len(rows') : i \in 1..Len(rows) \/ i > Len(rows)
  BY LenProperties DEF MirrorTypeOK
<1>4. ASSUME NEW i \in 1..Len(rows')
      PROVE  /\ RowFollows(rows'[i])
             /\ Aligned => (rows'[i].executed => RowApproved(rows'[i]))
  <2>1. CASE i \in 1..Len(rows)
    BY <1>1, <2>1 DEF Mirrored
  <2>2. CASE i > Len(rows)
    BY <1>1, <2>2 DEF RowFollows
  <2> QED
    BY <1>3, <2>1, <2>2
<1>5. Aligned => \A k \in Keys : inForce'[k] # NoValue => ValueApproved(k, inForce'[k])
  BY <1>1 DEF Mirrored
<1> QED
  BY <1>1, <1>2, <1>4, <1>5, RouteMirrored

LEMMA ExecuteRouteMirrored ==
    ASSUME TypeOK, MirrorTypeOK, Mirrored, NEW w \in Wallets, ExecuteRoute(w)
    PROVE  Mirrored'
<1>1. /\ UNCHANGED <<vars, rows, listing, inForce>>
      /\ \A id \in executing' : id \in executing \/ (id \in Ids /\ Approved(proposals[id]))
  BY ExecuteRouteApproved
<1>2. InHand'
  BY <1>1, InHandAgain DEF Mirrored
<1>3. RowsKept
  BY <1>1, LenProperties DEF RowsKept, SameSubject, MirrorTypeOK
<1> QED
  BY <1>1, <1>2, <1>3, RouteMirrored DEF Mirrored

\* The row that is marked, and the value that is sent on, are those of the proposal of
\* the same number, which was approved, while the table is aligned.
LEMMA MarkMirrored ==
    ASSUME TypeOK, MirrorTypeOK, Mirrored, NEW id \in executing, MarkAndApply(id)
    PROVE  Mirrored'
<1>1. /\ RowsKept /\ Len(rows') = Len(rows)
      /\ UNCHANGED <<vars, walletVars, listing>> /\ executing' = executing \ {id}
      /\ \A j \in 1..Len(rows) : /\ rows'[j].votes_for = rows[j].votes_for
                                 /\ rows'[j].votes_against = rows[j].votes_against
                                 /\ j # id + 1 => rows'[j].executed = rows[j].executed
      /\ inForce' # inForce =>
            /\ id + 1 \in 1..Len(rows)
            /\ rows[id + 1].param_key \in Keys /\ rows[id + 1].new_value \in Values
            /\ inForce' = [inForce EXCEPT ![rows[id + 1].param_key] = rows[id + 1].new_value]
  BY MarkRows
<1>2. InHand'
  BY <1>1, InHandAgain DEF Mirrored
<1>3. \A i \in 1..Len(rows) : SameSubject(rows'[i], rows[i])
  BY <1>1 DEF RowsKept
<1>4. ASSUME NEW i \in 1..Len(rows) PROVE RowFollows(rows'[i])
  <2>1. RowFollows(rows[i])
    BY DEF Mirrored
  <2> QED
    BY <1>1, <1>3, <2>1, SameFollows
<1>5. id \in Ids /\ Approved(proposals[id])
  BY DEF Mirrored, InHand
<1>6. ASSUME Aligned, id + 1 \in 1..Len(rows)
      PROVE  /\ SameSubject(rows[id + 1], proposals[id])
             /\ rows[id + 1].new_value = proposals[id].new_value
  <2>1. DOMAIN rows = 1..Len(rows)
    BY LenProperties DEF MirrorTypeOK
  <2> QED
    BY <1>5, <1>6, <2>1 DEF Aligned, OneFromTable
<1>7. ASSUME Aligned, NEW i \in 1..Len(rows), rows'[i].executed PROVE RowApproved(rows'[i])
  <2>1. CASE i = id + 1
    BY <1>3, <1>5, <1>6, <1>7, <2>1 DEF RowApproved, SameSubject
  <2>2. CASE i # id + 1
    <3>1. rows[i].executed
      BY <1>1, <1>7, <2>2
    <3>2. RowApproved(rows[i])
      BY <1>7, <3>1 DEF Mirrored
    <3> QED
      BY <1>3, <3>2, SameFollows
  <2> QED
    BY <2>1, <2>2
<1>8. ASSUME Aligned, NEW k \in Keys, inForce'[k] # NoValue PROVE ValueApproved(k, inForce'[k])
  <2>1. CASE inForce' = inForce
    BY <1>8, <2>1 DEF Mirrored
  <2>2. CASE inForce' # inForce
    <3>1. /\ id + 1 \in 1..Len(rows)
          /\ inForce' = [inForce EXCEPT ![rows[id + 1].param_key] = rows[id + 1].new_value]
      BY <1>1, <2>2
    <3>2. CASE k = rows[id + 1].param_key
      <4>1. inForce'[k] = rows[id + 1].new_value
        BY <3>1, <3>2 DEF MirrorTypeOK
      <4> QED
        BY <1>5, <1>6, <1>8, <3>1, <3>2, <4>1 DEF ValueApproved, SameSubject
    <3>3. CASE k # rows[id + 1].param_key
      <4>1. inForce'[k] = inForce[k]
        BY <3>1, <3>3 DEF MirrorTypeOK
      <4> QED
        BY <1>8, <4>1 DEF Mirrored
    <3> QED
      BY <3>2, <3>3
  <2> QED
    BY <2>1, <2>2
<1> QED
  BY <1>1, <1>2, <1>4, <1>7, <1>8, RouteMirrored

LEMMA ReadMirrored ==
    ASSUME TypeOK, ExecutedStaysApproved, MirrorTypeOK, Mirrored, NEW l \in Lists, ReadNext(l)
    PROVE  Mirrored'
<1> DEFINE id == listing[l].next
           x == [next |-> id, read |-> proposals[id]]
<1>1. /\ id \in Ids /\ UNCHANGED <<vars, walletVars, rows, executing, inForce>>
      /\ listing' = [listing EXCEPT ![l] = x]
  BY DEF ReadNext, View
<1>2. id \in Ids /\ proposals[id] \in Proposal /\ x.next = id /\ x.read = proposals[id]
  BY <1>1 DEF TypeOK
<1>3. proposals[id].executed => Approved(proposals[id])
  BY <1>2 DEF ExecutedStaysApproved, Approved
<1> HIDE DEF id, x
<1>4. IsPast(x)
  <2>1. /\ proposals[id].votes_for <= proposals[id].votes_for
        /\ proposals[id].votes_against <= proposals[id].votes_against
    BY <1>2 DEF Proposal
  <2> QED
    BY <1>2, <1>3, <2>1 DEF IsPast, SameSubject
<1>5. \A m \in Lists : listing'[m] = listing[m] \/ IsPast(listing'[m])
  BY <1>1, <1>4 DEF MirrorTypeOK
<1>6. InHand'
  BY <1>1, <1>5, InHandAgain DEF Mirrored
<1>7. RowsKept
  BY <1>1, LenProperties DEF RowsKept, SameSubject, MirrorTypeOK
<1> QED
  BY <1>1, <1>6, <1>7, RouteMirrored DEF Mirrored

\* Whichever row of the subject the copy goes to, it has no more votes than the proposal
\* it was read from, and is marked only when that one was approved.
LEMMA CopyMirrored ==
    ASSUME TypeOK, MirrorTypeOK, Mirrored, NEW l \in Lists, CopyToRow(l)
    PROVE  Mirrored'
<1>1. /\ "read" \in DOMAIN listing[l]
      /\ listing' = [listing EXCEPT ![l] = [next |-> listing[l].next + 1]]
      /\ RowsKept /\ Len(rows') = Len(rows)
      /\ UNCHANGED <<vars, walletVars, executing, inForce>>
      /\ \A j \in 1..Len(rows) :
            \/ rows'[j] = rows[j]
            \/ /\ SameSubject(rows[j], listing[l].read)
               /\ rows'[j].votes_for = listing[l].read.votes_for
               /\ rows'[j].votes_against = listing[l].read.votes_against
               /\ rows'[j].executed = listing[l].read.executed
  BY CopyRows
<1>2. InHand'
  <2>1. \A m \in Lists : listing'[m] = listing[m] \/ "read" \notin DOMAIN listing'[m]
    BY <1>1 DEF MirrorTypeOK
  <2>2. \A m \in Lists : listing'[m] = listing[m] \/ IsPast(listing'[m])
    BY <2>1 DEF IsPast
  <2> QED
    BY <1>1, <2>2, InHandAgain DEF Mirrored
<1> DEFINE id == listing[l].next
           read == listing[l].read
<1>3. /\ id \in Ids /\ SameSubject(read, proposals[id])
      /\ read.votes_for <= proposals[id].votes_for
      /\ read.votes_against <= proposals[id].votes_against
      /\ read.executed => Approved(proposals[id])
  BY <1>1 DEF Mirrored, InHand, IsPast
<1>4. \A j \in 1..Len(rows) : SameSubject(rows'[j], rows[j])
  BY <1>1 DEF RowsKept
<1>5. ASSUME NEW j \in 1..Len(rows)
      PROVE  /\ RowFollows(rows'[j])
             /\ Aligned => (rows'[j].executed => RowApproved(rows'[j]))
  <2>1. CASE rows'[j] = rows[j]
    BY <2>1 DEF Mirrored
  <2>2. CASE /\ SameSubject(rows[j], read)
             /\ rows'[j].votes_for = read.votes_for
             /\ rows'[j].votes_against = read.votes_against
             /\ rows'[j].executed = read.executed
    <3>1. SameSubject(rows'[j], proposals[id])
      BY <1>3, <1>4, <2>2 DEF SameSubject
    <3> HIDE DEF id, read
    <3>2. RowFollows(rows'[j])
      BY <1>3, <2>2, <3>1 DEF RowFollows
    <3> QED
      BY <1>3, <2>2, <3>1, <3>2 DEF RowApproved
  <2> QED
    BY <1>1, <2>1, <2>2
<1>6. Aligned => \A k \in Keys : inForce'[k] # NoValue => ValueApproved(k, inForce'[k])
  BY <1>1 DEF Mirrored
<1> HIDE DEF id, read
<1> QED
  BY <1>1, <1>2, <1>5, <1>6, RouteMirrored

LEMMA NextMirrored ==
    ASSUME TypeOK, TypeOK', ExecutedStaysApproved, MirrorTypeOK, Mirrored, [MirrorNext]_allVars
    PROVE  Mirrored'
<1>1. Keeps
  BY MirrorStepIsGovernanceStep, NextKeeps DEF MirrorTypeOK
<1>2. CASE (\E l \in Lists : EndList(l)) \/ RestartRoutes
  <2>1. /\ UNCHANGED <<vars, rows, inForce>> /\ executing' \subseteq executing
        /\ \A m \in Lists : listing'[m] = listing[m] \/ listing'[m] = NotListing
    BY <1>2 DEF EndList, RestartRoutes, MirrorTypeOK
  <2>2. \A m \in Lists : listing'[m] = listing[m] \/ IsPast(listing'[m])
    BY <2>1 DEF IsPast, NotListing
  <2>3. InHand'
    BY <2>1, <2>2, InHandAgain DEF Mirrored
  <2>4. RowsKept
    BY <2>1, LenProperties DEF RowsKept, SameSubject, MirrorTypeOK
  <2> QED
    BY <2>1, <2>3, <2>4, RouteMirrored DEF Mirrored
<1> QED
  BY <1>1, <1>2, ContractMirrored, CreateRouteMirrored, ExecuteRouteMirrored, MarkMirrored,
     ReadMirrored, CopyMirrored, TableSteps

LEMMA InitMirrored == MirrorInit => MirrorTypeOK /\ Reported /\ Mirrored
<1> SUFFICES ASSUME MirrorInit PROVE MirrorTypeOK /\ Reported /\ Mirrored
  OBVIOUS
<1> USE DEF MirrorInit
<1>1. MirrorTypeOK
  BY EmptySeq DEF WalletInit, WalletTypeOK, MirrorTypeOK
<1>2. Reported
  BY DEF WalletInit, Reported, Follows, At, Nothing
<1>3. Len(rows) = 0 /\ executing = {} /\ \A l \in Lists : "read" \notin DOMAIN listing[l]
  BY DEF NotListing
<1>4. Mirrored
  BY <1>3 DEF Mirrored, InHand, IsPast
<1> QED
  BY <1>1, <1>2, <1>4

\* The inductive invariant of the whole: the contract's, the hooks' and the routes'.
MirrorInv == TypeOK /\ Decisions /\ MirrorTypeOK /\ Reported /\ Mirrored

LEMMA NextMirrorInv == MirrorInv /\ [MirrorNext]_allVars => MirrorInv'
<1> SUFFICES ASSUME MirrorInv, [MirrorNext]_allVars PROVE MirrorInv'
  OBVIOUS
<1> USE DEF MirrorInv
<1>1. WalletTypeOK /\ \A w \in Wallets : Follows(w)
  BY DEF MirrorTypeOK, Reported
<1>2. TypeOK' /\ Decisions'
  BY <1>1, MirrorStepIsGovernanceStep, NextTypes, NextDecisions
<1>3. MirrorTypeOK'
  BY <1>1, MirrorTypes
<1>4. Reported'
  BY <1>1, NextReported
<1>5. Mirrored'
  BY <1>2, NextMirrored DEF Decisions
<1> QED
  BY <1>2, <1>3, <1>4, <1>5

LEMMA AlwaysMirrorInv == MirrorSpec => []MirrorInv
<1>1. MirrorInit => MirrorInv
  BY InitTypes, InitDecisions, InitMirrored DEF MirrorInit, MirrorInv
<1> QED
  BY <1>1, NextMirrorInv, PTL DEF MirrorSpec

\* The hooks, the network and the API's routes, with every request repeated and every
\* answer lost, do to the governance contract what its own specification allows.
THEOREM MirrorImplementsGovernance == MirrorSpec => Spec
<1>1. MirrorInit => Init
  BY DEF MirrorInit
<1>2. MirrorInv /\ [MirrorNext]_allVars => [Next]_vars
  BY MirrorStepIsGovernanceStep DEF MirrorInv, MirrorTypeOK
<1> QED
  BY <1>1, <1>2, AlwaysMirrorInv, PTL DEF MirrorSpec, Spec

\* What a hook reports as confirmed is on chain, however often its request was repeated
\* or its transaction handed in, and however many answers were lost; what was still
\* waiting when the submit route gave up on it, and is shown as confirmed too, is not
\* spoken of.
THEOREM ConfirmedIsAlwaysOnChain == MirrorSpec => []ConfirmedIsOnChain
<1>1. MirrorInv => ConfirmedIsOnChain
  BY ReportedIsOnChain DEF MirrorInv, MirrorTypeOK
<1> QED
  BY <1>1, AlwaysMirrorInv, PTL

\* A row never shows votes that no proposal of its subject has, with any number of lists
\* reading and copying at a time.
THEOREM RowsAlwaysFollowProposals == MirrorSpec => []RowsFollowProposals
<1>1. MirrorInv => RowsFollowProposals
  <2> SUFFICES ASSUME MirrorInv, NEW row \in ListFromTable PROVE RowFollows(row)
    BY DEF RowsFollowProposals, RowFollows
  <2>1. PICK i \in DOMAIN rows : row = rows[i]
    BY DEF ListFromTable, ToSet
  <2>2. i \in 1..Len(rows)
    BY LenProperties DEF MirrorInv, MirrorTypeOK
  <2> QED
    BY <2>1, <2>2 DEF MirrorInv, Mirrored
<1> QED
  BY <1>1, AlwaysMirrorInv, PTL

\* While the rows stand in the contract's order (Aligned), the backend marks as executed,
\* and sends on, only what holders approved; of misnumbered rows it says nothing.
THEOREM AlwaysActsOnApproval == MirrorSpec => []ActsOnApproval
<1>1. MirrorInv => ActsOnApproval
  <2> SUFFICES ASSUME MirrorInv, Aligned
               PROVE  /\ \A k \in Keys : inForce[k] # NoValue => ValueApproved(k, inForce[k])
                      /\ \A i \in DOMAIN rows : rows[i].executed => RowApproved(rows[i])
    BY DEF ActsOnApproval, ValueApproved, RowApproved
  <2>1. DOMAIN rows = 1..Len(rows)
    BY LenProperties DEF MirrorInv, MirrorTypeOK
  <2> QED
    BY <2>1 DEF MirrorInv, Mirrored
<1> QED
  BY <1>1, AlwaysMirrorInv, PTL
=============================================================================
