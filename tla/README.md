# sXLM: TLA+ specifications, model checking and proofs

This directory is the verification project of the sXLM liquid staking protocol:
TLA+ modules that model its contracts, the services and routes of its backend and
the path a transaction takes through its frontend, TLC configurations that check them on small instances, and TLAPS
proofs of the results that matter most. `PROJECT.json` maps every definition to
the source lines it models and lists the runs, the mutants (a plausible bug for
every property, which the run must detect), the findings, the hazards and the
theorems. Paths below are relative to the root of the repository.

To check a module: `tlc -workers 2 -config MCStaking.cfg MCStaking`. To
check its proofs: `tlapm StakingProofs.tla`.

## 1. The system

Users deposit XLM in a staking contract and get sXLM, whose price in XLM grows
with rewards. sXLM is used as collateral in a lending contract, traded in a
pool and counted as voting power. A Node backend watches the chain, keeps a
database for the user interface and sends the calls that need an operator.

| component | state it keeps | operations | hard behaviour | what makes it correct | module |
|---|---|---|---|---|---|
| sXLM token (`contracts/sxlm-token`) | balances, allowances, supply, minter, admin | mint, burn, transfer, transfer_from, approve, set_minter, set_admin | transfers to oneself, rotation of the minter, supply stored apart from the balances | the supply is the sum of the balances | `SxlmToken`, `Balances` |
| staking (`contracts/staking`) | staked total, its own copy of the supply, buffer, treasury, withdrawal queue, pause, admin | deposit, request and claim of withdrawals, rewards, fees, slash, buffer, pause, cooldown | a ticket is outstanding while rewards, slashes and instant withdrawals go on; integer rounding | books explain the XLM held; rounding never takes from holders; tickets are paid once, in full, when due | `Staking`, `TicketPromise` |
| lending (`contracts/lending`) | collateral, debts, totals, rate and factors | deposit, withdraw, borrow, repay, liquidate, admin setters | two products that round differently, capped seizure, over-payment | nothing is lost; only a repricing makes a position liquidatable | `Lending` |
| LP pool (`contracts/lp-pool`) | reserves, shares, accrued fees | add and remove liquidity, swaps both ways, fees | rounding on every path, fees kept apart from reserves | reserves are held; swaps and shares cost the others one unit at most | `LpPool` |
| governance (`contracts/governance`) | proposals, votes, parameters, reference supply | propose, vote, execute, set_reference_supply | tokens move while the vote lasts, last ledger of the period, competing proposals | one ballot each; decisions stay decided; parameters were decided | `Governance` |
| event listener (`backend/src/event-listener`) | `lastLedger` in memory and in a file | a poll every 5 s, event by event, with database calls | polls overlap, fail half-way, are forgotten by a restart; pages | no withdrawal is left behind; every one is mirrored at last | `EventListener` |
| queue processor (`backend/src/staking-engine/withdrawalQueueProcessor.ts`) | `isProcessing`, the batch in hand | list due rows, mark, claim, write the outcome | restarts between two writes, transactions that outlive the wait for them, rows changed by others | no row is lost in `processing` without a failure | `QueueProcessor` |
| withdrawal routes (`backend/src/api-gateway/routes`, `user-service`) | the `Withdrawal` table | unstake, mark-claimed | they write without looking at the chain | (part of the pipeline) | `WithdrawalRows` |
| stake, unstake and claim routes (`routes/stake.ts`, `unstake.ts`, `submit.ts`) | - | quotes, balance check, the scan for a due ticket | quotes age and round apart from the contract; a ticket that is not due among those that are | quotes hold; a due ticket is found | `StakingRoutes` |
| lending and liquidity routes, leverage and restaking simulators | rows of positions (a fallback for display) | limits, health, prices and shares computed again; transactions built | two copies of one rule, in other units and roundings | the copies agree with the contract | `LendingRoutes`, `LiquidityRoutes` |
| operator account (`contractClient.ts`) | the sequence number of one key | build, simulate, send, poll | all services share the number, and a call may be refused, given up and still land | (part of the modules below) | `OperatorAccount` |
| risk engine, event bus, staking engine, admin routes | `emergencyMode` in memory, validator rows, pending withdrawal rows | health checks, pause and unpause, slash, reallocation, rewriting of rows | checks overlap; calls land late; two copies of one table | the pause follows the validators; stake only moves; rows follow slashes | `RiskEngine` |
| validator service, delegation manager | validator rows | measure, alert; plans for deposits, withdrawals, rebalancing | rows overwritten while they are used | plans stay within what there is | `ValidatorService`, `DelegationManager`, `ValidatorTable` |
| reward engine, rate manager, metrics cron, statistics routes | snapshots, the rate last sent, a cached rate | read two totals, send their ratio to lending, refresh | torn reads, updates out of order, failures | everything agrees with the contract at last | `RateFlow` |
| keeper (`keeper`) | - (what a run has read) | harvest, recycling, upkeep | failed, late and forgotten calls on a shared key | nothing is booked twice | `Keeper` |
| governance routes (`routes/governance.ts`) | proposals in the database, what was sent on | create, vote, execute, list with copying | rows and chain count apart, requests repeated, executions never signed | what takes effect was approved; shown votes exist | `GovernanceMirror` |
| wallet, hooks, client (`frontend/src/hooks`, `lib/apiClient.ts`) | what a hook waits for | ask, sign, submit, poll | time-outs and repetitions of what is under way | what is reported as confirmed is on chain | `WalletFlow` |
| pages and components, authentication, server set-up, configuration, scripts | none that another part relies on | display, wiring | - | - | not modelled |

Interactions. Contracts call each other synchronously inside one atomic
transaction: staking mints and burns sXLM, all of them move tokens, governance
reads balances. The backend learns of them by polling the RPC's event log, by
ledger number; it acts by sending transactions signed with the operator's key
and polling for their result for a minute, while they stay valid for five. All
services of the backend are tasks of one Node process: they interleave at their
awaits, share one database, and a restart takes all of them at once.

## 2. Plan and modules

| module | extends | models |
|---|---|---|
| `ContractArith` | | `i128` division, which rounds toward zero |
| `Balances` | | a token transfer, read-after-write |
| `SxlmToken` | `Balances` | the token contract |
| `TicketPromise` | | abstract: what a delayed withdrawal promises its owner |
| `Staking` | `SxlmToken`, `ContractArith` | the staking contract with the token, native XLM and the ledger clock; implements `TicketPromise` |
| `StakingRoutes` | `Staking` | what the stake, unstake and claim routes quote, check and build |
| `Lending`, `LendingRoutes` | `Balances`, `ContractArith` | the lending contract with both token ledgers; the routes and the simulators |
| `LpPool`, `LiquidityRoutes` | `Balances`, `ContractArith` | the pool with both token ledgers; the routes |
| `Governance` | `SxlmToken`, `ContractArith` | the governance contract with the token |
| `StakingEvents`, `WithdrawalRows`, `EventListener`, `QueueProcessor`, `WithdrawalPipeline` | each the one before | the event log, the `Withdrawal` table, the listener's overlapping polls, the processor's batches, all at work on one table |
| `OperatorAccount` | | calls signed with the backend's key, and their fate |
| `ValidatorTable` | | rows of validators and how a reallocation is computed from a copy |
| `RiskEngine` | `OperatorAccount`, `ValidatorTable` | checks, emergency mode, handlers of the bus, what follows a slash, admin routes |
| `ValidatorService` | `RiskEngine`, `DelegationManager` | measurements beside the risk engine; the delegation plans on every table that results |
| `RateFlow`, `Keeper` | `OperatorAccount`; `RateFlow` | all readers of the staking contract's totals; the keeper on the same key |
| `WalletFlow` | | one request of a hook, from asking to reporting |
| `GovernanceMirror` | `Governance`, `WalletFlow` | the governance routes between hooks and contract |
| `MC*` | the above | instances for TLC, and what the repository says that the code does not do |
| `ContractLemmas`, `StakingProofs`, `LendingProofs`, `LpPoolProofs`, `GovernanceProofs`, `WithdrawalPipelineProofs`, `ValidatorServiceProofs`, `KeeperProofs` | the above | proofs |

Next, in this order:

1. The scan of the claim route beyond its limit, the user table, and the rows of
   positions.
2. APY figures of the reward engine as a function of the last snapshots.

## 3. How the models correspond to the code

**Contracts.** One action per entry point, with every call it makes. A Soroban
call is one transaction: a panic, a failed `require_auth` or an overflow (the
workspace builds with `overflow-checks`) rolls everything back, so whatever
makes the code panic is a guard of the action. The address whose authorization
is needed is a parameter (`by`, `user`). Balances are natural numbers because
the code checks them, the books of the staking contract are integers because it
does not. Where a route has a call simulated, or repeats a contract's checks, the
conditions under which the call does not panic have a name of their own (`MayBorrow`,
`MayRequestWithdrawal`, `MayMint`, ...): the action has them as its guard, and the routes'
module cites the same definition. Amounts stay far from the limits of `i128` and are not bounded by a
width. Division is `TruncDiv`, which rounds toward zero as Rust does. Left out:
rent (TTL) extension, metadata, views, events (but see the backend), and
`upgrade`, which replaces the program.

Variables are named after the storage keys (`TotalXlmStaked` is
`totalXlmStaked`). Ghost variables record what the contract does not: rewards
booked, slashes, payments out of the buffer, direct transfers, counted ballots.
No action reads them except for bounds.

**Backend.** Node runs one task at a time and switches only at an `await`, so an
action is what happens from one await to the next. A poll of the listener is a
record: where it is, the ledger it asked from, the next event of its page, the
last one, the network's latest ledger in the response, and what its look-up
found. `Look` and `Record` are two actions because the row is looked up and
written by two calls; between them anything may happen, the same event in
another poll included. The awaits of publishing on the event bus are merged with
the write before them: they delay only the move of `lastLedger` in memory.
Failures are actions of their own (`CallFails`, `PublishFails`, the second
disjunct of `Finish`), each costing one of `MaxFaults`. `RestartListener` and
`RestartProcessor` forget what is in memory; `Restart` does both.

`QueueProcessor.step` is the place in `processQueue`: `loop` before marking the
next row, `send` between marking and sending the claim, `wait` in
`pollTransaction`, `revert` in the `catch`. A claim that is given up stays in
`orphans` until the network includes it or it runs out. `DecodeThrows` is what
happens after a confirmed claim (section 6). The table is a sequence whose
positions are the ids: Prisma counts from 1 and rows are never deleted; the
contract's tickets count from 0 (`tickets[id + 1]`).

The other backend modules follow the same rule. `OperatorAccount` splits a call
at its three awaits. `Begin` is its start, in the step of the caller that decides on
it: the account is asked for (`getSourceAccount`). `Build` is the answer, any time
later, with the sequence number of that moment; `Send` simulates and
sends, `Return` or `Throw` ends the polling. Of the number it keeps whether it is
still the next one: a call built on a number that another transaction has used is
`stale` and refused. What is sent stays in `pool` until the network includes it
or it runs out, also when its caller has given up. `RiskEngine.procs` records
where each check and each handler of the event bus is; the in-memory bus starts
handlers without waiting for them. What a check or a reallocation has read of the
table is copied into its record, because the code works on that copy until it ends.
`slips` marks that a call threw, the backend restarted, the admin stepped in, a
slash was sent while another was not yet in the rows (`Unsettled`), or a call was
overtaken: it had not read the account when a call of another check, which wants the
opposite, was included.
`RiskNext` is the risk engine in an open environment: rows are written, validators
alerted about and calls elsewhere fail whenever they like. `ValidatorService` is one
such environment, the validators that go up and down in `emergency` another.
`RateFlow` keeps each reader's pair of totals, read one by one. Two other readers of
several values are one action: `ReadTotals` of `RiskEngine` (the supply cancels out of
the two rates that it compares) and the views of the pool's page. `WalletFlow` has
one record per wallet for the hook that is busy, and the fate of what it handed
in: an answer that it is still pending is shown as success, as `useGovernance.ts` does.
`GovernanceMirror` composes it with the routes and the contract; several requests for
the list may be under way at once. A transaction
is built, and later succeeds, exactly if the contract would accept the call
(`Simulates`, which names the conditions of `Propose`, `Vote` and `Execute`). The pure
computations of routes and of the delegation manager are functions of the state,
and the properties judge them in every state the run reaches. They compute with
fractions where the code has floating-point numbers, whose rounding is not modelled. The loops that the
leverage and the restaking engine project are a recursive function (`Simulate`, with
`Loop` for one round); they compute with fractions, so after `i` rounds its amounts are
integers over `BPS_DENOMINATOR` to the power of `i`. What the operator's transactions do
is `Ops` of `RiskEngine` and of `Keeper`.

External, and modelled from how the code uses it: the native asset contract, the
ledger clock, `getEvents`, the inclusion of transactions. Times are abstracted
in the backend: which pending row is due and which ticket is past its cooldown
are free choices (`Staking` has the cooldown itself).

## 4. The runs

| run | what it asks | result |
|---|---|---|
| `staking` | Do the books explain the XLM, is the supply the sum of the balances in both copies of it, does rounding ever lower the rate, are tickets kept as `TicketPromise` says, do the routes' quotes hold and is a due ticket found? | holds |
| `lending` | Are totals sums, is nothing lost, does it take a repricing to make somebody liquidatable, do the routes and the simulators agree with the contract? | holds |
| `lp_pool` | Are reserves held, shares backed, what does rounding cost the others, and is what is shown what is paid? | holds |
| `governance` | One ballot each, executed decisions stay decided, parameters were decided? | holds |
| `listener` | Is a delayed withdrawal ever left behind, and is each mirrored at last? | holds, with the exceptions the properties name |
| `pipeline` | How many rows can be lost in `processing`, and do rows always leave it? | holds |
| `emergency` | Is the contract paused exactly in an emergency, and does the pause follow the validators? | holds, unless a call threw, the backend restarted, the admin stepped in or a call was overtaken before it had read the account |
| `alerts` | Does stake only move, do the rows follow a slash, do the plans stay within what there is? | holds, with the exceptions the properties name |
| `governance_routes` | Was everything that takes effect approved, do shown votes exist, is what is confirmed on chain? | holds; the first while the table is `Aligned`, the last unless the answer was that it is pending |
| `keeper` | Is nothing booked twice, and do rates, rows and caches agree with the contract at last? | holds |
| `listener_poison` | Does a later poll get past an event on which one failed, as `event-listener/index.ts:118` says? | violated |
| `emergency_overtaken` | Is the contract unpaused at last when all validators are healthy and nothing fails, as `risk-engine/index.ts:106` says? | violated |

### Bounds, and why they are enough

Every bound is a CONSTANT that the modules mark as "bound".

* `staking`: two callers with 2 and 1 XLM, amounts up to 2, and behaviours of two kinds
  (`kind` in `MCStaking`), because all of it at once is too large. Those about value have
  one minter and admin, a reward of 10 (the smallest whose 10% fee is not zero), a slash
  of 2, two tickets, one closed ledger and a cooldown of 1. A ticket can therefore be issued
  before and claimed after a reward, a slash, an instant withdrawal or another ticket, and
  the totals take values whose ratio is not whole, which is where rounding could hurt.
  Those about custody have two possible minters and admins, allowances, one ticket and a
  supply of 2 at most, whoever mints, and no rewards or slashes: what the first kind keeps
  fixed. Other cooldowns, and changes of it, are left to the proofs.
* `lending`: a borrower, a liquidator, a scale of 20 basis points and rates of one
  half, one and one and a half. Collateral factor 70% and threshold 80% as deployed,
  plus a factor above the threshold and a threshold of 50%; small scales make
  every rounding case happen with amounts up to 3.
* `lp_pool`: the deployed fee of 30 basis points with the protocol's cut at its
  default and at the whole fee; up to 6 shares. The proofs cover other fees.
* `governance`: two holders who are not told apart (symmetry; no liveness is
  checked there), two sXLM, two proposals on one key, two ledgers, so that a vote and
  an execution can fall on either side of the last ledger.
* `listener`: a first boot, two polls that may overlap at every await, a page of two,
  two events and three ledgers, one failure and one restart. With one wallet and one amount
  every two withdrawals are equal, the worst case for the look-up; rows come from
  the listener only (the route's are in `pipeline`). Two events
  never overflow a page of two: that the events a page cuts off are the only ones
  lost is the part of `NothingLeftBehind` that the proof covers for every page
  limit, and the `pipeline` instance has pages of one.
* `pipeline`: one poll beside the processor, batches of two, one failure, one
  restart, three events, one row from the route (`MaxUnstaked`) and others only from
  the listener. `MaxRows` keeps the listener from writing equal copies of a row
  without end; it does so only for a withdrawal that has a row already, so no
  property can tell.
* `emergency`: four validators, two of which go down and come back, so that none, a
  quarter or half of them are down, on either side of the 30%; two checks that may
  overlap, two reallocations that wait, one failed call or restart. Those that go
  down have no stake, so the run is about the mode; stake is what `alerts` is about.
* `alerts`: three validators, two of them bad enough to be slashed, two handlers
  that may overlap, a pending row of 100 over a stake of 9 (so that two slashes, which
  round one after the other, can put the row two below its part, the most that
  `RowsFollowSlashes` allows), an admin's slash, one run of the service that
  finds an account or an error, one failure. Two equal validators and two equal
  handlers are not told apart; no liveness is checked there.
* `governance_routes`: one wallet, two proposals on two keys of which one is sent
  on, two rows, two requests for the list (which are not told apart), one repetition of
  each request, one ledger of voting. The wallet votes for either proposal, against
  the first, and has the first executed. Rows and
  chain can therefore count apart (a request that was repeated or not signed), and a
  vote and an execution fall on either side of the end.
* `keeper`: two rate updates, two refreshes, harvest, recycling and upkeep compete
  for the number; one deposit, one fee, one failure or restart. `Mixes` splits the
  instance by the services that run, because their products are too large together.
* `listener_poison` needs only the smallest instance in which the counterexample
  exists, without failure or restart: what goes wrong there goes wrong on its own.
* `emergency_overtaken` is the instance of `emergency` without failures and restarts.

Deadlock is checked where the system never stops: the contracts of the runs that
say so always have a call that goes through, and the timers of listener and risk
engine fire for ever. It is not checked in `alerts`, `governance_routes` and
`keeper`, whose bounds on runs, rows and faults end every behaviour.

### Fairness

The contracts promise nothing about what will happen, and their specifications
have no fairness. `EventListener` assumes weak fairness of each poll's own
steps: the interval timer starts polls for ever, and every await settles, because
the calls have time-outs or fail; failing is not part of the fair step and is
bounded in number instead. `QueueProcessor` assumes weak fairness of its step as a
whole, for the same reason: `processQueue` is one sequential task, and
`pollTransaction` gives up after thirty looks. Nothing is assumed of users, of the
chain, of the inclusion of transactions or of restarts. `DelayedIsMirrored`
holds in spite of failures and restarts because there are finitely many of them. It
speaks of a listener that has saved a ledger: before that, the RPC may refuse every
poll (section 6).

`RiskEngine` (stated in `MCRiskEngine`) and `Keeper` assume that their timers fire,
that every await of a check, a task or a call settles, and that the network
includes or drops what it has been sent: a transaction is valid for 300 s, so one of
the two happens. Which of the two, and whether a call fails, is never assumed. The
fairness of the checks is strong only because the bound on waiting reallocations
may hold one up. Validators, users and the admin may stop; `PauseFollowsHealth`
and `RatesCatchUp` say what holds once they do.

## 5. What is proved

All theorems are checked by TLAPS for every value of the constants that satisfies
the named assumptions (`StakingConstants`, `TokenConstants`, `LendingConstants`,
`LpPoolConstants`, `GovernanceConstants`, `MirrorAssumption`, `WalletAssumption`,
`EventsAssumption`, `RowsAssumption`, `ListenerAssumption`, `ProcessorAssumption`,
`OperatorAssumption`, `ValidatorsAssumption`, `RiskAssumption`, `DelegationAssumption`,
`ServiceAssumption`, `RateAssumption`, `KeeperAssumption`, `StakingRoutesAssumption`,
`LendingRoutesAssumption`, `LiquidityRoutesAssumption`; TLC evaluates them on every run).
They say only that amounts are integers, bounds are natural numbers, that there are
finitely many accounts and validators, that the contracts' own addresses call
nothing, and that checks, handlers and the admin are different callers.

Sums over accounts are folds of the community modules, which are recursive functions
over sets. `ContractLemmas` derives from that what the proofs need: what one element
adds to a sum (`SumPick` and the lemmas after it), by taking a smallest part of the
finite set for which it fails (`SmallestPart`). That is induction without an operator as parameter;
over the natural numbers it is `CountingInduction`, from which `IterationExists` derives
that a function may be defined from each of its values to the next.

* **Staking.** `TypeCorrect`: the type invariant is inductive as it stands. It needs
  the checks of the code that keep buffer, treasury and balances above zero.
  `BooksAlwaysBalance`: inductive with the types. `SolventWhenRewardsAreFunded` is
  its consequence. `SuppliesAlwaysMoveTogether` and `RoundingNeverLowersTheRate`
  are action properties; the second compares products before and after a call, by
  the bounds of `TruncDiv` in `ContractLemmas`.
  `StakingImplementsTicketPromise`: initial states map to initial states, and each
  action to `Issue`, `Settle`, `Pass`, `Trade` or a stutter.
  `SupplyAlwaysSumOfBalances` is inductive with the types: each call moves the sum by what
  it mints or burns. So nobody, and no two holders together, have more than the supply
  (`SupplyCoversEveryBalance`), which the token's code never compares.
* **Stake, unstake and claim routes.** `QuotesAlwaysHold` bounds three roundings against
  each other: that of the shown rate, that of the quote and the contract's own
  (`QuoteBounds`, on `QuotientBounds`, which also covers totals that have become negative).
  `DueTicketsAlwaysClaimable`: the scan stops at the oldest open ticket, and that would be
  the wrong one if it could be due later than another. `TicketsInOrder`, the invariant, says
  that tickets unlock in the order of their ids while the cooldown is not
  changed, which is the condition of the property.
* **Lending.** `Covered`, the invariant, joins the types with the equations between
  tokens, totals and what was given. `OnlyRepricingMakesLiquidatable` needs that the
  limit of `borrow` and the health factor round in compatible directions
  (`HealthFactorExact`, `HealthMonotone`, `LimitCovers`). `TotalsAlwaysSums`: the totals
  stored apart are the sums over the positions; with `Covered` every single position
  is held (`EveryPositionIsHeld`).
* **Lending routes and engines.** `RoutesAlwaysAgree`: the page's limit is a fraction where
  the contract rounds, twice, and yet admits the same debts (`ShownLimitExact`); that a
  position shown as unhealthy can be taken over needs `EveryPositionIsHeld`, because the
  contract pays the collateral out. `ProjectionsAlwaysHold` is an induction over the loops
  (`SimulationUnfolds`): what was borrowed is the factor's part of what was staked, and
  what was staked is what the principal and the loans bought (`InStep`). For the other
  half, a position that is healthy at the engine's fixed factor is one at the contract's
  rate and threshold, rounding included (`ShownHealthIsHealth`).
* **Pool.** `ReservesAlwaysHeld` and `OthersAlwaysKeepTheirShare` hold for every fee;
  `SwapsPayNoMoreThanTheProduct` has the hypothesis `CutWithinFee`, that the
  protocol's cut never exceeds the fee, which the contract does not enforce.
  `TypeCorrect` and `SharesAlwaysBacked` have it too: with a larger cut swaps lower the
  product of the reserves, and nothing in the code keeps a reserve from running out
  while there are shares. `SharesAlwaysBacked` joins the sum of the shares with the reserves: the last
  share and the last unit of a reserve go together, because what is paid rounds down
  unless all is withdrawn. `NewtonComputesRoot`: the value of `isqrt`'s loop never falls
  below the root (`NextAboveRoot`, the inequality of the two means with both roundings) and
  stops falling only there (`StopsAtRoot`), for every argument.
* **Liquidity routes.** `ShownFiguresAlwaysHold` (with `CutWithinFee`): who leaves is paid
  exactly what was shown and lowers nobody else's figures (`LeaverIsPaid`), a deposit raises
  the depositor's by no more than it brought and one unit (`SharesOfDeposit`), and a swap
  pays below the spot price for any fee (`OutBelowSpot`).
* **Governance.** `Decisions` strengthens both properties: a proposal's period is
  over when it is executed, and a parameter without an executed proposal is unset.
  `AlwaysOneBallotEach` rests on `Tallied`: who has a ballot is recorded as having voted,
  and each tally is the sum of its side's ballots, so a tally never counts a wallet twice.
* **Governance routes.** `MirrorImplementsGovernance`: `MirrorSpec => Spec`, so the contract's
  theorems hold for a contract that is called through routes, hooks and network only. The
  invariant `MirrorInv` says of each wallet what its hook, its request in the network and
  its answer have to do with each other (`Reported`), and of rows and chain that as long
  as they are `Aligned` row `i` has the key, value and end of proposal `i - 1`, and
  whatever row or parameter was applied was sent for a proposal that is approved
  (`Mirrored`). Of a table that is not aligned `AlwaysActsOnApproval` says nothing, and
  `ConfirmedIsAlwaysOnChain` says nothing of what the submit route called pending.
  `RowsAlwaysFollowProposals` holds for any number of lists under way: what each has
  read of a proposal was so at some time, and tallies only grow (`PastStays`).
  `ActsOnApproval` alone is not inductive: the row is marked and the
  parameter applied before the execution is signed, so what makes it true is that the
  decision cannot change once its period is over.
* **Listener.** `IInv` says why nothing is left behind. It adds that the log is in the
  order of its ledgers and that each poll has mirrored all withdrawals before the
  event it is at, while what lies beyond its page is cut off or younger than its
  response; a poll that has looked a row up knows that it was there, and rows never
  disappear or change wallet and amount (`RowsKept`). `PollKept` carries this over
  the steps of everybody else, `PollPasses`, `PollEnds` and `LastMoves` over the
  poll's own. Without the part on polls the invariant is not inductive: `Finish`
  moves `lastLedger` to a ledger that only the response knew.
* **Keeper.** `booked <= received` is not inductive: the XLM of a `withdraw_fees` or
  `collect_protocol_fees` that was included is received long before it is booked,
  and the harvest books what it read, not what was paid. `IInv` adds what a task
  has taken and will book (`Owed`), what waits in the pool to be booked (`OwedBy`),
  and what the harvest takes for granted of the pool's fees (`Expected`), together
  with the shape of the calls: whose transaction the pool holds, and that a task's
  call carries the amount the task has read. Each step moves an amount from one of
  these terms to the next, or drops it. `TypeCorrect` is about amounts too: the treasury
  is not overdrawn because only one transaction waits at a time, and what it was
  simulated on does not shrink before it is included (`Payable`); totals are never zero,
  so the rates exist, and a rate that rounds to zero is not sent.
* **Pipeline.** `PipelineInv` adds the processor's types and that a row is in hand
  whenever one is being handled. `Beside` states what the processor may do to the
  table and the log; the listener's promise then follows from `OthersPreserve`.
  `AlwaysStrandsOneRowAtMost` counts: `StrandedByFaults` says that there are no more stranded
  rows than failures and restarts so far, and that between two rows none is in hand.
* **Risk engine and validator service.** `WatchImplementsRisk` (`WatchSpec => RiskSpec`): the
  service's measurements, alerts and failures are steps of the open environment, so
  what is proved of `RiskSpec` holds next to it, and would next to any other writer of
  the rows. `Shape` says which memory goes with which call: where a check, a
  handler or the admin is, what it has copied, whose transaction the pool holds. On it rest
  - `StakeIsAlwaysAccounted`: the rows and what reallocations have taken and not yet
    given add up. Each write of a row moves an amount between the two.
  - `PauseAlwaysMatchesMode`: the mode is set before the call and the contract changes after
    it, so in between they differ. `CallsFollowMode` says how: of two calls under way
    one is going to throw; a single one that goes through makes the contract what the mode
    says; without one they agree. Two checks can pass each other between mode and call.
    Of calls that have read the account, the sequence number lets only one through. It
    does not keep out one that reads the account when the other is on chain: that call
    was overtaken, which is excepted, and `emergency_overtaken` shows what comes of it.
  - `RowsAlwaysFollowSlashes`, for a positive initial stake: at most one slash waits to be
    dealt with (`Unsettled`), and whoever deals with it remembers enough to settle the rows
    (`Settles`, for each of its steps). Each row is its part of what is left, at most one unit
    lower for every unit slashed (`Near`; `CutStaysNear` carries it over one more rounding).
    A slash that takes effect before the last one is in the rows can break the bound, because
    two recalculations then read each other's totals: `"crossed"` in `slips` marks it.
  - `PlansAlwaysStayWithin`: the delegation plans are within what there is, on every table.

Model-checked only: liveness (`DelayedIsMirrored`, `ProcessingEnds`,
`PauseFollowsHealth`, `RatesCatchUp`), which this prover cannot do. Every safety
property, action property and type invariant of the passing runs is a theorem.

## 6. Where the code departs from what is said of it

Two findings have a violated run. A `rewards` event carries three numbers and the
listener reads it as one, which throws. The poll ends before `lastLedger` has
passed the event, and so do all later ones (`listener_poison`), where
`event-listener/index.ts:118` expects the next poll to succeed.
`DelayedIsMirrored` therefore has the condition that no such event came before.

The other is the emergency mode (`emergency_overtaken`). A check sets it
(`risk-engine/index.ts:65`) and starts the pause, whose request for the account
(`contractClient.ts:39`) takes more than a minute. The next check finds all validators
healthy, clears the mode, and its unpause is included. Then the account of the first
one arrives, with the number after the unpause, and the pause is accepted. The contract
stays paused: line 92 unpauses only if the mode is set, where line 106 says
"All validators healthy. Protocol unpaused. Emergency mode deactivated." Nothing
has thrown. `PauseMatchesMode` and `PauseFollowsHealth` therefore except it
(`"overtaken"` in `slips`).

What else the models had to reproduce, and no run claims otherwise:

* Contracts. `claim_withdrawal` does not look at the pause (`routes/admin.ts:26`
  speaks of all withdrawals). A slash does not reach open tickets; the backend lowers
  its rows instead (`staking-engine/index.ts:98`), which no payment uses. The quorum
  is skipped while the reference supply is zero, and nothing that is deployed sets
  it, although `deploy.sh:189` and `Governance.tsx:81-82` name 10%. Swaps of a few
  stroops, whose fee is less than the rounding, lower the product of the reserves, by
  what `SwapWithinOneUnit` allows. The lending contract caps a repayment at the debt,
  where `routes/lending.ts:65` announces an error.
* Withdrawals. `claim_withdrawal` returns nothing and the client turns that into a
  `BigInt`, which throws: after a confirmed claim the row goes back to pending and
  is claimed again, so the model has no transition to `completed` in the processor.
  A first boot asks for events with no start ledger (`event-listener/index.ts:71`), which
  the RPC may refuse each time. Events beyond a full page are never read. One claimed or instant event closes all
  pending rows of its wallet; equal withdrawals share a row; a row of the route holds
  sXLM and is doubled by the event, which holds XLM. The processor passes the row's
  id for the ticket's. The unstake route ignores `instant`. The claim hook marks the
  row as claimed also when the transaction is still pending.
* Risk engine. A pause that failed is not tried again, and a restart forgets the mode.
  A reallocation takes from the first unhealthy validator of its copy without
  lowering that copy, so the row can go below zero. The validator service overwrites
  what was moved or slashed meanwhile. A second slash while the pending rows are being
  rewritten, or a failure half-way, leaves them with different factors for good.
* Rates and keeper. Two totals read by two calls give rates that never existed, until
  the next snapshot. A task whose second call fails never books what it took out.
  `add_rewards` books XLM that stays on the keeper's own account. The lending contract
  has no interest to harvest under the names the keeper asks for.
* Governance routes. Row `i` is taken for proposal `i - 1`; a request that is repeated
  or not signed breaks that for good (`Aligned`), and an execution then marks and sends on
  another proposal's row. Status and parameter are applied when the execution is built
  and nobody has signed it, where `governance.ts:111` says after the execution. Two
  proposals of one proposer for one key share a row (`governance.ts:345`). Listed proposals never become `passed` or `rejected`.
* Frontend. The client gives up after 60 s on a submission that is polled for 72 s and
  hands it in again: what was included is then reported as an error. The governance hook
  does not look at `pending` (`useGovernance.ts:94-106`), so `Governance.tsx:107-109` shows
  "Transaction successful!" of what is not on chain and may never be; the comment at
  `submit.ts:275` means it so. Hooks pass no minimum for swaps.

## 7. Not modelled, and why

Pages and components display what the hooks return. Authentication, server set-up,
configuration and the order of starting have no interleavings that a model would
show; restarts are part of every backend model. The Redis stream of the event bus is
used only if it is configured. `txExecutor` has no caller. The rows of positions
and of liquidations are written for display. Projected yields and the APY of the
reward engine are estimates that nothing depends on. Compiled output
(`backend/dist`) and generated code are the same programs again. `ValidatorService` and
`DelegationManager` are modelled as they are written, although
`backend/src/index.ts` creates neither.
