# SikaChain contracts in TLA+

SikaChain is a set of Antelope (EOSIO) smart contracts: a system contract that
elects, watches and pays block producers, and smaller contracts for protocol
amendments, an elected council, stablecoin issuers, Representatives, the treasury
and the token ledger. This directory holds TLA+ models of them, TLC
configurations that check the models on small instances, and proofs, checked by
TLAPS, of the properties that matter for every instance.

Contents: [the system](#the-system), [modules](#modules-and-how-they-correspond-to-the-code),
[runs](#runs-and-their-bounds), [fairness](#fairness), [proofs](#proofs),
[where code and text differ](#where-the-code-and-its-texts-differ),
[limits](#what-is-only-model-checked-and-what-is-not-modelled), [plan](#plan).
Paths below are relative to `src/contracts/`.

## The system

An *action* of a contract is a transaction: it is atomic, and a failed `check`,
also in an inline action it sends, reverts all of it. So there are no torn writes;
what is hard is everything *between* transactions: producers, voters, Guardians
and cron accounts act in any order, time passes, rows outlive the situation they
were written for, identifiers are reused, and *deferred* transactions run later or
never. Counters are kept incrementally beside the tables they summarise.

| Component | State | Operations | Talks to |
|---|---|---|---|
| **Compliance** `sika.system`: `enforcement.cpp`, registration in `sika.system.cpp` | `producers` (active, flags, probation clock, open issue), status of `bpvest` | `regproducer`, `unregprod`, `attestcompl`, `openissue`, `closeissue`, `enforce` | reads stakes from `voters`; removes votes; forfeits bonuses |
| **Election** `sika.system.cpp`, `voting_schedule.cpp`, `apply_vote_removal` | `voters`, `total_votes`, `total_producer_vote_weight`, last schedule | `voteproducer`, `regproxy`, stake changes, `enforce`, `update_elected_producers` | compliance decides who is a candidate; pay reads the weights |
| **Pay and vesting** `producer_pay.cpp` | inflation buckets, `total_minted`, block counters, `bpvest` amounts, escrow, `epoch_fee_revenue` | `onblock`, `refillpay`, `claimprod`, `claimvest`, `setvesting`, `accruepoch` | issues SIKA in the token, credits REX, asks the treasury for cost recovery |
| **Rules** `sika.rules` | `amendments`, deferred transactions | `propose`, `approve`, `unapprove`, `veto`, `execute`, `gc` | reads the `producers` table; the Guardians veto; executes with its own authority |
| **Guardians** `sika.guard` | council, playoff rounds, vote rows, `proposals`, deferred transactions | `startelec`, `nominate`, `elecvote`, `closeround`; `propose`, `approve`, `unapprove`, `exec`, `cancel` | its transactions open issues, veto amendments, approve issuers |
| **Staking** `delegatebw`, `undelegatebw`, `refund` | resource rows, `refunds` queue, a voter's stake | as named | the token, voters |
| **REX** `rex.cpp` | pool (unlent, lendable, shares, yield), balances | `deposit`, `withdraw`, `buyrex`, `sellrex`, `claimrewards`, `claimrexyld`, `crediboost`, `credyield` | the refund queue, voters, treasury, Representatives |
| **RAM market** `ram_bancor.cpp`, `exchange_state.cpp` | connector balances, RAM of accounts | `buyram`, `buyrambytes`, `sellram` | half of each fee compounds REX, half is burned |
| **Token** `sika.token` | `stat`, `accounts` | `create`, `issue`, `retire`, `transfer`, `open`, `close` | everybody |
| **Issuers** `sika.issue` | issuer rows: status, audits, reserves, circulating supply | `applyissuer`, `attestaudit`, `approve`, `attreserves`, `mint`, `burn`, `suspissuer`, `resumissuer`, `revkissuer`, `addauditor`, `checkstale` | Guardians, the token |
| **Representatives** `sika.rep` | slates, boost rates, funded and paid boosts | `regrep`, `unregrep`, `setboost`, `payboost`, deposits | credits the yield pool |
| **Treasury** `sika.treas`, `sika.fx.hpp` | exchange rates, market ledgers, preferences, reserve | `setfx`, `pushfx`, `pushfxsig`, `accruefee`, `sweep`, `subsidize`, `clearyield`, `paycost`, `rebalance` | pay (`accruepoch`), yield pool, token |
| **Administration** | chain parameters | `init`, `setparams`, `setram`, `setpriv`, `setrexcfg` | called by `sika.rules` |

### What is hard in each, and what makes it correct

* **Compliance.** Five rules share one probation clock; an issue has a second one;
  `enforce` is only run if somebody calls it; a withdrawn producer may register
  again with its flags untouched. Correct means: the clock runs exactly while a
  rule fails; nobody is withdrawn before a full window (or an overdue issue); nobody
  fails for good and stays a candidate; no bonus vests for a withdrawn producer.
* **Election.** A vote change subtracts a remembered weight and adds a new one; stake
  changes, votes, proxies, proxies that resign and the removal of votes by `enforce`
  interleave; a stake may be below zero and then takes votes away. Correct means that
  the counters equal what the ballots add up to as long as no stake below zero is counted
  for the producer and never are less, that no vote outlives its stake, and that a sweep
  removes the votes of the withdrawn producers and of nobody else.
* **Pay.** Inflation is scheduled into buckets and issued only when claimed, partly
  withheld, partly vested, forfeited or burned. Correct means: the supply ceiling,
  never more issued than scheduled as long as no share of a bucket exceeds one, a block
  counter that covers the producers' counts, an escrow that covers what still vests, releases on schedule.
* **Rules.** Producers rotate through the top ranks between approvals, a veto
  races the end of the window, deferred transactions are late, ids are reused after
  `gc`. Correct means: no execution without a timely quorum and a full window, none
  after a veto, none twice.
* **Guardians.** Rounds are restarted and abandoned, vote rows outlive a playoff,
  the council changes while proposals collect approvals, ids are reused. Correct
  means: full terms, full playoffs, tallies of the round they belong to, executions by
  Guardians that hold a seat at approval and at execution.
* **Staking, REX and RAM.** Three stakes feed one voting stake and one refund queue, the
  queue is paid by another account than the one that holds the pool's SIKA, a voter row
  that is not there is not told of a stake, shares and RAM are rounded. Correct means:
  voting stake is stake, what the two accounts hold is what the tables owe but for stake
  that was paid in another token, a share never loses value, refunds wait for their last part, RAM is never a money machine.
* **Issuers and the token.** The registry keeps a count of its own and acts on the token
  by inline actions that can fail; reports and audits age between mints; reserves may be
  reported below what circulates; anybody's token may have the symbol. Correct means: the
  count, the supply and the balances agree, mints are backed at the time, no token comes
  into being but under a live issuer, and who fails its duties is paused.
* **Treasury, exchange rates, Representatives, yield.** The same fees are looked at again
  with each sweep, at another rate; subsidies are bounded in one currency and booked in
  two; quotes expire into one to one; claims can be repeated; settlement goes on when the
  reserve is short. Correct means: the books add up to the last unit over all contracts,
  nothing is swept or boosted twice, no net contribution, reserve or pool is overdrawn.

`hazards` in `PROJECT.json` has the lines.

## Modules and how they correspond to the code

```
AmendmentLifecycle   <-- implemented by -- SikaRules      <- MCSikaRules, SikaRulesProofs
SikaCompliance       <-- composed in ----- SikaElection   <- MCSikaElection
   ^ SikaComplianceProofs <-- cited by -- SikaElectionProofs -> SumProofs
SikaPay              <- MCSikaPay, SikaPayProofs -> SumProofs
SikaGuard            <- MCSikaGuard, SikaGuardProofs
RamCurve <- SikaStaking <- MCSikaStaking, SikaStakingProofs -> SumProofs
IssuerLifecycle      <-- implemented by -- SikaIssue      <- SikaStableProofs -> SumProofs
                             SikaToken  <- SikaIssue
SikaFx, SikaRep      <- SikaTreas <- MCSikaTreas, SikaStableProofs
```

* **`SikaRules`** has one action per action of `sika.rules`. An amendment is a row or
  `NoRow`; `bp_approvals` stays a vector because the code counts entries.
  `IsTop21(top)` is what `current_top21` may return (`std::sort` leaves ties open).
  The producers table is written by `ProducersChange`, as another contract does
  between any two transactions. `deferred` holds sent transactions; `RunDeferred` runs
  or drops one. History variables number the proposals, since ids are reused.
  `EXPIRED` of the header is never assigned by the code and so not a status here.
* **`AmendmentLifecycle`** is the promise without tables: a slot is open, in its
  window, executed or vetoed. `SikaRules` implements it (`ImplementsLifecycle`).
* **`SikaCompliance`** has the compliance columns of `producers`. Time points are
  compared only with two periods of equal length, so each is kept as an age up to
  `Window`. `Flag` and `Clear` are `flag_violation` and `clear_violation`; `Enforced`
  is the body of the loop of `enforce`. `meets_floor` stands for the stake that
  `enforce` reads; `spell` and `breached` are histories.
* **`SikaElection`** takes those actions from an instance of `SikaCompliance`, with
  `meets_floor` computed from the real `voters` table, and adds votes. `UpdateVotes`
  works on a tally (voters, votes, total weight), as `update_votes` does, and `Enforce`
  folds `apply_vote_removal` over the withdrawn producers. `ChangeStake` and `RexStake` are
  what `change_resource_limits`, `apply_rex_stake` and `sellrex` do to the voter row: the
  first recounts direct votes only, the others every vote. Neither keeps a stake at or
  above zero where the code does not: a row may be opened in debt by `undelegatebw`, and
  `sellrex` checks no sign. Such a vote has a weight below zero, and the clamp in
  `update_votes` then comes into play: the history `shorted` has the producers for which a
  stake below zero was counted since their votes were last removed. What a staked SIKA weighs
  in a year, `2^years` in `recompute_producer_vote_weight`, is the table `YearFactor`.
* **`SikaPay`** has the buckets, counters and `bpvest` amounts. `issued` and `escrow`
  are what the token has recorded; registration, votes and probation are the
  environment, reduced to the columns pay reads; votes may be below zero. Amounts are
  integers with the code's divisions; double arithmetic is taken as exact. The history
  `overshared` is set by the first claim whose share of the per-vote bucket is above one,
  which is possible (`pay_negative`): the bucket then goes below zero, and SIKA is issued
  that was never scheduled. `IssuedWithinSchedule` says that this is the only way, and that
  in any case what is issued left a bucket.
* **`SikaGuard`** has both halves of `sika.guard`, which meet in the council's seats.
  Deadlines are kept as the time left until them, so there is no last instant. Only the
  latest round is ever read by the code, so only it is kept; of a vote row's
  `round_id`, only whether it is the latest round's. Cancelling is open to some account
  at any time (the proposer), so the model does not tell accounts apart there.
* **`RamCurve`** is `exchange_state.cpp` as arithmetic. Both connectors weigh one half,
  so `std::pow` is a square root on the way to the relay token and a square on the way
  back; what is stored is truncated there and here.
* **`SikaStaking`** composes `delegatebw`, `undelegatebw` and `refund`, the shares of
  the REX pool and the RAM market over the token balances of the users, `eosio`,
  `sika.rex` and `sika.burn`. They are one module because they meet in the refund row, in
  the voter's stake and in custody. `ChangeResourceLimits`, `ApplyRexStake`, `BuyRam` and
  `RouteRamFee` are the functions of those names. Ages replace the refund's request time.
  A resource row has the token of its first stake (or SIKA, when RAM was bought first);
  `undelegatebw` takes amounts of any token and either sign, `delegatebw` only SIKA. Balances
  of other tokens are not kept, so whoever stakes one is taken to have it.
  The histories `uncounted`, `savings`, `unqueued`, `foreign` and `rested` record what no
  table keeps: REX stake taken without a voter row, deposits less withdrawals, SIKA unstaked
  but not queued, stake that was paid in another token than SIKA, and the time since a
  stake last joined the queue. That the sum is right *with* them says that these are the
  only exceptions; `foreign` is not a debt of somebody but what `eosio` lacks.
* **`SikaToken`** is the ledger of `sika.token`; **`SikaIssue`** extends it with
  the issuer rows. `Mint` and `Burn` contain the token's `Issue` and `Retire`, as the
  inline actions are part of the same transaction. `eosio` is the other caller: it may
  create a token of the same symbol, also with itself as the issuer.
* **`IssuerLifecycle`** is the promise without tables: a status per symbol and how much of
  it there is. `SikaIssue` implements it (`ImplementsLifecycle`).
* **`SikaFx`**, **`SikaRep`** and **`SikaTreas`**: the quotes, the Representatives'
  deposits, and the treasury with the yield pool of `sika.system` that both fill. A quote
  is a rate, whether it expires, the time it has left and the age of what it says; one set
  with `ttl_seconds` 0 stays in use for ever, while its age is counted up to a bound that no
  quote with a time to live reaches. `SikaTreas` takes their
  actions as they are and adds markets, reserve, sweeps, subsidies and claims, each with
  the inline actions it sends (`PayBoost` with `crediboost`, `Sweep` with `credyield`,
  `ClaimRexYld` with `clearyield`). The shares of the pool's holders are constants there.
* **`SumProofs`** proves what `SumFunctionOnSet` of the community modules does over
  finite sets: it changes by the difference when one summand changes, is monotonic,
  zero for zeros, and so on; and what a quotient is and that a nonempty finite set of
  numbers has a greatest member. Nothing in it is about SikaChain.

`map` in `PROJECT.json` names the lines each definition stands for.

## Runs and their bounds

| Run | Checks | Instance, and why it is enough |
|---|---|---|
| `rules` | `TypeOK`, `ExecutionWasEarned`, `VetoIsFinal`, `DispatchedAtMostOnce`, `ImplementsLifecycle` | three producers for two top ranks, both must approve: a rotation can invalidate and revive approvals. Windows of one tick, four ticks; one slot and two proposals, so an id is reused while the first transaction may be pending |
| `compliance` | `TypeOK`, `WithdrawnHoldsNoVest`, `RemovalEarned`, `PersistentFailureIsWithdrawn`, `OverdueIssueIsRecorded` | one producer (rows do not depend on each other in this component), all eight attestations, window of two ticks: a rule can start, end and start again within one. Ages saturate, so behaviours are infinite and liveness is meaningful |
| `election` | `TypeOK`, `VotesAddUp`, `ProxiesAddUp`, `VotesBackedByStake`, `SweepClearsVotes` | two producers that vote for each other and themselves. One may be a Representative, may follow itself, and owes stake at times (stakes −1 and 0), so that a weight below zero meets the clamp and leaves votes nobody cast; the other's stake is 0 or 1 around the floor, and it may unregister. The weight of a year doubles once. `ElectionView` hides the bonus status, the compliance histories, the schedule and the recorded sum, which the checked properties and the other actions do not read, and the weight that an account without ballot and Representative has from its last vote |
| `election_followers` | finds `FollowersCount` violated | a follower, a Representative, a producer |
| `pay` | `TypeOK`, `BlocksCovered`, `IssuedWithinSchedule` | two producers that share the buckets, votes of −1 and 2 (a share above one is within reach), two blocks, one refill of 16 SIKA, vesting off. `PayView` hides the age of the last refill once none is left |
| `vest` | `SupplyCapped`, `EscrowBacksVests`, `ReleasedOnSchedule` | one producer, a halving, a ceiling two refills away, a burn below it, vesting over two ticks, gains of a half and of all |
| `pay_negative` | finds `PayoutNeverNegative` violated | two producers, one registers again |
| `guard` | `TypeOK`, `NoElectionInTerm`, `LaterRoundsCountAfresh`, `ExecutedByQuorum`, `TermsAreFull` | four accounts for two seats, rounds of 4, 3 and 2 candidates as 27, 18 and 9; a proposal may outlive a playoff (four ticks of one round each, as 30 days against 7) |
| `guard_fresh` | finds `RoundsCountAfresh` violated | a candidate that runs again |
| `staking` | `TypeOK`, `VotingStakeAddsUp`, `CustodyAddsUp`, `RamPaysItself`, `SharePriceNeverFalls`, `RefundsCooledDown` | two stakers who can delegate to, transfer to and unstake from each other, one with unstakings that have parts of both signs, the other with a stake of one unit of another token through `undelegatebw`; one vested bonus, deposits; a trader whose purchase leaves a fee that raises the share price above one, so the next purchase and sale are rounded. A market of 11 bytes and one SIKA, where every truncation bites |
| `issue` | `TypeOK`, `SupplyAddsUp`, `MintsAreBacked`, `ImplementsLifecycle`, `StaleIsPaused` | two issuers, a token for one of them, created for the registry or for `eosio`; reports good for the tick they are made in, audits for one more, reserves of 0 and 2 against a supply of up to 2. Ages saturate, so liveness is meaningful |
| `treas` | `TreasTypeOK`, `BooksAddUp`, `CountedOnce` | two markets in cGHS or CUSD, a rate that halves, expires, stays for ever or is attested late, slices split in two where an odd unit is left over, a full subsidy cap, one Representative, a holder of half the shares who claims as often as it likes. `TreasView` hides the declared boost rate and the recorded payout preference, which no other action and no property but the types reads |

Every bound is a constant whose comment says *bound*. Most restrict the inputs; those on
counters and stakes are guards on how far an action may take them (`Stakes`, `MaxBlocks`,
`MaxBandwidth`, `MaxForeign` and the like), so a run does not see the outcomes beyond
them. The theorems hold for every value of the bounds. `staking` has a single window for
refunds, under which `setrexcfg` changes nothing; that the window may be changed while a
refund waits is covered by the theorem. `treas` lets one fee into each market, so fees of
several currencies in one row are covered by the theorem too. Deadlock is checked in every run.
Where accounts are interchangeable the run uses their symmetry (never with liveness).

For every property of a passing run `PROJECT.json` names a *mutant*: a plausible wrong
version of one definition of the model, written above the right one (a dropped
re-validation, a missing reset, an off-by-one), under which TLC finds the property
violated. What is left out of a run's bounds: two amendments at a time share nothing but
the producers table; more than two years add no new kind of change of weights.

## Fairness

`compliance` and `issue` check liveness. `compliance` assumes
`WF(Tick) /\ WF(Enforce)`: time passes on a chain that produces blocks, and
`sika.system/src/enforcement.cpp:147` says of `enforce`, which needs no authority and has
no failing check, that it "should be called regularly (hourly) by a cron account".
`issue` assumes `WF(CheckStale)`: `checkstale` needs no authority and fails on
nothing either, and is written to be called from outside in the same way. Weak fairness
asks only that they are called again and again. No
fairness is assumed of producers, voters, Guardians, issuers or auditors. The Guardians'
playoff has no liveness property: anybody may call `startelec` again while the date allows
it, which replaces the round under way, so the code does not promise that a playoff ends.
Refunds, claims and sweeps happen when somebody asks for them; nothing promises that
they ever succeed (a refund waits until `eosio` has the SIKA), so there is no
liveness to state.

## Proofs

All theorems hold for every value of the constants that satisfies the named
assumptions in the modules: finite sets of accounts, natural numbers for counts and
periods, positive where the code divides by them.

* **`SikaRulesProofs`**: `TypeCorrect`, `ExecutionEarned`, `VetoFinal`,
  `DispatchAtMostOnce` and the refinement `Implementation`. The inductive invariant is
  `TypeOK` with `EarnedInv` (an approved amendment had a quorum of distinct supporters
  when it was approved, and its window ends `VetoWindow` later) and `HistoryInv` (serials in
  the table and in the queue are different, used, and dispatched exactly if recorded
  so). The checked properties are about the past; the invariant carries the past along
  in the row. The refinement needs that a row's approvals never change after approval.
* **`SikaComplianceProofs`**: `TypeOK`, `ClockRunsInProbation`,
  `WithdrawnHoldsNoVest` and `RemovalEarned`. The last is not inductive: `HistoryOK` adds that the
  clock is never older than the producer's spell of failure unless an issue went
  overdue in it. Rules are flagged and cleared one after the other within one action,
  so the lemmas are about rows (`GoodRow`, `Kept`) and composed per action.
* **`SikaPayProofs`**: `TypeCorrect`, `BlocksCorrect`, `CeilingHolds`, `ScheduleHolds`,
  `EscrowCorrect`, `ReleasesOnSchedule`. The invariant has four parts (`VestPart`,
  `BlockPart`, `MoneyPart`, `OtherPart`), most actions touching one or two. `BlockPart`
  and `VestPart` relate a counter to a sum over all producers and rest on `SumProofs`;
  `VestPart` also says of each row that what was released is at most its total.
  `ScheduleHolds` does not say that nothing is issued beyond the schedule: it holds until a
  claim has a share above one. `ReleasesOnSchedule` compares what was released with the
  linear schedule in each state; it says nothing of how it got there.
* **`SikaElectionProofs`**: `TypeCorrect`, `VotesCorrect`, `ProxiesCorrect`,
  `BackedCorrect`, `SweepCorrect`, `ElectionsKeepToCompliance` and `ComplianceInherited`. The invariant, `Inv`, says that
  every counter is at least the sum of the remembered weights of the ballots behind it, and
  exactly that for a producer that is not `shorted`: none of its ballots then has a weight
  below zero, so the clamp in `update_votes` does not bite. A vote for producers remembers
  what its stake weighed in some year so far. One recount (`UpdateVotes`) keeps all this for
  any new ballot and a stake of either sign; `enforce` and `RemoveVotes` are folds of
  recounts, done by the first element at which a fact fails. Every step is one of `SikaCompliance` or a stutter
  of it, so the theorems of `SikaComplianceProofs` are cited through an instance, and
  what they say holds of elections too, where the floor is a stake that the environment no
  longer chooses (`ComplianceInherited`).
* **`SumProofs`**: sums over a finite set are defined by recursion over the set, and
  their induction step is done by a least counterexample: proper subsets of a finite
  set are well founded, so a set on which the fact fails has a smallest such subset, and
  removing one element from it contradicts that.
* **`SikaGuardProofs`**: `TypeCorrect`, `NoElectionDuringTerm`, `LaterRoundsFresh`,
  `QuorumExecutes`, `PendingBelongs`, `FullTerms`. The invariant adds: the cycle is at
  least as old as its rounds so far (`CycleIsOldEnough`, which yields the three full
  rounds), candidates have vote rows, approvals of a row are those given by seated
  Guardians, executed rows exist. The two halves have separate invariants, each kept
  when only the other half moves.
* **`SikaStakingProofs`**: `TypeCorrect`, `VotingStakeCorrect`, `SharesCorrect`,
  `CustodyCorrect`, `RamCorrect`, `SharePriceCorrect`, `RefundsCorrect`. Types are the hard
  part: that no pool, reserve or balance goes below zero follows from what the other
  invariants say. A sale takes `(rex * lendable) \div total` out of the pool, which is within it
  because a user's shares are within the total (`SharesAddUp`), and a share is never
  worth less than one SIKA. `CustodyCorrect` says that what `eosio` and `sika.rex` hold falls
  short of the SIKA the tables owe by exactly the stake that was paid in other tokens. The reserve stays at or above its seed because the product of
  the reserves does not fall while bytes are never more than at the start; for that the
  lemmas on the curve (`RamCurve`) bound a truncated root and a truncated square by
  polynomial inequalities over naturals; that the root exists is shown by a smallest
  interval. The other sums change by single summands and rest on `SumProofs`.
* **`SikaStableProofs`**, issuers: `TypeCorrect`, `SupplyCorrect`, `MintsCorrect` and the
  refinement `LifecycleCorrect`. The invariant is the type invariant with `SupplyAddsUp`: that
  the registry's count is the supply makes the clamp in `burn` unreachable and a mint within
  the count a mint within the supply. The refinement maps a step of the token by
  others to a stutter, because only `sika.issue` can issue or retire what is the registry's.
* **`SikaStableProofs`**, treasury: `TreasTypeCorrect`, `BooksCorrect`, `CountedOnceCorrect`
  and `ConversionsNeverGain`. The invariant, `TreasInv`, says of each market that its fees
  and subsidies make up its balance in its own currency (`GoodLedger`), of the pools that
  what was swept and boosted is in the reserve, in the pool or claimed, and of boosts that
  they are covered by what Representatives have *paid*, at the highest rate there can be
  (`BoostedOnce`). `CountedOnce` compares boosts with what was *deposited* and is not
  inductive: paying again would break it if the payment did not empty the deposit, and this
  is what `BoostedOnce` remembers. That no market is overdrawn rests on the roundings:
  an amount within the worth of a balance costs no more than that balance when it
  is converted back (`CostsNoMore`), so what was checked in one currency can be booked in the
  other. Of quotes `TreasTypeCorrect` bounds the age only if they have a time to live; one
  without stays in use however old. A claim is within the pool because a holder's shares are within the total. From the
  constants it needs that caps and splits are in the ranges their setters check, that holders
  have shares, and that rates and times to live come from finite sets (a bound of the model).

## Where the code and its texts differ

Runs that show a difference (each is a finding in `PROJECT.json`):

* The weight of a Representative's followers reaches no producer (`election_followers`).
* Shares of the per-vote bucket can exceed one after a producer registers again, and a
  payout then computes as negative, against the code's own check (`pay_negative`).
* A Guardian candidate who runs again keeps old votes, where the code says it seeds a row with
  zero weight (`guard_fresh`).

Noted while reading, without a run of their own:

* `sika.rules` keeps the approvals of producers that left the top ranks (`approve` only
  appends, and counts who is in the ranks at the moment); `sika.rules.hpp:100-102`
  promises that they are dropped on the next `approve`.
* Fixing a rule within the window does not clear probation when another rule fails
  meanwhile, as `enforcement.cpp:21` reads: the second inherits the clock of the first.
* `enforcement.cpp:22` calls the removal permanent; `regproducer` makes the producer
  active again with its flags kept. `:17` says removal drops it from the active schedule;
  the schedule cannot shrink, so it may stay until others replace it.
* `enforcement.cpp:5` says no SIKA is destroyed; forfeited bonuses are sent to
  `sika.burn` (`producer_pay.cpp:380-407`).
* The ricardian text asks for a stake at registration; `regproducer` checks none, and
  the floor is applied by `enforce`.
* `sika.guard.hpp:21` says voters cast one vote per round; `elecvote` records no voter.
* `README.md:173` asks for an auditor to be whitelisted before any issuer applies;
  `addauditor` adds to the issuers that exist at the time.
* An approved amendment never expires, and standby producers' share of inflation is
  scheduled but paid by no action. `epoch_fee_revenue` is never reset.
* When one attestation clears the only failing rule and then flags a later one, the
  clock starts afresh; in the other order it does not.
* `sellrex` takes from a voter's stake without the check that `change_resource_limits`
  makes ("staked balance cannot be negative", `sika.system.cpp:439`), so the stake of a
  voter whose row is younger than its shares goes below zero (`rex.cpp:231-236`). That check
  stands only where a row is modified: `undelegatebw` from somebody else's resources, by an
  account without a voter row, opens one with a stake below zero (`sika.system.cpp:430-435`).
  Its vote takes votes from the producers it names; if it withdraws the vote after the
  clamp at zero, they keep votes that nobody cast. The refund of a sale is paid
  by `eosio` while the SIKA stays with `sika.rex`.
* `undelegatebw` checks no symbol (`sika.system.cpp:329-337`), `delegatebw` does
  (`320-322`). Called with negative amounts of another token it stakes that token, which
  counts as votes, and unstaking it queues a refund of as much SIKA (`408-413`), which
  `eosio` never received.
* A share of the per-vote bucket may exceed one (`producer_pay.cpp:212`), by which SIKA is
  issued that was never scheduled (seen in `pay_negative` before the payout turns negative).
* A rate set with `ttl_seconds` 0 never expires (`sika.treas.cpp:57-60`, `sika.fx.hpp:33-37`).
* Buying and selling REX recount the vote of who follows a Representative, and
  `update_votes` refuses one that has resigned (`sika.system.cpp:251`): its followers can
  neither buy nor sell REX, nor claim vested SIKA, until they vote again. Staking does not
  recount such a vote.
* `undelegatebw` from another account's resources takes from both and queues nothing; with
  parts of both signs it queues more than it unstakes. `withdraw` pays anybody from the
  deposits of everybody. `buyrambytes` delivers fewer bytes than asked.
* `sika.issue.cpp:92` says that approval creates the token; it does not. A revoked issuer's
  tokens can still be transferred, and `pause_grace_seconds` is read by nothing. A paused
  issuer cannot be audited, so it has to be resumed before its audit is renewed.
* `payboost` pays all there is, whatever rate was declared, into the pool of everybody
  (`sika.rep.cpp:170-178` describes a daily share per delegator); the cGHS itself stays with
  `sika.rep`, while claims are paid by `eosio`.
* `rex.cpp:390` says "No double-counting" of claims: the pool is drained by what is paid,
  but the same holder may claim again at once, each time its share of the rest.
* An exchange rate that is missing or expired silently counts as one to one. A signed
  rate replaces a newer one as long as it is less than an hour old.
* `accruefee` adds later fees to the row in whatever currency they are. `epoch_fee_revenue`
  counts a fee when it accrues and its swept part again. `clearyield` pays in full when the
  reserve does not cover it, and `net_contribution_cusd` can go below zero.

## What is only model-checked, and what is not modelled

Liveness and everything under fairness is model-checked only; it is out of reach of the
provers used here. Every invariant and every action property of the passing runs and
every refinement are proved. The curve of `RamCurve`, its lemmas included, is proved with
exact arithmetic; the doubles of the code round in their last bits, which
the model does not have. Widths of integers are not modelled: amounts are unbounded
integers, and the 64-bit products in `claimprod` are listed as a hazard. Doubles in
pay are exact, in votes powers of two given as a table. `claimprod` may be reverted by the treasury's
cost payment or by the token's `max_supply`; in `SikaPay` the claim is then simply not
taken. `SikaTreas` does not keep the token balances of `sika.treas`, `sika.rep` and
`eosio`: a transfer they cannot make reverts the action.

Two conventions divide the work on `sika.system` among modules, each of which says so at
its top: votes are in `SikaElection` and stakes in `SikaStaking`; amounts of vesting are in
`SikaPay`, its status in `SikaCompliance`, its credit to the pool in `SikaStaking`; fee revenue
is in `SikaPay`, the fees themselves in `SikaTreas`.

Not modelled: administration (`init`, `setparams`, `setram`, `setpriv`) is single
assignments behind an authority check, and the native intrinsics have empty bodies. Build
files, texts and the test harness (which holds no test cases) have no logic to model.
`credit_rex_from_bppay` has no caller, `delband` rows are never written, and names, texts
and slates are stored and read by nobody on chain.

## Plan

Done, in this order: rules with its abstract life cycle, compliance, elections over
compliance, pay and vesting, Guardians; staking with REX and RAM, the token with the
issuers and their abstract life cycle, the treasury with rates, Representatives and yield;
proofs for all of them.

Left:

* **Governance**: `SikaGuard` and `SikaRules` composed, with a proposal whose transaction is
  the veto. `exec` only sends it, so it may arrive after the window has closed, or
  after `gc` has made its amendment's id free for another one.
