---------------------------- MODULE SikaElection ----------------------------
(***************************************************************************)
(* Producer elections of sika.system: the votes of stakers and of the      *)
(* Representatives' followers, the counters kept for them, the removal of  *)
(* votes by enforce, and the schedule elected from the counters.           *)
(*                                                                         *)
(* Whether a producer is registered, active or in probation is the state   *)
(* of SikaCompliance; its actions are taken from there, and what a         *)
(* producer has staked is here the voter row that enforce reads.           *)
(*                                                                         *)
(* Doubles are exact in the range that matters, so weights are integers:   *)
(* the factor 2^(years since 2000) is an integer that grows with the year. *)
(***************************************************************************)
EXTENDS Integers, FiniteSets, FiniteSetsExt, Functions

CONSTANTS
    Accounts,       \* accounts that stake and vote
    BPs,            \* accounts that may register as producers
    NoProxy,        \* the empty name
    StakeFloor,     \* bp_stake_floor
    MaxSlate,       \* max_bps_per_vote (30)
    TopCount,       \* top21_count
    Window,         \* sla_seconds and bp_probation_seconds
    YearFactor,     \* 2^(years since 2000), by year
    Attestations,   \* bound: violations that attestcompl may report
    Watched,        \* bound: producers the Guardians open issues against
    Leaving,        \* bound: producers that unregister
    Reps,           \* bound: accounts that act as Representatives
    Deltas,         \* bound: changes of an account's stake
    Stakes,         \* bound: stakes of an account, of either sign
    MaxYear         \* bound: last year

ASSUME ElectionAssumption ==
    /\ IsFiniteSet(Accounts) /\ BPs \cup Reps \subseteq Accounts /\ NoProxy \notin Accounts
    /\ {MaxSlate, TopCount, MaxYear} \subseteq Nat
    /\ {StakeFloor, Window} \subseteq Nat \ {0}
    /\ Attestations \subseteq SUBSET {"UPTIME_BELOW_FLOOR", "NO_PUBLIC_RPC", "MISSED_UPGRADE"}
    /\ Deltas \subseteq Int /\ Stakes \in [Accounts -> SUBSET Int]
    /\ YearFactor \in [0..MaxYear -> Nat]

VARIABLES
    producers, bpvest, spell, breached,   \* see SikaCompliance
    voters,         \* the voters table
    total_votes,    \* total_votes of the producers table
    total_weight,   \* total_producer_vote_weight
    schedule,       \* the producers last proposed
    year,           \* block time, as far as it weighs votes
    shorted         \* history: producers that a stake below zero has been
                    \* counted for since their votes were last removed

complianceVars == <<producers, bpvest, spell, breached>>
votingVars == <<voters, total_votes, total_weight, shorted>>
vars == <<producers, bpvest, spell, breached, voters, total_votes, total_weight, schedule, year,
          shorted>>

NoVoter ==
    [exists |-> FALSE, staked |-> 0, proxy |-> NoProxy, producers |-> {}, is_proxy |-> FALSE,
     last_vote_weight |-> 0, proxied_vote_weight |-> 0]

MeetsFloor == [bp \in BPs |-> voters[bp].staked >= StakeFloor]

Compliance == INSTANCE SikaCompliance WITH meets_floor <- MeetsFloor

Candidates == {bp \in BPs : producers[bp].is_active}

-----------------------------------------------------------------------------
(* The handlers work on a tally: the voters table, the producers' votes,   *)
(* their recorded sum, the producers that are active at the time and those *)
(* that were shorted.                                                      *)
Tally == [voters |-> voters, votes |-> total_votes, weight |-> total_weight,
          active |-> Candidates, shorted |-> shorted]

Store(t) ==
    /\ voters' = t.voters
    /\ total_votes' = t.votes
    /\ total_weight' = t.weight
    /\ shorted' = t.shorted

AtLeastZero(n) == IF n < 0 THEN 0 ELSE n

(* recompute_producer_vote_weight.                                         *)
Recomputed(t) == [t EXCEPT !.weight = SumFunctionOnSet(t.votes, t.active)]

\* Mutant: the votes cast before stay with the producers.
KeptOldVote(t, a) == t

(* update_votes takes what the voter contributed from its Representative   *)
(* or from its producers ...                                               *)
WithoutOldVote(t, a) ==
    LET old == t.voters[a]
    IN  IF old.proxy # NoProxy
        THEN [t EXCEPT !.voters[old.proxy].proxied_vote_weight = @ - old.last_vote_weight]
        ELSE [t EXCEPT !.votes = [bp \in BPs |->
                 IF bp \in old.producers THEN AtLeastZero(@[bp] - old.last_vote_weight)
                 ELSE @[bp]]]

\* Mutant: a Representative is credited once, with the first follower.
WithNewVoteOnce(t, proxy, slate, weight) ==
    IF proxy # NoProxy
    THEN [t EXCEPT !.voters[proxy].proxied_vote_weight = weight]
    ELSE [t EXCEPT !.votes = [bp \in BPs |-> IF bp \in slate THEN @[bp] + weight ELSE @[bp]]]

(* ... adds the new contribution ...                                       *)
WithNewVote(t, proxy, slate, weight) ==
    IF proxy # NoProxy
    THEN [t EXCEPT !.voters[proxy].proxied_vote_weight = @ + weight]
    ELSE [t EXCEPT !.votes = [bp \in BPs |-> IF bp \in slate THEN @[bp] + weight ELSE @[bp]]]

(* ... and records it with the voter.  Nothing looks at its sign: a stake  *)
(* below zero takes votes from the producers that are voted for.           *)
UpdateVotes(t, a, proxy, slate) ==
    LET weight == t.voters[a].staked * YearFactor[year]
        moved == WithNewVote(WithoutOldVote(t, a), proxy, slate, weight)
        voted == [moved EXCEPT !.voters[a] =
                    [@ EXCEPT !.exists = TRUE, !.proxy = proxy, !.producers = slate,
                              !.last_vote_weight = weight]]
    IN  Recomputed([voted EXCEPT !.shorted = IF weight < 0 THEN @ \cup slate ELSE @])

(* propagate_weight_change.                                                *)
Propagate(t, a) == UpdateVotes(t, a, t.voters[a].proxy, t.voters[a].producers)

\* Mutant: a removed producer stays on the voters' ballots.
ZeroVotes(t, bp) == [t EXCEPT !.votes[bp] = 0]

(* apply_vote_removal: voter by voter, the producer leaves the list first  *)
(* and the vote is recounted with the shorter list.                        *)
Scrub(bp, a, t) == Propagate([t EXCEPT !.voters[a].producers = @ \ {bp}], a)

Ballots(t, bp) == {a \in Accounts : bp \in t.voters[a].producers}

RemoveVotes(t, bp) ==
    LET recounted == FoldSet(LAMBDA a, u : Scrub(bp, a, u), t, Ballots(t, bp))
    IN  [recounted EXCEPT !.votes[bp] = 0, !.shorted = @ \ {bp}]

(* The loop of enforce over the producers, given the rewritten rows.       *)
SweepOne(rows, bp, t) ==
    LET seen == [t EXCEPT !.active = IF rows[bp].is_active THEN @ ELSE @ \ {bp}]
    IN  IF ~rows[bp].is_active /\ rows[bp].flags # {} THEN RemoveVotes(seen, bp) ELSE seen

Sweep(t, rows) == FoldSet(LAMBDA bp, u : SweepOne(rows, bp, u), t, BPs)

-----------------------------------------------------------------------------
Init ==
    /\ voters = [a \in Accounts |-> NoVoter]
    /\ total_votes = [bp \in BPs |-> 0]
    /\ total_weight = 0
    /\ schedule = {} /\ shorted = {}
    /\ year = 0
    /\ Compliance!Init

Tick ==
    /\ year' \in {year, year + 1} \cap 0..MaxYear
    /\ UNCHANGED <<votingVars, schedule>>
    /\ Compliance!Tick

(* regproducer, unregprod, attestcompl, openissue, closeissue and claimprod*)
(* write compliance columns alone: votes and their sum stay as they are.   *)
Act(bp) ==
    /\ UNCHANGED <<votingVars, schedule, year>>
    /\ Compliance!Act(bp)

\* Mutant: a voter may name producers and a Representative at once.
VoteBothWays(a, proxy, slate) ==
    /\ Cardinality(slate) <= MaxSlate
    /\ \A bp \in slate : producers[bp].registered
    /\ voters[a].exists \/ (proxy = NoProxy /\ slate = {})
    /\ proxy # NoProxy => voters[proxy].exists /\ voters[proxy].is_proxy
    /\ Store(UpdateVotes(Tally, a, proxy, slate))
    /\ UNCHANGED <<complianceVars, schedule, year>>

VoteProducer(a, proxy, slate) ==
    /\ Cardinality(slate) <= MaxSlate
    /\ proxy = NoProxy \/ slate = {}
    /\ \A bp \in slate : producers[bp].registered
    /\ voters[a].exists \/ (proxy = NoProxy /\ slate = {})
    /\ proxy # NoProxy => voters[proxy].exists /\ voters[proxy].is_proxy
    /\ Store(UpdateVotes(Tally, a, proxy, slate))
    /\ UNCHANGED <<complianceVars, schedule, year>>

RegProxy(a, isproxy) ==
    /\ voters' = [voters EXCEPT ![a] = [@ EXCEPT !.exists = TRUE, !.is_proxy = isproxy]]
    /\ UNCHANGED <<complianceVars, total_votes, total_weight, schedule, year, shorted>>

\* Mutant: a new stake waits for the voter's next vote to count.
UnpropagatedStake(a, delta) ==
    /\ voters[a].exists => voters[a].staked + delta >= 0
    /\ voters[a].staked + delta \in Stakes[a]
    /\ Store([Tally EXCEPT !.voters[a].exists = TRUE, !.voters[a].staked = @ + delta])
    /\ UNCHANGED <<complianceVars, schedule, year>>

(* The voter row's part in change_resource_limits, by way of delegatebw or *)
(* undelegatebw; tokens, resources and refunds are of another component.   *)
(* Only a row that exists is kept from falling below zero: undelegating    *)
(* what somebody else has staked opens one in debt.                        *)
ChangeStake(a, delta) ==
    /\ voters[a].exists => voters[a].staked + delta >= 0
    /\ voters[a].staked + delta \in Stakes[a]
    /\ LET t == [Tally EXCEPT !.voters[a].exists = TRUE, !.voters[a].staked = @ + delta]
       IN  Store(IF voters[a].producers # {} THEN Propagate(t, a) ELSE t)
    /\ UNCHANGED <<complianceVars, schedule, year>>

(* The voter row's part in buyrex and claimvest (apply_rex_stake) and in    *)
(* sellrex: only a row that exists follows the REX position, and its vote  *)
(* is recounted whether it is cast directly or through a Representative,   *)
(* which update_votes refuses once that one has resigned.  A sale may be   *)
(* of shares that were bought before there was a row, and nothing checks   *)
(* that the stake covers it.                                               *)
RexStake(a, delta) ==
    /\ voters[a].exists
    /\ voters[a].staked + delta \in Stakes[a]
    /\ voters[a].proxy # NoProxy => voters[voters[a].proxy].is_proxy
    /\ Store(Propagate([Tally EXCEPT !.voters[a].staked = @ + delta], a))
    /\ UNCHANGED <<complianceVars, schedule, year>>

Enforce ==
    /\ LET rows == [bp \in BPs |->
              IF producers[bp].registered
              THEN Compliance!Enforced(producers[bp], MeetsFloor[bp])
              ELSE producers[bp]]
       IN  Store(Sweep(Tally, rows))
    /\ UNCHANGED <<schedule, year>>
    /\ Compliance!Enforce

(* update_elected_producers, from onblock about once a minute: the active  *)
(* producers with votes, best first, unless they have become fewer.        *)
Electable == {bp \in Candidates : total_votes[bp] > 0}

UpdateElectedProducers ==
    /\ \E top \in SUBSET Electable :
          /\ Cardinality(top) <= TopCount
          /\ top = Electable \/ Cardinality(top) = TopCount
          /\ \A bp \in top, other \in Electable \ top : total_votes[bp] >= total_votes[other]
          /\ top # {}
          /\ Cardinality(top) >= Cardinality(schedule)
          /\ schedule' = top
    /\ UNCHANGED <<complianceVars, votingVars, year>>

Next ==
    \/ Tick
    \/ Enforce
    \/ UpdateElectedProducers
    \/ \E bp \in BPs : Act(bp)
    \/ \E a \in Accounts :
          \/ \E proxy \in Reps \cup {NoProxy}, slate \in SUBSET BPs :
                VoteProducer(a, proxy, slate)
          \/ \E isproxy \in BOOLEAN : a \in Reps /\ RegProxy(a, isproxy)
          \/ \E delta \in Deltas : ChangeStake(a, delta) \/ RexStake(a, delta)

Spec == Init /\ [][Next]_vars

-----------------------------------------------------------------------------
Voter ==
    [exists : BOOLEAN, staked : Int, proxy : Accounts \cup {NoProxy},
     producers : SUBSET BPs, is_proxy : BOOLEAN, last_vote_weight : Int,
     proxied_vote_weight : Int]

(* Types of the tables.  Stakes, weights and counters are signed, and a    *)
(* voter names either producers or a Representative.                       *)
TypeOK ==
    /\ Compliance!TypeOK
    /\ voters \in [Accounts -> Voter]
    /\ \A a \in Accounts : voters[a].proxy = NoProxy \/ voters[a].producers = {}
    /\ total_votes \in [BPs -> Int]
    /\ total_weight \in Int
    /\ schedule \subseteq BPs /\ shorted \subseteq BPs
    /\ year \in 0..MaxYear

CastFor(bp) == {a \in Accounts : bp \in voters[a].producers}
Followers(a) == {f \in Accounts : voters[f].proxy = a}
WeightOf(group) ==
    SumFunctionOnSet([a \in Accounts |-> voters[a].last_vote_weight], group)

(* A producer's total_votes is never less than what the ballots that now   *)
(* list it add up to, and it is exactly that unless a stake below zero was *)
(* counted for it: then the clamp of update_votes may have left it with    *)
(* votes that nobody cast, until enforce removes its votes.                *)
VotesAddUp ==
    \A bp \in BPs :
       /\ total_votes[bp] >= WeightOf(CastFor(bp))
       /\ bp \notin shorted => total_votes[bp] = WeightOf(CastFor(bp))

(* A Representative's proxied_vote_weight is what those who follow it now  *)
(* contributed, also when it follows itself or has resigned.               *)
ProxiesAddUp ==
    \A a \in Accounts : voters[a].proxied_vote_weight = WeightOf(Followers(a))

(* A direct vote weighs what its voter's present stake weighed in the year *)
(* of the last recount, also when the stake is below zero: unstaking takes *)
(* the votes along (change_resource_limits, sellrex).                      *)
VotesBackedByStake ==
    \A a \in Accounts : voters[a].producers # {} =>
       \E y \in 0..year : voters[a].last_vote_weight = voters[a].staked * YearFactor[y]

(* After a sweep nobody's ballot lists, and no counter credits, a producer *)
(* that is out of the race with violations on record; the other producers  *)
(* on those ballots keep the votes.                                        *)
SweepClearsVotesStep ==
    Enforce => \A bp \in BPs :
       IF ~producers'[bp].is_active /\ producers'[bp].flags # {}
       THEN total_votes'[bp] = 0 /\ \A a \in Accounts : bp \notin voters'[a].producers
       ELSE CastFor(bp)' = CastFor(bp)

SweepClearsVotes == [][SweepClearsVotesStep]_vars

(* Elections do to the compliance of a producer only what SikaCompliance   *)
(* allows.                                                                 *)
ImplementsCompliance == Compliance!Spec

(* sika.system.contracts.md:76, at voteproducer: staked SIKA delegated to  *)
(* a proxy "counts toward the proxy's producer slate".  Stated of the      *)
(* counters: what a Representative votes for has at least the weight of    *)
(* its own vote and of its followers.                                      *)
FollowersCount ==
    \A a \in Accounts, bp \in BPs : bp \in voters[a].producers =>
       total_votes[bp] >= voters[a].last_vote_weight + voters[a].proxied_vote_weight
=============================================================================
