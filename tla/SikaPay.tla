------------------------------ MODULE SikaPay ------------------------------
(***************************************************************************)
(* Producer pay of sika.system (producer_pay.cpp): the inflation schedule  *)
(* fills two buckets, claimprod pays a producer its share of them, either  *)
(* as liquid SIKA or into a vesting row that is backed by an escrow, and   *)
(* claimvest releases what has vested.                                     *)
(*                                                                         *)
(* SIKA that is scheduled (total_minted) is issued by the token only when  *)
(* it is claimed; issued and escrow are what the token has recorded.  The  *)
(* scheduled share of the standby producers is never paid by any action.   *)
(* Votes, registration and probation are the environment here: of          *)
(* SikaElection and SikaCompliance only the columns that pay reads are     *)
(* kept.  Time points are ages that stop growing once nothing depends on   *)
(* them.  Doubles are taken to be exact.                                   *)
(***************************************************************************)
EXTENDS Integers, FiniteSets, Functions

CONSTANTS
    BPs,            \* producers
    InitialSupply,  \* initial_sika_supply
    MaxSupply,      \* max_sika_supply, also the token's max_supply
    Year1Bps,       \* inflation_year1_bps
    HalvingYears,   \* halving_epoch_years
    Day,            \* refill interval and pause between claims
    YearLength,     \* seconds_per_year, in the unit of Day
    Votes,          \* bound: votes of a producer
    Fees,           \* bound: amounts accrued as epoch fee revenue
    Gains,          \* bound: values of inflation_gain_bps
    VestPeriods,    \* bound: values of bonus_vesting_seconds
    Vesting,        \* bound: values of tier2_vesting_enabled
    MaxYear,        \* bound: last year
    MaxBlocks,      \* bound: blocks counted as unpaid
    MaxMinted,      \* bound: no refill once this much is scheduled
    MaxRevenue,     \* bound: epoch fee revenue
    MaxBurned       \* bound: SIKA burned with RAM fees

ASSUME PayAssumption ==
    /\ IsFiniteSet(BPs)
    /\ InitialSupply \in Nat /\ MaxSupply \in Nat /\ InitialSupply <= MaxSupply
    /\ Year1Bps \in Nat
    /\ {HalvingYears, Day, YearLength} \subseteq Nat \ {0}
    /\ {MaxYear, MaxBlocks, MaxMinted, MaxRevenue, MaxBurned} \subseteq Nat
    /\ Votes \subseteq Int /\ Fees \subseteq Nat \ {0}
    /\ Gains \subseteq {bps \in Nat : bps <= 10000} /\ VestPeriods \subseteq Nat \ {0} /\ Vesting \subseteq BOOLEAN

VARIABLES
    producers,      \* pay columns of the producers table
    total_weight,   \* total_producer_vote_weight
    total_unpaid_blocks,
    perblock_bucket,
    pervote_bucket,
    total_minted,
    total_burned,
    since_fill,     \* age of last_pervote_bucket_fill
    year,           \* whole years since genesis_time
    vestglb,        \* the vestglb singleton
    bpvest,         \* the bpvest table
    issued,         \* SIKA that claimprod had the token issue
    escrow,         \* SIKA that eosio holds for vesting rows
    overshared      \* history: a claim had a share above one of pervote_bucket

bucketVars == <<total_unpaid_blocks, perblock_bucket, pervote_bucket>>
mintVars == <<total_minted, since_fill, year>>
vestVars == <<bpvest, escrow, total_burned>>
issueVars == <<issued, overshared>>
vars == <<producers, total_weight, bucketVars, mintVars, vestglb, vestVars, issueVars>>

SmallestOf(m, n) == IF m < n THEN m ELSE n
AtLeastZero(n) == IF n < 0 THEN 0 ELSE n
\* Division of C++: toward zero.
Quotient(m, n) == IF m < 0 THEN -((-m) \div n) ELSE m \div n
AgedUpTo(age, limit) == IF age < limit THEN age + 1 ELSE age

Unvested == [exists |-> FALSE, total |-> 0, released |-> 0, age |-> 0, period |-> 0,
             forfeited |-> FALSE]
Live(row) == row.exists /\ ~row.forfeited

-----------------------------------------------------------------------------
(* The inflation schedule.                                                 *)
InflationBps == Year1Bps \div 2^(year \div HalvingYears)

TotalSupply == InitialSupply + total_minted - total_burned

\* Mutant: the last tranche is not cut at the ceiling.
UncappedInflation(elapsed) == (TotalSupply * InflationBps * elapsed) \div (10000 * YearLength)

(* compute_inflation_amount.                                               *)
Inflation(elapsed) ==
    SmallestOf((TotalSupply * InflationBps * elapsed) \div (10000 * YearLength),
               MaxSupply - TotalSupply)

Top21Part(mint) == (mint * 7500) \div 10000
PerBlockPart(mint) == (Top21Part(mint) * 25) \div 100

\* Mutant: the per-vote bucket is filled with the whole share.
OverfullRefill ==
    LET mint == AtLeastZero(Inflation(Day))
    IN  /\ perblock_bucket' = perblock_bucket + PerBlockPart(mint)
        /\ pervote_bucket' = pervote_bucket + mint
        /\ total_minted' = total_minted + mint
        /\ since_fill' = 0

(* refill_inflation_buckets, which both callers ask for a whole day:       *)
(* onblock cuts the time elapsed to the refill interval.                   *)
Refill ==
    LET mint == AtLeastZero(Inflation(Day))
    IN  /\ perblock_bucket' = perblock_bucket + PerBlockPart(mint)
        /\ pervote_bucket' = pervote_bucket + Top21Part(mint) - PerBlockPart(mint)
        /\ total_minted' = total_minted + mint
        /\ since_fill' = 0

-----------------------------------------------------------------------------
(* What claimprod computes for a producer.                                 *)
PerBlockPay(p) ==
    IF total_unpaid_blocks > 0
    THEN (perblock_bucket * p.unpaid_blocks) \div total_unpaid_blocks ELSE 0

PerVotePay(p) ==
    IF total_weight > 0 /\ p.total_votes > 0
    THEN Quotient(pervote_bucket * p.total_votes, total_weight) ELSE 0

(* Votes that total_weight does not count, or votes below zero that it     *)
(* does, leave a producer with more than all of it.                        *)
ShareAboveOne(p) == total_weight > 0 /\ p.total_votes > total_weight

(* usage_gated_tier2.                                                      *)
UsageGated(pay) ==
    IF ~vestglb.enabled THEN pay
    ELSE SmallestOf((vestglb.revenue * vestglb.gain) \div 10000, pay)

\* Mutant: adding to a schedule starts it afresh.
CreditRestarts(row, amount) ==
    IF row.exists THEN [row EXCEPT !.total = @ + amount, !.age = 0]
    ELSE [Unvested EXCEPT !.exists = TRUE, !.total = amount, !.period = vestglb.period]

(* credit_bp_vest: later credits join the schedule of the first one.       *)
CreditedVest(row, amount) ==
    IF row.exists THEN [row EXCEPT !.total = @ + amount]
    ELSE [Unvested EXCEPT !.exists = TRUE, !.total = amount, !.period = vestglb.period]

Unreleased(row) == row.total - row.released

\* Mutant: what was already released is burned once more.
ForfeitAll(bp) ==
    IF Live(bpvest[bp])
    THEN /\ bpvest' = [bpvest EXCEPT ![bp].forfeited = TRUE]
         /\ escrow' = escrow - bpvest[bp].total
         /\ total_burned' = total_burned + bpvest[bp].total
    ELSE UNCHANGED vestVars

(* forfeit_bp_vest sends what has not been released to sika.burn.          *)
Forfeit(bp) ==
    IF Live(bpvest[bp])
    THEN /\ bpvest' = [bpvest EXCEPT ![bp].forfeited = TRUE]
         /\ escrow' = escrow - Unreleased(bpvest[bp])
         /\ total_burned' = total_burned + Unreleased(bpvest[bp])
    ELSE UNCHANGED vestVars

-----------------------------------------------------------------------------
Init ==
    /\ producers = [bp \in BPs |->
          [registered |-> FALSE, is_active |-> FALSE, probation |-> FALSE, total_votes |-> 0,
           unpaid_blocks |-> 0, since_claim |-> Day + 1]]
    /\ total_weight = 0
    /\ total_unpaid_blocks = 0 /\ perblock_bucket = 0 /\ pervote_bucket = 0
    /\ total_minted = 0 /\ since_fill = 0 /\ year = 0
    /\ vestglb \in [enabled : {FALSE}, period : VestPeriods, gain : Gains, revenue : {0}]
    /\ bpvest = [bp \in BPs |-> Unvested] /\ escrow = 0 /\ total_burned = 0
    /\ issued = 0 /\ overshared = FALSE

Tick ==
    /\ producers' = [bp \in BPs |-> [producers[bp] EXCEPT !.since_claim = AgedUpTo(@, Day + 1)]]
    /\ since_fill' = AgedUpTo(since_fill, Day + 1)
    /\ bpvest' = [bp \in BPs |->
          IF bpvest[bp].exists THEN [bpvest[bp] EXCEPT !.age = AgedUpTo(@, bpvest[bp].period)]
          ELSE bpvest[bp]]
    /\ year' \in {year, year + 1} \cap 0..MaxYear
    /\ UNCHANGED <<total_weight, bucketVars, total_minted, vestglb, escrow, total_burned, issueVars>>

(* Producer registration, probation and votes, as far as pay reads them.   *)
RegProducer(bp) ==
    /\ producers' = [producers EXCEPT ![bp].registered = TRUE, ![bp].is_active = TRUE]
    /\ UNCHANGED <<total_weight, bucketVars, mintVars, vestglb, vestVars, issueVars>>

UnregProd(bp) ==
    /\ producers[bp].registered
    /\ Forfeit(bp)
    /\ producers' = [producers EXCEPT ![bp].is_active = FALSE]
    /\ UNCHANGED <<total_weight, bucketVars, mintVars, vestglb, issueVars>>

Judged(bp, failing) ==
    /\ producers[bp].registered
    /\ producers' = [producers EXCEPT ![bp].probation = failing]
    /\ UNCHANGED <<total_weight, bucketVars, mintVars, vestglb, vestVars, issueVars>>

Recomputed(rows) ==
    SumFunctionOnSet([bp \in BPs |-> rows[bp].total_votes], {bp \in BPs : rows[bp].is_active})

(* update_votes ends with recompute_producer_vote_weight.                  *)
UpdateVotes(bp, votes) ==
    /\ producers[bp].registered
    /\ producers' = [producers EXCEPT ![bp].total_votes = votes]
    /\ total_weight' = Recomputed(producers')
    /\ UNCHANGED <<bucketVars, mintVars, vestglb, vestVars, issueVars>>

(* enforce on a producer whose probation has lasted: the weight is summed  *)
(* afresh only when somebody's ballot listed the producer.                 *)
Withdraw(bp) ==
    /\ producers[bp].registered /\ producers[bp].probation
    /\ Forfeit(bp)
    /\ producers' = [producers EXCEPT ![bp].is_active = FALSE, ![bp].total_votes = 0]
    /\ total_weight' \in {Recomputed(producers')}
                         \cup (IF producers[bp].total_votes = 0 THEN {total_weight} ELSE {})
    /\ UNCHANGED <<bucketVars, mintVars, vestglb, issueVars>>

-----------------------------------------------------------------------------
\* Mutant: the blocks of a withdrawn producer are not in the total.
OnActiveBlock(bp) ==
    /\ total_unpaid_blocks < MaxBlocks
    /\ producers' = IF producers[bp].registered
                    THEN [producers EXCEPT ![bp].unpaid_blocks = @ + 1] ELSE producers
    /\ total_unpaid_blocks' = total_unpaid_blocks + (IF producers[bp].is_active THEN 1 ELSE 0)
    /\ UNCHANGED <<perblock_bucket, pervote_bucket, total_minted, since_fill, total_weight, year,
                   vestglb, vestVars, issueVars>>

(* onblock, for a block of bp (or of a producer that is not registered):   *)
(* the schedule it also proposes is in SikaElection.                       *)
OnBlock(bp) ==
    /\ total_unpaid_blocks < MaxBlocks
    /\ producers' = IF producers[bp].registered
                    THEN [producers EXCEPT ![bp].unpaid_blocks = @ + 1] ELSE producers
    /\ total_unpaid_blocks' = total_unpaid_blocks + 1
    /\ IF since_fill > Day /\ total_minted < MaxMinted THEN Refill
       ELSE UNCHANGED <<perblock_bucket, pervote_bucket, total_minted, since_fill>>
    /\ UNCHANGED <<total_weight, year, vestglb, vestVars, issueVars>>

(* refillpay: governance may credit a day at any time.                     *)
RefillPay ==
    /\ total_minted < MaxMinted
    /\ Refill
    /\ UNCHANGED <<producers, total_weight, total_unpaid_blocks, year, vestglb, vestVars, issueVars>>

(* claimprod of a producer in probation.                                   *)
ClaimInProbation(bp) ==
    /\ producers[bp].is_active /\ producers[bp].probation
    /\ Forfeit(bp)
    /\ producers' = [producers EXCEPT ![bp].unpaid_blocks = 0, ![bp].since_claim = 0]
    /\ UNCHANGED <<total_weight, bucketVars, mintVars, vestglb, issueVars>>

\* Mutant: the claim counts the producer's blocks again.
ClaimKeepsBlocks(bp) ==
    LET p == producers[bp]
        pay == UsageGated(PerBlockPay(p) + PerVotePay(p))
    IN  /\ p.is_active /\ ~p.probation /\ p.since_claim > Day
        /\ pay >= 0 /\ InitialSupply + issued + pay <= MaxSupply
        /\ perblock_bucket' = perblock_bucket - PerBlockPay(p)
        /\ pervote_bucket' = pervote_bucket - PerVotePay(p)
        /\ total_unpaid_blocks' = total_unpaid_blocks - p.unpaid_blocks
        /\ producers' = [producers EXCEPT ![bp].since_claim = 0]
        /\ issued' = issued + pay
        /\ UNCHANGED <<total_weight, mintVars, vestglb, vestVars, overshared>>

(* claimprod otherwise.  A negative total makes it fail, and so does the   *)
(* token when its max_supply does not leave room for the issue.            *)
ClaimProd(bp) ==
    LET p == producers[bp]
        scheduled == PerBlockPay(p) + PerVotePay(p)
        pay == UsageGated(scheduled)
    IN  /\ p.is_active /\ ~p.probation /\ p.since_claim > Day
        /\ scheduled >= 0
        /\ InitialSupply + issued + pay <= MaxSupply
        /\ perblock_bucket' = perblock_bucket - PerBlockPay(p)
        /\ pervote_bucket' = pervote_bucket - PerVotePay(p)
        /\ total_unpaid_blocks' = total_unpaid_blocks - p.unpaid_blocks
        /\ producers' = [producers EXCEPT ![bp].unpaid_blocks = 0, ![bp].since_claim = 0]
        /\ issued' = issued + pay
        /\ overshared' = (overshared \/ ShareAboveOne(p))
        /\ IF vestglb.enabled /\ pay > 0
           THEN /\ bpvest' = [bpvest EXCEPT ![bp] = CreditedVest(@, pay)]
                /\ escrow' = escrow + pay
           ELSE UNCHANGED <<bpvest, escrow>>
        /\ UNCHANGED <<total_weight, mintVars, vestglb, total_burned>>

(* claimvest: the release goes from the escrow into the producer's REX.    *)
VestedTarget(row) == (row.total * row.age) \div row.period

ClaimVest(bp) ==
    LET row == bpvest[bp]
        releasable == VestedTarget(row) - row.released
    IN  /\ producers[bp].is_active /\ ~producers[bp].probation
        /\ Live(row) /\ releasable > 0
        /\ bpvest' = [bpvest EXCEPT ![bp].released = @ + releasable]
        /\ escrow' = escrow - releasable
        /\ UNCHANGED <<producers, total_weight, bucketVars, mintVars, vestglb, total_burned, issueVars>>

SetVesting(enabled, period, gain) ==
    /\ vestglb' = [vestglb EXCEPT !.enabled = enabled, !.period = period, !.gain = gain]
    /\ UNCHANGED <<producers, total_weight, bucketVars, mintVars, vestVars, issueVars>>

AccruEpoch(fee) ==
    /\ vestglb.revenue + fee <= MaxRevenue
    /\ vestglb' = [vestglb EXCEPT !.revenue = @ + fee]
    /\ UNCHANGED <<producers, total_weight, bucketVars, mintVars, vestVars, issueVars>>

(* The burnt half of a RAM fee (route_ram_fee).                            *)
BurnRamFee ==
    /\ total_burned < MaxBurned
    /\ total_burned' = total_burned + 1
    /\ UNCHANGED <<producers, total_weight, bucketVars, mintVars, vestglb, bpvest, escrow, issueVars>>

Next ==
    \/ Tick
    \/ RefillPay
    \/ BurnRamFee
    \/ \E enabled \in Vesting, period \in VestPeriods, gain \in Gains :
          SetVesting(enabled, period, gain)
    \/ \E fee \in Fees : AccruEpoch(fee)
    \/ \E bp \in BPs :
          \/ RegProducer(bp)
          \/ UnregProd(bp)
          \/ \E failing \in BOOLEAN : Judged(bp, failing)
          \/ \E votes \in Votes : UpdateVotes(bp, votes)
          \/ Withdraw(bp)
          \/ OnBlock(bp)
          \/ ClaimInProbation(bp)
          \/ ClaimProd(bp)
          \/ ClaimVest(bp)

Spec == Init /\ [][Next]_vars

-----------------------------------------------------------------------------
Producer ==
    [registered : BOOLEAN, is_active : BOOLEAN, probation : BOOLEAN, total_votes : Int,
     unpaid_blocks : Nat, since_claim : 0..(Day + 1)]
VestRow ==
    [exists : BOOLEAN, total : Nat, released : Nat, age : Nat, period : Nat, forfeited : BOOLEAN]

(* Types of the tables.  pervote_bucket is signed: see PayoutNeverNegative.*)
TypeOK ==
    /\ producers \in [BPs -> Producer]
    /\ total_weight \in Int
    /\ total_unpaid_blocks \in Nat /\ perblock_bucket \in Nat /\ pervote_bucket \in Int
    /\ total_minted \in Nat /\ since_fill \in 0..(Day + 1) /\ year \in Nat
    /\ vestglb \in [enabled : BOOLEAN, period : Nat \ {0}, gain : Nat, revenue : Nat]
    /\ bpvest \in [BPs -> VestRow] /\ escrow \in Nat /\ total_burned \in Nat
    /\ issued \in Nat /\ overshared \in BOOLEAN

UnpaidBlocks(rows) == [bp \in BPs |-> rows[bp].unpaid_blocks]

(* total_unpaid_blocks, an unsigned counter that claims subtract from,     *)
(* covers the unpaid blocks of all producers, also after a producer in     *)
(* probation has dropped its own without subtracting them.                 *)
BlocksCovered == SumFunctionOnSet(UnpaidBlocks(producers), BPs) <= total_unpaid_blocks

(* Whatever refills, halvings, burns and claims came before, the supply    *)
(* that the schedule accounts for stays below the ceiling.                 *)
SupplyCapped == TotalSupply <= MaxSupply

(* Every SIKA that a claim had issued came out of a bucket.  As long as no *)
(* claim had a share above one, none is driven below zero either: claims   *)
(* had no more issued than was scheduled, and nothing of it twice.  What   *)
(* a bucket lacks after a larger share was issued without being scheduled. *)
IssuedWithinSchedule ==
    /\ issued + perblock_bucket + pervote_bucket <= total_minted
    /\ ~overshared => pervote_bucket >= 0 /\ issued <= total_minted

Outstanding(row) == IF Live(row) THEN Unreleased(row) ELSE 0
StillVesting(rows) == [bp \in BPs |-> Outstanding(rows[bp])]

(* The SIKA that eosio holds for vesting covers what the rows that still   *)
(* vest have not released, through credits, releases and forfeitures.      *)
EscrowBacksVests == SumFunctionOnSet(StillVesting(bpvest), BPs) <= escrow

(* A row that still vests has released no more than its linear schedule    *)
(* allows by now, however it was topped up in between.                     *)
ReleasedOnSchedule ==
    \A bp \in BPs : Live(bpvest[bp]) => bpvest[bp].released <= VestedTarget(bpvest[bp])

(* The assertion of producer_pay.cpp:219, "negative payout (bug)", never   *)
(* fails for a producer that may claim.                                    *)
PayoutNeverNegative ==
    \A bp \in BPs : producers[bp].is_active /\ ~producers[bp].probation =>
       PerBlockPay(producers[bp]) + PerVotePay(producers[bp]) >= 0
=============================================================================
