--------------------------- MODULE SikaPayProofs ---------------------------
(***************************************************************************)
(* Proofs about SikaPay for any number of producers and any amounts: block *)
(* counters, the supply ceiling, that no more is issued than scheduled,    *)
(* that vesting rows release no more than their schedule allows, and that  *)
(* the escrow covers them.                                                 *)
(*                                                                         *)
(* The facts hang together.  Because unpaid blocks are covered, a claim    *)
(* takes no more than the per-block bucket holds; because no row releases  *)
(* more than its total, a forfeiture burns an amount that is not negative  *)
(* and burning only ever makes room below the ceiling.                     *)
(***************************************************************************)
EXTENDS SikaPay, SumProofs

(* A vesting row as the handlers leave it, alive or forfeited.             *)
GoodRow(row) ==
    /\ row \in VestRow
    /\ row.exists => row.period > 0 /\ row.age <= row.period /\ row.released <= VestedTarget(row)

Inductive ==
    /\ TypeOK
    /\ BlocksCovered
    /\ SupplyCapped
    /\ IssuedWithinSchedule
    /\ \A bp \in BPs : GoodRow(bpvest[bp])
    /\ EscrowBacksVests

-----------------------------------------------------------------------------
(* Arithmetic of the schedule.                                             *)

LEMMA Constants ==
    /\ HalvingYears \in Nat \ {0} /\ Day \in Nat \ {0} /\ YearLength \in Nat \ {0}
    /\ MaxYear \in Nat /\ InitialSupply \in Nat /\ MaxSupply \in Nat /\ Year1Bps \in Nat
    /\ InitialSupply <= MaxSupply /\ IsFiniteSet(BPs)
BY PayAssumption

LEMMA Products ==
    ASSUME NEW D \in {Nat, Int, Nat \ {0}}, NEW x \in D, NEW y \in D PROVE x * y \in D
OBVIOUS

(* What fraction n/d of a total has vested is monotonic in both.           *)
LEMMA VestedMonotonic ==
    ASSUME NEW t \in Nat, NEW u \in Nat, NEW n \in Nat, NEW m \in Nat, NEW d \in Nat \ {0},
           t <= u, n <= m, m <= d
    PROVE  /\ (t * n) \div d <= (u * m) \div d
           /\ (t * n) \div d \in Nat
           /\ (u * m) \div d \in Nat
           /\ (u * m) \div d <= u
<1>1. t * n <= u * m /\ t * n \in Nat /\ u * m \in Nat
  <2>1. t * n <= u * n /\ t * n \in Nat /\ u * n \in Nat OBVIOUS
  <2>2. u * n <= u * m /\ u * m \in Nat OBVIOUS
  <2> QED BY <2>1, <2>2
<1>2. u * m <= u * d OBVIOUS
<1>3. ASSUME NEW x \in Nat, NEW y \in Nat, x <= y
      PROVE  x \div d <= y \div d /\ x \div d \in Nat /\ y \div d \in Nat
  BY <1>3
<1>4. (u * d) \div d = u /\ u * d \in Nat OBVIOUS
<1>5. (u * m) \div d <= (u * d) \div d BY <1>1, <1>2, <1>3, <1>4
<1> QED BY <1>1, <1>3, <1>4, <1>5

(* The two buckets together get no more than the tranche.                  *)
LEMMA TranchePart ==
    ASSUME NEW mint \in Nat
    PROVE  /\ Top21Part(mint) \in Nat /\ PerBlockPart(mint) \in Nat
           /\ Top21Part(mint) <= mint /\ PerBlockPart(mint) <= Top21Part(mint)
BY DEF Top21Part, PerBlockPart

(* A power of two is positive: it counts the subsets of 1..n.              *)
LEMMA PowerPositive == ASSUME NEW n \in Nat PROVE 2^n \in Nat \ {0}
<1>1. IsFiniteSet(1..n) /\ Cardinality(1..n) = n BY FS_Interval
<1>2. IsFiniteSet(SUBSET (1..n)) /\ Cardinality(SUBSET (1..n)) = 2^n
  BY <1>1, FS_SUBSET
<1>3. SUBSET (1..n) # {} OBVIOUS
<1>4. 2^n \in Nat /\ 2^n # 0 BY <1>2, <1>3, FS_EmptySet, FS_CardinalityType
<1> QED BY <1>4

(* A tranche never leads past the ceiling.                                 *)
LEMMA TrancheFits ==
    ASSUME TypeOK, SupplyCapped
    PROVE  /\ AtLeastZero(Inflation(Day)) \in Nat
           /\ AtLeastZero(Inflation(Day)) <= MaxSupply - TotalSupply
<1>1. year \div HalvingYears \in Nat BY Constants DEF TypeOK
<1>2. InflationBps \in Int
  <2>1. 2^(year \div HalvingYears) \in Nat \ {0} BY <1>1, PowerPositive
  <2> QED BY <2>1, Constants DEF InflationBps
<1>3. TotalSupply \in Int BY PayAssumption DEF TypeOK, TotalSupply
<1>4. (TotalSupply * InflationBps * Day) \in Int
  <2>1. TotalSupply * InflationBps \in Int BY <1>2, <1>3, Products
  <2>2. Day \in Int BY Constants
  <2> QED BY <2>1, <2>2, Products
<1>5. 10000 * YearLength \in Nat \ {0} BY Constants
<1>6. (TotalSupply * InflationBps * Day) \div (10000 * YearLength) \in Int
  BY <1>4, <1>5
<1>7. MaxSupply - TotalSupply \in Nat BY <1>3, PayAssumption DEF SupplyCapped
<1> QED BY <1>6, <1>7 DEF Inflation, SmallestOf, AtLeastZero

(* A claim takes no more per block than the bucket holds.                  *)
LEMMA ClaimFits ==
    ASSUME TypeOK, BlocksCovered, NEW bp \in BPs
    PROVE  /\ PerBlockPay(producers[bp]) \in Nat
           /\ PerBlockPay(producers[bp]) <= perblock_bucket
           /\ PerVotePay(producers[bp]) \in Int
           /\ producers[bp].unpaid_blocks <= total_unpaid_blocks
<1> DEFINE u == UnpaidBlocks(producers)
<1>1. \A b \in BPs : u[b] \in Nat BY DEF TypeOK, Producer, UnpaidBlocks
<1>2. u[bp] <= SumFunctionOnSet(u, BPs) /\ SumFunctionOnSet(u, BPs) \in Nat
  <2> HIDE DEF u
  <2>1. u[bp] <= SumFunctionOnSet(u, BPs) BY <1>1, Constants, SumCoversPart
  <2>2. SumFunctionOnSet(u, BPs) \in Nat BY <1>1, Constants, SumType
  <2> QED BY <2>1, <2>2
<1>3. producers[bp].unpaid_blocks <= total_unpaid_blocks
  <2>1. u[bp] = producers[bp].unpaid_blocks BY DEF UnpaidBlocks
  <2>2. SumFunctionOnSet(u, BPs) <= total_unpaid_blocks BY DEF BlocksCovered
  <2> HIDE DEF u
  <2> QED BY <1>1, <1>2, <2>1, <2>2 DEF TypeOK
<1>4. producers[bp].unpaid_blocks \in Nat /\ producers[bp].total_votes \in Int
  BY DEF TypeOK, Producer
<1>5. /\ PerBlockPay(producers[bp]) \in Nat
      /\ PerBlockPay(producers[bp]) <= perblock_bucket
  <2>1. CASE total_unpaid_blocks > 0
    <3>1. perblock_bucket \in Nat /\ total_unpaid_blocks \in Nat \ {0}
      BY <2>1 DEF TypeOK
    <3> DEFINE n == producers[bp].unpaid_blocks
               part == (perblock_bucket * n) \div total_unpaid_blocks
    <3>2. n \in Nat /\ n <= total_unpaid_blocks BY <1>3, <1>4
    <3> HIDE DEF n
    <3>3. part \in Nat /\ part <= perblock_bucket
      BY <3>1, <3>2, VestedMonotonic
    <3>4. PerBlockPay(producers[bp]) = part BY <2>1 DEF PerBlockPay, n
    <3> QED BY <3>3, <3>4
  <2>2. CASE ~(total_unpaid_blocks > 0)
    BY <2>2 DEF TypeOK, PerBlockPay
  <2> QED BY <2>1, <2>2
<1>6. PerVotePay(producers[bp]) \in Int
  <2>1. CASE total_weight > 0
    <3>1. pervote_bucket * producers[bp].total_votes \in Int BY <1>4 DEF TypeOK
    <3>2. \A m \in Int : Quotient(m, total_weight) \in Int BY <2>1 DEF TypeOK, Quotient
    <3> QED BY <3>1, <3>2 DEF PerVotePay
  <2>2. CASE ~(total_weight > 0) BY <2>2 DEF PerVotePay
  <2> QED BY <2>1, <2>2
<1> QED BY <1>3, <1>5, <1>6

(* A share of at most one is within the bucket.                            *)
LEMMA FairShareFits ==
    ASSUME TypeOK, pervote_bucket >= 0, NEW bp \in BPs, ~ShareAboveOne(producers[bp])
    PROVE  PerVotePay(producers[bp]) <= pervote_bucket
<1> DEFINE v == producers[bp].total_votes
           bucket == pervote_bucket
           w == total_weight
<1>1. v \in Int /\ bucket \in Nat /\ w \in Int
  BY DEF TypeOK, Producer
<1>2. CASE w > 0 /\ v > 0
  <2>1. v \in Nat /\ w \in Nat \ {0} /\ v <= w
    BY <1>1, <1>2 DEF ShareAboveOne
  <2>2. PerVotePay(producers[bp]) = Quotient(bucket * v, w)
    BY <1>2 DEF PerVotePay
  <2> HIDE DEF v, bucket, w
  <2>3. (bucket * v) \div w <= bucket
    BY <1>1, <2>1, VestedMonotonic
  <2>4. Quotient(bucket * v, w) = (bucket * v) \div w
    <3>1. bucket * v \in Nat BY <1>1, <2>1, Products
    <3> QED BY <3>1 DEF Quotient
  <2> QED BY <2>2, <2>3, <2>4 DEF bucket
<1>3. CASE ~(w > 0 /\ v > 0)
  BY <1>1, <1>3 DEF PerVotePay
<1> QED BY <1>2, <1>3

(* The usage gate never pays more than was scheduled.                      *)
LEMMA GatedFits ==
    ASSUME TypeOK, NEW scheduled \in Nat
    PROVE  UsageGated(scheduled) \in Nat /\ UsageGated(scheduled) <= scheduled
<1> DEFINE r == vestglb.revenue
           g == vestglb.gain
<1>0. r \in Nat /\ g \in Nat
  <2>1. vestglb \in [enabled : BOOLEAN, period : Nat \ {0}, gain : Nat, revenue : Nat]
    BY DEF TypeOK
  <2> QED BY <2>1
<1>1. r * g \in Nat
  <2> HIDE DEF r, g
  <2> QED BY <1>0
<1>2. (r * g) \div 10000 \in Nat
  <2> HIDE DEF r, g
  <2> QED BY <1>1
<1> QED BY <1>2 DEF UsageGated, SmallestOf

-----------------------------------------------------------------------------
(* The vesting rows.                                                       *)

LEMMA TargetGrows ==
    ASSUME NEW row, NEW new, row.total \in Nat, new.total \in Nat, row.age \in Nat,
           new.age \in Nat, row.period \in Nat \ {0}, new.period = row.period,
           row.total <= new.total, row.age <= new.age, new.age <= new.period
    PROVE  /\ VestedTarget(row) \in Nat /\ VestedTarget(new) \in Nat
           /\ VestedTarget(row) <= VestedTarget(new) /\ VestedTarget(new) <= new.total
<1> DEFINE t == row.total
           u == new.total
           n == row.age
           m == new.age
           d == row.period
<1>1. /\ t \in Nat /\ u \in Nat /\ n \in Nat /\ m \in Nat /\ d \in Nat \ {0}
      /\ t <= u /\ n <= m /\ m <= d
  OBVIOUS
<1>2. VestedTarget(row) = (t * n) \div d /\ VestedTarget(new) = (u * m) \div d
  BY DEF VestedTarget
<1> HIDE DEF t, u, n, m, d
<1>3. /\ (t * n) \div d <= (u * m) \div d
      /\ (t * n) \div d \in Nat
      /\ (u * m) \div d \in Nat
      /\ (u * m) \div d <= u
  BY <1>1, VestedMonotonic
<1> QED BY <1>2, <1>3 DEF u

LEMMA GoodRowOwes ==
    ASSUME NEW row, GoodRow(row)
    PROVE  /\ Outstanding(row) \in Nat
           /\ Live(row) => Unreleased(row) \in Nat /\ VestedTarget(row) \in Nat
                            /\ VestedTarget(row) <= row.total
<1>1. CASE row.exists
  <2>1. /\ row.total \in Nat /\ row.age \in Nat /\ row.period \in Nat \ {0}
        /\ row.age <= row.period /\ row.released \in Nat /\ row.released <= VestedTarget(row)
    BY <1>1 DEF GoodRow, VestRow
  <2>2. VestedTarget(row) \in Nat /\ VestedTarget(row) <= row.total
    BY <2>1, TargetGrows
  <2>3. row.released <= row.total BY <2>1, <2>2
  <2>4. Unreleased(row) \in Nat BY <2>1, <2>3 DEF Unreleased
  <2> QED BY <2>2, <2>4 DEF Outstanding
<1>2. CASE ~row.exists BY <1>2 DEF Outstanding, Live
<1> QED BY <1>1, <1>2

(* Every way a row is rewritten leaves a good row, and changes what it     *)
(* still owes as the escrow changes.                                       *)
LEMMA ForfeitedRow ==
    ASSUME NEW row, GoodRow(row)
    PROVE  LET new == [row EXCEPT !.forfeited = TRUE]
           IN  GoodRow(new) /\ Outstanding(new) = 0
BY DEF GoodRow, VestRow, VestedTarget, Outstanding, Live

LEMMA AgedRow ==
    ASSUME NEW row, GoodRow(row), row.exists
    PROVE  LET new == [row EXCEPT !.age = AgedUpTo(@, row.period)]
           IN  GoodRow(new) /\ Outstanding(new) = Outstanding(row)
<1> DEFINE new == [row EXCEPT !.age = AgedUpTo(@, row.period)]
<1>1. row \in VestRow /\ row.period \in Nat \ {0} /\ row.age <= row.period
      /\ row.age \in Nat /\ row.released <= VestedTarget(row) /\ row.total \in Nat
      /\ row.released \in Nat
  BY DEF GoodRow, VestRow
<1>2. /\ new \in VestRow /\ new.period = row.period /\ new.total = row.total
      /\ new.exists = row.exists /\ new.released = row.released /\ new.forfeited = row.forfeited
      /\ new.age = AgedUpTo(row.age, row.period) /\ new.age \in Nat
      /\ row.age <= new.age /\ new.age <= new.period
  <2> DEFINE age == AgedUpTo(row.age, row.period)
  <2>1. age \in Nat /\ row.age <= age /\ age <= row.period
    BY <1>1 DEF AgedUpTo
  <2>2. new = [row EXCEPT !.age = age] OBVIOUS
  <2> HIDE DEF age, new
  <2>3. /\ new \in VestRow /\ new.age = age /\ new.period = row.period /\ new.total = row.total
        /\ new.exists = row.exists /\ new.released = row.released /\ new.forfeited = row.forfeited
    BY <1>1, <2>1, <2>2 DEF VestRow
  <2> QED BY <2>1, <2>3 DEF age
<1> HIDE DEF new
<1>3. VestedTarget(row) <= VestedTarget(new) /\ VestedTarget(row) \in Nat /\ VestedTarget(new) \in Nat
  BY <1>1, <1>2, TargetGrows
<1>4. GoodRow(new) BY <1>1, <1>2, <1>3 DEF GoodRow
<1>5. Outstanding(new) = Outstanding(row) BY <1>2 DEF Outstanding, Live, Unreleased
<1> QED BY <1>4, <1>5 DEF new

LEMMA CreditedRow ==
    ASSUME TypeOK, NEW row, GoodRow(row), NEW pay \in Nat
    PROVE  /\ GoodRow(CreditedVest(row, pay))
           /\ Outstanding(CreditedVest(row, pay)) <= Outstanding(row) + pay
           /\ Outstanding(CreditedVest(row, pay)) \in Nat
<1> DEFINE new == CreditedVest(row, pay)
<1>1. CASE row.exists
  <2>1. row \in VestRow /\ row.period \in Nat \ {0} /\ row.age <= row.period
        /\ row.age \in Nat /\ row.released <= VestedTarget(row) /\ row.total \in Nat
        /\ row.released \in Nat
    BY <1>1 DEF GoodRow, VestRow
  <2>2. /\ new \in VestRow /\ new.period = row.period /\ new.total = row.total + pay
        /\ new.exists = row.exists /\ new.released = row.released /\ new.forfeited = row.forfeited
        /\ new.age = row.age /\ new.total \in Nat /\ row.total <= new.total
    <3> DEFINE more == row.total + pay
    <3>1. more \in Nat /\ row.total <= more BY <2>1
    <3>2. new = [row EXCEPT !.total = more] BY <1>1 DEF CreditedVest
    <3> HIDE DEF more, new
    <3>3. /\ new \in VestRow /\ new.period = row.period /\ new.total = more
          /\ new.exists = row.exists /\ new.released = row.released /\ new.forfeited = row.forfeited
          /\ new.age = row.age
      BY <2>1, <3>1, <3>2 DEF VestRow
    <3> QED BY <3>1, <3>3 DEF more
  <2> HIDE DEF new
  <2>3. VestedTarget(row) <= VestedTarget(new) /\ VestedTarget(row) \in Nat /\ VestedTarget(new) \in Nat
    BY <2>1, <2>2, TargetGrows
  <2>4. GoodRow(new) BY <2>1, <2>2, <2>3 DEF GoodRow
  <2>5. Outstanding(new) <= Outstanding(row) + pay
    BY <2>1, <2>2 DEF Outstanding, Live, Unreleased
  <2>6. Outstanding(new) \in Nat BY <2>4, GoodRowOwes
  <2> QED BY <2>4, <2>5, <2>6 DEF new
<1>2. CASE ~row.exists
  <2>1. vestglb.period \in Nat \ {0} BY DEF TypeOK
  <2>2. /\ new \in VestRow /\ new.exists /\ new.total = pay /\ new.released = 0
        /\ new.age = 0 /\ new.period = vestglb.period /\ ~new.forfeited
    BY <1>2, <2>1 DEF CreditedVest, VestRow, Unvested
  <2> HIDE DEF new
  <2>3. VestedTarget(new) \in Nat
    BY <2>1, <2>2, TargetGrows
  <2>4. GoodRow(new) BY <2>1, <2>2, <2>3 DEF GoodRow
  <2>5. Outstanding(new) = pay /\ Outstanding(row) = 0
    BY <1>2, <2>2 DEF Outstanding, Live, Unreleased
  <2> QED BY <2>4, <2>5 DEF new
<1> QED BY <1>1, <1>2

LEMMA ReleasedRow ==
    ASSUME NEW row, GoodRow(row), Live(row), NEW releasable,
           releasable = VestedTarget(row) - row.released, releasable > 0
    PROVE  LET new == [row EXCEPT !.released = @ + releasable]
           IN  /\ GoodRow(new) /\ Outstanding(new) = Outstanding(row) - releasable
               /\ releasable \in Nat
<1> DEFINE new == [row EXCEPT !.released = @ + releasable]
<1>1. row \in VestRow /\ row.released \in Nat /\ row.total \in Nat /\ row.exists
  BY DEF GoodRow, VestRow, Live
<1>2. VestedTarget(row) \in Nat /\ VestedTarget(row) <= row.total
  BY GoodRowOwes
<1>3. releasable \in Nat BY <1>1, <1>2
<1>4. /\ new \in VestRow /\ new.released = VestedTarget(row) /\ new.total = row.total
      /\ new.exists /\ new.forfeited = row.forfeited /\ new.age = row.age
      /\ new.period = row.period
  BY <1>1, <1>2, <1>3 DEF VestRow
<1> HIDE DEF new
<1>5. VestedTarget(new) = VestedTarget(row) BY <1>4 DEF VestedTarget
<1>6. GoodRow(new) BY <1>1, <1>2, <1>4, <1>5 DEF GoodRow
<1>7. Outstanding(new) = Outstanding(row) - releasable
  BY <1>1, <1>2, <1>4 DEF Outstanding, Live, Unreleased
<1> QED BY <1>3, <1>6, <1>7 DEF new

(* One row changes: so does the sum of what is outstanding.                *)
LEMMA OneRow ==
    ASSUME NEW rows, NEW new, NEW bp \in BPs,
           \A b \in BPs : GoodRow(rows[b]), \A b \in BPs : GoodRow(new[b]),
           \A b \in BPs \ {bp} : new[b] = rows[b]
    PROVE  /\ SumFunctionOnSet(StillVesting(new), BPs)
                = SumFunctionOnSet(StillVesting(rows), BPs) - Outstanding(rows[bp]) + Outstanding(new[bp])
           /\ SumFunctionOnSet(StillVesting(rows), BPs) \in Nat
           /\ Outstanding(rows[bp]) <= SumFunctionOnSet(StillVesting(rows), BPs)
<1> DEFINE f == StillVesting(rows)
           g == StillVesting(new)
<1>1. \A b \in BPs : f[b] \in Nat /\ g[b] \in Nat
  BY GoodRowOwes DEF StillVesting
<1>2. \A b \in BPs \ {bp} : f[b] = g[b]
  BY DEF StillVesting
<1>3. f[bp] = Outstanding(rows[bp]) /\ g[bp] = Outstanding(new[bp])
  BY DEF StillVesting
<1> HIDE DEF f, g
<1>4. SumFunctionOnSet(g, BPs) = SumFunctionOnSet(f, BPs) - f[bp] + g[bp]
  BY <1>1, <1>2, Constants, SumChange
<1>5. SumFunctionOnSet(f, BPs) \in Nat /\ f[bp] <= SumFunctionOnSet(f, BPs)
  BY <1>1, Constants, SumType, SumCoversPart
<1> QED BY <1>3, <1>4, <1>5 DEF f, g

-----------------------------------------------------------------------------
(* What the handlers share.                                                *)

LEMMA InductiveParts ==
    ASSUME Inductive
    PROVE  /\ TypeOK /\ BlocksCovered /\ SupplyCapped /\ IssuedWithinSchedule
           /\ \A bp \in BPs : GoodRow(bpvest[bp])
           /\ bpvest \in [BPs -> VestRow] /\ producers \in [BPs -> Producer]
           /\ escrow \in Nat /\ total_burned \in Nat /\ issued \in Nat /\ total_minted \in Nat
           /\ perblock_bucket \in Nat /\ pervote_bucket \in Int /\ total_unpaid_blocks \in Nat
           /\ EscrowBacksVests
BY DEF Inductive, TypeOK

(* The part of the invariant that the bpvest table and its money carry.    *)
VestPart ==
    /\ bpvest \in [BPs -> VestRow]
    /\ \A bp \in BPs : GoodRow(bpvest[bp])
    /\ escrow \in Nat
    /\ EscrowBacksVests

LEMMA VestRewritten ==
    ASSUME Inductive, NEW bp \in BPs, NEW row, GoodRow(row), NEW money,
           money \in Int, money - escrow >= Outstanding(row) - Outstanding(bpvest[bp]),
           bpvest' = [bpvest EXCEPT ![bp] = row], escrow' = money
    PROVE  VestPart'
<1>1. /\ \A b \in BPs : GoodRow(bpvest[b])
      /\ \A b \in BPs : GoodRow(bpvest'[b])
      /\ \A b \in BPs \ {bp} : bpvest'[b] = bpvest[b]
      /\ bpvest'[bp] = row
      /\ bpvest' \in [BPs -> VestRow]
  BY InductiveParts DEF GoodRow
<1>2. /\ SumFunctionOnSet(StillVesting(bpvest'), BPs)
           = SumFunctionOnSet(StillVesting(bpvest), BPs) - Outstanding(bpvest[bp]) + Outstanding(row)
      /\ SumFunctionOnSet(StillVesting(bpvest), BPs) \in Nat
      /\ Outstanding(bpvest[bp]) <= SumFunctionOnSet(StillVesting(bpvest), BPs)
  BY <1>1, OneRow
<1>3. SumFunctionOnSet(StillVesting(bpvest), BPs) <= escrow /\ escrow \in Nat
  BY InductiveParts DEF EscrowBacksVests
<1>4. Outstanding(row) \in Nat /\ Outstanding(bpvest[bp]) \in Nat
  BY <1>1, GoodRowOwes
<1>5. SumFunctionOnSet(StillVesting(bpvest'), BPs) <= escrow' /\ escrow' \in Nat
  BY <1>2, <1>3, <1>4
<1> QED BY <1>1, <1>5 DEF VestPart, EscrowBacksVests

LEMMA VestKept ==
    ASSUME Inductive, UNCHANGED <<bpvest, escrow>>
    PROVE  VestPart'
BY InductiveParts DEF VestPart, EscrowBacksVests

LEMMA ForfeitKeeps ==
    ASSUME Inductive, NEW bp \in BPs, Forfeit(bp)
    PROVE  VestPart' /\ total_burned' \in Nat /\ total_burned <= total_burned'
<1>1. GoodRow(bpvest[bp]) /\ bpvest \in [BPs -> VestRow] /\ escrow \in Nat /\ total_burned \in Nat
  BY InductiveParts
<1>2. CASE Live(bpvest[bp])
  <2> DEFINE row == [bpvest[bp] EXCEPT !.forfeited = TRUE]
             due == Unreleased(bpvest[bp])
  <2>1. GoodRow(row) /\ Outstanding(row) = 0
    BY <1>1, ForfeitedRow
  <2>2. due \in Nat /\ Outstanding(bpvest[bp]) = due
    BY <1>1, <1>2, GoodRowOwes DEF Outstanding
  <2>3. bpvest' = [bpvest EXCEPT ![bp] = row] /\ escrow' = escrow - due /\ total_burned' = total_burned + due
    BY <1>2 DEF Forfeit
  <2> HIDE DEF row, due
  <2>4. VestPart'
    <3>1. escrow - due \in Int /\ (escrow - due) - escrow >= Outstanding(row) - Outstanding(bpvest[bp])
      BY <1>1, <2>1, <2>2
    <3> QED BY <2>1, <2>3, <3>1, VestRewritten
  <2> QED BY <1>1, <2>2, <2>3, <2>4
<1>3. CASE ~Live(bpvest[bp])
  BY <1>1, <1>3, VestKept DEF Forfeit, vestVars
<1> QED BY <1>2, <1>3

(* Blocks: the counters when one producer's blocks change.                 *)
LEMMA BlocksRewritten ==
    ASSUME Inductive, NEW bp \in BPs, NEW p \in Producer, NEW total \in Int,
           producers' = [producers EXCEPT ![bp] = p], total_unpaid_blocks' = total,
           total - total_unpaid_blocks >= p.unpaid_blocks - producers[bp].unpaid_blocks
    PROVE  producers' \in [BPs -> Producer] /\ total_unpaid_blocks' \in Nat /\ BlocksCovered'
<1> DEFINE f == UnpaidBlocks(producers)
           g == UnpaidBlocks(producers')
<1>1. producers \in [BPs -> Producer] /\ producers' \in [BPs -> Producer]
      /\ producers'[bp] = p /\ \A b \in BPs \ {bp} : producers'[b] = producers[b]
  BY InductiveParts
<1>2. /\ \A b \in BPs : f[b] \in Nat /\ g[b] \in Nat
      /\ \A b \in BPs \ {bp} : f[b] = g[b]
      /\ f[bp] = producers[bp].unpaid_blocks /\ g[bp] = p.unpaid_blocks
  BY <1>1 DEF UnpaidBlocks, Producer
<1>3. SumFunctionOnSet(f, BPs) <= total_unpaid_blocks /\ total_unpaid_blocks \in Nat
  BY InductiveParts DEF BlocksCovered
<1>4. BlocksCovered' <=> SumFunctionOnSet(g, BPs) <= total_unpaid_blocks'
  BY DEF BlocksCovered
<1> HIDE DEF f, g
<1>5. SumFunctionOnSet(g, BPs) = SumFunctionOnSet(f, BPs) - f[bp] + g[bp]
  BY <1>2, Constants, SumChange
<1>6. SumFunctionOnSet(f, BPs) \in Nat /\ SumFunctionOnSet(g, BPs) \in Nat
  BY <1>2, Constants, SumType
<1>7. f[bp] \in Nat /\ g[bp] \in Nat BY <1>2
<1>8. SumFunctionOnSet(g, BPs) <= total /\ total \in Nat
  BY <1>2, <1>3, <1>5, <1>6, <1>7
<1> QED BY <1>1, <1>4, <1>8

(* The sum of the votes of active producers is a number.                   *)
LEMMA RecomputedType ==
    ASSUME NEW rows \in [BPs -> Producer]
    PROVE  Recomputed(rows) \in Int
<1> DEFINE votes == [bp \in BPs |-> rows[bp].total_votes]
           active == {bp \in BPs : rows[bp].is_active}
<1>1. IsFiniteSet(active) BY Constants, FS_Subset
<1>2. \A bp \in active : votes[bp] \in Int BY DEF Producer
<1>3. Recomputed(rows) = SumFunctionOnSet(votes, active) BY DEF Recomputed
<1> HIDE DEF votes, active
<1> QED BY <1>1, <1>2, <1>3, SumType

-----------------------------------------------------------------------------
(* The invariant in four parts, one for each group of variables.           *)
BlockPart ==
    /\ producers \in [BPs -> Producer]
    /\ total_unpaid_blocks \in Nat
    /\ BlocksCovered

MoneyPart ==
    /\ perblock_bucket \in Nat /\ pervote_bucket \in Int
    /\ total_minted \in Nat /\ total_burned \in Nat /\ issued \in Nat
    /\ overshared \in BOOLEAN
    /\ SupplyCapped
    /\ IssuedWithinSchedule

OtherPart ==
    /\ total_weight \in Int /\ since_fill \in 0..(Day + 1) /\ year \in Nat
    /\ vestglb \in [enabled : BOOLEAN, period : Nat \ {0}, gain : Nat, revenue : Nat]

LEMMA PartsNow == Inductive => VestPart /\ BlockPart /\ MoneyPart /\ OtherPart
BY DEF Inductive, TypeOK, VestPart, BlockPart, MoneyPart, OtherPart

LEMMA PartsThen == VestPart' /\ BlockPart' /\ MoneyPart' /\ OtherPart' => Inductive'
BY DEF Inductive, TypeOK, VestPart, BlockPart, MoneyPart, OtherPart

LEMMA BlockKept ==
    ASSUME Inductive, UNCHANGED <<producers, total_unpaid_blocks>> PROVE BlockPart'
BY PartsNow DEF BlockPart, BlocksCovered

LEMMA MoneyKept ==
    ASSUME Inductive, UNCHANGED <<perblock_bucket, pervote_bucket, total_minted, issueVars>>,
           total_burned' \in Nat, total_burned <= total_burned'
    PROVE  MoneyPart'
<1>1. total_minted \in Nat /\ total_burned \in Nat /\ InitialSupply \in Nat /\ MaxSupply \in Nat
      /\ TotalSupply <= MaxSupply
  BY PartsNow, Constants DEF MoneyPart, SupplyCapped
<1>2. SupplyCapped'
  <2>1. InitialSupply + total_minted - total_burned <= MaxSupply BY <1>1 DEF TotalSupply
  <2>2. InitialSupply + total_minted - total_burned' <= MaxSupply
    <3> DEFINE b == total_burned
               c == total_burned'
    <3>1. b \in Nat /\ c \in Nat /\ b <= c BY <1>1
    <3>2. InitialSupply + total_minted - b <= MaxSupply BY <2>1
    <3> HIDE DEF b, c
    <3>3. InitialSupply + total_minted - c <= MaxSupply BY <1>1, <3>1, <3>2
    <3> QED BY <3>3 DEF c
  <2>3. total_minted' = total_minted OBVIOUS
  <2> QED BY <2>2, <2>3 DEF SupplyCapped, TotalSupply
<1> QED BY <1>2, PartsNow DEF MoneyPart, IssuedWithinSchedule, issueVars

LEMMA OtherKept ==
    ASSUME Inductive, UNCHANGED <<total_weight, since_fill, year, vestglb>> PROVE OtherPart'
BY PartsNow DEF OtherPart

(* A producer row changes and keeps its blocks.                            *)
LEMMA RowRewritten ==
    ASSUME Inductive, NEW bp \in BPs, NEW p \in Producer, p.unpaid_blocks = producers[bp].unpaid_blocks,
           producers' = [producers EXCEPT ![bp] = p], UNCHANGED total_unpaid_blocks
    PROVE  BlockPart'
<1>1. total_unpaid_blocks \in Nat /\ producers[bp] \in Producer
  BY PartsNow DEF BlockPart
<1>2. p.unpaid_blocks \in Nat BY DEF Producer
<1>3. /\ total_unpaid_blocks' = total_unpaid_blocks /\ total_unpaid_blocks \in Int
      /\ total_unpaid_blocks - total_unpaid_blocks >= p.unpaid_blocks - producers[bp].unpaid_blocks
  BY <1>1, <1>2
<1> QED BY <1>3, BlocksRewritten DEF BlockPart

LEMMA RefillKeeps ==
    ASSUME Inductive, Refill, UNCHANGED <<total_burned, issueVars>>
    PROVE  MoneyPart' /\ since_fill' \in 0..(Day + 1)
<1> DEFINE mint == AtLeastZero(Inflation(Day))
<1>1. mint \in Nat /\ mint <= MaxSupply - TotalSupply
  BY InductiveParts, TrancheFits
<1>2. /\ perblock_bucket' = perblock_bucket + PerBlockPart(mint)
      /\ pervote_bucket' = pervote_bucket + Top21Part(mint) - PerBlockPart(mint)
      /\ total_minted' = total_minted + mint
      /\ since_fill' = 0
  BY DEF Refill
<1> HIDE DEF mint
<1>3. Top21Part(mint) \in Nat /\ PerBlockPart(mint) \in Nat /\ Top21Part(mint) <= mint
      /\ PerBlockPart(mint) <= Top21Part(mint)
  BY <1>1, TranchePart
<1>4. /\ total_minted \in Nat /\ total_burned \in Nat /\ issued \in Nat
      /\ perblock_bucket \in Nat /\ pervote_bucket \in Int
      /\ issued + perblock_bucket + pervote_bucket <= total_minted
      /\ ~overshared => pervote_bucket >= 0 /\ issued <= total_minted
      /\ overshared \in BOOLEAN /\ overshared' = overshared /\ issued' = issued
      /\ total_burned' = total_burned
      /\ InitialSupply \in Nat /\ MaxSupply \in Nat /\ Day \in Nat
  BY PartsNow, Constants DEF MoneyPart, IssuedWithinSchedule, issueVars
<1>5. SupplyCapped' BY <1>1, <1>2, <1>4 DEF SupplyCapped, TotalSupply
<1>6. IssuedWithinSchedule' BY <1>1, <1>2, <1>3, <1>4 DEF IssuedWithinSchedule
<1>7. perblock_bucket' \in Nat /\ pervote_bucket' \in Int /\ total_minted' \in Nat
      /\ since_fill' \in 0..(Day + 1)
  BY <1>1, <1>2, <1>3, <1>4
<1> QED BY <1>4, <1>5, <1>6, <1>7 DEF MoneyPart

-----------------------------------------------------------------------------
LEMMA InductiveInit == Init => Inductive
<1> SUFFICES ASSUME Init PROVE Inductive
  OBVIOUS
<1>2. TypeOK
  <2>1. producers \in [BPs -> Producer]
    <3>1. Day + 1 \in 0..(Day + 1) BY Constants
    <3> QED BY <3>1 DEF Init, Producer
  <2>2. bpvest \in [BPs -> VestRow] BY DEF Init, VestRow, Unvested
  <2>3. vestglb \in [enabled : BOOLEAN, period : Nat \ {0}, gain : Nat, revenue : Nat]
    <3>1. VestPeriods \subseteq Nat \ {0} /\ Gains \subseteq Nat BY PayAssumption
    <3>2. /\ vestglb = [enabled |-> vestglb.enabled, period |-> vestglb.period,
                       gain |-> vestglb.gain, revenue |-> vestglb.revenue]
          /\ vestglb.enabled = FALSE /\ vestglb.period \in VestPeriods
          /\ vestglb.gain \in Gains /\ vestglb.revenue = 0
      BY DEF Init
    <3> DEFINE p == vestglb.period
               k == vestglb.gain
    <3>3. p \in Nat \ {0} /\ k \in Nat BY <3>1, <3>2
    <3>4. vestglb = [enabled |-> FALSE, period |-> p, gain |-> k, revenue |-> 0] BY <3>2
    <3> HIDE DEF p, k
    <3> QED BY <3>3, <3>4
  <2>4. 0 \in 0..(Day + 1) BY Constants
  <2>5. /\ total_weight = 0 /\ total_unpaid_blocks = 0 /\ perblock_bucket = 0 /\ pervote_bucket = 0
        /\ total_minted = 0 /\ since_fill = 0 /\ year = 0 /\ escrow = 0 /\ total_burned = 0
        /\ issued = 0 /\ overshared = FALSE
    BY DEF Init
  <2>6. overshared \in BOOLEAN BY <2>5
  <2> QED BY <2>1, <2>2, <2>3, <2>4, <2>5, <2>6 DEF TypeOK
<1>3. BlocksCovered /\ EscrowBacksVests
  <2> DEFINE f == UnpaidBlocks(producers)
             g == StillVesting(bpvest)
             z == [bp \in BPs |-> 0]
  <2>1. \A bp \in BPs : f[bp] = z[bp] /\ g[bp] = z[bp] /\ z[bp] = z[bp] + z[bp] /\ z[bp] \in Int
    BY DEF Init, UnpaidBlocks, StillVesting, Outstanding, Live, Unvested
  <2>2. SumFunctionOnSet(z, BPs) <= 0 BY Constants, SumOfZeros
  <2> HIDE DEF z, f, g
  <2>3. SumFunctionOnSet(f, BPs) = SumFunctionOnSet(z, BPs) /\ SumFunctionOnSet(g, BPs) = SumFunctionOnSet(z, BPs)
    BY <2>1, Constants, SumSame
  <2>4. total_unpaid_blocks = 0 /\ escrow = 0 BY DEF Init
  <2> QED BY <2>2, <2>3, <2>4 DEF BlocksCovered, EscrowBacksVests, f, g
<1>4. SupplyCapped /\ IssuedWithinSchedule
  BY Constants DEF Init, SupplyCapped, TotalSupply, IssuedWithinSchedule
<1>5. \A bp \in BPs : GoodRow(bpvest[bp])
  BY DEF Init, GoodRow, VestRow, Unvested
<1> QED BY <1>2, <1>3, <1>4, <1>5 DEF Inductive

LEMMA InductiveNext == Inductive /\ [Next]_vars => Inductive'
<1> SUFFICES ASSUME Inductive, [Next]_vars PROVE Inductive'
  OBVIOUS
<1>0. /\ producers \in [BPs -> Producer] /\ bpvest \in [BPs -> VestRow]
      /\ \A bp \in BPs : GoodRow(bpvest[bp])
      /\ TypeOK /\ BlocksCovered /\ total_burned \in Nat /\ escrow \in Nat /\ issued \in Nat
      /\ Day \in Nat /\ total_unpaid_blocks \in Nat
  BY InductiveParts, Constants
<1>1. CASE Tick
  <2>1. BlockPart'
    <3>1. \A bp \in BPs : producers'[bp] \in Producer /\ producers'[bp].unpaid_blocks = producers[bp].unpaid_blocks
      BY <1>0, <1>1 DEF Tick, Producer, AgedUpTo
    <3>2. producers' \in [BPs -> Producer]
      BY <1>1, <3>1 DEF Tick
    <3>3. UnpaidBlocks(producers') = UnpaidBlocks(producers)
      BY <3>1 DEF UnpaidBlocks
    <3> QED BY <1>0, <1>1, <3>2, <3>3 DEF Tick, bucketVars, BlockPart, BlocksCovered
  <2>2. VestPart'
    <3>1. \A bp \in BPs : GoodRow(bpvest'[bp]) /\ Outstanding(bpvest'[bp]) = Outstanding(bpvest[bp])
      <4>1. TAKE bp \in BPs
      <4>2. CASE bpvest[bp].exists
        BY <1>0, <1>1, <4>2, AgedRow DEF Tick
      <4>3. CASE ~bpvest[bp].exists
        BY <1>0, <1>1, <4>3 DEF Tick
      <4> QED BY <4>2, <4>3
    <3>2. bpvest' \in [BPs -> VestRow]
      BY <1>1, <3>1 DEF Tick, GoodRow
    <3>3. StillVesting(bpvest') = StillVesting(bpvest)
      BY <3>1 DEF StillVesting
    <3> QED BY <1>1, <3>1, <3>2, <3>3, PartsNow DEF Tick, VestPart, EscrowBacksVests
  <2>3. MoneyPart'
    BY <1>0, <1>1, MoneyKept DEF Tick, bucketVars
  <2>4. OtherPart'
    <3>1. since_fill' \in 0..(Day + 1)
      BY <1>0, <1>1 DEF Tick, AgedUpTo, TypeOK
    <3>2. year' \in Nat
      BY <1>0, <1>1 DEF Tick, TypeOK
    <3> QED BY <1>1, <3>1, <3>2, PartsNow DEF Tick, OtherPart
  <2> QED BY <2>1, <2>2, <2>3, <2>4, PartsThen
<1>2. CASE RefillPay
  <2>1. MoneyPart' /\ since_fill' \in 0..(Day + 1)
    BY <1>2, RefillKeeps DEF RefillPay, vestVars
  <2>2. BlockPart' /\ VestPart'
    BY <1>2, BlockKept, VestKept DEF RefillPay, vestVars
  <2>3. OtherPart'
    BY <1>2, <2>1, PartsNow DEF RefillPay, OtherPart
  <2> QED BY <2>1, <2>2, <2>3, PartsThen
<1>3. CASE BurnRamFee
  <2>1. total_burned' \in Nat /\ total_burned <= total_burned'
    BY <1>0, <1>3 DEF BurnRamFee
  <2> QED BY <1>3, <2>1, BlockKept, VestKept, MoneyKept, OtherKept, PartsThen
          DEF BurnRamFee, bucketVars, mintVars
<1>4. ASSUME NEW enabled \in Vesting, NEW period \in VestPeriods, NEW gain \in Gains,
             SetVesting(enabled, period, gain)
      PROVE  Inductive'
  <2>1. enabled \in BOOLEAN /\ period \in Nat \ {0} /\ gain \in Nat
    BY PayAssumption
  <2>2. OtherPart'
    BY <1>4, <2>1, PartsNow DEF SetVesting, OtherPart, mintVars
  <2>3. total_burned' \in Nat /\ total_burned <= total_burned'
    BY <1>0, <1>4 DEF SetVesting, vestVars
  <2> QED BY <1>4, <2>2, <2>3, BlockKept, VestKept, MoneyKept, PartsThen
          DEF SetVesting, bucketVars, mintVars, vestVars
<1>5. ASSUME NEW fee \in Fees, AccruEpoch(fee) PROVE Inductive'
  <2>1. fee \in Nat BY PayAssumption
  <2>2. OtherPart'
    BY <1>5, <2>1, PartsNow DEF AccruEpoch, OtherPart, mintVars
  <2>3. total_burned' \in Nat /\ total_burned <= total_burned'
    BY <1>0, <1>5 DEF AccruEpoch, vestVars
  <2> QED BY <1>5, <2>2, <2>3, BlockKept, VestKept, MoneyKept, PartsThen
          DEF AccruEpoch, bucketVars, mintVars, vestVars
<1>6. ASSUME NEW bp \in BPs, RegProducer(bp) PROVE Inductive'
  <2> DEFINE p == [producers[bp] EXCEPT !.registered = TRUE, !.is_active = TRUE]
  <2>1. p \in Producer /\ p.unpaid_blocks = producers[bp].unpaid_blocks
    BY <1>0 DEF Producer
  <2>2. producers' = [producers EXCEPT ![bp] = p]
    BY <1>0, <1>6 DEF RegProducer
  <2> HIDE DEF p
  <2>3. BlockPart'
    BY <1>6, <2>1, <2>2, RowRewritten DEF RegProducer, bucketVars
  <2>4. total_burned' \in Nat /\ total_burned <= total_burned'
    BY <1>0, <1>6 DEF RegProducer, vestVars
  <2> QED BY <1>6, <2>3, <2>4, VestKept, MoneyKept, OtherKept, PartsThen
          DEF RegProducer, bucketVars, mintVars, vestVars
<1>7. ASSUME NEW bp \in BPs, UnregProd(bp) PROVE Inductive'
  <2> DEFINE p == [producers[bp] EXCEPT !.is_active = FALSE]
  <2>1. p \in Producer /\ p.unpaid_blocks = producers[bp].unpaid_blocks
    BY <1>0 DEF Producer
  <2>2. producers' = [producers EXCEPT ![bp] = p]
    BY <1>0, <1>7 DEF UnregProd
  <2> HIDE DEF p
  <2>3. BlockPart'
    BY <1>7, <2>1, <2>2, RowRewritten DEF UnregProd, bucketVars
  <2>4. VestPart' /\ total_burned' \in Nat /\ total_burned <= total_burned'
    BY <1>7, ForfeitKeeps DEF UnregProd
  <2> QED BY <1>7, <2>3, <2>4, MoneyKept, OtherKept, PartsThen
          DEF UnregProd, bucketVars, mintVars
<1>8. ASSUME NEW bp \in BPs, NEW failing \in BOOLEAN, Judged(bp, failing) PROVE Inductive'
  <2> DEFINE p == [producers[bp] EXCEPT !.probation = failing]
  <2>1. p \in Producer /\ p.unpaid_blocks = producers[bp].unpaid_blocks
    BY <1>0 DEF Producer
  <2>2. producers' = [producers EXCEPT ![bp] = p]
    BY <1>0, <1>8 DEF Judged
  <2> HIDE DEF p
  <2>3. BlockPart'
    BY <1>8, <2>1, <2>2, RowRewritten DEF Judged, bucketVars
  <2>4. total_burned' \in Nat /\ total_burned <= total_burned'
    BY <1>0, <1>8 DEF Judged, vestVars
  <2> QED BY <1>8, <2>3, <2>4, VestKept, MoneyKept, OtherKept, PartsThen
          DEF Judged, bucketVars, mintVars, vestVars
<1>9. ASSUME NEW bp \in BPs, NEW votes \in Votes, UpdateVotes(bp, votes) PROVE Inductive'
  <2> DEFINE p == [producers[bp] EXCEPT !.total_votes = votes]
  <2>1. p \in Producer /\ p.unpaid_blocks = producers[bp].unpaid_blocks
    BY <1>0, PayAssumption DEF Producer
  <2>2. producers' = [producers EXCEPT ![bp] = p]
    BY <1>0, <1>9 DEF UpdateVotes
  <2> HIDE DEF p
  <2>3. BlockPart'
    BY <1>9, <2>1, <2>2, RowRewritten DEF UpdateVotes, bucketVars
  <2>4. total_burned' \in Nat /\ total_burned <= total_burned'
    BY <1>0, <1>9 DEF UpdateVotes, vestVars
  <2>5. total_weight' \in Int
    BY <1>9, <2>3, RecomputedType DEF UpdateVotes, BlockPart
  <2>6. OtherPart'
    BY <1>9, <2>5, PartsNow DEF UpdateVotes, OtherPart, mintVars
  <2> QED BY <1>9, <2>3, <2>4, <2>6, VestKept, MoneyKept, PartsThen
          DEF UpdateVotes, bucketVars, mintVars, vestVars
<1>10. ASSUME NEW bp \in BPs, Withdraw(bp) PROVE Inductive'
  <2> DEFINE p == [producers[bp] EXCEPT !.is_active = FALSE, !.total_votes = 0]
  <2>1. p \in Producer /\ p.unpaid_blocks = producers[bp].unpaid_blocks
    <3>1. producers[bp] \in Producer /\ 0 \in Int BY <1>0
    <3> QED BY <3>1 DEF Producer
  <2>2. producers' = [producers EXCEPT ![bp] = p]
    BY <1>0, <1>10 DEF Withdraw
  <2> HIDE DEF p
  <2>3. BlockPart'
    BY <1>10, <2>1, <2>2, RowRewritten DEF Withdraw, bucketVars
  <2>4. VestPart' /\ total_burned' \in Nat /\ total_burned <= total_burned'
    BY <1>10, ForfeitKeeps DEF Withdraw
  <2>5. total_weight' \in Int
    BY <1>0, <1>10, <2>3, RecomputedType DEF Withdraw, BlockPart, TypeOK
  <2>6. OtherPart'
    BY <1>10, <2>5, PartsNow DEF Withdraw, OtherPart, mintVars
  <2> QED BY <1>10, <2>3, <2>4, <2>6, MoneyKept, PartsThen
          DEF Withdraw, bucketVars, mintVars
<1>11. ASSUME NEW bp \in BPs, OnBlock(bp) PROVE Inductive'
  <2>1. BlockPart'
    <3>1. total_unpaid_blocks' = total_unpaid_blocks + 1
      BY <1>11 DEF OnBlock
    <3>2. CASE producers[bp].registered
      <4> DEFINE p == [producers[bp] EXCEPT !.unpaid_blocks = @ + 1]
      <4>1. producers[bp].unpaid_blocks \in Nat BY <1>0 DEF Producer
      <4>2. p \in Producer /\ p.unpaid_blocks = producers[bp].unpaid_blocks + 1
        BY <1>0, <4>1 DEF Producer
      <4>3. producers' = [producers EXCEPT ![bp] = p]
        BY <1>0, <1>11, <3>2 DEF OnBlock
      <4> HIDE DEF p
      <4>4. /\ total_unpaid_blocks + 1 \in Int
            /\ (total_unpaid_blocks + 1) - total_unpaid_blocks >= p.unpaid_blocks - producers[bp].unpaid_blocks
        BY <1>0, <4>1, <4>2
      <4> QED BY <3>1, <4>2, <4>3, <4>4, BlocksRewritten DEF BlockPart
    <3>3. CASE ~producers[bp].registered
      <4> DEFINE p == producers[bp]
      <4>1. p.unpaid_blocks \in Nat /\ p \in Producer BY <1>0 DEF Producer
      <4>2. producers' = [producers EXCEPT ![bp] = p]
        BY <1>0, <1>11, <3>3 DEF OnBlock
      <4>3. p.unpaid_blocks = producers[bp].unpaid_blocks OBVIOUS
      <4> HIDE DEF p
      <4>4. /\ total_unpaid_blocks + 1 \in Int
            /\ (total_unpaid_blocks + 1) - total_unpaid_blocks >= p.unpaid_blocks - producers[bp].unpaid_blocks
        BY <1>0, <4>1, <4>3
      <4>5. producers' \in [BPs -> Producer] /\ total_unpaid_blocks' \in Nat /\ BlocksCovered'
        BY <3>1, <4>1, <4>2, <4>4, BlocksRewritten
      <4> QED BY <4>5 DEF BlockPart
    <3> QED BY <3>2, <3>3
  <2>2. MoneyPart' /\ since_fill' \in 0..(Day + 1)
    <3>1. CASE since_fill > Day /\ total_minted < MaxMinted
      BY <1>11, <3>1, RefillKeeps DEF OnBlock, vestVars
    <3>2. CASE ~(since_fill > Day /\ total_minted < MaxMinted)
      <4>1. total_burned' \in Nat /\ total_burned <= total_burned'
        BY <1>0, <1>11 DEF OnBlock, vestVars
      <4>2. since_fill' \in 0..(Day + 1)
        BY <1>0, <1>11, <3>2 DEF OnBlock, TypeOK
      <4> QED BY <1>11, <3>2, <4>1, <4>2, MoneyKept DEF OnBlock
    <3> QED BY <3>1, <3>2
  <2>3. OtherPart'
    BY <1>11, <2>2, PartsNow DEF OnBlock, OtherPart
  <2> QED BY <1>11, <2>1, <2>2, <2>3, VestKept, PartsThen DEF OnBlock, vestVars
<1>12. ASSUME NEW bp \in BPs, ClaimInProbation(bp) PROVE Inductive'
  <2> DEFINE p == [producers[bp] EXCEPT !.unpaid_blocks = 0, !.since_claim = 0]
  <2>1. p \in Producer /\ p.unpaid_blocks = 0 /\ producers[bp].unpaid_blocks \in Nat
    <3>1. 0 \in 0..(Day + 1) BY <1>0
    <3> QED BY <1>0, <3>1 DEF Producer
  <2>2. producers' = [producers EXCEPT ![bp] = p] /\ total_unpaid_blocks' = total_unpaid_blocks
    BY <1>0, <1>12 DEF ClaimInProbation, bucketVars
  <2> HIDE DEF p
  <2>3. BlockPart'
    <3>1. /\ total_unpaid_blocks \in Int
          /\ total_unpaid_blocks - total_unpaid_blocks >= p.unpaid_blocks - producers[bp].unpaid_blocks
      BY <1>0, <2>1
    <3>2. producers' \in [BPs -> Producer] /\ total_unpaid_blocks' \in Nat /\ BlocksCovered'
      BY <2>1, <2>2, <3>1, BlocksRewritten
    <3> QED BY <3>2 DEF BlockPart
  <2>4. VestPart' /\ total_burned' \in Nat /\ total_burned <= total_burned'
    BY <1>12, ForfeitKeeps DEF ClaimInProbation
  <2> QED BY <1>12, <2>3, <2>4, MoneyKept, OtherKept, PartsThen
          DEF ClaimInProbation, bucketVars, mintVars
<1>13. ASSUME NEW bp \in BPs, ClaimProd(bp) PROVE Inductive'
  <2> DEFINE p == [producers[bp] EXCEPT !.unpaid_blocks = 0, !.since_claim = 0]
             u == producers[bp].unpaid_blocks
             perblock == PerBlockPay(producers[bp])
             pervote == PerVotePay(producers[bp])
             pay == UsageGated(perblock + pervote)
  <2>1. p \in Producer /\ p.unpaid_blocks = 0 /\ u \in Nat
    <3>1. 0 \in 0..(Day + 1) BY <1>0
    <3> QED BY <1>0, <3>1 DEF Producer
  <2>2. /\ perblock \in Nat /\ perblock <= perblock_bucket /\ pervote \in Int
        /\ u <= total_unpaid_blocks
    BY <1>0, ClaimFits
  <2>3. /\ perblock + pervote >= 0
        /\ perblock_bucket' = perblock_bucket - perblock
        /\ pervote_bucket' = pervote_bucket - pervote
        /\ total_unpaid_blocks' = total_unpaid_blocks - u
        /\ producers' = [producers EXCEPT ![bp] = p]
        /\ issued' = issued + pay
        /\ overshared' = (overshared \/ ShareAboveOne(producers[bp]))
        /\ IF vestglb.enabled /\ pay > 0
           THEN /\ bpvest' = [bpvest EXCEPT ![bp] = CreditedVest(@, pay)]
                /\ escrow' = escrow + pay
           ELSE UNCHANGED <<bpvest, escrow>>
        /\ UNCHANGED <<total_weight, mintVars, vestglb, total_burned>>
    BY <1>0, <1>13 DEF ClaimProd
  <2> HIDE DEF p, u, perblock, pervote
  <2>4. perblock + pervote \in Nat BY <2>2, <2>3
  <2>5. pay \in Nat /\ pay <= perblock + pervote
    BY <1>0, <2>4, GatedFits
  <2> HIDE DEF pay
  <2>6. BlockPart'
    <3>1. /\ total_unpaid_blocks - u \in Int
          /\ (total_unpaid_blocks - u) - total_unpaid_blocks >= p.unpaid_blocks - producers[bp].unpaid_blocks
      BY <1>0, <2>1, <2>2 DEF u
    <3> QED BY <2>1, <2>3, <3>1, BlocksRewritten DEF BlockPart
  <2>7. VestPart'
    <3>1. CASE vestglb.enabled /\ pay > 0
      <4> DEFINE row == CreditedVest(bpvest[bp], pay)
      <4>1. GoodRow(row) /\ Outstanding(row) <= Outstanding(bpvest[bp]) + pay /\ Outstanding(row) \in Nat
        BY <1>0, <2>5, CreditedRow
      <4>2. bpvest' = [bpvest EXCEPT ![bp] = row] /\ escrow' = escrow + pay
        BY <2>3, <3>1
      <4> HIDE DEF row
      <4>3. Outstanding(bpvest[bp]) \in Nat BY <1>0, GoodRowOwes
      <4>4. escrow + pay \in Int /\ (escrow + pay) - escrow >= Outstanding(row) - Outstanding(bpvest[bp])
        BY <1>0, <2>5, <4>1, <4>3
      <4> QED BY <4>1, <4>2, <4>4, VestRewritten
    <3>2. CASE ~(vestglb.enabled /\ pay > 0)
      BY <2>3, <3>2, VestKept
    <3> QED BY <3>1, <3>2
  <2>8. MoneyPart'
    <3>1. /\ perblock_bucket \in Nat /\ pervote_bucket \in Int /\ total_minted \in Nat
          /\ total_burned \in Nat /\ issued \in Nat /\ SupplyCapped
          /\ issued + perblock_bucket + pervote_bucket <= total_minted
          /\ ~overshared => pervote_bucket >= 0
          /\ overshared \in BOOLEAN
      BY PartsNow DEF MoneyPart, IssuedWithinSchedule
    <3>2. total_minted' = total_minted /\ total_burned' = total_burned
      BY <2>3 DEF mintVars
    <3>3. SupplyCapped' BY <3>1, <3>2 DEF SupplyCapped, TotalSupply
    <3>4. perblock_bucket' \in Nat /\ pervote_bucket' \in Int /\ issued' \in Nat
      BY <2>2, <2>3, <2>5, <3>1
    <3>5. issued' + perblock_bucket' + pervote_bucket' <= total_minted'
      BY <2>2, <2>3, <2>5, <3>1, <3>2
    <3>6. ASSUME ~overshared' PROVE pervote_bucket' >= 0 /\ issued' <= total_minted'
      <4>1. ~overshared /\ ~ShareAboveOne(producers[bp]) BY <2>3, <3>6
      <4>2. pervote <= pervote_bucket
        BY <1>0, <3>1, <4>1, FairShareFits DEF pervote
      <4>3. pervote_bucket' >= 0 BY <2>2, <2>3, <3>1, <4>2
      <4>4. total_minted' \in Nat /\ perblock_bucket' \in Nat BY <3>1, <3>2, <3>4
      <4>5. \A i, b, v, m \in Int : i + b + v <= m /\ b >= 0 /\ v >= 0 => i <= m OBVIOUS
      <4>6. issued' \in Int /\ perblock_bucket' \in Int /\ pervote_bucket' \in Int
            /\ total_minted' \in Int /\ perblock_bucket' >= 0
        BY <3>4, <4>4
      <4>7. issued' <= total_minted' BY <3>5, <4>3, <4>5, <4>6
      <4> QED BY <4>3, <4>7
    <3>7. overshared' \in BOOLEAN BY <2>3, <3>1 DEF ShareAboveOne
    <3> QED BY <3>1, <3>2, <3>3, <3>4, <3>5, <3>6, <3>7 DEF MoneyPart, IssuedWithinSchedule
  <2>9. OtherPart'
    BY <2>3, OtherKept DEF mintVars
  <2> QED BY <2>6, <2>7, <2>8, <2>9, PartsThen
<1>14. ASSUME NEW bp \in BPs, ClaimVest(bp) PROVE Inductive'
  <2> DEFINE due == VestedTarget(bpvest[bp]) - bpvest[bp].released
             row == [bpvest[bp] EXCEPT !.released = @ + due]
  <2>1. /\ Live(bpvest[bp]) /\ due > 0
        /\ bpvest' = [bpvest EXCEPT ![bp] = row] /\ escrow' = escrow - due
    BY <1>0, <1>14 DEF ClaimVest
  <2>2. GoodRow(row) /\ Outstanding(row) = Outstanding(bpvest[bp]) - due /\ due \in Nat
    BY <1>0, <2>1, ReleasedRow
  <2>3. Outstanding(bpvest[bp]) \in Nat BY <1>0, GoodRowOwes
  <2> HIDE DEF row, due
  <2>4. VestPart'
    <3>1. escrow - due \in Int /\ (escrow - due) - escrow >= Outstanding(row) - Outstanding(bpvest[bp])
      BY <1>0, <2>2, <2>3
    <3> QED BY <2>1, <2>2, <3>1, VestRewritten
  <2>5. total_burned' \in Nat /\ total_burned <= total_burned'
    BY <1>0, <1>14 DEF ClaimVest
  <2> QED BY <1>14, <2>4, <2>5, BlockKept, MoneyKept, OtherKept, PartsThen
          DEF ClaimVest, bucketVars, mintVars
<1>15. CASE UNCHANGED vars
  <2>1. total_burned' \in Nat /\ total_burned <= total_burned'
    BY <1>0, <1>15 DEF vars, vestVars
  <2> QED BY <1>15, <2>1, BlockKept, VestKept, MoneyKept, OtherKept, PartsThen
          DEF vars, bucketVars, mintVars, vestVars
<1> QED
  BY <1>1, <1>2, <1>3, <1>4, <1>5, <1>6, <1>7, <1>8, <1>9, <1>10, <1>11, <1>12, <1>13, <1>14, <1>15
  DEF Next

LEMMA InductiveHolds == Spec => []Inductive
BY InductiveInit, InductiveNext, PTL DEF Spec

-----------------------------------------------------------------------------
(* Tables, buckets and counters of producer pay stay typed: in particular  *)
(* no claim takes perblock_bucket, total_unpaid_blocks or the escrow below *)
(* zero.                                                                   *)
THEOREM TypeCorrect == Spec => []TypeOK
<1>1. Inductive => TypeOK BY DEF Inductive
<1> QED BY <1>1, InductiveHolds, PTL

(* The unsigned total_unpaid_blocks covers the producers' unpaid blocks.   *)
THEOREM BlocksCorrect == Spec => []BlocksCovered
<1>1. Inductive => BlocksCovered BY DEF Inductive
<1> QED BY <1>1, InductiveHolds, PTL

(* The accounted supply never passes the ceiling.                          *)
THEOREM CeilingHolds == Spec => []SupplyCapped
<1>1. Inductive => SupplyCapped BY DEF Inductive
<1> QED BY <1>1, InductiveHolds, PTL

(* As long as no claim had a share above one of pervote_bucket, claims had *)
(* no more issued than was scheduled; and whatever their shares, all that  *)
(* they had issued left a bucket.                                          *)
THEOREM ScheduleHolds == Spec => []IssuedWithinSchedule
<1>1. Inductive => IssuedWithinSchedule BY DEF Inductive
<1> QED BY <1>1, InductiveHolds, PTL

(* The escrow covers the vesting rows.                                     *)
THEOREM EscrowCorrect == Spec => []EscrowBacksVests
<1>1. Inductive => EscrowBacksVests BY DEF Inductive
<1> QED BY <1>1, InductiveHolds, PTL

(* Vesting rows release no more than their linear schedule allows.         *)
THEOREM ReleasesOnSchedule == Spec => []ReleasedOnSchedule
<1>1. Inductive => ReleasedOnSchedule
  BY DEF Inductive, GoodRow, ReleasedOnSchedule, Live
<1> QED BY <1>1, InductiveHolds, PTL
=============================================================================
