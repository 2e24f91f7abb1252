------------------------- MODULE SikaStakingProofs -------------------------
(***************************************************************************)
(* Proofs about SikaStaking, for any users, amounts and RAM market.        *)
(*                                                                         *)
(* The curve comes first: a trade never lowers the product of the reserves.*)
(* Then the tables: the inductive invariant says that shares and bytes add *)
(* up and that a refund's row is no older than what it holds.  The sums    *)
(* over users follow from how each handler changes one row.                *)
(***************************************************************************)
EXTENDS SikaStaking, SumProofs

-----------------------------------------------------------------------------
(* The curve.                                                              *)
(* The root exists: of the intervals 0..k whose last square is above m one *)
(* is smallest.                                                            *)
LEMMA RootExists ==
    ASSUME NEW m \in Nat
    PROVE  \E r \in 0..m : r * r <= m /\ m < (r + 1) * (r + 1)
<1> DEFINE T == {U \in SUBSET (0..(m + 1)) : \E k \in Nat : U = 0..k /\ m < k * k}
<1>1. 0..(m + 1) \in T
  <2>1. m < (m + 1) * (m + 1) OBVIOUS
  <2> QED BY <2>1
<1>2. PICK U \in T : \A V \in SUBSET U : V # U => V \notin T
  <2> DEFINE S == 0..(m + 1)
  <2>1. IsFiniteSet(S) BY FS_Interval
  <2>2. T \in SUBSET (SUBSET S) OBVIOUS
  <2>3. T # {} BY <1>1
  <2> HIDE DEF T, S
  <2> QED BY <2>1, <2>2, <2>3, LeastSubset
<1>3. PICK k \in Nat : U = 0..k /\ m < k * k BY <1>2
<1>4. k \in 0..(m + 1)
  <2>1. k \in U BY <1>3
  <2> QED BY <1>2, <2>1
<1>5. k # 0 BY <1>3
<1>6. k - 1 \in 0..m /\ 0..(k - 1) \subseteq U /\ 0..(k - 1) # U
  <2>1. k - 1 \in 0..m BY <1>4, <1>5
  <2>2. 0..(k - 1) \subseteq U BY <1>3
  <2>3. k \in U /\ k \notin 0..(k - 1) BY <1>3
  <2> QED BY <2>1, <2>2, <2>3
<1>7. (k - 1) * (k - 1) <= m
  <2>1. 0..(k - 1) \notin T BY <1>2, <1>6
  <2>2. k - 1 \in Nat /\ 0..(k - 1) \subseteq 0..(m + 1) BY <1>6
  <2>3. ~(m < (k - 1) * (k - 1)) BY <2>1, <2>2
  <2> QED BY <2>2, <2>3
<1>8. m < ((k - 1) + 1) * ((k - 1) + 1)
  <2>1. (k - 1) + 1 = k OBVIOUS
  <2> QED BY <1>3, <2>1
<1> QED BY <1>6, <1>7, <1>8

LEMMA RootFacts ==
    ASSUME NEW m \in Nat
    PROVE  Root(m) \in Nat /\ Root(m) * Root(m) <= m /\ m < (Root(m) + 1) * (Root(m) + 1)
<1> DEFINE P(r) == r * r <= m /\ m < (r + 1) * (r + 1)
<1>1. \E r \in 0..m : P(r) BY RootExists
<1>2. Root(m) = CHOOSE r \in 0..m : P(r) BY DEF Root
<1> HIDE DEF P
<1>3. Root(m) \in 0..m /\ P(Root(m)) BY <1>1, <1>2
<1> QED BY <1>3 DEF P

(* What a payment mints is never worth more than the payment.              *)
LEMMA MintedFacts ==
    ASSUME NEW S \in Nat \ {0}, NEW R \in Nat \ {0}, NEW x \in Nat
    PROVE  /\ Minted(S, R, x) \in Nat
           /\ ((S + Minted(S, R, x)) * (S + Minted(S, R, x))) * R <= (S * S) * (R + x)
<1> DEFINE a == S * S * (R + x)
           m == a \div R
           T == Root(m)
<1>1. a \in Nat /\ S * S \in Nat OBVIOUS
<1>2. m \in Nat /\ R * m <= a /\ a < R * m + R BY <1>1, Division
<1>3. T \in Nat /\ T * T <= m /\ m < (T + 1) * (T + 1)
  <2> HIDE DEF m
  <2> QED BY <1>2, RootFacts
<1>4. Minted(S, R, x) = T - S BY DEF Minted
<1>5. (T * T) * R <= a
  <2> HIDE DEF m, T, a
  <2>1. T * T \in Nat BY <1>3
  <2>2. (T * T) * R <= m * R BY <1>2, <1>3, <2>1
  <2> QED BY <1>1, <1>2, <2>1, <2>2
<1>6. S * S <= m
  <2>1. R * (S * S) <= a OBVIOUS
  <2> HIDE DEF m, a
  <2>2. ASSUME m < S * S PROVE FALSE
    <3>1. m + 1 <= S * S BY <1>1, <1>2, <2>2
    <3>2. R * (m + 1) <= R * (S * S) BY <1>1, <1>2, <3>1
    <3> QED BY <1>1, <1>2, <2>1, <3>2
  <2> QED BY <1>1, <1>2, <2>2
<1>7. S <= T
  <2> HIDE DEF m, T
  <2>1. ASSUME T < S PROVE FALSE
    <3>1. T + 1 <= S BY <1>3, <2>1
    <3>2. (T + 1) * (T + 1) <= S * S BY <1>3, <3>1
    <3> QED BY <1>1, <1>2, <1>3, <1>6, <3>2
  <2> QED BY <1>3, <2>1
<1> HIDE DEF m, T
<1>8. S + Minted(S, R, x) = T /\ T - S \in Nat BY <1>3, <1>4, <1>7
<1> QED BY <1>3, <1>4, <1>5, <1>8

(* What tokens pay out is never worth more than the tokens.                *)
LEMMA PayoutFacts ==
    ASSUME NEW S \in Nat \ {0}, NEW t \in Nat, NEW R \in Nat \ {0}
    PROVE  /\ Payout(S + t, R, t) \in 0..(R - 1)
           /\ R * (S * S) <= ((S + t) * (S + t)) * (R - Payout(S + t, R, t))
<1> DEFINE T == S + t
           q == T * T
           s == S * S
           P == (R * (q - s)) \div q
<1>1. q \in Nat \ {0} /\ s \in Nat \ {0} /\ s <= q OBVIOUS
<1>2. Payout(S + t, R, t) = P
  <2>1. (S + t) - t = S OBVIOUS
  <2> QED BY <2>1 DEF Payout
<1> HIDE DEF q, s
<1>3. R * (q - s) \in Nat /\ R * (q - s) = R * q - R * s BY <1>1
<1>4. P \in Nat /\ q * P <= R * (q - s) BY <1>1, <1>3, Division
<1>5. R * s \in Nat /\ R * s > 0 BY <1>1
<1> HIDE DEF P
<1>6. q * (R - P) = R * q - q * P BY <1>1, <1>4
<1>7. R * s <= q * (R - P) BY <1>1, <1>3, <1>4, <1>5, <1>6
<1>8. P < R
  <2>1. ASSUME R <= P PROVE FALSE
    <3>1. q * R <= q * P BY <1>1, <1>4, <2>1
    <3> QED BY <1>1, <1>3, <1>4, <1>5, <3>1
  <2> QED BY <1>4, <2>1
<1> QED BY <1>2, <1>4, <1>7, <1>8 DEF q, s

(* A trade leaves something of the reserve it draws on, and the product of *)
(* the two reserves is not less than before.                               *)
LEMMA Trade ==
    ASSUME NEW S \in Nat \ {0}, NEW A \in Nat \ {0}, NEW B \in Nat \ {0}, NEW x \in Nat
    PROVE  LET t == Minted(S, A, x)
               P == Payout(S + t, B, t)
           IN  P \in 0..(B - 1) /\ A * B <= (A + x) * (B - P)
<1> DEFINE t == Minted(S, A, x)
           P == Payout(S + t, B, t)
           q == (S + t) * (S + t)
           s == S * S
<1>1. t \in Nat /\ q * A <= s * (A + x) BY MintedFacts
<1> HIDE DEF t
<1>2. P \in 0..(B - 1) /\ B * s <= q * (B - P) BY <1>1, PayoutFacts
<1> HIDE DEF P
<1>3. q \in Nat /\ s \in Nat \ {0} /\ B - P \in Nat BY <1>1, <1>2
<1> HIDE DEF q, s
<1> DEFINE k == A + x
           d == B - P
<1>4. k \in Nat /\ d \in Nat BY <1>3
<1>5. (B * s) * A <= (q * d) * A BY <1>2, <1>3, <1>4
<1>6. (q * A) * d <= (s * k) * d BY <1>1, <1>3, <1>4
<1>7. s * (A * B) <= s * (k * d) 
  <2> HIDE DEF k, d
  <2>1. (q * d) * A = (q * A) * d BY <1>3, <1>4
  <2>2. (B * s) * A = s * (A * B) /\ (s * k) * d = s * (k * d) BY <1>3, <1>4
  <2>3. (B * s) * A \in Int /\ (q * d) * A \in Int /\ (s * k) * d \in Int BY <1>3, <1>4
  <2> QED BY <1>5, <1>6, <2>1, <2>2, <2>3
<1>8. A * B <= k * d
  <2> HIDE DEF k, d
  <2>1. A * B \in Nat /\ k * d \in Nat BY <1>4
  <2>2. ASSUME NEW m \in Nat, NEW n \in Nat, s * m <= s * n PROVE m <= n BY <1>3, <2>2
  <2> QED BY <1>7, <2>1, <2>2
<1> QED BY <1>2, <1>8 DEF t, P

LEMMA FeeFacts ==
    ASSUME NEW amount \in Nat
    PROVE  Fee(amount, RamFeeBps) \in 0..amount
<1> DEFINE a == amount * RamFeeBps
<1>1. a \in Nat /\ a <= 10000 * amount BY StakingAssumption
<1>2. a \div 10000 \in Nat /\ 10000 * (a \div 10000) <= a BY <1>1
<1>3. a % 10000 \in Nat /\ a = 10000 * (a \div 10000) + (a % 10000) BY <1>1
<1> HIDE DEF a
<1>4. CASE a % 10000 = 0
  <2>1. a \div 10000 <= amount BY <1>1, <1>2
  <2> QED BY <1>2, <1>4, <2>1 DEF Fee, a
<1>5. CASE a % 10000 # 0
  <2>1. 10000 * (a \div 10000) < 10000 * amount BY <1>1, <1>2, <1>3, <1>5
  <2>2. a \div 10000 + 1 <= amount BY <1>2, <2>1
  <2> QED BY <1>2, <1>5, <2>2 DEF Fee, a
<1> QED BY <1>4, <1>5

-----------------------------------------------------------------------------
(* Sums over users and transfers.                                          *)
LEMMA TotalAdds ==
    ASSUME NEW f \in [Users -> Int], NEW u \in Users, NEW d \in Int,
           NEW g \in [Users -> Int], g[u] = f[u] + d, \A v \in Users \ {u} : g[v] = f[v]
    PROVE  Total(g) = Total(f) + d /\ Total(f) \in Int
<1>1. IsFiniteSet(Users) BY StakingAssumption
<1>2. \A v \in Users : f[v] \in Int /\ g[v] \in Int OBVIOUS
<1>3. \A v \in Users \ {u} : f[v] = g[v] OBVIOUS
<1>4. SumFunctionOnSet(g, Users) = SumFunctionOnSet(f, Users) - f[u] + g[u]
  BY <1>1, <1>2, <1>3, SumChange
<1>5. SumFunctionOnSet(f, Users) \in Int
  BY <1>1, <1>2, SumType
<1> QED BY <1>4, <1>5 DEF Total

LEMMA TotalSame ==
    ASSUME NEW f, NEW g, \A v \in Users : g[v] = f[v]
    PROVE  Total(g) = Total(f)
BY SumSame, StakingAssumption DEF Total

LEMMA TotalType ==
    ASSUME NEW D \in {Nat, Int}, NEW f \in [Users -> D]
    PROVE  Total(f) \in D
BY SumType, StakingAssumption DEF Total

LEMMA TotalCovers ==
    ASSUME NEW f \in [Users -> Nat], NEW u \in Users
    PROVE  f[u] <= Total(f)
BY SumCoversPart, StakingAssumption DEF Total

LEMMA Names ==
    /\ Users \subseteq Accounts
    /\ "eosio" \in Accounts \ Users /\ "sika.rex" \in Accounts \ Users
    /\ "sika.burn" \in Accounts \ Users
    /\ "eosio" # "sika.rex" /\ "eosio" # "sika.burn" /\ "sika.rex" # "sika.burn"
BY StakingAssumption DEF Accounts

LEMMA PaidFacts ==
    ASSUME NEW b \in [Accounts -> Nat], NEW from \in Accounts, NEW to \in Accounts,
           from # to, NEW amount \in Nat, amount <= b[from]
    PROVE  /\ Paid(b, from, to, amount) \in [Accounts -> Nat]
           /\ Paid(b, from, to, amount)[from] = b[from] - amount
           /\ Paid(b, from, to, amount)[to] = b[to] + amount
           /\ \A a \in Accounts \ {from, to} : Paid(b, from, to, amount)[a] = b[a]
BY DEF Paid

(* The two accounts that hold what the tables owe.                         *)
Held(b) == b["eosio"] + b["sika.rex"]

-----------------------------------------------------------------------------
(* The inductive invariant.  Its last part: a refund's row and the history *)
(* agree on how long the row has rested.                                   *)
RowsAgree == \A u \in Users : refunds[u].pending => refunds[u].age = rested[u]

IInv == TypeOK /\ SharesAddUp /\ RamPaysItself /\ RowsAgree

LEMMA LostType == ASSUME NEW d \in Int PROVE Lost(d) \in Nat
BY DEF Lost

LEMMA AgedType == ASSUME NEW n \in Nat PROVE Aged(n) \in Nat
BY DEF Aged

LEMMA InitIInv == Init => IInv
<1>1. SUFFICES ASSUME Init PROVE IInv OBVIOUS
<1>2. TypeOK
  BY <1>1, StakingAssumption DEF Init, TypeOK, ResourceRow, NoRow, NoRefund, Accounts
<1>3. RowsAgree BY <1>1 DEF Init, RowsAgree, NoRefund
<1> DEFINE z == [u \in Users |-> 0]
<1>4. SumFunctionOnSet(z, Users) = 0
  BY SumOfZeros, StakingAssumption
<1>5. Total(RexShares) = 0 /\ Total(RamBytes) = 0
  <2>1. RexShares = z /\ RamBytes = z BY <1>1 DEF Init, NoRow, RexShares, RamBytes
  <2> HIDE DEF z
  <2> QED BY <1>4, <2>1 DEF Total
<1>6. SharesAddUp BY <1>1, <1>5 DEF Init, SharesAddUp
<1>7. RamPaysItself BY <1>1, <1>5, StakingAssumption DEF Init, RamPaysItself
<1> QED BY <1>2, <1>3, <1>6, <1>7 DEF IInv

(* The shares that a purchase mints: no more than the SIKA paid for them.  *)
LEMMA SharesFacts ==
    ASSUME IInv, NEW amount \in Nat
    PROVE  /\ Shares(amount) \in 0..amount
           /\ pool.rex > 0 => Shares(amount) * pool.lendable <= amount * pool.rex
<1> DEFINE L == pool.lendable
           R == pool.rex
<1>1. L \in Nat /\ R \in Nat /\ R <= L BY DEF IInv, TypeOK, SharesAddUp
<1>2. CASE L = 0 \/ R = 0
  BY <1>1, <1>2 DEF Shares
<1>3. CASE L # 0 /\ R # 0
  <2>1. Shares(amount) = (amount * R) \div L BY <1>3 DEF Shares
  <2> HIDE DEF L, R
  <2>2. amount * R \in Nat /\ amount * R <= L * amount BY <1>1
  <2> DEFINE n == amount * R
  <2>3. n \div L \in Nat /\ L * (n \div L) <= n /\ n \div L <= amount
    <3> HIDE DEF n
    <3> QED BY <1>1, <1>3, <2>2, Division, DivisionAtMost DEF n
  <2> QED BY <1>1, <2>1, <2>3 DEF L, R
<1> QED BY <1>2, <1>3

(* The SIKA that a sale takes out: the seller's part of the pool, and the  *)
(* shares that remain are still backed one to one.                         *)
LEMMA OwedFacts ==
    ASSUME IInv, NEW u \in Users, NEW r \in Nat \ {0}, r <= rexbalance[u].rex
    PROVE  LET owed == (r * pool.lendable) \div pool.rex
           IN  /\ owed \in 0..pool.lendable
               /\ owed * pool.rex <= r * pool.lendable
               /\ r <= pool.rex
               /\ pool.rex - r <= pool.lendable - owed
<1> DEFINE L == pool.lendable
           R == pool.rex
           n == r * L
           owed == n \div R
<1>1. L \in Nat /\ R \in Nat /\ R <= L BY DEF IInv, TypeOK, SharesAddUp
<1>2. r <= R
  <2>1. RexShares \in [Users -> Nat] BY DEF IInv, TypeOK, RexShares
  <2>2. RexShares[u] <= Total(RexShares) BY <2>1, TotalCovers
  <2>3. RexShares[u] = rexbalance[u].rex /\ rexbalance[u].rex \in Nat BY DEF RexShares, IInv, TypeOK
  <2> QED BY <1>1, <2>2, <2>3 DEF IInv, SharesAddUp
<1> HIDE DEF L, R
<1>3. n \in Nat /\ R \in Nat \ {0} BY <1>1, <1>2
<1>4. n <= R * (L - R + r)
  <2>1. (R - r) * (L - R) >= 0 BY <1>1, <1>2
  <2>2. R * (L - R + r) - n = (R - r) * (L - R) BY <1>1
  <2>3. R * (L - R + r) \in Int BY <1>1
  <2> QED BY <1>3, <2>1, <2>2, <2>3
<1> HIDE DEF n
<1>5. owed \in Nat /\ R * owed <= n BY <1>3, Division
<1>6. L - R + r \in Nat /\ L - R + r <= L BY <1>1, <1>2
<1>7. owed <= L - R + r BY <1>3, <1>4, <1>6, DivisionAtMost
<1> HIDE DEF owed
<1>8. owed * R <= n BY <1>3, <1>5
<1>9. owed \in 0..L /\ R - r <= L - owed BY <1>1, <1>2, <1>5, <1>6, <1>7
<1> QED BY <1>2, <1>8, <1>9 DEF owed, n, L, R

-----------------------------------------------------------------------------
(* One lemma for each action: the inductive invariant holds afterwards, as *)
(* do the sums of voting stake and of custody.                             *)
Inv == IInv /\ VotingStakeAddsUp /\ CustodyAddsUp

LEMMA SumTypes ==
    ASSUME TypeOK
    PROVE  /\ Staked \in [Users -> Int] /\ Total(Staked) \in Int
           /\ VoteStake \in [Users -> Int] /\ Total(VoteStake) \in Int
           /\ InBandwidth \in [Users -> Nat] /\ Total(InBandwidth) \in Nat
           /\ InQueue \in [Users -> Nat] /\ Total(InQueue) \in Nat
           /\ RexShares \in [Users -> Nat] /\ Total(RexShares) \in Nat
           /\ RamBytes \in [Users -> Nat] /\ Total(RamBytes) \in Nat
<1>1. Staked \in [Users -> Int] /\ VoteStake \in [Users -> Int]
  BY DEF TypeOK, Staked, VoteStake
<1>2. InBandwidth \in [Users -> Nat] /\ InQueue \in [Users -> Nat]
  BY DEF TypeOK, ResourceRow, InBandwidth, InQueue
<1>3. RexShares \in [Users -> Nat] /\ RamBytes \in [Users -> Nat]
  BY DEF TypeOK, ResourceRow, RexShares, RamBytes
<1> QED BY <1>1, <1>2, <1>3, TotalType

LEMMA SumTypesNext ==
    ASSUME TypeOK'
    PROVE  /\ Total(Staked)' \in Int /\ Total(VoteStake)' \in Int
           /\ Total(InBandwidth)' \in Nat /\ Total(InQueue)' \in Nat
           /\ Total(RexShares)' \in Nat /\ Total(RamBytes)' \in Nat
<1>1. Staked' \in [Users -> Int] /\ VoteStake' \in [Users -> Int]
  BY DEF TypeOK, Staked, VoteStake
<1>2. InBandwidth' \in [Users -> Nat] /\ InQueue' \in [Users -> Nat]
  BY DEF TypeOK, ResourceRow, InBandwidth, InQueue
<1>3. RexShares' \in [Users -> Nat] /\ RamBytes' \in [Users -> Nat]
  BY DEF TypeOK, ResourceRow, RexShares, RamBytes
<1> QED BY <1>1, <1>2, <1>3, TotalType DEF Total

(* The numbers in the two sums, before and after a step.                   *)
LEMMA Numbers ==
    ASSUME TypeOK
    PROVE  {pool.lendable, market.quote, Quote, escrow, savings, unqueued, foreign, uncounted,
            Held(balance)} \subseteq Int
BY StakingAssumption, Names DEF TypeOK, Held

LEMMA NumbersNext ==
    ASSUME TypeOK'
    PROVE  {pool'.lendable, market'.quote, escrow', savings', unqueued', foreign', uncounted',
            Held(balance')} \subseteq Int
BY Names DEF TypeOK, Held

(* A table that is left alone leaves its sums alone.                       *)
LEMMA SumsUnchanged ==
    /\ UNCHANGED voters => Total(Staked)' = Total(Staked)
    /\ UNCHANGED resources =>
          Total(InBandwidth)' = Total(InBandwidth) /\ Total(RamBytes)' = Total(RamBytes)
    /\ UNCHANGED refunds => Total(InQueue)' = Total(InQueue)
    /\ UNCHANGED rexbalance =>
          Total(VoteStake)' = Total(VoteStake) /\ Total(RexShares)' = Total(RexShares)
BY DEF Total, Staked, InBandwidth, RamBytes, InQueue, VoteStake, RexShares

LEMMA TickInv == Inv /\ Tick => Inv'
<1>1. SUFFICES ASSUME Inv, Tick PROVE Inv' OBVIOUS
<1>2. TypeOK'
  BY <1>1, AgedType DEF Inv, IInv, TypeOK, Tick
<1>3. RowsAgree'
  BY <1>1 DEF Inv, IInv, TypeOK, RowsAgree, Tick
<1>4. Total(InQueue)' = Total(InQueue)
  <2>1. \A u \in Users : InQueue'[u] = InQueue[u]
    BY <1>1 DEF Inv, IInv, TypeOK, Tick, InQueue
  <2> QED BY <2>1, TotalSame DEF Total
<1>5. UNCHANGED <<voters, resources, pool, rexbalance, market, balance, escrow, uncounted,
                  savings, unqueued, foreign>>
  BY <1>1 DEF Tick
<1> QED BY <1>1, <1>2, <1>3, <1>4, <1>5, SumsUnchanged
       DEF Inv, IInv, SharesAddUp, RamPaysItself, VotingStakeAddsUp, CustodyAddsUp

LEMMA SetRexCfgInv == \A seconds \in Windows : Inv /\ SetRexCfg(seconds) => Inv'
<1>1. SUFFICES ASSUME NEW seconds \in Windows, Inv, SetRexCfg(seconds) PROVE Inv' OBVIOUS
<1>2. TypeOK' /\ RowsAgree'
  BY <1>1 DEF Inv, IInv, TypeOK, RowsAgree, SetRexCfg, histories
<1>3. UNCHANGED <<voters, resources, refunds, pool, rexbalance, market, balance, escrow,
                  uncounted, savings, unqueued, foreign>>
  BY <1>1 DEF SetRexCfg, histories
<1> QED BY <1>1, <1>2, <1>3, SumsUnchanged
       DEF Inv, IInv, SharesAddUp, RamPaysItself, VotingStakeAddsUp, CustodyAddsUp

LEMMA OpenVoterInv == \A u \in Users : Inv /\ OpenVoter(u) => Inv'
<1>1. SUFFICES ASSUME NEW u \in Users, Inv, OpenVoter(u) PROVE Inv' OBVIOUS
<1>2. TypeOK' /\ RowsAgree'
  BY <1>1 DEF Inv, IInv, TypeOK, RowsAgree, OpenVoter, histories
<1>3. Total(Staked)' = Total(Staked)
  <2>1. \A v \in Users : Staked'[v] = Staked[v]
    BY <1>1 DEF Inv, IInv, TypeOK, OpenVoter, Staked
  <2> QED BY <2>1, TotalSame DEF Total
<1>4. UNCHANGED <<resources, refunds, pool, rexbalance, market, balance, escrow,
                  uncounted, savings, unqueued, foreign>>
  BY <1>1 DEF OpenVoter, histories
<1> QED BY <1>1, <1>2, <1>3, <1>4, SumsUnchanged
       DEF Inv, IInv, SharesAddUp, RamPaysItself, VotingStakeAddsUp, CustodyAddsUp

(* delegatebw and undelegatebw: bandwidth and stake move together, and the *)
(* SIKA that leaves the bandwidth is in a queue or on record as unqueued.  *)
LEMMA ChangeResourceLimitsInv ==
    ASSUME NEW from \in Users, NEW receiver \in Users, NEW net \in Int, NEW cpu \in Int,
           NEW symbol \in Symbols, NEW transfer \in BOOLEAN, Inv,
           ChangeResourceLimits(from, receiver, net, cpu, symbol, transfer)
    PROVE  Inv'
<1> DEFINE total == net + cpu
           owner == StakeOwner(from, receiver, transfer)
           queues == total < 0 /\ owner = receiver
           pays == total > 0 /\ symbol = SIKA
<1>1. owner \in Users /\ total \in Int BY DEF StakeOwner
<1>2. TypeOK BY DEF Inv, IInv
<1> HIDE DEF owner
<1>3. /\ resources' = [resources EXCEPT ![receiver] =
            [symbol |-> symbol, net |-> @.net + net, cpu |-> @.cpu + cpu, ram_bytes |-> @.ram_bytes]]
      /\ resources[receiver].net + net >= 0 /\ resources[receiver].cpu + cpu >= 0
      /\ voters' = [voters EXCEPT ![owner] = [exists |-> TRUE, staked |-> @.staked + total]]
      /\ pays => CanPay(from, total)
      /\ foreign' = IF total > 0 /\ ~pays THEN foreign + total ELSE foreign
      /\ balance' = IF pays THEN Paid(balance, from, "eosio", total) ELSE balance
      /\ refunds' = IF queues
                    THEN [refunds EXCEPT ![owner] = Queued(@, Lost(net), Lost(cpu))] ELSE refunds
      /\ rested' = IF queues THEN [rested EXCEPT ![owner] = 0] ELSE rested
      /\ unqueued' = unqueued + Lost(total) - (IF queues THEN Lost(net) + Lost(cpu) ELSE 0)
      /\ UNCHANGED <<pool, rexbalance, market, escrow, window, uncounted, savings>>
  BY DEF ChangeResourceLimits, owner
<1>4. Lost(net) \in Nat /\ Lost(cpu) \in Nat /\ Lost(total) \in Nat BY <1>1, LostType
<1>5. resources' \in [Users -> ResourceRow]
  <2>1. resources[receiver].net + net \in Nat /\ resources[receiver].cpu + cpu \in Nat
    BY <1>2, <1>3 DEF TypeOK, ResourceRow
  <2> DEFINE row == [symbol |-> symbol, net |-> resources[receiver].net + net, cpu |-> resources[receiver].cpu + cpu,
                     ram_bytes |-> resources[receiver].ram_bytes]
  <2>2. resources' = [resources EXCEPT ![receiver] = row] BY <1>3
  <2>3. row \in ResourceRow
    BY <1>2, <2>1 DEF TypeOK, ResourceRow
  <2> HIDE DEF row
  <2> QED BY <1>2, <2>2, <2>3 DEF TypeOK
<1>6. voters' \in [Users -> [exists : BOOLEAN, staked : Int]]
  BY <1>1, <1>2, <1>3 DEF TypeOK
<1>7. /\ refunds' \in [Users -> [pending : BOOLEAN, net : Nat, cpu : Nat, age : Nat]]
      /\ rested' \in [Users -> Nat]
  BY <1>1, <1>2, <1>3, <1>4 DEF TypeOK, Queued
<1>8. /\ balance' \in [Accounts -> Nat] /\ foreign' \in Nat
      /\ Held(balance') + foreign' = Held(balance) + foreign + total + Lost(total)
  <2>0. foreign \in Nat BY <1>2 DEF TypeOK
  <2> HIDE DEF total
  <2>1. CASE pays
    <3>1. total \in Nat /\ total <= balance[from] /\ total > 0 /\ foreign' = foreign
      BY <1>1, <1>3, <2>1 DEF CanPay
    <3>2. from \in Accounts /\ "eosio" \in Accounts /\ from # "eosio" /\ from # "sika.rex"
      BY Names
    <3>3. balance \in [Accounts -> Nat] BY <1>2 DEF TypeOK
    <3>4. balance' = Paid(balance, from, "eosio", total) BY <1>3, <2>1
    <3>5. /\ Paid(balance, from, "eosio", total) \in [Accounts -> Nat]
          /\ Paid(balance, from, "eosio", total)["eosio"] = balance["eosio"] + total
          /\ Paid(balance, from, "eosio", total)["sika.rex"] = balance["sika.rex"]
      <4>1. "sika.rex" \in Accounts \ {from, "eosio"} BY <3>2, Names
      <4> QED BY <3>1, <3>2, <3>3, <4>1, PaidFacts
    <3>6. Lost(total) = 0 BY <1>1, <3>1 DEF Lost
    <3>7. balance["eosio"] \in Nat /\ balance["sika.rex"] \in Nat BY <3>3, Names
    <3> QED BY <2>0, <3>1, <3>4, <3>5, <3>6, <3>7 DEF Held
  <2>2. CASE ~pays
    <3>1. balance' = balance /\ foreign' \in Nat /\ foreign' = foreign + total + Lost(total)
      BY <1>1, <1>3, <2>0, <2>2 DEF Lost
    <3>2. Held(balance) \in Int BY <1>2, Numbers
    <3>3. balance \in [Accounts -> Nat] BY <1>2 DEF TypeOK
    <3>4. Held(balance') = Held(balance) BY <3>1
    <3>5. Lost(total) \in Int BY <1>4
    <3> QED BY <1>1, <2>0, <3>1, <3>2, <3>3, <3>4, <3>5
  <2> QED BY <2>1, <2>2
<1>9. unqueued' \in Int BY <1>2, <1>3, <1>4 DEF TypeOK
<1>10. TypeOK' BY <1>2, <1>3, <1>5, <1>6, <1>7, <1>8, <1>9 DEF TypeOK
<1>11. RowsAgree'
  BY <1>1, <1>2, <1>3 DEF Inv, IInv, RowsAgree, TypeOK, Queued
<1>12. Total(InBandwidth)' = Total(InBandwidth) + total
  <2>1. InBandwidth'[receiver] = InBandwidth[receiver] + total
    BY <1>2, <1>3 DEF TypeOK, ResourceRow, InBandwidth
  <2>2. \A v \in Users \ {receiver} : InBandwidth'[v] = InBandwidth[v]
    BY <1>2, <1>3 DEF TypeOK, InBandwidth
  <2>3. InBandwidth \in [Users -> Int] /\ InBandwidth' \in [Users -> Int]
    BY <1>2, <1>5 DEF TypeOK, ResourceRow, InBandwidth
  <2> QED BY <1>1, <2>1, <2>2, <2>3, TotalAdds DEF Total
<1>13. Total(Staked)' = Total(Staked) + total
  <2>1. Staked'[owner] = Staked[owner] + total
    BY <1>1, <1>2, <1>3 DEF TypeOK, Staked
  <2>2. \A v \in Users \ {owner} : Staked'[v] = Staked[v]
    BY <1>1, <1>2, <1>3 DEF TypeOK, Staked
  <2>3. Staked \in [Users -> Int] /\ Staked' \in [Users -> Int]
    BY <1>2, <1>6 DEF TypeOK, Staked
  <2> QED BY <1>1, <2>1, <2>2, <2>3, TotalAdds DEF Total
<1>14. Total(InQueue)' + unqueued' = Total(InQueue) + unqueued + Lost(total)
  <2>1. CASE queues
    <3>1. InQueue'[owner] = InQueue[owner] + (Lost(net) + Lost(cpu))
      BY <1>1, <1>2, <1>3, <1>4, <2>1 DEF TypeOK, InQueue, Queued
    <3>2. \A v \in Users \ {owner} : InQueue'[v] = InQueue[v]
      BY <1>1, <1>2, <1>3, <2>1 DEF TypeOK, InQueue
    <3>3. InQueue \in [Users -> Int] /\ InQueue' \in [Users -> Int]
      BY <1>2, <1>7 DEF TypeOK, InQueue
    <3>4. Total(InQueue)' = Total(InQueue) + (Lost(net) + Lost(cpu)) /\ Total(InQueue) \in Int
      BY <1>1, <1>4, <3>1, <3>2, <3>3, TotalAdds DEF Total
    <3>5. unqueued' = unqueued + Lost(total) - (Lost(net) + Lost(cpu)) BY <1>3, <2>1
    <3> QED BY <1>2, <1>4, <3>4, <3>5 DEF TypeOK
  <2>2. CASE ~queues
    <3>1. UNCHANGED refunds /\ unqueued' = unqueued + Lost(total)
      BY <1>2, <1>3, <1>4, <2>2 DEF TypeOK
    <3>2. Total(InQueue) \in Int BY <1>2, SumTypes
    <3>3. Total(InQueue)' = Total(InQueue) BY <3>1, SumsUnchanged
    <3> QED BY <1>2, <1>4, <3>1, <3>2, <3>3 DEF TypeOK
  <2> QED BY <2>1, <2>2
<1>15. Total(RamBytes)' = Total(RamBytes)
  <2>1. \A v \in Users : RamBytes'[v] = RamBytes[v]
    BY <1>2, <1>3 DEF TypeOK, ResourceRow, RamBytes
  <2> QED BY <2>1, TotalSame DEF Total
<1>16. UNCHANGED <<pool, rexbalance, market, escrow, uncounted, savings>> BY <1>3
<1>17. SharesAddUp' BY <1>16, SumsUnchanged DEF Inv, IInv, SharesAddUp
<1>18. RamPaysItself' BY <1>15, <1>16 DEF Inv, IInv, RamPaysItself
<1>19. VotingStakeAddsUp'
  <2>1. Total(VoteStake)' = Total(VoteStake) /\ uncounted' = uncounted BY <1>16, SumsUnchanged
  <2>2. /\ Total(VoteStake) \in Int /\ Total(Staked) \in Int /\ Total(InBandwidth) \in Int
        /\ uncounted \in Int
    BY <1>2, SumTypes, Numbers
  <2> QED BY <1>1, <1>12, <1>13, <2>1, <2>2 DEF Inv, VotingStakeAddsUp
<1>20. CustodyAddsUp'
  <2>1. /\ Held(balance) + foreign = Total(InBandwidth) + pool.lendable + Total(InQueue)
                             + (market.quote - Quote) + escrow + savings + unqueued
        /\ {pool.lendable, market.quote, Quote, escrow, savings, unqueued, foreign,
             Held(balance)} \subseteq Int
    BY <1>2, Numbers DEF Inv, CustodyAddsUp, Held
  <2>2. /\ Total(InQueue) \in Int /\ Total(InQueue)' \in Int /\ Total(InBandwidth) \in Int
        /\ unqueued' \in Int /\ foreign' \in Int /\ Held(balance') \in Int
    BY <1>2, <1>9, NumbersNext, <1>10, SumTypes, SumTypesNext
  <2>3. /\ pool'.lendable = pool.lendable /\ market'.quote = market.quote
        /\ escrow' = escrow /\ savings' = savings
    BY <1>16
  <2> HIDE DEF total
  <2>4. Held(balance') + foreign' = Total(InBandwidth)' + pool'.lendable + Total(InQueue)'
                            + (market'.quote - Quote) + escrow' + savings' + unqueued'
    <3>1. Held(balance') + foreign' = Held(balance) + foreign + total + Lost(total) /\ Lost(total) \in Int
      BY <1>4, <1>8
    <3>2. /\ Total(InBandwidth)' = Total(InBandwidth) + total
          /\ Total(InQueue)' + unqueued' = Total(InQueue) + unqueued + Lost(total)
          /\ total \in Int
      BY <1>1, <1>12, <1>14 DEF total
    <3> QED BY <2>1, <2>2, <2>3, <3>1, <3>2, StakingAssumption
  <2> QED BY <2>4 DEF CustodyAddsUp, Held
<1> QED BY <1>10, <1>11, <1>17, <1>18, <1>19, <1>20 DEF Inv, IInv

-----------------------------------------------------------------------------
(* Parts that several handlers share: a transfer into or out of custody,   *)
(* the recount of a stake and the credit of REX shares.                    *)
Custodians == {"eosio", "sika.rex"}
Inflow(to, amount) == IF to \in Custodians THEN amount ELSE 0

LEMMA Transfer ==
    ASSUME NEW b \in [Accounts -> Nat], NEW from \in Accounts, NEW to \in Accounts, from # to,
           NEW amount \in Nat, amount <= b[from]
    PROVE  /\ Paid(b, from, to, amount) \in [Accounts -> Nat]
           /\ Held(Paid(b, from, to, amount)) = Held(b) + Inflow(to, amount) - Inflow(from, amount)
<1> DEFINE c == Paid(b, from, to, amount)
<1>1. /\ c \in [Accounts -> Nat] /\ c[from] = b[from] - amount /\ c[to] = b[to] + amount
      /\ \A a \in Accounts \ {from, to} : c[a] = b[a]
  BY PaidFacts
<1> HIDE DEF c
<1>2. b["eosio"] \in Nat /\ b["sika.rex"] \in Nat /\ "eosio" \in Accounts /\ "sika.rex" \in Accounts
  BY Names
<1>3. CASE from \in Custodians /\ to \in Custodians
  <2>1. Held(c) = Held(b) BY <1>1, <1>2, <1>3, Names DEF Held, Custodians
  <2> QED BY <1>1, <1>2, <1>3, <2>1 DEF Held, Inflow, c
<1>4. CASE from \in Custodians /\ to \notin Custodians
  <2>1. Held(c) = Held(b) - amount BY <1>1, <1>2, <1>4, Names DEF Held, Custodians
  <2> QED BY <1>1, <1>2, <1>4, <2>1 DEF Held, Inflow, c
<1>5. CASE from \notin Custodians /\ to \in Custodians
  <2>1. Held(c) = Held(b) + amount BY <1>1, <1>2, <1>5, Names DEF Held, Custodians
  <2> QED BY <1>1, <1>2, <1>5, <2>1 DEF Held, Inflow, c
<1>6. CASE from \notin Custodians /\ to \notin Custodians
  <2>1. Held(c) = Held(b) BY <1>1, <1>2, <1>6, Names DEF Held, Custodians
  <2> QED BY <1>1, <1>2, <1>6, <2>1 DEF Held, Inflow, c
<1> QED BY <1>3, <1>4, <1>5, <1>6

LEMMA UsersKeepNoCustody ==
    \A u \in Users : u \in Accounts /\ u \notin Custodians /\ u # "sika.burn"
BY Names DEF Custodians

LEMMA RecountFacts ==
    ASSUME TypeOK, NEW u \in Users, NEW d \in Int, Recount(u, d)
    PROVE  /\ voters' \in [Users -> [exists : BOOLEAN, staked : Int]]
           /\ uncounted' \in Int
           /\ Total(Staked)' + uncounted' = Total(Staked) + uncounted + d
<1>1. Total(Staked) \in Int /\ uncounted \in Int BY SumTypes, Numbers
<1>2. CASE voters[u].exists
  <2>1. voters' = [voters EXCEPT ![u].staked = @ + d] /\ uncounted' = uncounted
    BY <1>2 DEF Recount
  <2>2. voters' \in [Users -> [exists : BOOLEAN, staked : Int]]
    <3>1. voters \in [Users -> [exists : BOOLEAN, staked : Int]] BY DEF TypeOK
    <3>2. voters[u].staked + d \in Int BY <3>1
    <3> QED BY <2>1, <3>1, <3>2
  <2>3. Staked'[u] = Staked[u] + d /\ \A v \in Users \ {u} : Staked'[v] = Staked[v]
    BY <2>1 DEF TypeOK, Staked
  <2>4. Staked \in [Users -> Int] /\ Staked' \in [Users -> Int]
    BY <2>2 DEF TypeOK, Staked
  <2>5. Total(Staked)' = Total(Staked) + d BY <2>3, <2>4, TotalAdds DEF Total
  <2> QED BY <1>1, <2>1, <2>2, <2>5
<1>3. CASE ~voters[u].exists
  <2>1. voters' = voters /\ uncounted' = uncounted + d BY <1>3 DEF Recount
  <2>2. Total(Staked)' = Total(Staked) BY <2>1, SumsUnchanged
  <2>3. voters' \in [Users -> [exists : BOOLEAN, staked : Int]] BY <2>1 DEF TypeOK
  <2> QED BY <1>1, <2>1, <2>2, <2>3
<1> QED BY <1>2, <1>3

(* A change of one REX row, by stake and by shares.                        *)
LEMMA RexRowFacts ==
    ASSUME TypeOK, NEW u \in Users, NEW stake \in Int, NEW shares \in Int,
           rexbalance[u].rex + shares >= 0,
           rexbalance' = [rexbalance EXCEPT ![u] =
              [vote_stake |-> @.vote_stake + stake, rex |-> @.rex + shares]]
    PROVE  /\ rexbalance' \in [Users -> [vote_stake : Int, rex : Nat]]
           /\ Total(VoteStake)' = Total(VoteStake) + stake
           /\ Total(RexShares)' = Total(RexShares) + shares
<1>1. rexbalance[u].rex + shares \in Nat /\ rexbalance[u].vote_stake + stake \in Int
  BY DEF TypeOK
<1>2. rexbalance' \in [Users -> [vote_stake : Int, rex : Nat]]
  BY <1>1 DEF TypeOK
<1>3. Total(VoteStake)' = Total(VoteStake) + stake
  <2>1. VoteStake'[u] = VoteStake[u] + stake /\ \A v \in Users \ {u} : VoteStake'[v] = VoteStake[v]
    BY DEF TypeOK, VoteStake
  <2>2. VoteStake \in [Users -> Int] /\ VoteStake' \in [Users -> Int]
    BY <1>2 DEF TypeOK, VoteStake
  <2> QED BY <2>1, <2>2, TotalAdds DEF Total
<1>4. Total(RexShares)' = Total(RexShares) + shares
  <2>1. RexShares'[u] = RexShares[u] + shares /\ \A v \in Users \ {u} : RexShares'[v] = RexShares[v]
    BY DEF TypeOK, RexShares
  <2>2. RexShares \in [Users -> Int] /\ RexShares' \in [Users -> Int]
    BY <1>2 DEF TypeOK, RexShares
  <2> QED BY <2>1, <2>2, TotalAdds DEF Total
<1> QED BY <1>2, <1>3, <1>4

LEMMA ApplyRexStakeFacts ==
    ASSUME IInv, NEW u \in Users, NEW amount \in Nat, ApplyRexStake(u, amount)
    PROVE  /\ voters' \in [Users -> [exists : BOOLEAN, staked : Int]]
           /\ uncounted' \in Int
           /\ pool' \in [unlent : Nat, lendable : Nat, rex : Nat]
           /\ rexbalance' \in [Users -> [vote_stake : Int, rex : Nat]]
           /\ Total(Staked)' + uncounted' = Total(Staked) + uncounted + amount
           /\ Total(VoteStake)' = Total(VoteStake) + amount
           /\ pool'.lendable = pool.lendable + amount
           /\ SharesAddUp'
<1> DEFINE n == Shares(amount)
<1>1. TypeOK /\ SharesAddUp BY DEF IInv
<1>2. n \in 0..amount BY SharesFacts
<1>3. /\ pool' = [unlent |-> pool.unlent + amount, lendable |-> pool.lendable + amount,
                  rex |-> pool.rex + n]
      /\ rexbalance' = [rexbalance EXCEPT ![u] =
            [vote_stake |-> @.vote_stake + amount, rex |-> @.rex + n]]
      /\ Recount(u, amount)
  BY DEF ApplyRexStake
<1> HIDE DEF n
<1>4. pool' \in [unlent : Nat, lendable : Nat, rex : Nat] BY <1>1, <1>2, <1>3 DEF TypeOK
<1>5. /\ voters' \in [Users -> [exists : BOOLEAN, staked : Int]]
      /\ uncounted' \in Int
      /\ Total(Staked)' + uncounted' = Total(Staked) + uncounted + amount
  BY <1>1, <1>3, RecountFacts
<1>6. /\ rexbalance' \in [Users -> [vote_stake : Int, rex : Nat]]
      /\ Total(VoteStake)' = Total(VoteStake) + amount
      /\ Total(RexShares)' = Total(RexShares) + n
  <2>1. rexbalance[u].rex + n >= 0 /\ n \in Int /\ amount \in Int BY <1>1, <1>2 DEF TypeOK
  <2> QED BY <1>1, <1>3, <2>1, RexRowFacts
<1>7. SharesAddUp'
  <2>1. pool.rex \in Nat /\ pool.lendable \in Nat BY <1>1 DEF TypeOK
  <2> QED BY <1>1, <1>2, <1>3, <1>6, <2>1 DEF SharesAddUp
<1> QED BY <1>3, <1>4, <1>5, <1>6, <1>7

(* A refund row that takes more SIKA.                                      *)
LEMMA QueuedFacts ==
    ASSUME TypeOK, RowsAgree, NEW u \in Users, NEW net \in Nat, NEW cpu \in Nat,
           refunds' = [refunds EXCEPT ![u] = Queued(@, net, cpu)],
           rested' = [rested EXCEPT ![u] = 0]
    PROVE  /\ refunds' \in [Users -> [pending : BOOLEAN, net : Nat, cpu : Nat, age : Nat]]
           /\ rested' \in [Users -> Nat]
           /\ RowsAgree'
           /\ Total(InQueue)' = Total(InQueue) + (net + cpu)
<1>1. refunds' \in [Users -> [pending : BOOLEAN, net : Nat, cpu : Nat, age : Nat]]
  BY DEF TypeOK, Queued
<1>2. InQueue'[u] = InQueue[u] + (net + cpu) /\ \A v \in Users \ {u} : InQueue'[v] = InQueue[v]
  BY DEF TypeOK, InQueue, Queued
<1>3. InQueue \in [Users -> Int] /\ InQueue' \in [Users -> Int]
  BY <1>1 DEF TypeOK, InQueue
<1>4. Total(InQueue)' = Total(InQueue) + (net + cpu) BY <1>2, <1>3, TotalAdds DEF Total
<1>5. rested' \in [Users -> Nat] /\ RowsAgree' BY DEF TypeOK, RowsAgree, Queued
<1> QED BY <1>1, <1>4, <1>5

(* What is left of an action's proof once its tables are accounted for:    *)
(* the changes of the two sums balance.                                    *)
LEMMA StakeBalance ==
    ASSUME Inv, TypeOK',
           (Total(Staked)' + uncounted') - (Total(Staked) + uncounted)
              = (Total(InBandwidth)' - Total(InBandwidth)) + (Total(VoteStake)' - Total(VoteStake))
    PROVE  VotingStakeAddsUp'
<1>1. /\ Total(Staked) \in Int /\ Total(VoteStake) \in Int /\ Total(InBandwidth) \in Int
      /\ Total(Staked)' \in Int /\ Total(VoteStake)' \in Int /\ Total(InBandwidth)' \in Int
  BY SumTypes, SumTypesNext DEF Inv, IInv
<1>2. uncounted \in Int /\ uncounted' \in Int BY DEF Inv, IInv, TypeOK
<1>3. Total(Staked) + uncounted = Total(InBandwidth) + Total(VoteStake)
  BY DEF Inv, VotingStakeAddsUp
<1> DEFINE left == Total(Staked) + uncounted
           right == Total(InBandwidth) + Total(VoteStake)
<1>4. /\ left \in Int /\ right \in Int /\ left = right
      /\ left' \in Int /\ right' \in Int /\ left' - left = right' - right
  BY <1>1, <1>2, <1>3
<1>5. left' = right'
  <2> HIDE DEF left, right
  <2> QED BY <1>4
<1> QED BY <1>5 DEF VotingStakeAddsUp

LEMMA CustodyBalance ==
    ASSUME Inv, TypeOK',
           Held(balance') - Held(balance)
              = (Total(InBandwidth)' - Total(InBandwidth)) + (pool'.lendable - pool.lendable)
                   + (Total(InQueue)' - Total(InQueue)) + (market'.quote - market.quote)
                   + (escrow' - escrow) + (savings' - savings) + (unqueued' - unqueued),
           foreign' = foreign
    PROVE  CustodyAddsUp'
<1>1. /\ Total(InBandwidth) \in Int /\ Total(InBandwidth)' \in Int
      /\ Total(InQueue) \in Int /\ Total(InQueue)' \in Int
  BY SumTypes, SumTypesNext DEF Inv, IInv
<1>2. /\ {pool.lendable, market.quote, Quote, escrow, savings, unqueued, foreign, Held(balance)} \subseteq Int
      /\ {pool'.lendable, market'.quote, escrow', savings', unqueued', foreign', Held(balance')} \subseteq Int
  BY Numbers, NumbersNext DEF Inv, IInv
<1>3. Held(balance) + foreign = Total(InBandwidth) + pool.lendable + Total(InQueue)
                         + (market.quote - Quote) + escrow + savings + unqueued
  BY DEF Inv, CustodyAddsUp, Held
<1>4. Held(balance') + foreign' = Total(InBandwidth)' + pool'.lendable + Total(InQueue)'
                          + (market'.quote - Quote) + escrow' + savings' + unqueued'
  <2> DEFINE owed == Total(InBandwidth) + pool.lendable + Total(InQueue)
                         + (market.quote - Quote) + escrow + savings + unqueued
             owes == Total(InBandwidth)' + pool'.lendable + Total(InQueue)'
                         + (market'.quote - Quote) + escrow' + savings' + unqueued'
             held == Held(balance)
             holds == Held(balance')
  <2>1. {owed, owes, held, holds, foreign} \subseteq Int BY <1>1, <1>2
  <2>2. holds - held = owes - owed BY <1>1, <1>2
  <2>3. held + foreign = owed BY <1>3
  <2> HIDE DEF owed, owes, held, holds
  <2>4. holds + foreign' = owes BY <2>1, <2>2, <2>3
  <2> QED BY <2>4 DEF owes, holds
<1> QED BY <1>4 DEF CustodyAddsUp, Held

LEMMA RefundInv == \A u \in Users : Inv /\ Refund(u) => Inv'
<1>1. SUFFICES ASSUME NEW u \in Users, Inv, Refund(u) PROVE Inv' OBVIOUS
<1> DEFINE amount == refunds[u].net + refunds[u].cpu
<1>2. TypeOK BY <1>1 DEF Inv, IInv
<1>3. amount \in Nat /\ amount <= balance["eosio"]
  BY <1>1, <1>2 DEF TypeOK, Refund, CanPay
<1>4. /\ balance' = Paid(balance, "eosio", u, amount)
      /\ refunds' = [refunds EXCEPT ![u] = NoRefund] /\ rested' = [rested EXCEPT ![u] = 0]
      /\ UNCHANGED <<voters, resources, pool, rexbalance, market, escrow, window, uncounted,
                     savings, unqueued, foreign>>
  BY <1>1 DEF Refund
<1>5. balance' \in [Accounts -> Nat] /\ Held(balance') = Held(balance) - amount
  <2>1. balance \in [Accounts -> Nat] /\ Held(balance) \in Int BY <1>2, Numbers DEF TypeOK
  <2>2. u \in Accounts /\ u \notin Custodians /\ "eosio" \in Accounts /\ "eosio" \in Custodians
    BY Names, UsersKeepNoCustody DEF Custodians
  <2>3. Inflow(u, amount) = 0 /\ Inflow("eosio", amount) = amount BY <2>2 DEF Inflow
  <2> HIDE DEF amount
  <2>4. /\ Paid(balance, "eosio", u, amount) \in [Accounts -> Nat]
        /\ Held(Paid(balance, "eosio", u, amount))
              = Held(balance) + Inflow(u, amount) - Inflow("eosio", amount)
    BY <1>3, <2>1, <2>2, Transfer
  <2> QED BY <1>3, <1>4, <2>1, <2>3, <2>4
<1>6. /\ refunds' \in [Users -> [pending : BOOLEAN, net : Nat, cpu : Nat, age : Nat]]
      /\ rested' \in [Users -> Nat]
  BY <1>2, <1>4 DEF TypeOK, NoRefund
<1>7. TypeOK' BY <1>2, <1>4, <1>5, <1>6 DEF TypeOK
<1>8. RowsAgree' BY <1>1, <1>2, <1>4 DEF Inv, IInv, RowsAgree, TypeOK, NoRefund
<1>9. Total(InQueue)' = Total(InQueue) - amount /\ Total(InQueue) \in Int
  <2>1. InQueue'[u] = InQueue[u] + (-amount) BY <1>2, <1>4 DEF TypeOK, InQueue, NoRefund
  <2>2. \A v \in Users \ {u} : InQueue'[v] = InQueue[v] BY <1>2, <1>4 DEF TypeOK, InQueue
  <2>3. InQueue \in [Users -> Int] /\ InQueue' \in [Users -> Int]
    BY <1>2, <1>6 DEF TypeOK, InQueue
  <2> HIDE DEF amount
  <2>4. Total(InQueue)' = Total(InQueue) + (-amount) /\ Total(InQueue) \in Int
    BY <1>3, <2>1, <2>2, <2>3, TotalAdds DEF Total
  <2> QED BY <1>3, <2>4
<1>10. /\ Total(Staked)' = Total(Staked) /\ Total(InBandwidth)' = Total(InBandwidth)
       /\ Total(VoteStake)' = Total(VoteStake)
  BY <1>4, SumsUnchanged
<1>11. SharesAddUp' /\ RamPaysItself'
  BY <1>1, <1>4, SumsUnchanged DEF Inv, IInv, SharesAddUp, RamPaysItself
<1>12. VotingStakeAddsUp'
  <2>1. /\ Total(Staked) \in Int /\ Total(InBandwidth) \in Int /\ Total(VoteStake) \in Int
        /\ uncounted \in Int
    BY <1>2, SumTypes, Numbers
  <2>2. uncounted' = uncounted BY <1>4
  <2> QED BY <1>1, <1>7, <1>10, <2>1, <2>2, StakeBalance
<1>13. CustodyAddsUp'
  <2>1. Total(InBandwidth) \in Int /\ Held(balance) \in Int BY <1>2, SumTypes, Numbers
  <2>2. {pool.lendable, market.quote, escrow, savings, unqueued} \subseteq Int BY <1>2, Numbers
  <2>3. /\ pool'.lendable = pool.lendable /\ market'.quote = market.quote
        /\ escrow' = escrow /\ savings' = savings /\ unqueued' = unqueued /\ foreign' = foreign
    BY <1>4
  <2> HIDE DEF amount
  <2> QED BY <1>1, <1>3, <1>5, <1>7, <1>9, <1>10, <2>1, <2>2, <2>3, CustodyBalance
<1> QED BY <1>7, <1>8, <1>11, <1>12, <1>13 DEF Inv, IInv

(* deposit and withdraw move SIKA between a user and sika.rex.             *)
LEMMA SavingsInv ==
    ASSUME NEW u \in Users, NEW from \in Accounts, NEW to \in Accounts, from # to,
           NEW amount \in Nat, amount <= balance[from], NEW d \in Int,
           d = Inflow(to, amount) - Inflow(from, amount),
           Inv, balance' = Paid(balance, from, to, amount), savings' = savings + d,
           UNCHANGED <<voters, resources, refunds, pool, rexbalance, market, escrow, window,
                       uncounted, unqueued, foreign, rested>>
    PROVE  Inv'
<1>1. TypeOK BY DEF Inv, IInv
<1>2. balance' \in [Accounts -> Nat] /\ Held(balance') = Held(balance) + d
  <2>1. balance \in [Accounts -> Nat] /\ Held(balance) \in Int BY <1>1, Numbers DEF TypeOK
  <2>2. /\ Paid(balance, from, to, amount) \in [Accounts -> Nat]
        /\ Held(Paid(balance, from, to, amount))
              = Held(balance) + Inflow(to, amount) - Inflow(from, amount)
    BY <2>1, Transfer
  <2>3. Inflow(to, amount) \in Int /\ Inflow(from, amount) \in Int BY DEF Inflow
  <2> QED BY <2>1, <2>2, <2>3
<1>3. TypeOK' BY <1>1, <1>2 DEF TypeOK
<1>4. SharesAddUp' /\ RamPaysItself' /\ RowsAgree'
  BY SumsUnchanged DEF Inv, IInv, SharesAddUp, RamPaysItself, RowsAgree
<1>5. VotingStakeAddsUp' BY SumsUnchanged DEF Inv, VotingStakeAddsUp
<1>6. CustodyAddsUp'
  <2>1. /\ Total(InBandwidth)' = Total(InBandwidth) /\ Total(InQueue)' = Total(InQueue)
        /\ Total(InBandwidth) \in Int /\ Total(InQueue) \in Int /\ Held(balance) \in Int
    BY <1>1, SumsUnchanged, SumTypes, Numbers
  <2>2. {pool.lendable, market.quote, escrow, savings, unqueued} \subseteq Int BY <1>1, Numbers
  <2>3. /\ pool'.lendable = pool.lendable /\ market'.quote = market.quote
        /\ escrow' = escrow /\ unqueued' = unqueued /\ foreign' = foreign
    OBVIOUS
  <2> QED BY <1>2, <1>3, <2>1, <2>2, <2>3, CustodyBalance
<1> QED BY <1>3, <1>4, <1>5, <1>6 DEF Inv, IInv

LEMMA DepositInv ==
    \A u \in Users, amount \in Amounts : Inv /\ Deposit(u, amount) => Inv'
<1>1. SUFFICES ASSUME NEW u \in Users, NEW amount \in Amounts, Inv, Deposit(u, amount) PROVE Inv'
  OBVIOUS
<1>2. amount \in Nat BY StakingAssumption
<1>3. u \in Accounts /\ "sika.rex" \in Accounts /\ u # "sika.rex"
  BY Names
<1>4. amount = Inflow("sika.rex", amount) - Inflow(u, amount)
  BY <1>2, UsersKeepNoCustody DEF Inflow, Custodians
<1>5. /\ amount <= balance[u] /\ balance' = Paid(balance, u, "sika.rex", amount)
      /\ savings' = savings + amount
      /\ UNCHANGED <<voters, resources, refunds, pool, rexbalance, market, escrow, window,
                     uncounted, unqueued, foreign, rested>>
  <2>1. TypeOK BY <1>1 DEF Inv, IInv
  <2> QED BY <1>1, <1>2, <1>3, <2>1 DEF Deposit, CanPay, TypeOK
<1> QED BY <1>1, <1>2, <1>3, <1>4, <1>5, SavingsInv

LEMMA WithdrawInv ==
    \A u \in Users, amount \in Amounts : Inv /\ Withdraw(u, amount) => Inv'
<1>1. SUFFICES ASSUME NEW u \in Users, NEW amount \in Amounts, Inv, Withdraw(u, amount) PROVE Inv'
  OBVIOUS
<1>2. amount \in Nat /\ -amount \in Int BY StakingAssumption
<1>3. u \in Accounts /\ "sika.rex" \in Accounts /\ u # "sika.rex"
  BY Names
<1>4. -amount = Inflow(u, amount) - Inflow("sika.rex", amount)
  BY <1>2, UsersKeepNoCustody DEF Inflow, Custodians
<1>5. /\ amount <= balance["sika.rex"] /\ balance' = Paid(balance, "sika.rex", u, amount)
      /\ savings' = savings + (-amount)
      /\ UNCHANGED <<voters, resources, refunds, pool, rexbalance, market, escrow, window,
                     uncounted, unqueued, foreign, rested>>
  <2>1. TypeOK BY <1>1 DEF Inv, IInv
  <2> QED BY <1>1, <1>2, <1>3, <2>1 DEF Withdraw, CanPay, TypeOK
<1> QED BY <1>1, <1>2, <1>3, <1>4, <1>5, SavingsInv

-----------------------------------------------------------------------------
(* A purchase of shares with SIKA from a user or from the vesting escrow.  *)
LEMMA CreditInv ==
    ASSUME Inv, NEW u \in Users, NEW from \in Accounts, from # "sika.rex",
           NEW amount \in Nat, amount <= balance[from],
           balance' = Paid(balance, from, "sika.rex", amount),
           escrow' = escrow - Inflow(from, amount), escrow' \in Nat,
           ApplyRexStake(u, amount),
           UNCHANGED <<resources, refunds, market, window, savings, unqueued, foreign, rested>>
    PROVE  Inv'
<1>1. TypeOK /\ IInv BY DEF Inv, IInv
<1>2. /\ voters' \in [Users -> [exists : BOOLEAN, staked : Int]]
      /\ uncounted' \in Int
      /\ pool' \in [unlent : Nat, lendable : Nat, rex : Nat]
      /\ rexbalance' \in [Users -> [vote_stake : Int, rex : Nat]]
      /\ Total(Staked)' + uncounted' = Total(Staked) + uncounted + amount
      /\ Total(VoteStake)' = Total(VoteStake) + amount
      /\ pool'.lendable = pool.lendable + amount
      /\ SharesAddUp'
  BY <1>1, ApplyRexStakeFacts
<1>3. /\ balance' \in [Accounts -> Nat]
      /\ Held(balance') = Held(balance) + amount - Inflow(from, amount)
  <2>1. balance \in [Accounts -> Nat] BY <1>1 DEF TypeOK
  <2>2. "sika.rex" \in Accounts /\ Inflow("sika.rex", amount) = amount
    BY Names DEF Inflow, Custodians
  <2> QED BY <2>1, <2>2, Transfer
<1>4. TypeOK' BY <1>1, <1>2, <1>3 DEF TypeOK
<1>5. RamPaysItself' /\ RowsAgree'
  BY SumsUnchanged DEF Inv, IInv, RamPaysItself, RowsAgree
<1>6. /\ Total(InBandwidth)' = Total(InBandwidth) /\ Total(InQueue)' = Total(InQueue)
      /\ Total(InBandwidth) \in Int /\ Total(InQueue) \in Int /\ Total(Staked) \in Int
      /\ Total(VoteStake) \in Int /\ Total(Staked)' \in Int
  BY <1>1, <1>4, SumsUnchanged, SumTypes, SumTypesNext
<1>7. {pool.lendable, market.quote, escrow, savings, unqueued, uncounted, Held(balance)} \subseteq Int
  BY <1>1, Numbers
<1>8. VotingStakeAddsUp' BY <1>2, <1>4, <1>6, <1>7, StakeBalance
<1>9. CustodyAddsUp'
  <2>1. Inflow(from, amount) \in Int BY DEF Inflow
  <2>2. market'.quote = market.quote /\ savings' = savings /\ unqueued' = unqueued
      /\ foreign' = foreign
    OBVIOUS
  <2> QED BY <1>2, <1>3, <1>4, <1>6, <1>7, <2>1, <2>2, CustodyBalance
<1> QED BY <1>2, <1>4, <1>5, <1>8, <1>9 DEF Inv, IInv

LEMMA BuyRexInv ==
    \A u \in Users, amount \in Amounts : Inv /\ BuyRex(u, amount) => Inv'
<1>1. SUFFICES ASSUME NEW u \in Users, NEW amount \in Amounts, Inv, BuyRex(u, amount) PROVE Inv'
  OBVIOUS
<1>2. amount \in Nat BY StakingAssumption
<1>3. u \in Accounts /\ u # "sika.rex" BY Names
<1>4. TypeOK BY <1>1 DEF Inv, IInv
<1>5. Inflow(u, amount) = 0 BY UsersKeepNoCustody DEF Inflow
<1>6. /\ amount <= balance[u] /\ balance' = Paid(balance, u, "sika.rex", amount)
      /\ escrow' = escrow - Inflow(u, amount) /\ escrow' \in Nat /\ ApplyRexStake(u, amount)
      /\ UNCHANGED <<resources, refunds, market, window, savings, unqueued, foreign, rested>>
  BY <1>1, <1>2, <1>3, <1>4, <1>5 DEF BuyRex, CanPay, TypeOK
<1> QED BY <1>1, <1>2, <1>3, <1>6, CreditInv

LEMMA ClaimVestInv ==
    \A u \in Users, amount \in Amounts : Inv /\ ClaimVest(u, amount) => Inv'
<1>1. SUFFICES ASSUME NEW u \in Users, NEW amount \in Amounts, Inv, ClaimVest(u, amount)
               PROVE Inv'
  OBVIOUS
<1>2. amount \in Nat BY StakingAssumption
<1>3. "eosio" \in Accounts /\ "eosio" # "sika.rex" BY Names
<1>4. TypeOK BY <1>1 DEF Inv, IInv
<1>5. Inflow("eosio", amount) = amount BY DEF Inflow, Custodians
<1>6. /\ amount <= balance["eosio"] /\ balance' = Paid(balance, "eosio", "sika.rex", amount)
      /\ escrow' = escrow - Inflow("eosio", amount) /\ escrow' \in Nat /\ ApplyRexStake(u, amount)
      /\ UNCHANGED <<resources, refunds, market, window, savings, unqueued, foreign, rested>>
  BY <1>1, <1>2, <1>3, <1>4, <1>5 DEF ClaimVest, CanPay, TypeOK
<1> QED BY <1>1, <1>2, <1>3, <1>6, CreditInv

(* sellrex: what the pool owes moves to the seller's refund.               *)
LEMMA SellRexInv ==
    \A u \in Users, r \in Amounts : Inv /\ SellRex(u, r) => Inv'
<1>1. SUFFICES ASSUME NEW u \in Users, NEW r \in Amounts, Inv, SellRex(u, r) PROVE Inv'
  OBVIOUS
<1> DEFINE owed == (r * pool.lendable) \div pool.rex
<1>2. TypeOK /\ RowsAgree /\ SharesAddUp /\ IInv BY <1>1 DEF Inv, IInv
<1>3. r \in Nat \ {0} /\ r <= rexbalance[u].rex
  BY <1>1, <1>2, StakingAssumption DEF SellRex, TypeOK
<1>4. owed \in 0..pool.lendable /\ r <= pool.rex /\ pool.rex - r <= pool.lendable - owed
  BY <1>2, <1>3, OwedFacts
<1>5. /\ pool' = [unlent |-> pool.unlent - owed, lendable |-> pool.lendable - owed,
                  rex |-> pool.rex - r]
      /\ rexbalance' = [rexbalance EXCEPT ![u] =
            [vote_stake |-> @.vote_stake - owed, rex |-> @.rex - r]]
      /\ Recount(u, -owed)
      /\ refunds' = [refunds EXCEPT ![u] = Queued(@, 0, owed)]
      /\ rested' = [rested EXCEPT ![u] = 0]
      /\ UNCHANGED <<resources, market, balance, escrow, window, savings, unqueued, foreign>>
  BY <1>1 DEF SellRex
<1> HIDE DEF owed
<1>6. owed \in Nat /\ -owed \in Int /\ -r \in Int BY <1>2, <1>3, <1>4 DEF TypeOK
<1>7. pool' \in [unlent : Nat, lendable : Nat, rex : Nat] /\ pool'.lendable = pool.lendable - owed
  BY <1>2, <1>3, <1>4, <1>5 DEF TypeOK, SharesAddUp
<1>8. /\ rexbalance' \in [Users -> [vote_stake : Int, rex : Nat]]
      /\ Total(VoteStake)' = Total(VoteStake) + (-owed)
      /\ Total(RexShares)' = Total(RexShares) + (-r)
  <2>1. rexbalance[u].rex + (-r) >= 0 BY <1>2, <1>3 DEF TypeOK
  <2>2. rexbalance' = [rexbalance EXCEPT ![u] =
            [vote_stake |-> @.vote_stake + (-owed), rex |-> @.rex + (-r)]]
    <3>1. /\ rexbalance[u].vote_stake - owed = rexbalance[u].vote_stake + (-owed)
          /\ rexbalance[u].rex - r = rexbalance[u].rex + (-r)
      BY <1>2, <1>3, <1>6 DEF TypeOK
    <3> QED BY <1>5, <3>1
  <2> QED BY <1>2, <1>6, <2>1, <2>2, RexRowFacts
<1>9. /\ voters' \in [Users -> [exists : BOOLEAN, staked : Int]]
      /\ uncounted' \in Int
      /\ Total(Staked)' + uncounted' = Total(Staked) + uncounted + (-owed)
  BY <1>2, <1>5, <1>6, RecountFacts
<1>10. /\ refunds' \in [Users -> [pending : BOOLEAN, net : Nat, cpu : Nat, age : Nat]]
       /\ rested' \in [Users -> Nat]
       /\ RowsAgree'
       /\ Total(InQueue)' = Total(InQueue) + (0 + owed)
  BY <1>2, <1>5, <1>6, QueuedFacts
<1>11. TypeOK' BY <1>2, <1>5, <1>7, <1>8, <1>9, <1>10 DEF TypeOK
<1>12. SharesAddUp'
  BY <1>2, <1>3, <1>4, <1>5, <1>6, <1>8 DEF SharesAddUp, TypeOK
<1>13. RamPaysItself' BY <1>2, <1>5, SumsUnchanged DEF IInv, RamPaysItself
<1>14. /\ Total(InBandwidth)' = Total(InBandwidth)
       /\ Total(InBandwidth) \in Int /\ Total(InQueue) \in Int /\ Total(Staked) \in Int
       /\ Total(VoteStake) \in Int /\ Total(Staked)' \in Int
  BY <1>2, <1>5, <1>11, SumsUnchanged, SumTypes, SumTypesNext
<1>15. {pool.lendable, market.quote, escrow, savings, unqueued, uncounted, Held(balance)} \subseteq Int
  BY <1>2, Numbers
<1>16. VotingStakeAddsUp' BY <1>1, <1>6, <1>8, <1>9, <1>11, <1>14, <1>15, StakeBalance
<1>17. CustodyAddsUp'
  <2>1. /\ market'.quote = market.quote /\ savings' = savings /\ unqueued' = unqueued /\ foreign' = foreign
        /\ escrow' = escrow /\ Held(balance') = Held(balance)
    BY <1>5
  <2> QED BY <1>1, <1>6, <1>7, <1>10, <1>11, <1>14, <1>15, <2>1, CustodyBalance
<1> QED BY <1>10, <1>11, <1>12, <1>13, <1>16, <1>17 DEF Inv, IInv

-----------------------------------------------------------------------------
(* The RAM market.  A fee leaves eosio: half of it stays in custody.       *)
LEMMA ToRexType == ASSUME NEW fee \in Nat PROVE ToRex(fee) \in 0..fee
<1> DEFINE n == fee * 5000
<1>1. n \in Nat /\ n <= 10000 * fee OBVIOUS
<1> HIDE DEF n
<1>2. n \div 10000 \in Nat /\ n \div 10000 <= fee BY <1>1, Division, DivisionAtMost
<1> QED BY <1>2 DEF ToRex, n

LEMMA RouteRamFeeFacts ==
    ASSUME TypeOK, NEW b \in [Accounts -> Nat], NEW fee \in Nat, fee <= b["eosio"],
           RouteRamFee(b, fee)
    PROVE  /\ balance' \in [Accounts -> Nat]
           /\ Held(balance') = Held(b) - (fee - ToRex(fee))
           /\ pool' = [unlent |-> pool.unlent + ToRex(fee), lendable |-> pool.lendable + ToRex(fee),
                       rex |-> pool.rex]
           /\ pool' \in [unlent : Nat, lendable : Nat, rex : Nat]
<1> DEFINE half == ToRex(fee)
           c == Paid(b, "eosio", "sika.rex", half)
<1>1. half \in 0..fee BY ToRexType
<1>2. /\ balance' = Paid(c, "eosio", "sika.burn", fee - half)
      /\ pool' = [pool EXCEPT !.unlent = @ + half, !.lendable = @ + half]
  BY DEF RouteRamFee
<1>3. /\ "eosio" \in Accounts /\ "sika.rex" \in Accounts /\ "sika.burn" \in Accounts
      /\ "eosio" # "sika.rex" /\ "eosio" # "sika.burn"
      /\ Inflow("eosio", half) = half /\ Inflow("sika.rex", half) = half
      /\ Inflow("eosio", fee - half) = fee - half /\ Inflow("sika.burn", fee - half) = 0
  BY Names DEF Inflow, Custodians
<1> HIDE DEF half
<1>4. half \in Nat /\ half <= b["eosio"] BY <1>1, <1>3
<1>5. c \in [Accounts -> Nat] /\ c["eosio"] = b["eosio"] - half
  BY <1>3, <1>4, PaidFacts
<1>6. Held(c) = Held(b)
  <2>1. Held(c) = Held(b) + half - half BY <1>3, <1>4, Transfer
  <2>2. Held(b) \in Int BY <1>3 DEF Held
  <2> QED BY <1>4, <2>1, <2>2
<1> HIDE DEF c
<1>7. fee - half \in Nat /\ fee - half <= c["eosio"] BY <1>1, <1>3, <1>5
<1>8. balance' \in [Accounts -> Nat] /\ Held(balance') = Held(c) + 0 - (fee - half)
  BY <1>2, <1>3, <1>5, <1>7, Transfer
<1>9. Held(c) \in Int BY <1>3, <1>5 DEF Held
<1>10. Held(balance') = Held(b) - (fee - half) BY <1>6, <1>7, <1>8, <1>9
<1>11. /\ pool' = [unlent |-> pool.unlent + half, lendable |-> pool.lendable + half,
                    rex |-> pool.rex]
       /\ pool' \in [unlent : Nat, lendable : Nat, rex : Nat]
  <2>1. pool \in [unlent : Nat, lendable : Nat, rex : Nat] BY DEF TypeOK
  <2>2. pool' = [unlent |-> pool.unlent + half, lendable |-> pool.lendable + half, rex |-> pool.rex]
    BY <1>2, <2>1
  <2>3. pool.unlent + half \in Nat /\ pool.lendable + half \in Nat /\ pool.rex \in Nat
    BY <1>4, <2>1
  <2> QED BY <2>2, <2>3
<1> QED BY <1>8, <1>10, <1>11 DEF half

(* RAM that comes to a row, whose token the first purchase fixes.          *)
LEMMA RamMoves ==
    ASSUME TypeOK, NEW u \in Users, NEW d \in Int, resources[u].ram_bytes + d >= 0,
           NEW symbol \in Symbols \cup {NoRow.symbol},
           resources' = [resources EXCEPT ![u].ram_bytes = @ + d, ![u].symbol = symbol]
    PROVE  /\ resources' \in [Users -> ResourceRow]
           /\ Total(RamBytes)' = Total(RamBytes) + d
           /\ Total(InBandwidth)' = Total(InBandwidth)
<1>1. resources' \in [Users -> ResourceRow]
  <2>1. resources[u].ram_bytes + d \in Nat BY DEF TypeOK, ResourceRow
  <2>2. resources \in [Users -> ResourceRow] BY DEF TypeOK
  <2>3. [resources[u] EXCEPT !.ram_bytes = @ + d, !.symbol = symbol] \in ResourceRow
    BY <2>1, <2>2 DEF ResourceRow
  <2>4. resources' = [resources EXCEPT ![u] =
              [resources[u] EXCEPT !.ram_bytes = @ + d, !.symbol = symbol]]
    BY <2>2 DEF ResourceRow
  <2> QED BY <2>2, <2>3, <2>4
<1>2. Total(RamBytes)' = Total(RamBytes) + d
  <2>1. RamBytes'[u] = RamBytes[u] + d /\ \A v \in Users \ {u} : RamBytes'[v] = RamBytes[v]
    BY DEF TypeOK, ResourceRow, RamBytes
  <2>2. RamBytes \in [Users -> Int] /\ RamBytes' \in [Users -> Int]
    BY <1>1 DEF TypeOK, ResourceRow, RamBytes
  <2> QED BY <2>1, <2>2, TotalAdds DEF Total
<1>3. Total(InBandwidth)' = Total(InBandwidth)
  <2>1. \A v \in Users : InBandwidth'[v] = InBandwidth[v]
    BY DEF TypeOK, ResourceRow, InBandwidth
  <2> QED BY <2>1, TotalSame DEF Total
<1> QED BY <1>1, <1>2, <1>3

(* A trade of d bytes out of the market for q SIKA into it, or back.       *)
LEMMA TradeInv ==
    ASSUME Inv, NEW d \in Int, NEW q \in Int, NEW fee \in Nat,
           NEW b \in [Accounts -> Nat], fee <= b["eosio"],
           Held(b) = Held(balance) + q + fee, RouteRamFee(b, fee),
           market.base - d \in Nat \ {0}, market.quote + q \in Nat \ {0},
           market.base * market.quote <= (market.base - d) * (market.quote + q),
           market' = [market EXCEPT !.base = @ - d, !.quote = @ + q],
           resources' \in [Users -> ResourceRow],
           Total(RamBytes)' = Total(RamBytes) + d,
           Total(InBandwidth)' = Total(InBandwidth),
           UNCHANGED <<voters, refunds, rexbalance, escrow, window, histories>>
    PROVE  Inv'
<1>1. TypeOK /\ IInv BY DEF Inv, IInv
<1> DEFINE half == ToRex(fee)
<1>2. half \in 0..fee BY ToRexType
<1>3. /\ balance' \in [Accounts -> Nat]
      /\ Held(balance') = Held(b) - (fee - half)
      /\ pool' = [unlent |-> pool.unlent + half, lendable |-> pool.lendable + half, rex |-> pool.rex]
      /\ pool' \in [unlent : Nat, lendable : Nat, rex : Nat]
  BY <1>1, RouteRamFeeFacts
<1> HIDE DEF half
<1>4. market'.base = market.base - d /\ market'.quote = market.quote + q /\ market'.supply = Relay
      /\ market' = [supply |-> Relay, base |-> market'.base, quote |-> market'.quote]
  BY <1>1 DEF TypeOK
<1>5. Total(RamBytes) \in Nat /\ market.base \in Nat BY <1>1, SumTypes DEF TypeOK
<1>6. Total(RamBytes)' \in Nat
  <2>1. RamBytes' \in [Users -> Nat] BY DEF ResourceRow, RamBytes
  <2> QED BY <2>1, TotalType DEF Total
<1>7. market'.base + Total(RamBytes)' = Bytes
  BY <1>1, <1>4, <1>5 DEF IInv, RamPaysItself
<1>8. market'.base \in 1..Bytes
  BY <1>4, <1>6, <1>7, StakingAssumption
<1>9. market'.base * market'.quote >= Bytes * Quote
  <2> DEFINE before == market.base * market.quote
             after == market'.base * market'.quote
             seed == Bytes * Quote
  <2>1. before \in Int /\ after \in Int /\ seed \in Int
    BY <1>1, <1>4, <1>5, StakingAssumption DEF TypeOK
  <2>2. before <= after BY <1>4
  <2>3. before >= seed BY <1>1 DEF IInv, RamPaysItself
  <2> HIDE DEF before, after, seed
  <2>4. after >= seed BY <2>1, <2>2, <2>3
  <2> QED BY <2>4 DEF after, seed
<1>10. market'.quote >= Quote
  <2> DEFINE m == market'.base
             n == market'.quote
  <2>1. m \in 1..Bytes /\ n \in Nat /\ m * n >= Bytes * Quote BY <1>4, <1>8, <1>9
  <2> HIDE DEF m, n
  <2>2. ASSUME n < Quote PROVE FALSE
    <3>1. m * n <= Bytes * n BY <2>1, StakingAssumption
    <3>2. Bytes * n < Bytes * Quote BY <2>1, <2>2, StakingAssumption
    <3> QED BY <2>1, <3>1, <3>2, StakingAssumption
  <2> QED BY <2>1, <2>2, StakingAssumption DEF n
<1>11. market' \in [supply : {Relay}, base : 1..Bytes, quote : Nat \ {0}]
  BY <1>4, <1>8
<1>12. TypeOK' BY <1>1, <1>3, <1>11 DEF TypeOK, histories
<1>13. RamPaysItself' BY <1>7, <1>9, <1>10 DEF RamPaysItself
<1>14. SharesAddUp' /\ RowsAgree'
  <2>1. Total(RexShares)' = Total(RexShares) BY SumsUnchanged
  <2>2. SharesAddUp' BY <1>1, <1>2, <1>3, <2>1 DEF IInv, SharesAddUp, TypeOK
  <2>3. RowsAgree' BY <1>1 DEF IInv, RowsAgree, histories
  <2> QED BY <2>2, <2>3
<1>15. /\ Total(InQueue)' = Total(InQueue) /\ Total(VoteStake)' = Total(VoteStake)
       /\ Total(Staked)' = Total(Staked) /\ uncounted' = uncounted
       /\ Total(InBandwidth) \in Int /\ Total(InQueue) \in Int
       /\ Total(Staked) \in Int /\ Total(VoteStake) \in Int
  BY <1>1, SumsUnchanged, SumTypes DEF histories
<1>16. {pool.lendable, market.quote, escrow, savings, unqueued, uncounted, Held(balance)} \subseteq Int
  BY <1>1, Numbers
<1>17. VotingStakeAddsUp' BY <1>12, <1>15, <1>16, StakeBalance
<1>18. CustodyAddsUp'
  <2>1. escrow' = escrow /\ savings' = savings /\ unqueued' = unqueued
      /\ foreign' = foreign
    BY DEF histories
  <2>2. Held(b) = Held(balance) + q + fee /\ pool'.lendable = pool.lendable + half
    BY <1>3
  <2> QED BY <1>2, <1>3, <1>4, <1>12, <1>15, <1>16, <2>1, <2>2, CustodyBalance
<1> QED BY <1>12, <1>13, <1>14, <1>17, <1>18 DEF Inv, IInv

LEMMA BuyRamInv ==
    ASSUME NEW u \in Users, NEW receiver \in Users, NEW payment \in Nat, Inv,
           BuyRam(u, receiver, payment)
    PROVE  Inv'
<1> DEFINE fee == Fee(payment, RamFeeBps)
           x == payment - fee
           bytes == BytesFor(market, x)
           symbol == IF resources[receiver].symbol = NoRow.symbol THEN SIKA
                     ELSE resources[receiver].symbol
<1>1. TypeOK BY DEF Inv, IInv
<1>2. fee \in 0..payment /\ x \in Nat BY FeeFacts
<1>3. /\ payment <= balance[u] /\ bytes > 0
      /\ market' = [market EXCEPT !.base = @ - bytes, !.quote = @ + payment - fee]
      /\ resources' = [resources EXCEPT ![receiver].ram_bytes = @ + bytes,
                                        ![receiver].symbol = symbol]
      /\ symbol \in Symbols
      /\ RouteRamFee(Paid(balance, u, "eosio", payment), fee)
      /\ UNCHANGED <<voters, refunds, rexbalance, escrow, window, histories>>
  <2>1. balance[u] >= payment BY DEF BuyRam, CanPay
  <2>2. balance[u] \in Nat BY <1>1, Names DEF TypeOK
  <2>3. symbol \in Symbols BY <1>1, StakingAssumption DEF TypeOK, ResourceRow, SIKA
  <2> QED BY <2>1, <2>2, <2>3 DEF BuyRam
<1>4. /\ market.supply = Relay /\ market.base \in Nat \ {0} /\ market.quote \in Nat \ {0}
      /\ Relay \in Nat \ {0}
  BY <1>1, StakingAssumption DEF TypeOK
<1>5. /\ bytes \in 0..(market.base - 1)
      /\ market.quote * market.base <= (market.quote + x) * (market.base - bytes)
  <2> DEFINE t == Minted(Relay, market.quote, x)
  <2>1. bytes = Payout(Relay + t, market.base, t) BY <1>4 DEF BytesFor
  <2> HIDE DEF x
  <2> QED BY <1>2, <1>4, <2>1, Trade
<1> DEFINE b == Paid(balance, u, "eosio", payment)
<1>6. b \in [Accounts -> Nat] /\ fee <= b["eosio"] /\ Held(b) = Held(balance) + x + fee
  <2>1. balance \in [Accounts -> Nat] /\ Held(balance) \in Int BY <1>1, Numbers DEF TypeOK
  <2>2. /\ u \in Accounts /\ "eosio" \in Accounts /\ u # "eosio"
        /\ Inflow(u, payment) = 0 /\ Inflow("eosio", payment) = payment
    BY Names, UsersKeepNoCustody DEF Inflow, Custodians
  <2>3. b \in [Accounts -> Nat] /\ b["eosio"] = balance["eosio"] + payment
    BY <1>3, <2>1, <2>2, PaidFacts
  <2>4. Held(b) = Held(balance) + payment - 0 BY <1>3, <2>1, <2>2, Transfer
  <2>5. balance["eosio"] \in Nat BY <2>1, <2>2
  <2> HIDE DEF b, fee
  <2> QED BY <1>2, <2>1, <2>3, <2>4, <2>5
<1> HIDE DEF b, bytes, fee, symbol
<1>7. market' = [market EXCEPT !.base = @ - bytes, !.quote = @ + x]
  BY <1>2, <1>3, <1>4
<1>8. resources[receiver].ram_bytes + bytes >= 0 BY <1>1, <1>5 DEF TypeOK, ResourceRow
<1>9. RouteRamFee(b, fee) BY <1>3 DEF b
<1> HIDE DEF x
<1>10. market.base - bytes \in Nat \ {0} /\ market.quote + x \in Nat \ {0} BY <1>2, <1>4, <1>5
<1>11. market.base * market.quote <= (market.base - bytes) * (market.quote + x)
  <2>1. /\ market.base * market.quote = market.quote * market.base
        /\ (market.base - bytes) * (market.quote + x) = (market.quote + x) * (market.base - bytes)
    BY <1>4, <1>10
  <2> QED BY <1>5, <2>1
<1>12. fee \in Nat /\ x \in Int /\ bytes \in Int BY <1>2, <1>5
<1>13. /\ resources' \in [Users -> ResourceRow]
       /\ Total(RamBytes)' = Total(RamBytes) + bytes
       /\ Total(InBandwidth)' = Total(InBandwidth)
  BY <1>1, <1>3, <1>8, <1>12, RamMoves
<1> QED BY <1>3, <1>6, <1>7, <1>9, <1>10, <1>11, <1>12, <1>13, TradeInv

LEMMA PriceTypes ==
    ASSUME TypeOK, NEW bytes \in Nat
    PROVE  SikaFor(market, bytes) \in Nat /\ PriceOfBytes(bytes) \in Nat
<1>1. SikaFor(market, bytes) \in Nat
  <2>1. /\ market.supply = Relay /\ market.base \in Nat \ {0} /\ market.quote \in Nat \ {0}
        /\ Relay \in Nat \ {0}
    BY StakingAssumption DEF TypeOK
  <2> DEFINE t == Minted(Relay, market.base, bytes)
  <2>2. SikaFor(market, bytes) = Payout(Relay + t, market.quote, t) BY <2>1 DEF SikaFor
  <2>3. Payout(Relay + t, market.quote, t) \in 0..(market.quote - 1) BY <2>1, Trade
  <2> QED BY <2>1, <2>2, <2>3
<1>2. PriceOfBytes(bytes) \in Nat
  <2> DEFINE n == SikaFor(market, bytes) * 10000
             k == 10000 - RamFeeBps
  <2>1. n \in Nat BY <1>1
  <2>2. RamFeeBps \in 0..9999 BY StakingAssumption
  <2>3. k \in Nat \ {0} BY <2>2
  <2> HIDE DEF n, k
  <2>4. n \div k \in Nat BY <2>1, <2>3, Division
  <2> QED BY <2>4 DEF n, k, PriceOfBytes
<1> QED BY <1>1, <1>2

LEMMA BuyRamBytesInv ==
    \A u \in Users, receiver \in Users, bytes \in ByteCounts :
       Inv /\ BuyRamBytes(u, receiver, bytes) => Inv'
<1>1. SUFFICES ASSUME NEW u \in Users, NEW receiver \in Users, NEW bytes \in ByteCounts, Inv,
                      BuyRamBytes(u, receiver, bytes)
               PROVE  Inv'
  OBVIOUS
<1>2. TypeOK /\ bytes \in Nat BY <1>1, StakingAssumption DEF Inv, IInv
<1>3. PriceOfBytes(bytes) \in Nat BY <1>2, PriceTypes
<1> QED BY <1>1, <1>3, BuyRamInv DEF BuyRamBytes

LEMMA SellRamInv ==
    \A u \in Users, bytes \in ByteCounts : Inv /\ SellRam(u, bytes) => Inv'
<1>1. SUFFICES ASSUME NEW u \in Users, NEW bytes \in ByteCounts, Inv, SellRam(u, bytes) PROVE Inv'
  OBVIOUS
<1> DEFINE proceeds == SikaFor(market, bytes)
           fee == Fee(proceeds, RamFeeBps)
           b == Paid(balance, "eosio", u, proceeds - fee)
<1>2. TypeOK /\ bytes \in Nat BY <1>1, StakingAssumption DEF Inv, IInv
<1>3. /\ bytes > 0 /\ resources[u].ram_bytes >= bytes /\ balance["eosio"] >= proceeds
      /\ market' = [market EXCEPT !.base = @ + bytes, !.quote = @ - proceeds]
      /\ resources' = [resources EXCEPT ![u].ram_bytes = @ - bytes]
      /\ RouteRamFee(b, fee)
      /\ UNCHANGED <<voters, refunds, rexbalance, escrow, window, histories>>
  BY <1>1 DEF SellRam
<1>4. /\ market.supply = Relay /\ market.base \in Nat \ {0} /\ market.quote \in Nat \ {0}
      /\ Relay \in Nat \ {0}
  BY <1>2, StakingAssumption DEF TypeOK
<1>5. /\ proceeds \in 0..(market.quote - 1)
      /\ market.base * market.quote <= (market.base + bytes) * (market.quote - proceeds)
  <2> DEFINE t == Minted(Relay, market.base, bytes)
  <2>1. proceeds = Payout(Relay + t, market.quote, t) BY <1>4 DEF SikaFor
  <2> QED BY <1>2, <1>4, <2>1, Trade
<1> HIDE DEF proceeds
<1>6. proceeds \in Nat /\ fee \in 0..proceeds
  <2>1. proceeds \in Nat BY <1>4, <1>5
  <2> QED BY <2>1, FeeFacts
<1> HIDE DEF fee
<1>7. b \in [Accounts -> Nat] /\ fee <= b["eosio"] /\ Held(b) = Held(balance) + (-proceeds) + fee
  <2> DEFINE net == proceeds - fee
  <2>1. balance \in [Accounts -> Nat] /\ Held(balance) \in Int BY <1>2, Numbers DEF TypeOK
  <2>2. /\ u \in Accounts /\ "eosio" \in Accounts /\ u # "eosio"
        /\ Inflow(u, net) = 0 /\ Inflow("eosio", net) = net
    BY Names, UsersKeepNoCustody DEF Inflow, Custodians
  <2>3. balance["eosio"] \in Nat /\ net \in Nat /\ net <= balance["eosio"]
    BY <1>3, <1>6, <2>1, <2>2
  <2> HIDE DEF net
  <2>4. /\ Paid(balance, "eosio", u, net) \in [Accounts -> Nat]
        /\ Paid(balance, "eosio", u, net)["eosio"] = balance["eosio"] - net
    BY <2>1, <2>2, <2>3, PaidFacts
  <2>5. Held(Paid(balance, "eosio", u, net)) = Held(balance) + 0 - net
    BY <2>1, <2>2, <2>3, Transfer
  <2>6. b = Paid(balance, "eosio", u, net) BY DEF net
  <2>7. fee <= balance["eosio"] - net BY <1>3, <1>6, <2>3 DEF net
  <2>8. Held(balance) + 0 - net = Held(balance) + (-proceeds) + fee
    BY <1>6, <2>1, <2>3 DEF net
  <2> HIDE DEF b
  <2> QED BY <2>4, <2>5, <2>6, <2>7, <2>8
<1> HIDE DEF b
<1>8. /\ market' = [market EXCEPT !.base = @ - (-bytes), !.quote = @ + (-proceeds)]
      /\ market.base - (-bytes) = market.base + bytes
      /\ market.quote + (-proceeds) = market.quote - proceeds
  <2>1. /\ market.base - (-bytes) = market.base + bytes
        /\ market.quote + (-proceeds) = market.quote - proceeds
    BY <1>2, <1>4, <1>6
  <2> QED BY <1>3, <2>1
<1>9. /\ resources' = [resources EXCEPT ![u].ram_bytes = @ + (-bytes),
                                        ![u].symbol = resources[u].symbol]
      /\ resources[u].symbol \in Symbols \cup {NoRow.symbol}
  <2>1. resources[u].ram_bytes - bytes = resources[u].ram_bytes + (-bytes)
        /\ resources \in [Users -> ResourceRow]
    BY <1>2 DEF TypeOK, ResourceRow
  <2> QED BY <1>3, <2>1 DEF ResourceRow
<1>10. /\ resources[u].ram_bytes + (-bytes) >= 0
       /\ market.base - (-bytes) \in Nat \ {0} /\ market.quote + (-proceeds) \in Nat \ {0}
       /\ market.base * market.quote
             <= (market.base - (-bytes)) * (market.quote + (-proceeds))
       /\ -bytes \in Int /\ -proceeds \in Int /\ fee \in Nat
  <2>1. resources[u].ram_bytes + (-bytes) >= 0 BY <1>2, <1>3 DEF TypeOK, ResourceRow
  <2>2. market.base + bytes \in Nat \ {0} /\ market.quote - proceeds \in Nat \ {0}
    BY <1>2, <1>4, <1>5, <1>6
  <2> QED BY <1>2, <1>5, <1>6, <1>8, <2>1, <2>2
<1>11. /\ resources' \in [Users -> ResourceRow]
       /\ Total(RamBytes)' = Total(RamBytes) + (-bytes)
       /\ Total(InBandwidth)' = Total(InBandwidth)
  BY <1>1, <1>2, <1>9, <1>10, RamMoves
<1> QED BY <1>1, <1>3, <1>7, <1>8, <1>10, <1>11, TradeInv

-----------------------------------------------------------------------------
(* The invariant holds at the start and after every step.                  *)
LEMMA InitInv == Init => Inv
<1>1. SUFFICES ASSUME Init PROVE Inv OBVIOUS
<1> DEFINE z == [u \in Users |-> 0]
<1>2. Total(z) = 0 BY SumOfZeros, StakingAssumption DEF Total
<1>3. Staked = z /\ VoteStake = z /\ InBandwidth = z /\ InQueue = z
  BY <1>1 DEF Init, Staked, VoteStake, InBandwidth, InQueue, NoRefund, NoRow
<1> HIDE DEF z
<1>4. VotingStakeAddsUp BY <1>1, <1>2, <1>3 DEF Init, VotingStakeAddsUp
<1>5. balance["eosio"] = Escrow /\ balance["sika.rex"] = 0
  BY <1>1, Names DEF Init
<1>6. CustodyAddsUp
  BY <1>1, <1>2, <1>3, <1>5, StakingAssumption DEF Init, CustodyAddsUp
<1>7. IInv BY <1>1, InitIInv
<1> QED BY <1>4, <1>6, <1>7 DEF Inv

LEMMA NextInv == Inv /\ [Next]_vars => Inv'
<1>1. SUFFICES ASSUME Inv, [Next]_vars PROVE Inv' OBVIOUS
<1>2. CASE UNCHANGED vars
  BY <1>1, <1>2, SumsUnchanged
     DEF vars, histories, Inv, IInv, TypeOK, SharesAddUp, RamPaysItself, RowsAgree, VotingStakeAddsUp,
         CustodyAddsUp
<1>3. CASE Tick BY <1>1, <1>3, TickInv
<1>4. ASSUME NEW seconds \in Windows, SetRexCfg(seconds) PROVE Inv'
  BY <1>1, <1>4, SetRexCfgInv
<1>5. ASSUME NEW u \in Stakers,
             \/ OpenVoter(u)
             \/ Refund(u)
             \/ \E receiver \in Stakers, stake \in Stakes, transfer \in BOOLEAN :
                   DelegateBw(u, receiver, stake, transfer)
             \/ \E receiver \in Stakers, unstake \in Unstakes[u] : UndelegateBw(u, receiver, unstake)
             \/ \E amount \in Amounts :
                   \/ Deposit(u, amount) \/ Withdraw(u, amount) \/ BuyRex(u, amount)
                   \/ ClaimVest(u, amount) \/ SellRex(u, amount)
      PROVE  Inv'
  <2>1. u \in Users BY StakingAssumption
  <2>2. CASE OpenVoter(u) BY <1>1, <2>1, <2>2, OpenVoterInv
  <2>3. CASE Refund(u) BY <1>1, <2>1, <2>3, RefundInv
  <2>4. ASSUME NEW receiver \in Stakers, NEW stake \in Stakes, NEW transfer \in BOOLEAN,
               DelegateBw(u, receiver, stake, transfer)
        PROVE  Inv'
    <3>1. receiver \in Users /\ stake[1] \in Int /\ stake[2] \in Int /\ SIKA \in Symbols
      BY StakingAssumption DEF SIKA
    <3>2. ChangeResourceLimits(u, receiver, stake[1], stake[2], SIKA, transfer)
      BY <2>4 DEF DelegateBw
    <3> QED BY <1>1, <2>1, <3>1, <3>2, ChangeResourceLimitsInv
  <2>5. ASSUME NEW receiver \in Stakers, NEW unstake \in Unstakes[u],
               UndelegateBw(u, receiver, unstake)
        PROVE  Inv'
    <3>1. receiver \in Users /\ -unstake[1] \in Int /\ -unstake[2] \in Int /\ unstake[3] \in Symbols
      BY StakingAssumption
    <3>2. ChangeResourceLimits(u, receiver, -unstake[1], -unstake[2], unstake[3], FALSE)
      BY <2>5 DEF UndelegateBw
    <3> QED BY <1>1, <2>1, <3>1, <3>2, ChangeResourceLimitsInv
  <2>6. ASSUME NEW amount \in Amounts,
               \/ Deposit(u, amount) \/ Withdraw(u, amount) \/ BuyRex(u, amount)
               \/ ClaimVest(u, amount) \/ SellRex(u, amount)
        PROVE  Inv'
    BY <1>1, <2>1, <2>6, DepositInv, WithdrawInv, BuyRexInv, ClaimVestInv, SellRexInv
  <2> QED BY <1>5, <2>2, <2>3, <2>4, <2>5, <2>6
<1>6. ASSUME NEW u \in Traders,
             \/ \E receiver \in Traders :
                   \/ \E payment \in Payments : BuyRam(u, receiver, payment)
                   \/ \E bytes \in ByteCounts : BuyRamBytes(u, receiver, bytes)
             \/ \E bytes \in ByteCounts : SellRam(u, bytes)
      PROVE  Inv'
  <2>1. u \in Users BY StakingAssumption
  <2>2. ASSUME NEW receiver \in Traders, NEW payment \in Payments, BuyRam(u, receiver, payment)
        PROVE  Inv'
    <3>1. receiver \in Users /\ payment \in Nat BY StakingAssumption
    <3> QED BY <1>1, <2>1, <2>2, <3>1, BuyRamInv
  <2>3. ASSUME NEW receiver \in Traders, NEW bytes \in ByteCounts, BuyRamBytes(u, receiver, bytes)
        PROVE  Inv'
    <3>1. receiver \in Users BY StakingAssumption
    <3> QED BY <1>1, <2>1, <2>3, <3>1, BuyRamBytesInv
  <2>4. ASSUME NEW bytes \in ByteCounts, SellRam(u, bytes) PROVE Inv'
    BY <1>1, <2>1, <2>4, SellRamInv
  <2> QED BY <1>6, <2>2, <2>3, <2>4
<1> QED BY <1>1, <1>2, <1>3, <1>4, <1>5, <1>6 DEF Next

LEMMA Correct == Spec => []Inv
BY InitInv, NextInv, PTL DEF Spec

(* Every table keeps its type: no pool, reserve, refund or balance ever    *)
(* goes below zero, whatever the users and the RAM market.                 *)
THEOREM TypeCorrect == Spec => []TypeOK
<1>1. Inv => TypeOK BY DEF Inv, IInv
<1> QED BY <1>1, Correct, PTL

(* The stake that voting counts is the stake there is, in any token.       *)
THEOREM VotingStakeCorrect == Spec => []VotingStakeAddsUp
<1>1. Inv => VotingStakeAddsUp BY DEF Inv
<1> QED BY <1>1, Correct, PTL

(* The shares of the REX pool add up and are backed one to one.            *)
THEOREM SharesCorrect == Spec => []SharesAddUp
<1>1. Inv => SharesAddUp BY DEF Inv, IInv
<1> QED BY <1>1, Correct, PTL

(* eosio and sika.rex together hold the SIKA that the tables owe, but for  *)
(* the stake that undelegatebw took in other tokens.                       *)
THEOREM CustodyCorrect == Spec => []CustodyAddsUp
<1>1. Inv => CustodyAddsUp BY DEF Inv
<1> QED BY <1>1, Correct, PTL

(* The RAM curve is never drained, whatever its size and the fee.          *)
THEOREM RamCorrect == Spec => []RamPaysItself
<1>1. Inv => RamPaysItself BY DEF Inv, IInv
<1> QED BY <1>1, Correct, PTL

-----------------------------------------------------------------------------
(* The price of a share, by the three ways in which the pool changes.      *)
PriceKept == pool.rex > 0 => pool'.lendable * pool.rex >= pool.lendable * pool'.rex

LEMMA CreditKeepsPrice ==
    ASSUME Inv, NEW u \in Users, NEW amount \in Nat, ApplyRexStake(u, amount)
    PROVE  PriceKept
<1>1. SUFFICES ASSUME pool.rex > 0
               PROVE  pool'.lendable * pool.rex >= pool.lendable * pool'.rex
  BY DEF PriceKept
<1> DEFINE L == pool.lendable
           R == pool.rex
           n == Shares(amount)
<1>2. L \in Nat /\ R \in Nat /\ n \in Nat /\ n * L <= amount * R
  BY <1>1, SharesFacts DEF Inv, IInv, TypeOK
<1>3. pool'.lendable = L + amount /\ pool'.rex = R + n BY DEF ApplyRexStake
<1> HIDE DEF L, R, n
<1>4. (L + amount) * R >= L * (R + n)
  <2>1. (L + amount) * R = L * R + amount * R /\ L * (R + n) = L * R + n * L BY <1>2
  <2> QED BY <1>2, <2>1
<1> QED BY <1>3, <1>4 DEF L, R

LEMMA SaleKeepsPrice ==
    ASSUME Inv, NEW u \in Users, NEW r \in Amounts, SellRex(u, r)
    PROVE  PriceKept
<1> DEFINE L == pool.lendable
           R == pool.rex
           owed == (r * L) \div R
<1>1. r \in Nat \ {0} /\ r <= rexbalance[u].rex /\ L \in Nat /\ R \in Nat
  BY StakingAssumption DEF Inv, IInv, SellRex, TypeOK
<1>2. owed \in Int /\ owed * R <= r * L
  BY <1>1, OwedFacts DEF Inv
<1>3. pool'.lendable = L - owed /\ pool'.rex = R - r BY DEF SellRex
<1> HIDE DEF L, R, owed
<1>4. (L - owed) * R >= L * (R - r)
  <2>1. (L - owed) * R = L * R - owed * R /\ L * (R - r) = L * R - r * L BY <1>1, <1>2
  <2> QED BY <1>1, <1>2, <2>1
<1> QED BY <1>3, <1>4 DEF PriceKept, L, R

LEMMA FeeKeepsPrice ==
    ASSUME Inv, NEW b, NEW fee \in Nat, RouteRamFee(b, fee)
    PROVE  PriceKept
<1> DEFINE L == pool.lendable
           R == pool.rex
           half == ToRex(fee)
<1>1. L \in Nat /\ R \in Nat /\ half \in Nat BY ToRexType DEF Inv, IInv, TypeOK
<1>2. pool'.lendable = L + half /\ pool'.rex = R
  <2>1. pool \in [unlent : Nat, lendable : Nat, rex : Nat] BY DEF Inv, IInv, TypeOK
  <2>2. pool' = [pool EXCEPT !.unlent = @ + half, !.lendable = @ + half] BY DEF RouteRamFee
  <2> HIDE DEF half
  <2> QED BY <2>1, <2>2
<1> HIDE DEF L, R, half
<1>3. (L + half) * R >= L * R
  <2>1. (L + half) * R = L * R + half * R /\ half * R \in Nat /\ L * R \in Nat BY <1>1
  <2> QED BY <2>1
<1> QED BY <1>2, <1>3 DEF PriceKept, L, R

LEMMA SamePoolKeepsPrice == ASSUME Inv, UNCHANGED pool PROVE PriceKept
<1>1. pool.lendable \in Nat /\ pool.rex \in Nat BY DEF Inv, IInv, TypeOK
<1>2. pool.lendable * pool.rex \in Nat BY <1>1
<1> QED BY <1>1, <1>2 DEF PriceKept

LEMMA FeeOfPrice ==
    ASSUME Inv, NEW u \in Users, NEW receiver \in Users, NEW payment \in Nat,
           BuyRam(u, receiver, payment)
    PROVE  PriceKept
<1>1. Fee(payment, RamFeeBps) \in Nat BY FeeFacts
<1> QED BY <1>1, FeeKeepsPrice DEF BuyRam

LEMMA NextKeepsPrice == Inv /\ [Next]_vars => PriceKept
<1>1. SUFFICES ASSUME Inv, [Next]_vars PROVE PriceKept OBVIOUS
<1>2. CASE UNCHANGED pool BY <1>1, <1>2, SamePoolKeepsPrice
<1>3. ASSUME NEW u \in Users, NEW amount \in Amounts,
             BuyRex(u, amount) \/ ClaimVest(u, amount) \/ SellRex(u, amount)
      PROVE  PriceKept
  BY <1>1, <1>3, CreditKeepsPrice, SaleKeepsPrice, StakingAssumption DEF BuyRex, ClaimVest
<1>4. ASSUME NEW u \in Users, NEW receiver \in Users, NEW payment \in Payments,
             BuyRam(u, receiver, payment)
      PROVE  PriceKept
  <2>1. payment \in Nat BY StakingAssumption
  <2> QED BY <1>1, <1>4, <2>1, FeeOfPrice
<1>5. ASSUME NEW u \in Users, NEW receiver \in Users, NEW bytes \in ByteCounts,
             BuyRamBytes(u, receiver, bytes)
      PROVE  PriceKept
  <2>1. PriceOfBytes(bytes) \in Nat BY <1>1, PriceTypes, StakingAssumption DEF Inv, IInv
  <2> QED BY <1>1, <1>5, <2>1, FeeOfPrice DEF BuyRamBytes
<1>6. ASSUME NEW u \in Users, NEW bytes \in ByteCounts, SellRam(u, bytes)
      PROVE  PriceKept
  <2>1. SikaFor(market, bytes) \in Nat BY <1>1, PriceTypes, StakingAssumption DEF Inv, IInv
  <2>2. Fee(SikaFor(market, bytes), RamFeeBps) \in Nat BY <2>1, FeeFacts
  <2> QED BY <1>1, <1>6, <2>2, FeeKeepsPrice DEF SellRam
<1>7. CASE UNCHANGED vars BY <1>2, <1>7 DEF vars, histories
<1>8. CASE Tick BY <1>2, <1>8 DEF Tick
<1>9. ASSUME NEW seconds \in Windows, SetRexCfg(seconds) PROVE PriceKept
  BY <1>2, <1>9 DEF SetRexCfg
<1>10. ASSUME NEW u \in Users,
              \/ OpenVoter(u) \/ Refund(u)
              \/ \E receiver \in Stakers, stake \in Stakes, transfer \in BOOLEAN :
                    DelegateBw(u, receiver, stake, transfer)
              \/ \E receiver \in Stakers, unstake \in Unstakes[u] :
                    UndelegateBw(u, receiver, unstake)
              \/ \E amount \in Amounts : Deposit(u, amount) \/ Withdraw(u, amount)
       PROVE  PriceKept
  <2>1. OpenVoter(u) \/ Refund(u) => UNCHANGED pool BY DEF OpenVoter, Refund
  <2>2. \A receiver \in Stakers : \A net, cpu, symbol, transfer :
           ChangeResourceLimits(u, receiver, net, cpu, symbol, transfer) => UNCHANGED pool
    BY DEF ChangeResourceLimits
  <2>3. \A amount \in Amounts : Deposit(u, amount) \/ Withdraw(u, amount) => UNCHANGED pool
    BY DEF Deposit, Withdraw
  <2> QED BY <1>2, <1>10, <2>1, <2>2, <2>3 DEF DelegateBw, UndelegateBw
<1> QED
  <2>1. Stakers \subseteq Users /\ Traders \subseteq Users BY StakingAssumption
  <2> QED BY <1>1, <1>3, <1>4, <1>5, <1>6, <1>7, <1>8, <1>9, <1>10, <2>1 DEF Next

(* No step makes an outstanding share of the REX pool worth less.          *)
THEOREM SharePriceCorrect == Spec => SharePriceNeverFalls
<1>1. PriceKept => (pool.rex > 0 => pool.lendable' * pool.rex >= pool.lendable * pool.rex')
  BY DEF PriceKept
<1>2. Inv /\ [Next]_vars => (pool.rex > 0 => pool.lendable' * pool.rex >= pool.lendable * pool.rex')
  BY <1>1, NextKeepsPrice
<1> QED BY <1>2, Correct, PTL DEF Spec, SharePriceNeverFalls

-----------------------------------------------------------------------------
(* Only refund ends a pending refund, and its row is no older than the     *)
(* last SIKA that joined it.                                               *)
CooledDown == \A u \in Users : refunds[u].pending /\ ~refunds'[u].pending => rested[u] > window

LEMMA PendingStays ==
    ASSUME Inv,
           \/ Tick
           \/ \E seconds \in Windows : SetRexCfg(seconds)
           \/ \E u \in Users : OpenVoter(u)
           \/ \E u \in Users, receiver \in Users, net \in Int, cpu \in Int, symbol \in Symbols,
                transfer \in BOOLEAN :
                 ChangeResourceLimits(u, receiver, net, cpu, symbol, transfer)
           \/ \E u \in Users, amount \in Amounts :
                 \/ Deposit(u, amount) \/ Withdraw(u, amount) \/ BuyRex(u, amount)
                 \/ ClaimVest(u, amount) \/ SellRex(u, amount)
           \/ \E u \in Users, receiver \in Users, payment \in Int : BuyRam(u, receiver, payment)
           \/ \E u \in Users, bytes \in ByteCounts : SellRam(u, bytes)
    PROVE  \A u \in Users : refunds[u].pending => refunds'[u].pending
<1>1. TypeOK BY DEF Inv, IInv
<1>2. CASE Tick BY <1>1, <1>2 DEF Tick, TypeOK
<1>3. ASSUME NEW u \in Users, NEW receiver \in Users, NEW net \in Int, NEW cpu \in Int,
             NEW symbol \in Symbols, NEW transfer \in BOOLEAN,
             ChangeResourceLimits(u, receiver, net, cpu, symbol, transfer)
      PROVE  \A v \in Users : refunds[v].pending => refunds'[v].pending
  <2> DEFINE owner == StakeOwner(u, receiver, transfer)
  <2>1. \/ refunds' = refunds
        \/ refunds' = [refunds EXCEPT ![owner] = Queued(@, Lost(net), Lost(cpu))]
    BY <1>3 DEF ChangeResourceLimits
  <2>2. owner \in Users BY DEF StakeOwner
  <2> HIDE DEF owner
  <2>3. \A a, b : \A v \in Users :
           refunds' = [refunds EXCEPT ![owner] = Queued(@, a, b)]
              /\ refunds[v].pending => refunds'[v].pending
    BY <1>1, <2>2 DEF TypeOK, Queued
  <2> QED BY <2>1, <2>3
<1>4. ASSUME NEW u \in Users, NEW r \in Amounts, SellRex(u, r)
      PROVE  \A v \in Users : refunds[v].pending => refunds'[v].pending
  <2>1. \E owed : refunds' = [refunds EXCEPT ![u] = Queued(@, 0, owed)] BY <1>4 DEF SellRex
  <2> QED BY <1>1, <2>1 DEF TypeOK, Queued
<1>5. CASE UNCHANGED refunds BY <1>5
<1>6. \/ Tick
      \/ \E u \in Users, receiver \in Users, net \in Int, cpu \in Int, symbol \in Symbols,
           transfer \in BOOLEAN :
            ChangeResourceLimits(u, receiver, net, cpu, symbol, transfer)
      \/ \E u \in Users, r \in Amounts : SellRex(u, r)
      \/ UNCHANGED refunds
  BY DEF SetRexCfg, OpenVoter, Deposit, Withdraw, BuyRex, ClaimVest, BuyRam, SellRam
<1> QED BY <1>2, <1>3, <1>4, <1>5, <1>6

LEMMA RefundCools ==
    ASSUME Inv, NEW u \in Users, Refund(u)
    PROVE  CooledDown
<1>1. refunds[u].pending /\ refunds[u].age > window /\ refunds' = [refunds EXCEPT ![u] = NoRefund]
  BY DEF Refund
<1>2. rested[u] > window BY <1>1 DEF Inv, IInv, RowsAgree
<1>3. \A v \in Users \ {u} : refunds'[v] = refunds[v] BY <1>1 DEF Inv, IInv, TypeOK
<1> QED BY <1>2, <1>3 DEF CooledDown

LEMMA NextCools == Inv /\ [Next]_vars => CooledDown
<1>1. SUFFICES ASSUME Inv, [Next]_vars PROVE CooledDown OBVIOUS
<1>2. ASSUME \A u \in Users : refunds[u].pending => refunds'[u].pending PROVE CooledDown
  BY <1>2 DEF CooledDown
<1>3. CASE UNCHANGED vars BY <1>2, <1>3 DEF vars
<1>4. CASE \E u \in Stakers : Refund(u)
  BY <1>1, <1>4, RefundCools, StakingAssumption
<1>5. ASSUME NEW u \in Users, NEW receiver \in Stakers, NEW stake \in Stakes,
             NEW transfer \in BOOLEAN, DelegateBw(u, receiver, stake, transfer)
      PROVE  CooledDown
  <2>1. receiver \in Users /\ stake[1] \in Int /\ stake[2] \in Int /\ SIKA \in Symbols
      BY StakingAssumption DEF SIKA
  <2> QED BY <1>1, <1>2, <1>5, <2>1, PendingStays DEF DelegateBw
<1>6. ASSUME NEW u \in Stakers, NEW receiver \in Stakers, NEW unstake \in Unstakes[u],
             UndelegateBw(u, receiver, unstake)
      PROVE  CooledDown
  <2>1. receiver \in Users /\ -unstake[1] \in Int /\ -unstake[2] \in Int /\ unstake[3] \in Symbols
    BY StakingAssumption
  <2>2. ChangeResourceLimits(u, receiver, -unstake[1], -unstake[2], unstake[3], FALSE)
    BY <1>6 DEF UndelegateBw
  <2>3. u \in Users BY StakingAssumption
  <2> DEFINE net == -unstake[1]
             cpu == -unstake[2]
             symbol == unstake[3]
  <2>4. \E v \in Users, r \in Users, n \in Int, c \in Int, s \in Symbols, t \in BOOLEAN :
           ChangeResourceLimits(v, r, n, c, s, t)
    <3>1. net \in Int /\ cpu \in Int /\ symbol \in Symbols BY <2>1
    <3>2. ChangeResourceLimits(u, receiver, net, cpu, symbol, FALSE) BY <2>2
    <3> HIDE DEF net, cpu, symbol
    <3> QED BY <2>1, <2>3, <3>1, <3>2
  <2>5. \A v \in Users : refunds[v].pending => refunds'[v].pending BY <1>1, <2>4, PendingStays
  <2> QED BY <1>2, <2>5
<1>7. ASSUME NEW u \in Users, NEW receiver \in Users, NEW payment \in Int,
             BuyRam(u, receiver, payment)
      PROVE  CooledDown
  BY <1>1, <1>2, <1>7, PendingStays
<1>8. ASSUME NEW u \in Users, NEW receiver \in Users, NEW bytes \in ByteCounts,
             BuyRamBytes(u, receiver, bytes)
      PROVE  CooledDown
  <2>1. PriceOfBytes(bytes) \in Int BY <1>1, PriceTypes, StakingAssumption DEF Inv, IInv
  <2> QED BY <1>7, <1>8, <2>1 DEF BuyRamBytes
<1>9. ASSUME \/ Tick
             \/ \E seconds \in Windows : SetRexCfg(seconds)
             \/ \E u \in Users : OpenVoter(u)
             \/ \E u \in Users, amount \in Amounts :
                   \/ Deposit(u, amount) \/ Withdraw(u, amount) \/ BuyRex(u, amount)
                   \/ ClaimVest(u, amount) \/ SellRex(u, amount)
             \/ \E u \in Users, bytes \in ByteCounts : SellRam(u, bytes)
      PROVE  CooledDown
  <2>1. \A u \in Users : refunds[u].pending => refunds'[u].pending BY <1>1, <1>9, PendingStays
  <2> QED BY <1>2, <2>1
<1> QED
  <2>1. Stakers \subseteq Users /\ Traders \subseteq Users /\ Payments \subseteq Int
    BY StakingAssumption
  <2> QED BY <1>1, <1>3, <1>4, <1>5, <1>6, <1>7, <1>8, <1>9, <2>1 DEF Next

(* A refund is paid only after the last SIKA that joined it has waited.    *)
THEOREM RefundsCorrect == Spec => RefundsCooledDown
<1>1. Inv /\ [Next]_vars
         => \A u \in Users : refunds[u].pending /\ ~refunds'[u].pending => rested[u] > window
  BY NextCools DEF CooledDown
<1> QED BY <1>1, Correct, PTL DEF Spec, RefundsCooledDown
=============================================================================
