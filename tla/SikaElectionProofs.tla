------------------------- MODULE SikaElectionProofs -------------------------
(***************************************************************************)
(* Proofs about SikaElection: the counters of producers and of             *)
(* Representatives are the sums of the ballots behind them, for any        *)
(* accounts, producers, stakes and years, and elections do to compliance   *)
(* what SikaCompliance allows.                                             *)
(*                                                                         *)
(* Two loops of the code are folds over sets: the removal of votes over    *)
(* the voters, and enforce over the producers.  A fold is a recursive      *)
(* function on subsets; what it does is argued by a least counterexample,  *)
(* as in SumProofs.                                                        *)
(***************************************************************************)
EXTENDS SikaElection, SumProofs

-----------------------------------------------------------------------------
(* The recursion of FoldSet, for a step given as a function of pairs.      *)
FoldRec(g, F, base, U) ==
    g = [s \in SUBSET U |-> IF s = {} THEN base ELSE F[<<Pick(s), g[s \ {Pick(s)}]>>]]

LEMMA FoldUnique ==
    ASSUME NEW U, IsFiniteSet(U), NEW F, NEW base, NEW g, NEW h,
           FoldRec(g, F, base, U), FoldRec(h, F, base, U)
    PROVE  g = h
<1> DEFINE T == {s \in SUBSET U : g[s] # h[s]}
<1>1. SUFFICES ASSUME T # {} PROVE FALSE
  <2>1. g = [s \in SUBSET U |-> g[s]] /\ h = [s \in SUBSET U |-> h[s]]
    BY DEF FoldRec
  <2> QED BY <2>1
<1>2. PICK s \in T : \A v \in SUBSET s : v # s => v \notin T
  <2>1. T \in SUBSET (SUBSET U) OBVIOUS
  <2> HIDE DEF T
  <2> QED BY <1>1, <2>1, LeastSubset
<1>3. s # {}
  BY <1>2 DEF FoldRec
<1>4. Pick(s) \in s
  BY <1>3, PickIn
<1>5. g[s \ {Pick(s)}] = h[s \ {Pick(s)}]
  BY <1>2, <1>4
<1>6. g[s] = F[<<Pick(s), g[s \ {Pick(s)}]>>] /\ h[s] = F[<<Pick(s), h[s \ {Pick(s)}]>>]
  BY <1>2, <1>3 DEF FoldRec
<1> QED BY <1>2, <1>5, <1>6

LEMMA FoldRestrict ==
    ASSUME NEW U, NEW F, NEW base, NEW g, FoldRec(g, F, base, U), NEW W \in SUBSET U
    PROVE  FoldRec([s \in SUBSET W |-> g[s]], F, base, W)
<1> DEFINE r == [s \in SUBSET W |-> g[s]]
<1>1. ASSUME NEW s \in SUBSET W
      PROVE  r[s] = IF s = {} THEN base ELSE F[<<Pick(s), r[s \ {Pick(s)}]>>]
  BY DEF FoldRec
<1>2. r = [s \in SUBSET W |-> IF s = {} THEN base ELSE F[<<Pick(s), r[s \ {Pick(s)}]>>]]
  BY <1>1
<1> QED BY <1>2 DEF FoldRec

LEMMA FoldExists ==
    ASSUME NEW S, IsFiniteSet(S), NEW F, NEW base
    PROVE  \E g : FoldRec(g, F, base, S)
<1> DEFINE T == {U \in SUBSET S : ~ \E g : FoldRec(g, F, base, U)}
<1>1. SUFFICES ASSUME T # {} PROVE FALSE
  OBVIOUS
<1>2. PICK U \in T : \A V \in SUBSET U : V # U => V \notin T
  <2>1. T \in SUBSET (SUBSET S) OBVIOUS
  <2> HIDE DEF T
  <2> QED BY <1>1, <2>1, LeastSubset
<1> DEFINE G(V) == CHOOSE g : FoldRec(g, F, base, V)
           g == [s \in SUBSET U |->
                   IF s = {} THEN base
                   ELSE IF s = U THEN F[<<Pick(U), G(U \ {Pick(U)})[U \ {Pick(U)}]>>]
                   ELSE G(s)[s]]
<1>3. ASSUME NEW V \in SUBSET U, V # U PROVE FoldRec(G(V), F, base, V)
  BY <1>2, <1>3
<1>4. ASSUME NEW s \in SUBSET U
      PROVE  g[s] = IF s = {} THEN base ELSE F[<<Pick(s), g[s \ {Pick(s)}]>>]
  <2>1. CASE s = {} BY <2>1
  <2>2. CASE s # {}
    <3> DEFINE r == s \ {Pick(s)}
    <3>1. Pick(s) \in s /\ r \in SUBSET U /\ r # U /\ r # s /\ r \in SUBSET s
      BY <2>2, PickIn
    <3>2. FoldRec(G(r), F, base, r)
      BY <3>1, <1>3
    <3>3. g[r] = G(r)[r]
      <4>1. CASE r = {} BY <4>1, <3>1, <3>2 DEF FoldRec
      <4>2. CASE r # {} BY <4>2, <3>1
      <4> QED BY <4>1, <4>2
    <3>4. CASE s = U BY <3>3, <3>4, <2>2
    <3>5. CASE s # U
      <4>1. FoldRec(G(s), F, base, s) BY <3>5, <1>3
      <4>2. FoldRec([v \in SUBSET r |-> G(s)[v]], F, base, r)
        BY <4>1, <3>1, FoldRestrict
      <4>3. IsFiniteSet(r) BY <3>1, FS_Subset
      <4>4. [v \in SUBSET r |-> G(s)[v]] = G(r)
        BY <4>2, <4>3, <3>2, FoldUnique
      <4>5. G(s)[r] = G(r)[r] BY <4>4
      <4>6. G(s)[s] = F[<<Pick(s), G(s)[r]>>]
        BY <4>1, <2>2 DEF FoldRec
      <4>7. g[s] = G(s)[s] BY <3>5, <2>2
      <4>8. G(s)[r] = g[r] BY <4>5, <3>3
      <4> HIDE DEF g, G
      <4> QED BY <4>6, <4>7, <4>8, <2>2
    <3> QED BY <3>4, <3>5
  <2> QED BY <2>1, <2>2
<1>5. g = [s \in SUBSET U |-> IF s = {} THEN base ELSE F[<<Pick(s), g[s \ {Pick(s)}]>>]]
  <2>1. g = [s \in SUBSET U |-> g[s]] OBVIOUS
  <2> HIDE DEF g
  <2> QED BY <1>4, <2>1
<1>6. FoldRec(g, F, base, U) BY <1>5 DEF FoldRec
<1> QED BY <1>2, <1>6

(* A fold whose step stays in T stays in T.                                *)
LEMMA FoldTyped ==
    ASSUME NEW S, IsFiniteSet(S), NEW T, NEW F \in [S \X T -> T], NEW base \in T,
           NEW g, FoldRec(g, F, base, S)
    PROVE  \A s \in SUBSET S : g[s] \in T
<1> DEFINE X == {s \in SUBSET S : g[s] \notin T}
<1>1. SUFFICES ASSUME X # {} PROVE FALSE
  OBVIOUS
<1>2. PICK s \in X : \A v \in SUBSET s : v # s => v \notin X
  <2>1. X \in SUBSET (SUBSET S) OBVIOUS
  <2> HIDE DEF X
  <2> QED BY <1>1, <2>1, LeastSubset
<1>3. s # {} BY <1>2 DEF FoldRec
<1>4. Pick(s) \in s BY <1>3, PickIn
<1>5. g[s \ {Pick(s)}] \in T BY <1>2, <1>4
<1>6. g[s] = F[<<Pick(s), g[s \ {Pick(s)}]>>] BY <1>2, <1>3 DEF FoldRec
<1> QED BY <1>2, <1>4, <1>5, <1>6

-----------------------------------------------------------------------------
(* The fold of RemoveVotes: what it has done to a subset of the voters.    *)
Scrubbing(g, bp, base, S) ==
    g = [s \in SUBSET S |-> IF s = {} THEN base ELSE Scrub(bp, Pick(s), g[s \ {Pick(s)}])]

Scrubbed(bp, base, S) == FoldSet(LAMBDA a, u : Scrub(bp, a, u), base, S)

LEMMA ScrubbingUnique ==
    ASSUME NEW U, IsFiniteSet(U), NEW bp, NEW base, NEW g, NEW h,
           Scrubbing(g, bp, base, U), Scrubbing(h, bp, base, U)
    PROVE  g = h
<1> DEFINE T == {s \in SUBSET U : g[s] # h[s]}
<1>1. SUFFICES ASSUME T # {} PROVE FALSE
  <2>1. g = [s \in SUBSET U |-> g[s]] /\ h = [s \in SUBSET U |-> h[s]]
    BY DEF Scrubbing
  <2> QED BY <2>1
<1>2. PICK s \in T : \A v \in SUBSET s : v # s => v \notin T
  <2>1. T \in SUBSET (SUBSET U) OBVIOUS
  <2> HIDE DEF T
  <2> QED BY <1>1, <2>1, LeastSubset
<1>3. s # {}
  BY <1>2 DEF Scrubbing
<1>4. Pick(s) \in s
  BY <1>3, PickIn
<1>5. g[s \ {Pick(s)}] = h[s \ {Pick(s)}]
  BY <1>2, <1>4
<1>6. /\ g[s] = Scrub(bp, Pick(s), g[s \ {Pick(s)}])
      /\ h[s] = Scrub(bp, Pick(s), h[s \ {Pick(s)}])
  BY <1>2, <1>3 DEF Scrubbing
<1> QED BY <1>2, <1>5, <1>6

LEMMA FoldIsScrubbing ==
    ASSUME NEW bp, NEW base, NEW S, NEW g, Scrubbing(g, bp, base, S),
           \A h : Scrubbing(h, bp, base, S) => h = g
    PROVE  Scrubbed(bp, base, S) = g[S]
BY Zenon DEF Scrubbed, FoldSet, MapThenFoldSet, Scrubbing, Pick

HasScrubbing(T, S, bp, base) ==
    \E g : /\ Scrubbing(g, bp, base, S)
           /\ \A s \in SUBSET S : g[s] \in T
           /\ Scrubbed(bp, base, S) = g[S]

LEMMA ScrubFold ==
    ASSUME NEW T, NEW S, IsFiniteSet(S), NEW bp, NEW base \in T,
           \A a \in S, u \in T : Scrub(bp, a, u) \in T
    PROVE  HasScrubbing(T, S, bp, base)
<1> DEFINE F == [x \in S \X T |-> Scrub(bp, x[1], x[2])]
<1>1. F \in [S \X T -> T] OBVIOUS
<1>2. PICK g : FoldRec(g, F, base, S) BY FoldExists
<1>3. \A s \in SUBSET S : g[s] \in T
  <2> HIDE DEF F
  <2> QED BY <1>1, <1>2, FoldTyped
<1>4. Scrubbing(g, bp, base, S)
  <2>1. ASSUME NEW s \in SUBSET S
        PROVE  g[s] = IF s = {} THEN base ELSE Scrub(bp, Pick(s), g[s \ {Pick(s)}])
    <3>1. CASE s = {} BY <1>2, <3>1 DEF FoldRec
    <3>2. CASE s # {}
      <4>1. Pick(s) \in S /\ g[s \ {Pick(s)}] \in T BY <3>2, <1>3, PickIn
      <4>2. g[s] = F[<<Pick(s), g[s \ {Pick(s)}]>>] BY <1>2, <3>2 DEF FoldRec
      <4> QED BY <4>1, <4>2, <3>2
    <3> QED BY <3>1, <3>2
  <2>2. g = [s \in SUBSET S |-> g[s]] BY <1>2 DEF FoldRec
  <2> HIDE DEF F
  <2> QED BY <2>1, <2>2 DEF Scrubbing
<1>5. \A h : Scrubbing(h, bp, base, S) => h = g BY <1>4, ScrubbingUnique
<1>6. Scrubbed(bp, base, S) = g[S]
  BY <1>4, <1>5, FoldIsScrubbing
<1> QED BY <1>3, <1>4, <1>6 DEF HasScrubbing

-----------------------------------------------------------------------------
(* What the counters of a tally have to add up to.  In the middle of a     *)
(* removal the counters of the producers in X are left open.               *)
Last(rows) == [a \in Accounts |-> rows[a].last_vote_weight]
CastIn(rows, bp) == {a \in Accounts : bp \in rows[a].producers}
FollowIn(rows, p) == {f \in Accounts : rows[f].proxy = p}
Total(rows, group) == SumFunctionOnSet(Last(rows), group)

TallyType ==
    [voters : [Accounts -> Voter], votes : [BPs -> Int], weight : Int, active : SUBSET BPs,
     shorted : SUBSET BPs]

OneWay(rows) == \A a \in Accounts : rows[a].proxy = NoProxy \/ rows[a].producers = {}

(* Votes never fall short of the ballots; they match them, and no ballot   *)
(* weighs less than nothing, while the producer has not been shorted.      *)
VoteRight(rows, votes, short, bp) ==
    /\ votes[bp] >= Total(rows, CastIn(rows, bp))
    /\ bp \notin short =>
          /\ votes[bp] = Total(rows, CastIn(rows, bp))
          /\ \A a \in CastIn(rows, bp) : rows[a].last_vote_weight >= 0

VotesRight(t, X) == \A bp \in BPs \ X : VoteRight(t.voters, t.votes, t.shorted, bp)

ProxiesRight(rows) ==
    \A a \in Accounts : rows[a].proxied_vote_weight = Total(rows, FollowIn(rows, a))

Good(t, X) ==
    /\ t \in TallyType
    /\ OneWay(t.voters)
    /\ VotesRight(t, X)
    /\ ProxiesRight(t.voters)

LEMMA Finite == \A S \in SUBSET Accounts : IsFiniteSet(S)
BY ElectionAssumption, FS_Subset

LEMMA FactorInt == \A y \in 0..MaxYear : YearFactor[y] \in Int
BY ElectionAssumption

(* Sums over two groups that differ in one member, of values that differ   *)
(* there alone.                                                            *)
LEMMA SumMove ==
    ASSUME NEW S \in SUBSET Accounts, NEW R \in SUBSET Accounts, NEW a \in Accounts,
           NEW f \in [Accounts -> Int], NEW g \in [Accounts -> Int],
           S \ {a} = R \ {a}, \A x \in Accounts \ {a} : f[x] = g[x]
    PROVE  SumFunctionOnSet(g, R) = SumFunctionOnSet(f, S)
              - (IF a \in S THEN f[a] ELSE 0) + (IF a \in R THEN g[a] ELSE 0)
<1> DEFINE Q == S \ {a}
<1>1. SumFunctionOnSet(f, Q) = SumFunctionOnSet(g, Q) /\ SumFunctionOnSet(f, Q) \in Int
  <2>1. Q \in SUBSET Accounts /\ \A x \in Q : f[x] = g[x] /\ f[x] \in Int OBVIOUS
  <2> HIDE DEF Q
  <2> QED BY <2>1, Finite, SumSame, SumType
<1>2. SumFunctionOnSet(f, S) = (IF a \in S THEN f[a] ELSE 0) + SumFunctionOnSet(f, Q)
  <2>1. CASE a \in S BY <2>1, Finite, SumRemove
  <2>2. CASE a \notin S
    <3>1. Q = S BY <2>2
    <3> HIDE DEF Q
    <3> QED BY <2>2, <3>1, <1>1
  <2> QED BY <2>1, <2>2
<1>3. SumFunctionOnSet(g, R) = (IF a \in R THEN g[a] ELSE 0) + SumFunctionOnSet(g, Q)
  <2>1. CASE a \in R
    <3>1. SumFunctionOnSet(g, R) = g[a] + SumFunctionOnSet(g, R \ {a}) BY <2>1, Finite, SumRemove
    <3>2. R \ {a} = Q OBVIOUS
    <3> QED BY <2>1, <3>1, <3>2
  <2>2. CASE a \notin R
    <3>1. Q = R BY <2>2
    <3> HIDE DEF Q
    <3> QED BY <2>2, <3>1, <1>1
  <2> QED BY <2>1, <2>2
<1> HIDE DEF Q
<1> QED BY <1>1, <1>2, <1>3

(* No voter contributes more than the sum it is part of, if none takes     *)
(* away from it.                                                           *)
LEMMA TotalCovers ==
    ASSUME NEW rows \in [Accounts -> Voter], NEW S \in SUBSET Accounts
    PROVE  /\ Total(rows, S) \in Int
           /\ (\A a \in S : rows[a].last_vote_weight >= 0) =>
                 \A a \in S : rows[a].last_vote_weight <= Total(rows, S)
<1> DEFINE f == Last(rows)
<1>1. \A x \in Accounts : f[x] \in Int /\ f[x] = rows[x].last_vote_weight
  BY DEF Last, Voter
<1> HIDE DEF f
<1>2. SumFunctionOnSet(f, S) \in Int BY <1>1, Finite, SumType
<1>3. ASSUME \A a \in S : rows[a].last_vote_weight >= 0, NEW a \in S
      PROVE  f[a] <= SumFunctionOnSet(f, S)
  <2>1. \A x \in S : f[x] \in Nat BY <1>1, <1>3
  <2> QED BY <2>1, Finite, SumCoversPart
<1>4. Total(rows, S) = SumFunctionOnSet(f, S) BY DEF f, Total
<1> QED BY <1>1, <1>2, <1>3, <1>4

-----------------------------------------------------------------------------
(* update_votes, column by column.                                         *)
Contribution(t, a) == t.voters[a].staked * YearFactor[year]

RowsLess(rows, a) ==
    [b \in Accounts |-> [rows[b] EXCEPT !.proxied_vote_weight =
        @ - (IF b = rows[a].proxy THEN rows[a].last_vote_weight ELSE 0)]]

VotesLess(t, a) ==
    [bp \in BPs |-> IF bp \in t.voters[a].producers
                    THEN AtLeastZero(t.votes[bp] - t.voters[a].last_vote_weight)
                    ELSE t.votes[bp]]

LEMMA WithoutOldVoteIs ==
    ASSUME NEW t \in TallyType, OneWay(t.voters), NEW a \in Accounts
    PROVE  WithoutOldVote(t, a) = [voters |-> RowsLess(t.voters, a), votes |-> VotesLess(t, a),
                                   weight |-> t.weight, active |-> t.active,
                                   shorted |-> t.shorted]
<1> DEFINE rows == t.voters
           old == rows[a]
<1>1. rows \in [Accounts -> Voter] /\ t.votes \in [BPs -> Int] /\ old \in Voter
  BY DEF TallyType
<1>2. t = [voters |-> rows, votes |-> t.votes, weight |-> t.weight, active |-> t.active,
           shorted |-> t.shorted]
  BY DEF TallyType
<1>3. CASE old.proxy # NoProxy
  <2>1. old.proxy \in Accounts /\ old.producers = {}
    BY <1>1, <1>3 DEF Voter, OneWay
  <2>2. VotesLess(t, a) = t.votes
    BY <1>1, <2>1 DEF VotesLess
  <2>3. RowsLess(rows, a) = [rows EXCEPT ![old.proxy].proxied_vote_weight = @ - old.last_vote_weight]
    <3>1. ASSUME NEW b \in Accounts, b # old.proxy
          PROVE  [rows[b] EXCEPT !.proxied_vote_weight = @ - 0] = rows[b]
      <4>1. rows[b] \in Voter BY <1>1
      <4> HIDE DEF rows
      <4> QED BY <4>1 DEF Voter
    <3> HIDE DEF rows
    <3> QED BY <1>1, <2>1, <3>1 DEF RowsLess
  <2>4. WithoutOldVote(t, a) =
           [t EXCEPT !.voters[old.proxy].proxied_vote_weight = @ - old.last_vote_weight]
    BY <1>3 DEF WithoutOldVote
  <2>5. WithoutOldVote(t, a) = [t EXCEPT !.voters =
           [rows EXCEPT ![old.proxy].proxied_vote_weight = @ - old.last_vote_weight]]
    BY <2>4
  <2> QED BY <1>2, <2>2, <2>3, <2>5
<1>4. CASE old.proxy = NoProxy
  <2>1. RowsLess(rows, a) = rows
    <3>1. ASSUME NEW b \in Accounts
          PROVE  [rows[b] EXCEPT !.proxied_vote_weight = @ - 0] = rows[b]
      <4>1. rows[b] \in Voter BY <1>1
      <4> HIDE DEF rows
      <4> QED BY <4>1 DEF Voter
    <3>2. NoProxy \notin Accounts BY ElectionAssumption
    <3> HIDE DEF rows
    <3> QED BY <1>1, <1>4, <3>1, <3>2 DEF RowsLess
  <2>2. WithoutOldVote(t, a) = [t EXCEPT !.votes = VotesLess(t, a)]
    BY <1>4 DEF WithoutOldVote, VotesLess
  <2> QED BY <1>2, <2>1, <2>2
<1> QED BY <1>3, <1>4

(* Rows as records, one column after the other.                            *)
Row(e, s, p, q, i, l, x) ==
    [exists |-> e, staked |-> s, proxy |-> p, producers |-> q, is_proxy |-> i,
     last_vote_weight |-> l, proxied_vote_weight |-> x]

RowWith(r, x) ==
    Row(r.exists, r.staked, r.proxy, r.producers, r.is_proxy, r.last_vote_weight, x)

LEMMA RowWithIs ==
    ASSUME NEW r \in Voter, NEW x \in Int
    PROVE  [r EXCEPT !.proxied_vote_weight = x] = RowWith(r, x) /\ RowWith(r, x) \in Voter
BY DEF Voter, RowWith, Row

Voted(r, e, p, q, l) ==
    [r EXCEPT !.exists = e, !.proxy = p, !.producers = q, !.last_vote_weight = l]

LEMMA RowVoted ==
    ASSUME NEW e, NEW s, NEW p, NEW q, NEW i, NEW l, NEW x, NEW e2, NEW p2, NEW q2, NEW l2
    PROVE  Voted(Row(e, s, p, q, i, l, x), e2, p2, q2, l2) = Row(e2, s, p2, q2, i, l2, x)
<1>1. [Row(e, s, p, q, i, l, x) EXCEPT !.exists = e2] = Row(e2, s, p, q, i, l, x)
  BY DEF Row
<1>2. [Row(e2, s, p, q, i, l, x) EXCEPT !.proxy = p2] = Row(e2, s, p2, q, i, l, x)
  BY DEF Row
<1>3. [Row(e2, s, p2, q, i, l, x) EXCEPT !.producers = q2] = Row(e2, s, p2, q2, i, l, x)
  BY DEF Row
<1>4. [Row(e2, s, p2, q2, i, l, x) EXCEPT !.last_vote_weight = l2] = Row(e2, s, p2, q2, i, l2, x)
  BY DEF Row
<1> QED BY <1>1, <1>2, <1>3, <1>4 DEF Voted

UpdatedRow(t, a, proxy, slate, b) ==
    LET rows == t.voters
        w == Contribution(t, a)
    IN  Row(IF b = a THEN TRUE ELSE rows[b].exists,
            rows[b].staked,
            IF b = a THEN proxy ELSE rows[b].proxy,
            IF b = a THEN slate ELSE rows[b].producers,
            rows[b].is_proxy,
            IF b = a THEN w ELSE rows[b].last_vote_weight,
            rows[b].proxied_vote_weight
              - (IF b = rows[a].proxy THEN rows[a].last_vote_weight ELSE 0)
              + (IF b = proxy THEN w ELSE 0))

UpdatedVotes(t, a, slate) ==
    [bp \in BPs |-> VotesLess(t, a)[bp] + (IF bp \in slate THEN Contribution(t, a) ELSE 0)]

LEMMA UpdateIs ==
    ASSUME NEW t \in TallyType, OneWay(t.voters), NEW a \in Accounts,
           NEW proxy \in Accounts \cup {NoProxy}, NEW slate \in SUBSET BPs,
           proxy = NoProxy \/ slate = {}, year \in 0..MaxYear
    PROVE  UpdateVotes(t, a, proxy, slate) =
              [voters |-> [b \in Accounts |-> UpdatedRow(t, a, proxy, slate, b)],
               votes |-> UpdatedVotes(t, a, slate),
               weight |-> SumFunctionOnSet(UpdatedVotes(t, a, slate), t.active),
               active |-> t.active,
               shorted |-> IF Contribution(t, a) < 0 THEN t.shorted \cup slate ELSE t.shorted]
<1> DEFINE rows == t.voters
           less == RowsLess(rows, a)
           w == Contribution(t, a)
           v == [voters |-> less, votes |-> VotesLess(t, a), weight |-> t.weight,
                 active |-> t.active, shorted |-> t.shorted]
           short == IF w < 0 THEN t.shorted \cup slate ELSE t.shorted
           after == UpdatedVotes(t, a, slate)
           given == [b \in Accounts |-> [less[b] EXCEPT !.proxied_vote_weight =
                        @ + (IF b = proxy THEN w ELSE 0)]]
           new == [b \in Accounts |-> UpdatedRow(t, a, proxy, slate, b)]
<1>1. rows \in [Accounts -> Voter] /\ t.votes \in [BPs -> Int]
  BY DEF TallyType
<1>2. w \in Int
  BY <1>1, FactorInt DEF Voter, Contribution
<1>3. \A b \in Accounts : less[b] = [rows[b] EXCEPT !.proxied_vote_weight =
                     @ - (IF b = rows[a].proxy THEN rows[a].last_vote_weight ELSE 0)]
  BY DEF RowsLess
<1>4. \A b \in Accounts : less[b] \in Voter
  <2>1. ASSUME NEW b \in Accounts PROVE less[b] \in Voter
    <3> DEFINE r == rows[b]
               x == r.proxied_vote_weight
                       - (IF b = rows[a].proxy THEN rows[a].last_vote_weight ELSE 0)
    <3>1. r \in Voter /\ x \in Int BY <1>1 DEF Voter
    <3>2. less[b] = [r EXCEPT !.proxied_vote_weight = x] BY <1>3
    <3> HIDE DEF r, x, less
    <3> QED BY <3>1, <3>2, RowWithIs
  <2> QED BY <2>1
<1>5. VotesLess(t, a) \in [BPs -> Int]
  BY <1>1 DEF VotesLess, AtLeastZero, Voter
<1>6. WithNewVote(v, proxy, slate, w) =
         [voters |-> given, votes |-> after, weight |-> t.weight, active |-> t.active,
          shorted |-> t.shorted]
  <2>1. CASE proxy # NoProxy
    <3>1. proxy \in Accounts /\ slate = {} BY <2>1
    <3>2. after = VotesLess(t, a) BY <1>5, <3>1 DEF UpdatedVotes
    <3>3. given = [less EXCEPT ![proxy].proxied_vote_weight = @ + w]
      <4>1. ASSUME NEW b \in Accounts PROVE [less[b] EXCEPT !.proxied_vote_weight = @ + 0] = less[b]
        <5> HIDE DEF less
        <5> QED BY <1>4 DEF Voter
      <4>2. less = [b \in Accounts |-> less[b]] BY DEF RowsLess
      <4> HIDE DEF less, w
      <4> QED BY <3>1, <4>1, <4>2
    <3>4. WithNewVote(v, proxy, slate, w) =
             [v EXCEPT !.voters = [less EXCEPT ![proxy].proxied_vote_weight = @ + w]]
      BY <2>1 DEF WithNewVote
    <3> HIDE DEF given, after, less
    <3> QED BY <3>2, <3>3, <3>4
  <2>2. CASE proxy = NoProxy
    <3>1. given = less
      <4>1. ASSUME NEW b \in Accounts PROVE [less[b] EXCEPT !.proxied_vote_weight = @ + 0] = less[b]
        <5> HIDE DEF less
        <5> QED BY <1>4 DEF Voter
      <4>2. less = [b \in Accounts |-> less[b]] BY DEF RowsLess
      <4>3. NoProxy \notin Accounts BY ElectionAssumption
      <4> HIDE DEF less, w
      <4> QED BY <2>2, <4>1, <4>2, <4>3
    <3>2. after = [bp \in BPs |-> IF bp \in slate THEN VotesLess(t, a)[bp] + w
                                 ELSE VotesLess(t, a)[bp]]
      <4> HIDE DEF w
      <4> QED BY <1>5 DEF UpdatedVotes, w
    <3>3. WithNewVote(v, proxy, slate, w) = [v EXCEPT !.votes = after]
      BY <2>2, <3>2 DEF WithNewVote
    <3> HIDE DEF given, after, less
    <3> QED BY <3>1, <3>3
  <2> QED BY <2>1, <2>2
<1>7. new = [given EXCEPT ![a] = [@ EXCEPT !.exists = TRUE, !.proxy = proxy, !.producers = slate,
                                       !.last_vote_weight = w]]
  <2> DEFINE k(b) == IF b = rows[a].proxy THEN rows[a].last_vote_weight ELSE 0
             m(b) == IF b = proxy THEN w ELSE 0
  <2>0. ASSUME NEW b \in Accounts
        PROVE  given[b] = RowWith(rows[b], rows[b].proxied_vote_weight - k(b) + m(b))
    <3> DEFINE r == rows[b]
               x == r.proxied_vote_weight - k(b)
    <3>1. r \in Voter /\ x \in Int /\ m(b) \in Int
      BY <1>1, <1>2 DEF Voter
    <3>2. less[b] = [r EXCEPT !.proxied_vote_weight = x] BY <1>3
    <3>3. less[b] = RowWith(r, x) /\ RowWith(r, x) \in Voter
      <4> HIDE DEF r, x, less
      <4> QED BY <3>1, <3>2, RowWithIs
    <3>4. given[b] = [less[b] EXCEPT !.proxied_vote_weight = @ + m(b)] OBVIOUS
    <3>5. RowWith(r, x).proxied_vote_weight = x BY DEF RowWith, Row
    <3>6. given[b] = [RowWith(r, x) EXCEPT !.proxied_vote_weight = x + m(b)]
      <4> HIDE DEF r, x, less, given, m
      <4> QED BY <3>3, <3>4, <3>5
    <3>7. given[b] = RowWith(RowWith(r, x), x + m(b))
      <4>1. x + m(b) \in Int
        <5> HIDE DEF x, m
        <5> QED BY <3>1
      <4> HIDE DEF r, x, less, given, m
      <4> QED BY <3>3, <3>6, <4>1, RowWithIs
    <3> HIDE DEF given
    <3> QED BY <3>7 DEF RowWith, Row
  <2>1. ASSUME NEW b \in Accounts, b # a PROVE new[b] = given[b]
    <3> HIDE DEF given
    <3> QED BY <2>0, <2>1 DEF UpdatedRow, RowWith
  <2>2. new[a] = [given[a] EXCEPT !.exists = TRUE, !.proxy = proxy, !.producers = slate,
                                 !.last_vote_weight = w]
    <3> DEFINE x == rows[a].proxied_vote_weight - k(a) + m(a)
    <3>1. new[a] = Row(TRUE, rows[a].staked, proxy, slate, rows[a].is_proxy, w, x)
      BY DEF UpdatedRow
    <3>2. given[a] = Row(rows[a].exists, rows[a].staked, rows[a].proxy, rows[a].producers,
                         rows[a].is_proxy, rows[a].last_vote_weight, x)
      BY <2>0 DEF RowWith
    <3> DEFINE yes == TRUE
    <3> HIDE DEF x, k, m, given, rows, new, w, yes
    <3>3. Voted(given[a], yes, proxy, slate, w)
             = Row(yes, rows[a].staked, proxy, slate, rows[a].is_proxy, w, x)
      BY <3>2, RowVoted
    <3> QED BY <3>1, <3>3, Zenon DEF Voted, yes
  <2> HIDE DEF w
  <2>3. new = [b \in Accounts |-> new[b]] /\ given = [b \in Accounts |-> given[b]] OBVIOUS
  <2> HIDE DEF new, given
  <2> QED BY <2>1, <2>2, <2>3
<1>8. WithoutOldVote(t, a) = v BY WithoutOldVoteIs
<1>9. UpdateVotes(t, a, proxy, slate) =
         Recomputed([[WithNewVote(v, proxy, slate, w) EXCEPT !.voters[a] =
           [@ EXCEPT !.exists = TRUE, !.proxy = proxy, !.producers = slate,
                     !.last_vote_weight = w]]
           EXCEPT !.shorted = IF w < 0 THEN @ \cup slate ELSE @])
  BY <1>8 DEF UpdateVotes, Contribution
<1> DEFINE voted == [voters |-> new, votes |-> after, weight |-> t.weight, active |-> t.active,
                     shorted |-> short]
<1>10. UpdateVotes(t, a, proxy, slate) = Recomputed(voted)
  <2> DEFINE cast == [voters |-> given, votes |-> after, weight |-> t.weight,
                      active |-> t.active, shorted |-> t.shorted]
             listed == [cast EXCEPT !.voters[a] =
               [@ EXCEPT !.exists = TRUE, !.proxy = proxy, !.producers = slate,
                         !.last_vote_weight = w]]
  <2>1. listed = [cast EXCEPT !.voters = new]
    <3> HIDE DEF new, given, after, w
    <3> QED BY <1>7
  <2>2. [listed EXCEPT !.shorted = IF w < 0 THEN @ \cup slate ELSE @] = voted
    <3>1. listed = [voters |-> new, votes |-> after, weight |-> t.weight,
                    active |-> t.active, shorted |-> t.shorted]
      <4> HIDE DEF listed, new, given, after, w
      <4> QED BY <2>1
    <3>2. listed.shorted = t.shorted /\ short = IF w < 0 THEN t.shorted \cup slate ELSE t.shorted
      <4> HIDE DEF listed
      <4> QED BY <3>1
    <3> HIDE DEF listed, new, given, after, w, short
    <3>3. (IF w < 0 THEN listed.shorted \cup slate ELSE listed.shorted) = short BY <3>2
    <3> QED BY <3>1, <3>3
  <2>3. UpdateVotes(t, a, proxy, slate) =
           Recomputed([listed EXCEPT !.shorted = IF w < 0 THEN @ \cup slate ELSE @])
    <3> HIDE DEF new, given, after, v, w
    <3> QED BY <1>6, <1>9
  <2> HIDE DEF listed, voted
  <2> QED BY <2>2, <2>3
<1> HIDE DEF new, after, short
<1>11. Recomputed(voted)
         = [voters |-> new, votes |-> after, weight |-> SumFunctionOnSet(after, t.active),
            active |-> t.active, shorted |-> short]
  BY DEF Recomputed
<1> QED BY <1>10, <1>11 DEF new, after, short

-----------------------------------------------------------------------------
(* update_votes keeps every counter the sum of what is behind it.          *)
LEMMA UpdateGood ==
    ASSUME NEW X, NEW t, Good(t, X), NEW a \in Accounts,
           NEW proxy \in Accounts \cup {NoProxy}, NEW slate \in SUBSET BPs,
           proxy = NoProxy \/ slate = {}, year \in 0..MaxYear
    PROVE  LET u == UpdateVotes(t, a, proxy, slate)
           IN  /\ Good(u, X)
               /\ u.active = t.active
               /\ \A b \in Accounts :
                     /\ u.voters[b].staked = t.voters[b].staked
                     /\ u.voters[b].producers = IF b = a THEN slate ELSE t.voters[b].producers
                     /\ u.voters[b].last_vote_weight =
                           IF b = a THEN Contribution(t, a) ELSE t.voters[b].last_vote_weight
               /\ t.shorted \subseteq u.shorted /\ u.shorted \subseteq t.shorted \cup slate
<1> DEFINE rows == t.voters
           w == Contribution(t, a)
           new == [b \in Accounts |-> UpdatedRow(t, a, proxy, slate, b)]
           after == UpdatedVotes(t, a, slate)
           weight == SumFunctionOnSet(after, t.active)
           short == IF w < 0 THEN t.shorted \cup slate ELSE t.shorted
           u == UpdateVotes(t, a, proxy, slate)
<1>1. /\ t \in TallyType /\ OneWay(rows) /\ VotesRight(t, X) /\ ProxiesRight(rows)
      /\ rows \in [Accounts -> Voter] /\ t.votes \in [BPs -> Int] /\ t.active \subseteq BPs
      /\ t.shorted \subseteq BPs
  BY DEF Good, TallyType
<1>2. w \in Int
  BY <1>1, FactorInt DEF Voter, Contribution
<1>3. u = [voters |-> new, votes |-> after, weight |-> weight, active |-> t.active,
           shorted |-> short]
  <2> HIDE DEF new, after, weight, short, u
  <2> QED BY <1>1, UpdateIs DEF new, after, weight, short, u
<1>4. ASSUME NEW b \in Accounts
      PROVE  /\ new[b].exists = IF b = a THEN TRUE ELSE rows[b].exists
             /\ new[b].staked = rows[b].staked
             /\ new[b].proxy = IF b = a THEN proxy ELSE rows[b].proxy
             /\ new[b].producers = IF b = a THEN slate ELSE rows[b].producers
             /\ new[b].is_proxy = rows[b].is_proxy
             /\ new[b].last_vote_weight = IF b = a THEN w ELSE rows[b].last_vote_weight
             /\ new[b].proxied_vote_weight = rows[b].proxied_vote_weight
                   - (IF b = rows[a].proxy THEN rows[a].last_vote_weight ELSE 0)
                   + (IF b = proxy THEN w ELSE 0)
  BY DEF UpdatedRow, Row
<1> DEFINE f == Last(rows)
           g == Last(new)
<1>5. /\ f \in [Accounts -> Int] /\ g \in [Accounts -> Int]
      /\ f[a] = rows[a].last_vote_weight /\ g[a] = w
      /\ \A x \in Accounts \ {a} : f[x] = g[x]
  <2>1. \A b \in Accounts : rows[b].last_vote_weight \in Int BY <1>1 DEF Voter
  <2>2. /\ \A b \in Accounts : f[b] = rows[b].last_vote_weight /\ g[b] = new[b].last_vote_weight
        /\ f = [b \in Accounts |-> f[b]] /\ g = [b \in Accounts |-> g[b]]
    BY DEF Last
  <2>3. \A b \in Accounts : g[b] = IF b = a THEN w ELSE f[b]
    <3> HIDE DEF f, g, new, rows, w
    <3>1. \A b \in Accounts :
            new[b].last_vote_weight = IF b = a THEN w ELSE rows[b].last_vote_weight
      BY <1>4
    <3> QED BY <2>2, <3>1
  <2> HIDE DEF f, g, new, rows, w
  <2> QED BY <1>2, <2>1, <2>2, <2>3
<1> HIDE DEF f, g, new, rows, w, after, weight, short
<1>6. ASSUME NEW S \in SUBSET Accounts, NEW R \in SUBSET Accounts, S \ {a} = R \ {a}
      PROVE  /\ Total(new, R) = Total(rows, S)
                   - (IF a \in S THEN rows[a].last_vote_weight ELSE 0) + (IF a \in R THEN w ELSE 0)
             /\ Total(new, R) \in Int
             /\ Total(rows, S) \in Int
             /\ (\A x \in S : rows[x].last_vote_weight >= 0) =>
                   \A x \in S : rows[x].last_vote_weight <= Total(rows, S)
  <2>1. SumFunctionOnSet(g, R) = SumFunctionOnSet(f, S)
              - (IF a \in S THEN f[a] ELSE 0) + (IF a \in R THEN g[a] ELSE 0)
    <3>1. /\ f \in [Accounts -> Int] /\ g \in [Accounts -> Int]
          /\ \A x \in Accounts \ {a} : f[x] = g[x]
      BY <1>5
    <3> QED BY <1>6, <3>1, SumMove
  <2>2. SumFunctionOnSet(g, R) \in Int BY <1>5, Finite, SumType
  <2>3. /\ Total(rows, S) \in Int
        /\ (\A x \in S : rows[x].last_vote_weight >= 0) =>
              \A x \in S : rows[x].last_vote_weight <= Total(rows, S)
    BY <1>1, TotalCovers
  <2>4. Total(new, R) = SumFunctionOnSet(g, R) /\ Total(rows, S) = SumFunctionOnSet(f, S)
    BY DEF Total, f, g
  <2> QED BY <1>5, <2>1, <2>2, <2>3, <2>4
<1>7. ASSUME NEW bp \in BPs
      PROVE  /\ after[bp] \in Int
             /\ bp \notin X => VoteRight(new, after, short, bp)
  <2> DEFINE S == CastIn(rows, bp)
             R == CastIn(new, bp)
  <2>1. /\ S \in SUBSET Accounts /\ R \in SUBSET Accounts /\ S \ {a} = R \ {a}
        /\ (a \in S) <=> (bp \in rows[a].producers)
        /\ (a \in R) <=> (bp \in slate)
    BY <1>4 DEF CastIn
  <2>2. after[bp] = (IF bp \in rows[a].producers
                     THEN AtLeastZero(t.votes[bp] - rows[a].last_vote_weight)
                     ELSE t.votes[bp]) + (IF bp \in slate THEN w ELSE 0)
    BY DEF after, UpdatedVotes, VotesLess, rows, w
  <2>3. t.votes[bp] \in Int /\ rows[a].last_vote_weight \in Int
    BY <1>1 DEF Voter
  <2>4. after[bp] \in Int
    BY <1>2, <2>2, <2>3 DEF AtLeastZero
  <2>5. ASSUME bp \notin X PROVE VoteRight(new, after, short, bp)
    <3>1. VoteRight(rows, t.votes, t.shorted, bp) BY <1>1, <2>5 DEF VotesRight, rows
    <3>2. /\ t.votes[bp] >= Total(rows, S)
          /\ bp \notin t.shorted =>
                t.votes[bp] = Total(rows, S) /\ \A x \in S : rows[x].last_vote_weight >= 0
      BY <3>1 DEF VoteRight
    <3>3. \A x \in R \ {a} : new[x].last_vote_weight = rows[x].last_vote_weight
      BY <1>4, <2>1
    <3>4. a \in R => new[a].last_vote_weight = w BY <1>4, <2>1
    <3> HIDE DEF S, R
    <3>5. /\ Total(new, R) = Total(rows, S)
                - (IF a \in S THEN rows[a].last_vote_weight ELSE 0) + (IF a \in R THEN w ELSE 0)
          /\ Total(new, R) \in Int /\ Total(rows, S) \in Int
          /\ (\A x \in S : rows[x].last_vote_weight >= 0) =>
                \A x \in S : rows[x].last_vote_weight <= Total(rows, S)
      BY <1>6, <2>1
    <3>6. after[bp] >= Total(new, R)
      BY <1>2, <2>1, <2>2, <2>3, <3>2, <3>5 DEF AtLeastZero
    <3>7. ASSUME bp \notin short
          PROVE  after[bp] = Total(new, R) /\ \A x \in R : new[x].last_vote_weight >= 0
      <4>1. bp \notin t.shorted /\ (bp \in slate => w >= 0)
        BY <1>2, <3>7 DEF short
      <4>2. after[bp] = Total(new, R)
        BY <1>2, <2>1, <2>2, <2>3, <3>2, <3>5, <4>1 DEF AtLeastZero
      <4>3. \A x \in R : new[x].last_vote_weight >= 0
        BY <1>2, <2>1, <3>2, <3>3, <3>4, <4>1
      <4> QED BY <4>2, <4>3
    <3> QED BY <3>6, <3>7 DEF VoteRight, R
  <2> QED BY <2>4, <2>5
<1>8. ASSUME NEW p \in Accounts
      PROVE  /\ new[p].proxied_vote_weight = Total(new, FollowIn(new, p))
             /\ new[p].proxied_vote_weight \in Int
  <2> DEFINE S == FollowIn(rows, p)
             R == FollowIn(new, p)
  <2>0. \A b \in Accounts : new[b].proxy = IF b = a THEN proxy ELSE rows[b].proxy
    BY <1>4
  <2>1. /\ S \in SUBSET Accounts /\ R \in SUBSET Accounts /\ S \ {a} = R \ {a}
        /\ (a \in S) <=> (p = rows[a].proxy)
        /\ (a \in R) <=> (p = proxy)
    BY <2>0 DEF FollowIn
  <2>2. rows[p].proxied_vote_weight = Total(rows, S)
    BY <1>1 DEF ProxiesRight
  <2> HIDE DEF S, R
  <2>3. /\ Total(new, R) = Total(rows, S)
              - (IF a \in S THEN rows[a].last_vote_weight ELSE 0) + (IF a \in R THEN w ELSE 0)
        /\ Total(new, R) \in Int
    BY <1>6, <2>1
  <2>4. new[p].proxied_vote_weight = rows[p].proxied_vote_weight
                   - (IF p = rows[a].proxy THEN rows[a].last_vote_weight ELSE 0)
                   + (IF p = proxy THEN w ELSE 0)
    BY <1>4
  <2>5. new[p].proxied_vote_weight = Total(new, R) BY <2>1, <2>2, <2>3, <2>4
  <2> QED BY <2>3, <2>5 DEF R
<1>9. new \in [Accounts -> Voter]
  <2>1. ASSUME NEW b \in Accounts PROVE new[b] \in Voter
    <3>1. new[b] = Row(new[b].exists, new[b].staked, new[b].proxy, new[b].producers,
                       new[b].is_proxy, new[b].last_vote_weight, new[b].proxied_vote_weight)
      BY DEF new, UpdatedRow, Row
    <3>2. /\ new[b].exists \in BOOLEAN /\ new[b].staked \in Int
          /\ new[b].proxy \in Accounts \cup {NoProxy} /\ new[b].producers \in SUBSET BPs
          /\ new[b].is_proxy \in BOOLEAN /\ new[b].last_vote_weight \in Int
          /\ new[b].proxied_vote_weight \in Int
      BY <1>1, <1>2, <1>4, <1>8 DEF Voter
    <3> QED BY <3>1, <3>2 DEF Voter, Row
  <2> QED BY <2>1 DEF new
<1>10. after \in [BPs -> Int]
  BY <1>7 DEF after, UpdatedVotes
<1>11. weight \in Int /\ short \subseteq BPs
  <2>1. IsFiniteSet(t.active) /\ \A bp \in t.active : after[bp] \in Int
    BY <1>1, <1>10, ElectionAssumption, FS_Subset
  <2>2. short \subseteq BPs BY <1>1 DEF short
  <2> QED BY <2>1, <2>2, SumType DEF weight
<1>12. /\ u \in TallyType /\ u.voters = new /\ u.votes = after /\ u.active = t.active
       /\ u.shorted = short
  <2> HIDE DEF u
  <2> QED BY <1>1, <1>3, <1>9, <1>10, <1>11 DEF TallyType
<1>13. OneWay(new)
  BY <1>1, <1>4 DEF OneWay
<1>14. VotesRight(u, X) /\ ProxiesRight(new)
  BY <1>7, <1>8, <1>12 DEF VotesRight, ProxiesRight
<1> HIDE DEF u
<1>15. Good(u, X)
  BY <1>12, <1>13, <1>14 DEF Good
<1> QED BY <1>4, <1>12, <1>15 DEF u, rows, w, short

-----------------------------------------------------------------------------
(* The removal of votes.                                                   *)
Backed(rows) ==
    \A a \in Accounts : rows[a].producers # {} =>
       \E y \in 0..year : rows[a].last_vote_weight = rows[a].staked * YearFactor[y]

LEMMA EmptyTotal == \A rows : Total(rows, {}) = 0
BY FS_EmptySet, SumStep DEF Total

(* What does not touch a ballot's producers, Representative or weight does *)
(* not touch the sums.                                                     *)
LEMMA SameTotals ==
    ASSUME NEW rows, NEW new, \A a \in Accounts : new[a].last_vote_weight = rows[a].last_vote_weight
    PROVE  \A S : Total(new, S) = Total(rows, S)
<1>1. Last(new) = Last(rows) BY DEF Last
<1> QED BY <1>1 DEF Total

(* Who is shorted on the way was so before, or is on somebody's ballot.    *)
ShortsListed(t, u) ==
    \A q \in u.shorted : q \in t.shorted \/ \E b \in Accounts : q \in t.voters[b].producers

Scrubs(bp, a, t, u) ==
    /\ Good(u, {bp}) /\ Backed(u.voters)
    /\ u.active = t.active
    /\ \A b \in Accounts :
          /\ u.voters[b].staked = t.voters[b].staked
          /\ u.voters[b].producers = IF b = a THEN t.voters[b].producers \ {bp}
                                     ELSE t.voters[b].producers
    /\ ShortsListed(t, u)

LEMMA ScrubGood ==
    ASSUME NEW bp \in BPs, NEW a \in Accounts, NEW t, Good(t, {bp}), Backed(t.voters),
           year \in 0..MaxYear
    PROVE  Scrubs(bp, a, t, Scrub(bp, a, t))
<1> DEFINE rows == t.voters
           slate == rows[a].producers \ {bp}
           new == [rows EXCEPT ![a].producers = slate]
           v == [t EXCEPT !.voters[a].producers = @ \ {bp}]
           u == Scrub(bp, a, t)
<1>1. /\ t \in TallyType /\ OneWay(rows) /\ VotesRight(t, {bp}) /\ ProxiesRight(rows)
      /\ rows \in [Accounts -> Voter] /\ slate \in SUBSET BPs
  BY DEF Good, TallyType, Voter
<1>2. v = [t EXCEPT !.voters = new]
  BY DEF TallyType
<1>3. new \in [Accounts -> Voter]
  <2>1. [rows[a] EXCEPT !.producers = slate] \in Voter
    <3>1. rows[a] \in Voter BY <1>1
    <3> HIDE DEF rows, slate
    <3> QED BY <1>1, <3>1 DEF Voter
  <2> HIDE DEF rows, slate
  <2> QED BY <1>1, <2>1
<1>4. \A b \in Accounts :
        /\ new[b].proxy = rows[b].proxy
        /\ new[b].staked = rows[b].staked
        /\ new[b].last_vote_weight = rows[b].last_vote_weight
        /\ new[b].proxied_vote_weight = rows[b].proxied_vote_weight
        /\ new[b].producers = IF b = a THEN slate ELSE rows[b].producers
  BY <1>1 DEF Voter
<1>5. /\ v \in TallyType /\ v.voters = new /\ v.votes = t.votes /\ v.active = t.active
      /\ v.shorted = t.shorted
  <2> HIDE DEF new, v
  <2> QED BY <1>1, <1>2, <1>3 DEF TallyType
<1> HIDE DEF rows, slate, new, v
<1>6. Good(v, {bp})
  <2>1. OneWay(new) BY <1>1, <1>4 DEF OneWay, slate
  <2>2. \A S : Total(new, S) = Total(rows, S) BY <1>4, SameTotals
  <2>3. \A q \in BPs \ {bp} : CastIn(new, q) = CastIn(rows, q)
    BY <1>4 DEF CastIn, slate
  <2>4. \A p : FollowIn(new, p) = FollowIn(rows, p)
    BY <1>4 DEF FollowIn
  <2>5. VotesRight(v, {bp})
    <3>1. SUFFICES ASSUME NEW q \in BPs \ {bp} PROVE VoteRight(new, t.votes, t.shorted, q)
      BY <1>5 DEF VotesRight
    <3>2. VoteRight(rows, t.votes, t.shorted, q) BY <1>1 DEF VotesRight, rows
    <3>3. \A b \in CastIn(new, q) : b \in Accounts BY DEF CastIn
    <3> QED BY <1>4, <2>2, <2>3, <3>2, <3>3 DEF VoteRight
  <2>6. ProxiesRight(new) BY <1>1, <1>4, <2>2, <2>4 DEF ProxiesRight
  <2> QED BY <1>5, <2>1, <2>5, <2>6 DEF Good
<1>7. u = UpdateVotes(v, a, new[a].proxy, new[a].producers)
  BY <1>5 DEF Scrub, Propagate, v
<1>8. /\ new[a].proxy \in Accounts \cup {NoProxy} /\ new[a].producers \in SUBSET BPs
      /\ new[a].proxy = NoProxy \/ new[a].producers = {}
  BY <1>3, <1>5, <1>6 DEF Good, OneWay, Voter
<1> HIDE DEF u
<1>9. /\ Good(u, {bp})
      /\ u.active = v.active
      /\ \A b \in Accounts :
            /\ u.voters[b].staked = v.voters[b].staked
            /\ u.voters[b].producers = IF b = a THEN new[a].producers ELSE v.voters[b].producers
            /\ u.voters[b].last_vote_weight =
                  IF b = a THEN Contribution(v, a) ELSE v.voters[b].last_vote_weight
      /\ u.shorted \subseteq v.shorted \cup new[a].producers
  BY <1>6, <1>7, <1>8, UpdateGood
<1>10. \A b \in Accounts :
          /\ u.voters[b].staked = rows[b].staked
          /\ u.voters[b].producers = IF b = a THEN rows[b].producers \ {bp} ELSE rows[b].producers
          /\ u.voters[b].last_vote_weight =
                IF b = a THEN rows[a].staked * YearFactor[year] ELSE rows[b].last_vote_weight
  BY <1>4, <1>5, <1>9 DEF Contribution, slate
<1>11. Backed(u.voters)
  <2>1. SUFFICES ASSUME NEW b \in Accounts, u.voters[b].producers # {}
                 PROVE  \E y \in 0..year :
                           u.voters[b].last_vote_weight = u.voters[b].staked * YearFactor[y]
    BY DEF Backed
  <2>2. CASE b = a
    <3>1. year \in 0..year BY ElectionAssumption
    <3> QED BY <1>10, <2>2, <3>1
  <2>3. CASE b # a BY <1>10, <2>1, <2>3 DEF Backed, rows
  <2> QED BY <2>2, <2>3
<1>12. ShortsListed(t, u)
  BY <1>4, <1>5, <1>9 DEF ShortsListed, slate, rows
<1> QED BY <1>5, <1>9, <1>10, <1>11, <1>12 DEF u, rows, Scrubs

(* The producers that are gone leave every ballot, and nothing else does.  *)
Clears(gone, t, u) ==
    /\ Good(u, {}) /\ Backed(u.voters)
    /\ \A b \in Accounts :
          /\ u.voters[b].staked = t.voters[b].staked
          /\ u.voters[b].producers = t.voters[b].producers \ gone
    /\ ShortsListed(t, u) /\ u.shorted \cap gone = {}

LEMMA RemoveVotesGood ==
    ASSUME NEW bp \in BPs, NEW t, Good(t, {}), Backed(t.voters), year \in 0..MaxYear
    PROVE  Clears({bp}, t, RemoveVotes(t, bp))
<1> DEFINE T == {u \in TallyType : Good(u, {bp}) /\ Backed(u.voters)}
           S == Ballots(t, bp)
           Done(s, u) ==
              /\ u.active = t.active
              /\ \A b \in Accounts :
                    /\ u.voters[b].staked = t.voters[b].staked
                    /\ u.voters[b].producers = IF b \in s THEN t.voters[b].producers \ {bp}
                                               ELSE t.voters[b].producers
              /\ ShortsListed(t, u)
<1>1. t \in T
  BY DEF Good, VotesRight
<1>2. S \in SUBSET Accounts /\ IsFiniteSet(S)
  BY Finite DEF Ballots
<1>3. \A a \in S, u \in T : Scrub(bp, a, u) \in T
  <2>1. ASSUME NEW a \in S, NEW u \in T PROVE Scrub(bp, a, u) \in T
    <3>1. Good(Scrub(bp, a, u), {bp}) /\ Backed(Scrub(bp, a, u).voters)
      BY <1>2, <2>1, ScrubGood DEF Scrubs
    <3> QED BY <3>1 DEF Good
  <2> QED BY <2>1
<1>4. PICK g : /\ Scrubbing(g, bp, t, S)
               /\ \A s \in SUBSET S : g[s] \in T
               /\ Scrubbed(bp, t, S) = g[S]
  <2> HIDE DEF T, S
  <2>1. HasScrubbing(T, S, bp, t) BY <1>1, <1>2, <1>3, ScrubFold
  <2> QED BY <2>1 DEF HasScrubbing
<1>5. \A s \in SUBSET S : Done(s, g[s])
  <2> DEFINE Q == {s \in SUBSET S : ~Done(s, g[s])}
  <2>1. SUFFICES ASSUME Q # {} PROVE FALSE
    OBVIOUS
  <2>2. PICK s \in Q : \A v \in SUBSET s : v # s => v \notin Q
    <3>1. Q \in SUBSET (SUBSET S) OBVIOUS
    <3> HIDE DEF Q, S
    <3> QED BY <1>2, <2>1, <3>1, LeastSubset
  <2>3. ASSUME s = {} PROVE FALSE
    <3>1. g[s] = t BY <1>4, <2>3 DEF Scrubbing
    <3>2. ShortsListed(t, t) BY DEF ShortsListed
    <3> QED BY <2>2, <2>3, <3>1, <3>2
  <2> DEFINE p == Pick(s)
             r == s \ {p}
  <2>4. p \in s /\ p \in Accounts /\ s \in SUBSET S BY <1>2, <2>2, <2>3, PickIn
  <2>5. g[s] = Scrub(bp, p, g[r]) BY <1>4, <2>3, <2>4 DEF Scrubbing
  <2>6. Done(r, g[r]) BY <2>2, <2>4
  <2>7. Good(g[r], {bp}) /\ Backed(g[r].voters) BY <1>4, <2>4
  <2> HIDE DEF p
  <2>8. /\ g[s].active = g[r].active
        /\ \A b \in Accounts :
              /\ g[s].voters[b].staked = g[r].voters[b].staked
              /\ g[s].voters[b].producers = IF b = p THEN g[r].voters[b].producers \ {bp}
                                            ELSE g[r].voters[b].producers
        /\ ShortsListed(g[r], g[s])
    <3> DEFINE x == g[r]
    <3>1. Good(x, {bp}) /\ Backed(x.voters) /\ g[s] = Scrub(bp, p, x) BY <2>5, <2>7
    <3> HIDE DEF x
    <3>2. Scrubs(bp, p, x, Scrub(bp, p, x)) BY <2>4, <3>1, ScrubGood
    <3> QED BY <3>1, <3>2 DEF x, Scrubs
  <2>9. ShortsListed(t, g[s])
    <3>1. \A b \in Accounts : g[r].voters[b].producers \subseteq t.voters[b].producers BY <2>6
    <3> QED BY <2>6, <2>8, <3>1 DEF ShortsListed
  <2>10. Done(s, g[s]) BY <2>4, <2>6, <2>8, <2>9
  <2> QED BY <2>2, <2>10
<1> DEFINE v == g[S]
           u == RemoveVotes(t, bp)
<1>6. Good(v, {bp}) /\ Backed(v.voters) /\ Done(S, v)
  BY <1>4, <1>5
<1>7. u = [v EXCEPT !.votes[bp] = 0, !.shorted = @ \ {bp}]
  BY <1>4 DEF RemoveVotes, Scrubbed
<1> HIDE DEF v, u, T
<1>8. \A b \in Accounts : v.voters[b].producers = t.voters[b].producers \ {bp}
  BY <1>6 DEF Ballots
<1>9. /\ v \in TallyType /\ OneWay(v.voters) /\ VotesRight(v, {bp}) /\ ProxiesRight(v.voters)
  BY <1>6 DEF Good
<1>10. /\ u \in TallyType /\ u.voters = v.voters /\ u.active = v.active
       /\ u.votes[bp] = 0 /\ \A q \in BPs \ {bp} : u.votes[q] = v.votes[q]
       /\ u.shorted = v.shorted \ {bp}
  <2>1. v = [voters |-> v.voters, votes |-> v.votes, weight |-> v.weight, active |-> v.active,
             shorted |-> v.shorted] /\ v.votes \in [BPs -> Int]
    BY <1>9 DEF TallyType
  <2>2. u = [voters |-> v.voters, votes |-> [v.votes EXCEPT ![bp] = 0], weight |-> v.weight,
             active |-> v.active, shorted |-> v.shorted \ {bp}]
    BY <1>7, <2>1
  <2>3. [v.votes EXCEPT ![bp] = 0] \in [BPs -> Int]
        /\ [v.votes EXCEPT ![bp] = 0][bp] = 0
        /\ \A q \in BPs \ {bp} : [v.votes EXCEPT ![bp] = 0][q] = v.votes[q]
    BY <2>1
  <2> QED BY <1>9, <2>2, <2>3 DEF TallyType
<1>11. CastIn(v.voters, bp) = {}
  BY <1>8 DEF CastIn
<1>12. VotesRight(u, {})
  <2>1. SUFFICES ASSUME NEW q \in BPs PROVE VoteRight(v.voters, u.votes, u.shorted, q)
    BY <1>10 DEF VotesRight
  <2>2. CASE q = bp BY <1>10, <1>11, <2>2, EmptyTotal DEF VoteRight
  <2>3. CASE q # bp BY <1>9, <1>10, <2>3 DEF VotesRight, VoteRight
  <2> QED BY <2>2, <2>3
<1>13. Good(u, {}) /\ Backed(u.voters)
  BY <1>6, <1>9, <1>10, <1>12 DEF Good
<1>14. ShortsListed(t, u) /\ u.shorted \cap {bp} = {}
  BY <1>6, <1>10 DEF ShortsListed
<1> QED BY <1>6, <1>8, <1>10, <1>13, <1>14 DEF u, Clears

-----------------------------------------------------------------------------
(* The fold of enforce: what it has done for a subset of the producers.    *)
Sweeping(g, rows, base, S) ==
    g = [s \in SUBSET S |-> IF s = {} THEN base ELSE SweepOne(rows, Pick(s), g[s \ {Pick(s)}])]

SweptOver(rows, base, S) == FoldSet(LAMBDA bp, u : SweepOne(rows, bp, u), base, S)

LEMMA SweepingUnique ==
    ASSUME NEW U, IsFiniteSet(U), NEW rows, NEW base, NEW g, NEW h,
           Sweeping(g, rows, base, U), Sweeping(h, rows, base, U)
    PROVE  g = h
<1> DEFINE T == {s \in SUBSET U : g[s] # h[s]}
<1>1. SUFFICES ASSUME T # {} PROVE FALSE
  <2>1. g = [s \in SUBSET U |-> g[s]] /\ h = [s \in SUBSET U |-> h[s]]
    BY DEF Sweeping
  <2> QED BY <2>1
<1>2. PICK s \in T : \A v \in SUBSET s : v # s => v \notin T
  <2>1. T \in SUBSET (SUBSET U) OBVIOUS
  <2> HIDE DEF T
  <2> QED BY <1>1, <2>1, LeastSubset
<1>3. s # {}
  BY <1>2 DEF Sweeping
<1>4. Pick(s) \in s
  BY <1>3, PickIn
<1>5. g[s \ {Pick(s)}] = h[s \ {Pick(s)}]
  BY <1>2, <1>4
<1>6. /\ g[s] = SweepOne(rows, Pick(s), g[s \ {Pick(s)}])
      /\ h[s] = SweepOne(rows, Pick(s), h[s \ {Pick(s)}])
  BY <1>2, <1>3 DEF Sweeping
<1> QED BY <1>2, <1>5, <1>6

LEMMA FoldIsSweeping ==
    ASSUME NEW rows, NEW base, NEW S, NEW g, Sweeping(g, rows, base, S),
           \A h : Sweeping(h, rows, base, S) => h = g
    PROVE  SweptOver(rows, base, S) = g[S]
BY Zenon DEF SweptOver, FoldSet, MapThenFoldSet, Sweeping, Pick

HasSweeping(T, S, rows, base) ==
    \E g : /\ Sweeping(g, rows, base, S)
           /\ \A s \in SUBSET S : g[s] \in T
           /\ SweptOver(rows, base, S) = g[S]

LEMMA SweepFold ==
    ASSUME NEW T, NEW S, IsFiniteSet(S), NEW rows, NEW base \in T,
           \A bp \in S, u \in T : SweepOne(rows, bp, u) \in T
    PROVE  HasSweeping(T, S, rows, base)
<1> DEFINE F == [x \in S \X T |-> SweepOne(rows, x[1], x[2])]
<1>1. F \in [S \X T -> T] OBVIOUS
<1>2. PICK g : FoldRec(g, F, base, S) BY FoldExists
<1>3. \A s \in SUBSET S : g[s] \in T
  <2> HIDE DEF F
  <2> QED BY <1>1, <1>2, FoldTyped
<1>4. Sweeping(g, rows, base, S)
  <2>1. ASSUME NEW s \in SUBSET S
        PROVE  g[s] = IF s = {} THEN base ELSE SweepOne(rows, Pick(s), g[s \ {Pick(s)}])
    <3>1. CASE s = {} BY <1>2, <3>1 DEF FoldRec
    <3>2. CASE s # {}
      <4>1. Pick(s) \in S /\ g[s \ {Pick(s)}] \in T BY <3>2, <1>3, PickIn
      <4>2. g[s] = F[<<Pick(s), g[s \ {Pick(s)}]>>] BY <1>2, <3>2 DEF FoldRec
      <4> QED BY <4>1, <4>2, <3>2
    <3> QED BY <3>1, <3>2
  <2>2. g = [s \in SUBSET S |-> g[s]] BY <1>2 DEF FoldRec
  <2> HIDE DEF F
  <2> QED BY <2>1, <2>2 DEF Sweeping
<1>5. \A h : Sweeping(h, rows, base, S) => h = g BY <1>4, SweepingUnique
<1>6. SweptOver(rows, base, S) = g[S]
  BY <1>4, <1>5, FoldIsSweeping
<1> QED BY <1>3, <1>4, <1>6 DEF HasSweeping

Out(rows) == {bp \in BPs : ~rows[bp].is_active /\ rows[bp].flags # {}}

LEMMA SweepOneGood ==
    ASSUME NEW rows, NEW bp \in BPs, NEW t, Good(t, {}), Backed(t.voters), year \in 0..MaxYear
    PROVE  Clears({bp} \cap Out(rows), t, SweepOne(rows, bp, t))
<1> DEFINE v == [t EXCEPT !.active = IF rows[bp].is_active THEN @ ELSE @ \ {bp}]
<1>1. /\ t \in TallyType /\ OneWay(t.voters) /\ VotesRight(t, {}) /\ ProxiesRight(t.voters)
  BY DEF Good
<1>2. v \in TallyType /\ v.voters = t.voters /\ v.votes = t.votes /\ v.shorted = t.shorted
  BY <1>1 DEF TallyType
<1> HIDE DEF v
<1>3. Good(v, {}) /\ Backed(v.voters)
  BY <1>1, <1>2 DEF Good, VotesRight
<1>4. CASE bp \in Out(rows)
  <2>1. SweepOne(rows, bp, t) = RemoveVotes(v, bp)
    BY <1>4 DEF SweepOne, Out, v
  <2>2. Clears({bp}, v, RemoveVotes(v, bp)) BY <1>3, RemoveVotesGood
  <2>3. {bp} \cap Out(rows) = {bp} BY <1>4
  <2> QED BY <1>2, <2>1, <2>2, <2>3 DEF Clears, ShortsListed
<1>5. CASE bp \notin Out(rows)
  <2>1. SweepOne(rows, bp, t) = v
    BY <1>5 DEF SweepOne, Out, v
  <2>2. {bp} \cap Out(rows) = {} BY <1>5
  <2> QED BY <1>2, <1>3, <2>1, <2>2 DEF Clears, ShortsListed
<1> QED BY <1>4, <1>5

LEMMA SweepGood ==
    ASSUME NEW rows, NEW t, Good(t, {}), Backed(t.voters), year \in 0..MaxYear
    PROVE  Clears(Out(rows), t, Sweep(t, rows))
<1> DEFINE T == {u \in TallyType : Good(u, {}) /\ Backed(u.voters)}
<1>1. t \in T /\ IsFiniteSet(BPs)
  BY ElectionAssumption, FS_Subset DEF Good
<1>2. \A bp \in BPs, u \in T : SweepOne(rows, bp, u) \in T
  <2>1. ASSUME NEW bp \in BPs, NEW u \in T PROVE SweepOne(rows, bp, u) \in T
    <3>1. Clears({bp} \cap Out(rows), u, SweepOne(rows, bp, u)) BY <2>1, SweepOneGood
    <3> QED BY <3>1 DEF Clears, Good
  <2> QED BY <2>1
<1>3. PICK g : /\ Sweeping(g, rows, t, BPs)
               /\ \A s \in SUBSET BPs : g[s] \in T
               /\ SweptOver(rows, t, BPs) = g[BPs]
  <2> HIDE DEF T
  <2>1. HasSweeping(T, BPs, rows, t) BY <1>1, <1>2, SweepFold
  <2> QED BY <2>1 DEF HasSweeping
<1>4. \A s \in SUBSET BPs : Clears(s \cap Out(rows), t, g[s])
  <2> DEFINE Q == {s \in SUBSET BPs : ~Clears(s \cap Out(rows), t, g[s])}
  <2>1. SUFFICES ASSUME Q # {} PROVE FALSE
    OBVIOUS
  <2>2. PICK s \in Q : \A v \in SUBSET s : v # s => v \notin Q
    <3>1. Q \in SUBSET (SUBSET BPs) OBVIOUS
    <3> HIDE DEF Q
    <3> QED BY <1>1, <2>1, <3>1, LeastSubset
  <2>3. ASSUME s = {} PROVE FALSE
    <3>1. g[s] = t BY <1>3, <2>3 DEF Sweeping
    <3>2. Clears({}, t, t) BY DEF Clears, ShortsListed
    <3>3. s \cap Out(rows) = {} BY <2>3
    <3> QED BY <2>2, <3>1, <3>2, <3>3
  <2> DEFINE p == Pick(s)
             r == s \ {p}
             x == g[r]
  <2>4. p \in s /\ p \in BPs /\ s \in SUBSET BPs BY <2>2, <2>3, PickIn
  <2>5. g[s] = SweepOne(rows, p, x) BY <1>3, <2>3, <2>4 DEF Sweeping
  <2>6. Clears(r \cap Out(rows), t, x) BY <2>2, <2>4
  <2> HIDE DEF p, x
  <2>7. Clears({p} \cap Out(rows), x, g[s])
    <3>1. Good(x, {}) /\ Backed(x.voters) BY <2>6 DEF Clears
    <3>2. Clears({p} \cap Out(rows), x, SweepOne(rows, p, x)) BY <2>4, <3>1, SweepOneGood
    <3> QED BY <2>5, <3>2
  <2>8. Clears(s \cap Out(rows), t, g[s])
    <3>1. \A b \in Accounts :
            /\ g[s].voters[b].staked = t.voters[b].staked
            /\ g[s].voters[b].producers
                  = (t.voters[b].producers \ (r \cap Out(rows))) \ ({p} \cap Out(rows))
      BY <2>6, <2>7 DEF Clears
    <3>2. \A q : (q \ (r \cap Out(rows))) \ ({p} \cap Out(rows)) = q \ (s \cap Out(rows))
      BY <2>4
    <3>3. ShortsListed(t, g[s]) BY <2>6, <2>7 DEF Clears, ShortsListed
    <3>4. g[s].shorted \cap (s \cap Out(rows)) = {}
      <4>1. ASSUME NEW q \in g[s].shorted, q \in s \cap Out(rows) PROVE FALSE
        <5>1. q \in r \cap Out(rows) BY <2>7, <4>1 DEF Clears
        <5>2. q \notin x.shorted BY <2>6, <5>1 DEF Clears
        <5>3. \A b \in Accounts : q \notin x.voters[b].producers BY <2>6, <5>1 DEF Clears
        <5> QED BY <2>7, <4>1, <5>2, <5>3 DEF Clears, ShortsListed
      <4> QED BY <4>1
    <3> QED BY <2>7, <3>1, <3>2, <3>3, <3>4 DEF Clears
  <2> QED BY <2>2, <2>8
<1>5. Clears(BPs \cap Out(rows), t, g[BPs]) BY <1>4
<1>6. BPs \cap Out(rows) = Out(rows) BY DEF Out
<1>7. Sweep(t, rows) = SweptOver(rows, t, BPs) BY Zenon DEF Sweep, SweptOver
<1> QED BY <1>3, <1>5, <1>6, <1>7

-----------------------------------------------------------------------------
(* The invariant: the tables are typed, every counter is the sum of what   *)
(* is behind it, or above it where a producer was shorted, and every vote  *)
(* weighs what its stake weighed.                                          *)
Counters(rows, votes, weight, short) ==
    /\ rows \in [Accounts -> Voter] /\ votes \in [BPs -> Int] /\ weight \in Int
    /\ short \subseteq BPs
    /\ OneWay(rows)
    /\ \A bp \in BPs : VoteRight(rows, votes, short, bp)
    /\ ProxiesRight(rows)

Inv ==
    /\ Counters(voters, total_votes, total_weight, shorted)
    /\ Backed(voters)
    /\ schedule \subseteq BPs
    /\ year \in 0..MaxYear

LEMMA GoodIsCounters ==
    ASSUME NEW t, Good(t, {})
    PROVE  Counters(t.voters, t.votes, t.weight, t.shorted)
BY DEF Good, Counters, TallyType, VotesRight

LEMMA CountersAreGood ==
    ASSUME NEW rows, NEW votes, NEW weight, NEW short, NEW active \in SUBSET BPs,
           Counters(rows, votes, weight, short)
    PROVE  Good([voters |-> rows, votes |-> votes, weight |-> weight, active |-> active,
                 shorted |-> short], {})
BY DEF Good, Counters, TallyType, VotesRight

LEMMA TallyGood == Inv => Good(Tally, {}) /\ Backed(Tally.voters)
<1>1. Candidates \in SUBSET BPs BY DEF Candidates
<1> QED BY <1>1, CountersAreGood DEF Inv, Tally

(* Only Representative, producers, weight and delegated weight count.      *)
LEMMA ColumnsKept ==
    ASSUME NEW rows, NEW votes, NEW weight, NEW short, Counters(rows, votes, weight, short),
           NEW new \in [Accounts -> Voter],
           \A a \in Accounts :
              /\ new[a].proxy = rows[a].proxy
              /\ new[a].producers = rows[a].producers
              /\ new[a].last_vote_weight = rows[a].last_vote_weight
              /\ new[a].proxied_vote_weight = rows[a].proxied_vote_weight
    PROVE  Counters(new, votes, weight, short)
<1>1. \A S : Total(new, S) = Total(rows, S) BY SameTotals
<1>2. \A bp : CastIn(new, bp) = CastIn(rows, bp) BY DEF CastIn
<1>3. \A p : FollowIn(new, p) = FollowIn(rows, p) BY DEF FollowIn
<1>4. OneWay(new) BY DEF OneWay, Counters
<1>5. ProxiesRight(new) BY <1>1, <1>3 DEF ProxiesRight, Counters
<1>6. ASSUME NEW bp \in BPs PROVE VoteRight(new, votes, short, bp)
  <2>1. VoteRight(rows, votes, short, bp) BY DEF Counters
  <2>2. \A a \in CastIn(new, bp) : a \in Accounts BY DEF CastIn
  <2> QED BY <1>1, <1>2, <2>1, <2>2 DEF VoteRight
<1> QED BY <1>4, <1>5, <1>6 DEF Counters

(* A recount backs the voter's own vote with its stake.                    *)
BackedBut(rows, a) ==
    \A b \in Accounts \ {a} : rows[b].producers # {} =>
       \E y \in 0..year : rows[b].last_vote_weight = rows[b].staked * YearFactor[y]

LEMMA RecountGood ==
    ASSUME NEW t, Good(t, {}), NEW a \in Accounts, BackedBut(t.voters, a),
           NEW proxy \in Accounts \cup {NoProxy}, NEW slate \in SUBSET BPs,
           proxy = NoProxy \/ slate = {}, year \in 0..MaxYear
    PROVE  LET u == UpdateVotes(t, a, proxy, slate)
           IN  /\ Good(u, {}) /\ Backed(u.voters)
               /\ \A b \in Accounts : u.voters[b].staked = t.voters[b].staked
<1> DEFINE u == UpdateVotes(t, a, proxy, slate)
<1>1. /\ Good(u, {})
      /\ \A b \in Accounts :
            /\ u.voters[b].staked = t.voters[b].staked
            /\ u.voters[b].producers = IF b = a THEN slate ELSE t.voters[b].producers
            /\ u.voters[b].last_vote_weight =
                  IF b = a THEN Contribution(t, a) ELSE t.voters[b].last_vote_weight
  BY UpdateGood
<1> HIDE DEF u
<1>2. Backed(u.voters)
  <2>1. SUFFICES ASSUME NEW b \in Accounts, u.voters[b].producers # {}
                 PROVE  \E y \in 0..year :
                           u.voters[b].last_vote_weight = u.voters[b].staked * YearFactor[y]
    BY DEF Backed
  <2>2. CASE b = a
    <3>1. year \in 0..year BY ElectionAssumption
    <3> QED BY <1>1, <2>2, <3>1 DEF Contribution
  <2>3. CASE b # a BY <1>1, <2>1, <2>3 DEF BackedBut
  <2> QED BY <2>2, <2>3
<1> QED BY <1>1, <1>2 DEF u

LEMMA PropagateGood ==
    ASSUME NEW t, Good(t, {}), NEW a \in Accounts, BackedBut(t.voters, a), year \in 0..MaxYear
    PROVE  /\ Good(Propagate(t, a), {}) /\ Backed(Propagate(t, a).voters)
           /\ \A b \in Accounts : Propagate(t, a).voters[b].staked = t.voters[b].staked
<1>1. /\ t.voters[a].proxy \in Accounts \cup {NoProxy} /\ t.voters[a].producers \in SUBSET BPs
      /\ t.voters[a].proxy = NoProxy \/ t.voters[a].producers = {}
  BY DEF Good, TallyType, OneWay, Voter
<1> QED BY <1>1, RecountGood DEF Propagate

LEMMA StoreKeeps ==
    ASSUME NEW u, Good(u, {}), Backed(u.voters), Store(u), UNCHANGED <<schedule, year>>, Inv
    PROVE  Inv'
<1>1. Counters(u.voters, u.votes, u.weight, u.shorted) BY GoodIsCounters
<1>2. Counters(voters', total_votes', total_weight', shorted') BY <1>1 DEF Store
<1>3. Backed(voters)' BY DEF Store, Backed
<1> QED BY <1>2, <1>3 DEF Inv

(* A voter row whose stake changed, before the vote is recounted.          *)
SameVote(r, row) ==
    /\ row \in Voter
    /\ row.proxy = r.proxy /\ row.producers = r.producers
    /\ row.last_vote_weight = r.last_vote_weight
    /\ row.proxied_vote_weight = r.proxied_vote_weight

LEMMA RowReplaced ==
    ASSUME Inv, NEW a \in Accounts, NEW row, SameVote(voters[a], row)
    PROVE  LET t == [Tally EXCEPT !.voters[a] = row]
           IN  /\ Good(t, {}) /\ BackedBut(t.voters, a)
               /\ t.voters[a] = row
               /\ \A b \in Accounts \ {a} : t.voters[b] = voters[b]
<1> DEFINE new == [voters EXCEPT ![a] = row]
           t == [Tally EXCEPT !.voters[a] = row]
<1>1. Counters(voters, total_votes, total_weight, shorted) /\ voters \in [Accounts -> Voter]
  BY DEF Inv, Counters
<1>2. new \in [Accounts -> Voter] /\ new[a] = row /\ \A b \in Accounts \ {a} : new[b] = voters[b]
  BY <1>1 DEF SameVote
<1>3. t = [voters |-> new, votes |-> total_votes, weight |-> total_weight,
           active |-> Candidates, shorted |-> shorted]
  BY DEF Tally
<1> HIDE DEF new, t
<1>4. Counters(new, total_votes, total_weight, shorted)
  BY <1>1, <1>2, ColumnsKept DEF SameVote
<1>5. Good(t, {})
  <2>1. Candidates \in SUBSET BPs BY DEF Candidates
  <2> QED BY <1>3, <1>4, <2>1, CountersAreGood
<1>6. BackedBut(new, a)
  BY <1>2 DEF BackedBut, Inv, Backed
<1> QED BY <1>2, <1>3, <1>5, <1>6 DEF t

LEMMA RowStaked ==
    ASSUME NEW r \in Voter, NEW n \in Int, NEW e \in BOOLEAN
    PROVE  /\ SameVote(r, [r EXCEPT !.exists = e, !.staked = n])
           /\ SameVote(r, [r EXCEPT !.staked = n])
           /\ [r EXCEPT !.staked = n].staked = n
BY DEF SameVote, Voter

(* What staking and REX do to a voter row, with the recount that follows.  *)
LEMMA InvFacts ==
    ASSUME Inv
    PROVE  /\ Counters(voters, total_votes, total_weight, shorted) /\ voters \in [Accounts -> Voter]
           /\ Good(Tally, {}) /\ Tally.voters = voters /\ year \in 0..MaxYear
           /\ \A a \in Accounts : BackedBut(voters, a)
BY TallyGood DEF Inv, Counters, Tally, Backed, BackedBut

OnlyStakeOf(a) ==
    /\ UNCHANGED complianceVars
    /\ \A b \in Accounts \ {a} : voters'[b].staked = voters[b].staked

LEMMA ChangeStakeGood ==
    ASSUME Inv, NEW a \in Accounts, NEW delta \in Deltas, ChangeStake(a, delta)
    PROVE  Inv' /\ OnlyStakeOf(a)
<1> DEFINE n == voters[a].staked + delta
           row == [voters[a] EXCEPT !.exists = TRUE, !.staked = n]
           t == [Tally EXCEPT !.voters[a] = row]
<1>1. voters[a] \in Voter /\ n \in Int
  BY InvFacts, ElectionAssumption DEF Voter
<1>2. SameVote(voters[a], row) /\ row.producers = voters[a].producers
  BY <1>1, RowStaked DEF SameVote
<1>3. /\ Store(IF voters[a].producers # {} THEN Propagate(t, a) ELSE t)
      /\ UNCHANGED <<schedule, year>> /\ UNCHANGED complianceVars
  <2> DEFINE c == [Tally EXCEPT !.voters[a].exists = TRUE, !.voters[a].staked = @ + delta]
  <2>1. c = t
    <3>0. Tally.voters = voters BY DEF Tally
    <3>1. t = [Tally EXCEPT !.voters = [voters EXCEPT ![a] = row]] BY <3>0
    <3>2. c = [Tally EXCEPT !.voters =
                 [[voters EXCEPT ![a].exists = TRUE] EXCEPT ![a].staked = @ + delta]]
      BY <3>0
    <3>3. [[voters EXCEPT ![a].exists = TRUE] EXCEPT ![a].staked = @ + delta]
             = [voters EXCEPT ![a] = row]
      BY InvFacts
    <3> HIDE DEF c, t, row
    <3> QED BY <3>1, <3>2, <3>3
  <2>2. /\ Store(IF voters[a].producers # {} THEN Propagate(c, a) ELSE c)
        /\ UNCHANGED <<schedule, year>> /\ UNCHANGED complianceVars
    BY DEF ChangeStake, complianceVars
  <2> HIDE DEF c
  <2> HIDE DEF t
  <2> QED BY <2>1, <2>2
<1> HIDE DEF row
<1>4. /\ Good(t, {}) /\ BackedBut(t.voters, a) /\ t.voters[a] = row
      /\ \A b \in Accounts \ {a} : t.voters[b] = voters[b]
  <2>1. SameVote(voters[a], row) BY <1>2
  <2> QED BY <2>1, RowReplaced
<1> HIDE DEF t
<1>5. CASE voters[a].producers # {}
  <2>1. /\ Good(Propagate(t, a), {}) /\ Backed(Propagate(t, a).voters)
        /\ \A b \in Accounts : Propagate(t, a).voters[b].staked = t.voters[b].staked
    BY <1>4, InvFacts, PropagateGood
  <2>2. Store(Propagate(t, a)) BY <1>3, <1>5
  <2>3. Inv' BY <1>3, <2>1, <2>2, StoreKeeps
  <2> QED BY <1>3, <1>4, <2>1, <2>2, <2>3 DEF Store, OnlyStakeOf
<1>6. CASE voters[a].producers = {}
  <2>1. Backed(t.voters) BY <1>2, <1>4, <1>6 DEF Backed, BackedBut
  <2>2. Store(t) BY <1>3, <1>6
  <2>3. Inv' BY <1>3, <1>4, <2>1, <2>2, StoreKeeps
  <2> QED BY <1>3, <1>4, <2>2, <2>3 DEF Store, OnlyStakeOf
<1> QED BY <1>5, <1>6

LEMMA RexStakeGood ==
    ASSUME Inv, NEW a \in Accounts, NEW delta \in Deltas, RexStake(a, delta)
    PROVE  Inv' /\ OnlyStakeOf(a)
<1> DEFINE n == voters[a].staked + delta
           row == [voters[a] EXCEPT !.staked = n]
           t == [Tally EXCEPT !.voters[a] = row]
<1>1. voters[a] \in Voter /\ n \in Int
  BY InvFacts, ElectionAssumption DEF Voter
<1>2. SameVote(voters[a], row)
  BY <1>1, RowStaked
<1>3. Store(Propagate(t, a)) /\ UNCHANGED <<schedule, year>> /\ UNCHANGED complianceVars
  BY DEF RexStake, Tally, complianceVars
<1> HIDE DEF row
<1>4. /\ Good(t, {}) /\ BackedBut(t.voters, a)
      /\ \A b \in Accounts \ {a} : t.voters[b] = voters[b]
  BY <1>2, RowReplaced
<1> HIDE DEF t
<1>5. /\ Good(Propagate(t, a), {}) /\ Backed(Propagate(t, a).voters)
      /\ \A b \in Accounts : Propagate(t, a).voters[b].staked = t.voters[b].staked
  BY <1>4, InvFacts, PropagateGood
<1>6. Inv' BY <1>3, <1>5, StoreKeeps
<1> QED BY <1>3, <1>4, <1>5, <1>6 DEF Store, OnlyStakeOf

LEMMA InvInit == Init => Inv
<1> SUFFICES ASSUME Init PROVE Inv
  OBVIOUS
<1>1. NoVoter \in Voter /\ NoVoter.producers = {} /\ NoVoter.proxy = NoProxy
      /\ NoVoter.proxied_vote_weight = 0
  BY DEF NoVoter, Voter
<1>2. \A a \in Accounts : voters[a] = NoVoter /\ voters \in [Accounts -> Voter]
  BY <1>1 DEF Init
<1>3. \A bp \in BPs : CastIn(voters, bp) = {}
  BY <1>1, <1>2 DEF CastIn
<1>4. \A p \in Accounts : FollowIn(voters, p) = {}
  BY <1>1, <1>2, ElectionAssumption DEF FollowIn
<1>5. Counters(voters, total_votes, total_weight, shorted)
  BY <1>1, <1>2, <1>3, <1>4, EmptyTotal DEF Init, Counters, OneWay, ProxiesRight, VoteRight
<1>6. Backed(voters)
  BY <1>1, <1>2 DEF Backed
<1>7. year \in 0..MaxYear /\ schedule \subseteq BPs
  BY ElectionAssumption DEF Init
<1> QED BY <1>5, <1>6, <1>7 DEF Inv

LEMMA InvNext == Inv /\ [Next]_vars => Inv'
<1> SUFFICES ASSUME Inv, [Next]_vars PROVE Inv'
  OBVIOUS
<1>0. /\ Counters(voters, total_votes, total_weight, shorted) /\ voters \in [Accounts -> Voter]
      /\ Good(Tally, {}) /\ Tally.voters = voters /\ year \in 0..MaxYear
      /\ \A a \in Accounts : BackedBut(voters, a)
  BY InvFacts
<1>1. CASE Tick
  <2>1. /\ year' \in {year, year + 1} /\ year' \in 0..MaxYear
        /\ UNCHANGED <<voters, total_votes, total_weight, schedule, shorted>>
    BY <1>1 DEF Tick, votingVars
  <2>2. 0..year \subseteq 0..year'
    BY <1>0, <2>1, ElectionAssumption
  <2>3. Backed(voters)' BY <2>1, <2>2 DEF Backed, Inv
  <2> QED BY <2>1, <2>3 DEF Inv
<1>2. CASE Enforce
  <2>1. PICK rows : Store(Sweep(Tally, rows)) /\ UNCHANGED <<schedule, year>>
    BY <1>2 DEF Enforce
  <2>2. Good(Sweep(Tally, rows), {}) /\ Backed(Sweep(Tally, rows).voters)
    BY <1>0, TallyGood, SweepGood DEF Clears
  <2> QED BY <2>1, <2>2, StoreKeeps
<1>3. CASE UpdateElectedProducers
  <2>1. schedule' \subseteq BPs
    BY <1>3 DEF UpdateElectedProducers, Electable, Candidates
  <2>2. UNCHANGED <<voters, total_votes, total_weight, shorted, year>>
    BY <1>3 DEF UpdateElectedProducers, votingVars
  <2> QED BY <2>1, <2>2 DEF Inv, Backed
<1>4. ASSUME NEW bp \in BPs, Act(bp) PROVE Inv'
  BY <1>4 DEF Act, votingVars, Inv, Backed
<1>5. ASSUME NEW a \in Accounts, NEW proxy \in Reps \cup {NoProxy}, NEW slate \in SUBSET BPs,
             VoteProducer(a, proxy, slate)
      PROVE  Inv'
  <2>1. proxy \in Accounts \cup {NoProxy} /\ (proxy = NoProxy \/ slate = {})
    BY <1>5, ElectionAssumption DEF VoteProducer
  <2>2. Store(UpdateVotes(Tally, a, proxy, slate)) /\ UNCHANGED <<schedule, year>>
    BY <1>5 DEF VoteProducer
  <2> QED BY <1>0, <2>1, <2>2, RecountGood, StoreKeeps
<1>6. ASSUME NEW a \in Accounts, NEW isproxy \in BOOLEAN, RegProxy(a, isproxy) PROVE Inv'
  <2> DEFINE row == [voters[a] EXCEPT !.exists = TRUE, !.is_proxy = isproxy]
  <2>1. /\ voters' = [voters EXCEPT ![a] = row]
        /\ UNCHANGED <<total_votes, total_weight, schedule, year, shorted>>
    BY <1>6 DEF RegProxy
  <2>2. SameVote(voters[a], row) /\ row.staked = voters[a].staked
    <3>1. voters[a] \in Voter BY <1>0
    <3> QED BY <3>1 DEF SameVote, Voter
  <2> HIDE DEF row
  <2>3. /\ voters' \in [Accounts -> Voter] /\ voters'[a] = row
        /\ \A b \in Accounts \ {a} : voters'[b] = voters[b]
    BY <1>0, <2>1, <2>2 DEF SameVote
  <2>4. Counters(voters', total_votes, total_weight, shorted)
    BY <1>0, <2>2, <2>3, ColumnsKept DEF SameVote
  <2>5. Backed(voters)'
    BY <2>1, <2>2, <2>3 DEF Backed, SameVote, Inv
  <2> QED BY <2>1, <2>4, <2>5 DEF Inv
<1>7. ASSUME NEW a \in Accounts, NEW delta \in Deltas, ChangeStake(a, delta)
      PROVE  Inv'
  BY <1>7, ChangeStakeGood
<1>8. ASSUME NEW a \in Accounts, NEW delta \in Deltas, RexStake(a, delta) PROVE Inv'
  BY <1>8, RexStakeGood
<1>9. CASE UNCHANGED vars
  BY <1>9 DEF vars, Inv, Backed
<1> QED
  BY <1>1, <1>2, <1>3, <1>4, <1>5, <1>6, <1>7, <1>8, <1>9 DEF Next

LEMMA InvHolds == Spec => []Inv
BY InvInit, InvNext, PTL DEF Spec

-----------------------------------------------------------------------------
(* Every step is one of SikaCompliance, where the stakes decide who meets  *)
(* the floor.                                                              *)
LEMMA FloorKept ==
    ASSUME \A a \in Accounts : voters'[a].staked = voters[a].staked
    PROVE  MeetsFloor' = MeetsFloor
BY ElectionAssumption DEF MeetsFloor

LEMMA FloorMoves ==
    ASSUME NEW a \in Accounts, UNCHANGED complianceVars,
           \A b \in Accounts \ {a} : voters'[b].staked = voters[b].staked
    PROVE  [Compliance!Next]_(Compliance!vars)
<1>1. UNCHANGED <<producers, bpvest, spell, breached>> BY DEF complianceVars
<1>2. CASE a \in BPs /\ MeetsFloor'[a] # MeetsFloor[a]
  <2>1. MeetsFloor[a] \in BOOLEAN /\ MeetsFloor'[a] \in BOOLEAN
    BY <1>2 DEF MeetsFloor
  <2>2. MeetsFloor'[a] = ~MeetsFloor[a] BY <1>2, <2>1
  <2>3. \A b \in BPs \ {a} : MeetsFloor'[b] = MeetsFloor[b]
    BY ElectionAssumption DEF MeetsFloor
  <2>4. /\ MeetsFloor = [b \in BPs |-> MeetsFloor[b]]
        /\ MeetsFloor' = [b \in BPs |-> MeetsFloor'[b]]
    BY DEF MeetsFloor
  <2>5. MeetsFloor' = [MeetsFloor EXCEPT ![a] = ~@]
    BY <1>2, <2>2, <2>3, <2>4
  <2>6. Compliance!StakeMoves(a)
    BY <1>1, <2>5 DEF Compliance!StakeMoves, Compliance!historyVars
  <2> QED BY <1>2, <2>6 DEF Compliance!Next
<1>3. CASE ~(a \in BPs /\ MeetsFloor'[a] # MeetsFloor[a])
  <2>1. \A b \in BPs : MeetsFloor'[b] = MeetsFloor[b]
    BY <1>3, ElectionAssumption DEF MeetsFloor
  <2>2. MeetsFloor' = MeetsFloor
    <3>1. /\ MeetsFloor = [b \in BPs |-> MeetsFloor[b]]
          /\ MeetsFloor' = [b \in BPs |-> MeetsFloor'[b]]
      BY DEF MeetsFloor
    <3> QED BY <2>1, <3>1
  <2> QED BY <1>1, <2>2 DEF Compliance!vars
<1> QED BY <1>2, <1>3

LEMMA StepIsCompliance == Inv /\ [Next]_vars => [Compliance!Next]_(Compliance!vars)
<1> SUFFICES ASSUME Inv, [Next]_vars PROVE [Compliance!Next]_(Compliance!vars)
  OBVIOUS
<1>0. /\ voters \in [Accounts -> Voter] /\ Good(Tally, {}) /\ Tally.voters = voters
      /\ year \in 0..MaxYear /\ \A a \in Accounts : BackedBut(voters, a)
  BY InvFacts
<1>1. CASE Tick BY <1>1 DEF Tick, Compliance!Next
<1>2. CASE Enforce BY <1>2 DEF Enforce, Compliance!Next
<1>3. CASE UpdateElectedProducers
  <2>1. UNCHANGED complianceVars /\ UNCHANGED voters
    BY <1>3 DEF UpdateElectedProducers, votingVars
  <2>2. MeetsFloor' = MeetsFloor BY <2>1, FloorKept
  <2> QED BY <2>1, <2>2 DEF complianceVars, Compliance!vars
<1>4. ASSUME NEW bp \in BPs, Act(bp) PROVE [Compliance!Next]_(Compliance!vars)
  BY <1>4 DEF Act, Compliance!Next
<1>5. ASSUME NEW a \in Accounts, NEW proxy \in Reps \cup {NoProxy}, NEW slate \in SUBSET BPs,
             VoteProducer(a, proxy, slate)
      PROVE  [Compliance!Next]_(Compliance!vars)
  <2>1. proxy \in Accounts \cup {NoProxy} /\ (proxy = NoProxy \/ slate = {})
    BY <1>5, ElectionAssumption DEF VoteProducer
  <2>2. voters' = UpdateVotes(Tally, a, proxy, slate).voters /\ UNCHANGED complianceVars
    BY <1>5 DEF VoteProducer, Store
  <2>3. \A b \in Accounts : UpdateVotes(Tally, a, proxy, slate).voters[b].staked = voters[b].staked
    BY <1>0, <2>1, RecountGood
  <2> QED BY <2>2, <2>3, FloorMoves
<1>6. ASSUME NEW a \in Accounts, NEW isproxy \in BOOLEAN, RegProxy(a, isproxy)
      PROVE  [Compliance!Next]_(Compliance!vars)
  BY <1>0, <1>6, FloorMoves DEF RegProxy
<1>7. ASSUME NEW a \in Accounts, NEW delta \in Deltas, ChangeStake(a, delta)
      PROVE  [Compliance!Next]_(Compliance!vars)
  BY <1>7, ChangeStakeGood, FloorMoves DEF OnlyStakeOf
<1>8. ASSUME NEW a \in Accounts, NEW delta \in Deltas, RexStake(a, delta)
      PROVE  [Compliance!Next]_(Compliance!vars)
  BY <1>8, RexStakeGood, FloorMoves DEF OnlyStakeOf
<1>9. CASE UNCHANGED vars
  <2>1. UNCHANGED voters BY <1>9 DEF vars
  <2>2. MeetsFloor' = MeetsFloor BY <2>1, FloorKept
  <2> QED BY <1>9, <2>2 DEF vars, Compliance!vars
<1> QED
  BY <1>1, <1>2, <1>3, <1>4, <1>5, <1>6, <1>7, <1>8, <1>9 DEF Next

(* Elections do to compliance what SikaCompliance allows.                  *)
THEOREM ElectionsKeepToCompliance == Spec => ImplementsCompliance
<1>1. Init => Compliance!Init BY DEF Init
<1> QED BY <1>1, InvHolds, StepIsCompliance, PTL DEF Spec, ImplementsCompliance, Compliance!Spec

(* What is proved of SikaCompliance holds of its columns here: its         *)
(* theorems, with the floor read from the voters.                          *)
Proved == INSTANCE SikaComplianceProofs WITH meets_floor <- MeetsFloor

LEMMA SameNext == [Compliance!Next]_(Compliance!vars) => [Proved!Next]_(Proved!vars)
BY DEF Compliance!Next, Compliance!Tick, Compliance!Enforce, Compliance!StakeMoves,
       Compliance!Act, Compliance!RegProducer, Compliance!UnregProd,
       Compliance!AttestCompl, Compliance!OpenIssue, Compliance!CloseIssue,
       Compliance!ClaimProd, Compliance!Recorded, Compliance!Attested,
       Compliance!Judge, Compliance!JudgeIssue, Compliance!Withdrawn,
       Compliance!Enforced, Compliance!Forfeited, Compliance!Credited,
       Compliance!Flag, Compliance!Clear, Compliance!Older, Compliance!None,
       Compliance!Rules, Compliance!AttestedRules, Compliance!SLA,
       Compliance!historyVars, Compliance!vars, Proved!Next, Proved!Tick,
       Proved!Enforce, Proved!StakeMoves, Proved!Act, Proved!RegProducer,
       Proved!UnregProd, Proved!AttestCompl, Proved!OpenIssue, Proved!CloseIssue,
       Proved!ClaimProd, Proved!Recorded, Proved!Attested, Proved!Judge,
       Proved!JudgeIssue, Proved!Withdrawn, Proved!Enforced, Proved!Forfeited,
       Proved!Credited, Proved!Flag, Proved!Clear, Proved!Older, Proved!None,
       Proved!Rules, Proved!AttestedRules, Proved!SLA, Proved!historyVars,
       Proved!vars

LEMMA SameInit == Compliance!Init => Proved!Init
BY DEF Compliance!Init, Proved!Init, Compliance!NoProducer, Proved!NoProducer,
       Compliance!None, Proved!None

LEMMA ComplianceTyped == Proved!Inductive => Compliance!TypeOK
BY DEF Proved!Inductive, Compliance!TypeOK, Compliance!ProducerRow, Compliance!Rules,
       Compliance!AttestedRules, Compliance!SLA, Compliance!Ages, Compliance!None,
       Proved!TypeOK, Proved!ProducerRow, Proved!Rules, Proved!AttestedRules,
       Proved!SLA, Proved!Ages, Proved!None

LEMMA ComplianceHolds == Spec => []Compliance!TypeOK
<1>1. Proved!ComplianceAssumption
  BY ElectionAssumption DEF Proved!ComplianceAssumption, Proved!AttestedRules
<1>2. Init => Proved!Inductive
  BY <1>1, SameInit, Proved!InductiveInit DEF Init
<1>3. Inv /\ Proved!Inductive /\ [Next]_vars => Proved!Inductive'
  BY <1>1, StepIsCompliance, SameNext, Proved!InductiveNext
<1> QED BY <1>2, <1>3, InvHolds, ComplianceTyped, PTL DEF Spec

-----------------------------------------------------------------------------
(* The tables stay typed, whatever the sign of the stakes: a voter names   *)
(* producers or a Representative, never both.                              *)
THEOREM TypeCorrect == Spec => []TypeOK
<1>1. Inv /\ Compliance!TypeOK => TypeOK
  BY DEF Inv, Counters, OneWay, TypeOK
<1> QED BY <1>1, InvHolds, ComplianceHolds, PTL

LEMMA TotalIsWeight == \A S : Total(voters, S) = WeightOf(S)
BY DEF Total, Last, WeightOf

(* A producer's total_votes covers the ballots that list it, and is their  *)
(* sum unless a stake below zero was counted for it.                       *)
THEOREM VotesCorrect == Spec => []VotesAddUp
<1>1. Inv => VotesAddUp
  BY TotalIsWeight DEF Inv, Counters, VoteRight, VotesAddUp, CastFor, CastIn
<1> QED BY <1>1, InvHolds, PTL

(* A Representative's proxied_vote_weight is the sum over its followers.   *)
THEOREM ProxiesCorrect == Spec => []ProxiesAddUp
<1>1. Inv => ProxiesAddUp
  BY TotalIsWeight DEF Inv, Counters, ProxiesRight, ProxiesAddUp, Followers, FollowIn
<1> QED BY <1>1, InvHolds, PTL

(* A direct vote weighs what its stake weighed in some year up to now.     *)
THEOREM BackedCorrect == Spec => []VotesBackedByStake
<1>1. Inv => VotesBackedByStake
  BY DEF Inv, Backed, VotesBackedByStake
<1> QED BY <1>1, InvHolds, PTL

(* A sweep clears the ballots of the producers it finds out of the race,   *)
(* and of no other.                                                        *)
THEOREM SweepCorrect == Spec => SweepClearsVotes
<1>1. ASSUME Inv, Inv', [Next]_vars PROVE [SweepClearsVotesStep]_vars
  <2> DEFINE rows == [bp \in BPs |->
                IF producers[bp].registered
                THEN Compliance!Enforced(producers[bp], MeetsFloor[bp]) ELSE producers[bp]]
  <2>1. SUFFICES ASSUME Enforce, NEW bp \in BPs
                 PROVE  IF ~producers'[bp].is_active /\ producers'[bp].flags # {}
                        THEN /\ total_votes'[bp] = 0
                             /\ \A a \in Accounts : bp \notin voters'[a].producers
                        ELSE CastFor(bp)' = CastFor(bp)
    BY DEF SweepClearsVotesStep
  <2>2. producers' = rows /\ Store(Sweep(Tally, rows))
    BY <2>1 DEF Enforce, Compliance!Enforce
  <2> HIDE DEF rows
  <2>3. /\ \A a \in Accounts : voters'[a].producers = voters[a].producers \ Out(rows)
        /\ shorted' \cap Out(rows) = {}
    <3>1. Clears(Out(rows), Tally, Sweep(Tally, rows)) BY <1>1, InvFacts, TallyGood, SweepGood
    <3> QED BY <1>1, <2>2, <3>1, InvFacts DEF Clears, Store
  <2>4. CASE bp \in Out(rows)
    <3>1. \A a \in Accounts : bp \notin voters'[a].producers BY <2>3, <2>4
    <3>2. CastIn(voters', bp) = {} BY <3>1 DEF CastIn
    <3>3. bp \notin shorted' BY <2>3, <2>4
    <3>4. total_votes'[bp] = Total(voters', CastIn(voters', bp))
      BY <1>1, <3>3 DEF Inv, Counters, VoteRight
    <3>5. total_votes'[bp] = 0 BY <3>2, <3>4, EmptyTotal
    <3> QED BY <2>2, <2>4, <3>1, <3>5 DEF Out
  <2>5. CASE bp \notin Out(rows)
    <3>1. CastFor(bp)' = CastFor(bp) BY <2>3, <2>5 DEF CastFor
    <3> QED BY <2>2, <2>5, <3>1 DEF Out
  <2> QED BY <2>4, <2>5
<1> QED BY <1>1, InvHolds, PTL DEF Spec, SweepClearsVotes

-----------------------------------------------------------------------------
(* What SikaCompliance promises holds where the floor is no longer chosen  *)
(* by the environment but is the stake in the voters table (enforce,       *)
(* unregprod, claimprod, delegatebw): the clock runs exactly while a rule  *)
(* fails, no bonus vests for a producer that is out of the race, and       *)
(* nobody is withdrawn before its time.                                    *)
THEOREM ComplianceInherited ==
    Spec => /\ []Compliance!ClockRunsInProbation
            /\ []Compliance!WithdrawnHoldsNoVest
            /\ Compliance!RemovalEarned
<1>1. Proved!ComplianceAssumption
  BY ElectionAssumption DEF Proved!ComplianceAssumption, Proved!AttestedRules
<1>2. Spec => Proved!Spec
  <2>1. Init => Proved!Init BY SameInit DEF Init
  <2>2. Inv /\ [Next]_vars => [Proved!Next]_(Proved!vars) BY StepIsCompliance, SameNext
  <2> QED BY <2>1, <2>2, InvHolds, PTL DEF Spec, Proved!Spec
<1>3. Spec => []Compliance!ClockRunsInProbation
  <2>1. Proved!Spec => []Proved!ClockRunsInProbation BY <1>1, Proved!ClockCorrect
  <2>2. Proved!ClockRunsInProbation => Compliance!ClockRunsInProbation
    BY DEF Proved!ClockRunsInProbation, Compliance!ClockRunsInProbation,
           Proved!None, Compliance!None
  <2> QED BY <1>2, <2>1, <2>2, PTL
<1>4. Spec => []Compliance!WithdrawnHoldsNoVest
  <2>1. Proved!Spec => []Proved!WithdrawnHoldsNoVest BY <1>1, Proved!VestCorrect
  <2>2. Proved!WithdrawnHoldsNoVest => Compliance!WithdrawnHoldsNoVest
    BY DEF Proved!WithdrawnHoldsNoVest, Compliance!WithdrawnHoldsNoVest
  <2> QED BY <1>2, <2>1, <2>2, PTL
<1>5. Spec => Compliance!RemovalEarned
  <2>1. Proved!Spec => Proved!RemovalEarned BY <1>1, Proved!RemovalIsEarned
  <2>2. [Proved!RemovalEarnedStep]_(Proved!vars) => [Compliance!RemovalEarnedStep]_(Compliance!vars)
    <3>1. Compliance!Enforce => Proved!Enforce
      BY DEF Compliance!Enforce, Compliance!Enforced, Compliance!Judge, Compliance!JudgeIssue,
             Compliance!Withdrawn, Compliance!Forfeited, Compliance!Flag, Compliance!Clear,
             Compliance!Older, Compliance!None, Compliance!Recorded, Compliance!Attested,
             Compliance!AttestedRules, Compliance!SLA, Compliance!Rules, Compliance!historyVars,
             Proved!Enforce, Proved!Enforced, Proved!Judge, Proved!JudgeIssue,
             Proved!Withdrawn, Proved!Forfeited, Proved!Flag, Proved!Clear, Proved!Older,
             Proved!None, Proved!Recorded, Proved!Attested, Proved!AttestedRules, Proved!SLA,
             Proved!Rules, Proved!historyVars
    <3> QED
      BY <3>1 DEF Proved!RemovalEarnedStep, Compliance!RemovalEarnedStep, Proved!vars, Compliance!vars
  <2> QED BY <1>2, <2>1, <2>2, PTL DEF Proved!RemovalEarned, Compliance!RemovalEarned
<1> QED BY <1>3, <1>4, <1>5
=============================================================================
