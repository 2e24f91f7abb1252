----------------------------- MODULE SumProofs -----------------------------
(***************************************************************************)
(* What SumFunctionOnSet of the Functions module computes on finite sets:  *)
(* the facts by which sums over accounts enter the other proofs; with a    *)
(* few facts on quotients and greatest members.                            *)
(*                                                                         *)
(* The sum is a recursive function over the subsets of S.  Every lemma     *)
(* argues by a least counterexample: the finite subsets are well founded   *)
(* under strict inclusion, so a non-empty set of them has a minimal one.   *)
(***************************************************************************)
EXTENDS Integers, Functions, FiniteSetTheorems, WellFoundedInduction, TLAPS

(* The element that the fold takes next, and the recursion it obeys.       *)
Pick(s) == CHOOSE x \in s : TRUE

Sums(g, f, U) ==
    g = [s \in SUBSET U |-> IF s = {} THEN 0 ELSE f[Pick(s)] + g[s \ {Pick(s)}]]

(* A non-empty set of subsets of a finite set has a minimal member.        *)
LEMMA LeastSubset ==
    ASSUME NEW S, IsFiniteSet(S), NEW T \in SUBSET (SUBSET S), T # {}
    PROVE  \E U \in T : \A V \in SUBSET U : V # U => V \notin T
<1>1. IsWellFoundedOn(StrictSubsetOrdering(S), SUBSET S)
  BY FS_StrictSubsetOrderingWellFounded, FS_FiniteSubsetsOfFinite
<1>2. PICK U \in T : \A V \in T : <<V, U>> \notin StrictSubsetOrdering(S)
  BY <1>1, WFMin
<1>3. ASSUME NEW V \in SUBSET U, V # U, V \in T PROVE FALSE
  BY <1>2, <1>3 DEF StrictSubsetOrdering
<1> QED BY <1>2, <1>3

LEMMA PickIn == ASSUME NEW s, s # {} PROVE Pick(s) \in s
BY DEF Pick

LEMMA SumsUnique ==
    ASSUME NEW U, IsFiniteSet(U), NEW f, NEW g, NEW h, Sums(g, f, U), Sums(h, f, U)
    PROVE  g = h
<1> DEFINE T == {s \in SUBSET U : g[s] # h[s]}
<1>1. SUFFICES ASSUME T # {} PROVE FALSE
  <2>1. g = [s \in SUBSET U |-> g[s]] /\ h = [s \in SUBSET U |-> h[s]]
    BY DEF Sums
  <2> QED BY <2>1
<1>2. PICK s \in T : \A v \in SUBSET s : v # s => v \notin T
  <2>1. T \in SUBSET (SUBSET U) OBVIOUS
  <2> HIDE DEF T
  <2> QED BY <1>1, <2>1, LeastSubset
<1>3. s # {}
  BY <1>2 DEF Sums
<1>4. Pick(s) \in s
  BY <1>3, PickIn
<1>5. g[s \ {Pick(s)}] = h[s \ {Pick(s)}]
  BY <1>2, <1>4
<1>6. g[s] = f[Pick(s)] + g[s \ {Pick(s)}] /\ h[s] = f[Pick(s)] + h[s \ {Pick(s)}]
  BY <1>2, <1>3 DEF Sums
<1> QED BY <1>2, <1>5, <1>6

LEMMA SumsRestrict ==
    ASSUME NEW U, NEW f, NEW g, Sums(g, f, U), NEW W \in SUBSET U
    PROVE  Sums([s \in SUBSET W |-> g[s]], f, W)
<1> DEFINE r == [s \in SUBSET W |-> g[s]]
<1>1. ASSUME NEW s \in SUBSET W
      PROVE  r[s] = IF s = {} THEN 0 ELSE f[Pick(s)] + r[s \ {Pick(s)}]
  BY DEF Sums
<1>2. r = [s \in SUBSET W |-> IF s = {} THEN 0 ELSE f[Pick(s)] + r[s \ {Pick(s)}]]
  BY <1>1
<1> QED BY <1>2 DEF Sums

LEMMA SumsExist ==
    ASSUME NEW S, IsFiniteSet(S), NEW f
    PROVE  \E g : Sums(g, f, S)
<1> DEFINE T == {U \in SUBSET S : ~ \E g : Sums(g, f, U)}
<1>1. SUFFICES ASSUME T # {} PROVE FALSE
  OBVIOUS
<1>2. PICK U \in T : \A V \in SUBSET U : V # U => V \notin T
  <2>1. T \in SUBSET (SUBSET S) OBVIOUS
  <2> HIDE DEF T
  <2> QED BY <1>1, <2>1, LeastSubset
<1> DEFINE G(V) == CHOOSE g : Sums(g, f, V)
           g == [s \in SUBSET U |->
                   IF s = {} THEN 0
                   ELSE IF s = U THEN f[Pick(U)] + G(U \ {Pick(U)})[U \ {Pick(U)}]
                   ELSE G(s)[s]]
<1>3. ASSUME NEW V \in SUBSET U, V # U PROVE Sums(G(V), f, V)
  BY <1>2, <1>3
<1>4. ASSUME NEW s \in SUBSET U
      PROVE  g[s] = IF s = {} THEN 0 ELSE f[Pick(s)] + g[s \ {Pick(s)}]
  <2>1. CASE s = {} BY <2>1
  <2>2. CASE s # {}
    <3> DEFINE r == s \ {Pick(s)}
    <3>1. Pick(s) \in s /\ r \in SUBSET U /\ r # U /\ r # s /\ r \in SUBSET s
      BY <2>2, PickIn
    <3>2. Sums(G(r), f, r)
      BY <3>1, <1>3
    <3>3. g[r] = G(r)[r]
      <4>1. CASE r = {} BY <4>1, <3>1, <3>2 DEF Sums
      <4>2. CASE r # {} BY <4>2, <3>1
      <4> QED BY <4>1, <4>2
    <3>4. CASE s = U BY <3>3, <3>4, <2>2
    <3>5. CASE s # U
      <4>1. Sums(G(s), f, s) BY <3>5, <1>3
      <4>2. Sums([v \in SUBSET r |-> G(s)[v]], f, r)
        BY <4>1, <3>1, SumsRestrict
      <4>3. IsFiniteSet(r) BY <3>1, FS_Subset
      <4>4. [v \in SUBSET r |-> G(s)[v]] = G(r)
        BY <4>2, <4>3, <3>2, SumsUnique
      <4>5. G(s)[r] = G(r)[r] BY <4>4
      <4>6. G(s)[s] = f[Pick(s)] + G(s)[r]
        BY <4>1, <2>2 DEF Sums
      <4> QED BY <4>5, <4>6, <3>3, <3>5, <2>2
    <3> QED BY <3>4, <3>5
  <2> QED BY <2>1, <2>2
<1>5. g = [s \in SUBSET U |-> IF s = {} THEN 0 ELSE f[Pick(s)] + g[s \ {Pick(s)}]]
  <2>1. g = [s \in SUBSET U |-> g[s]] OBVIOUS
  <2> HIDE DEF g
  <2> QED BY <1>4, <2>1
<1>6. Sums(g, f, U) BY <1>5 DEF Sums
<1> QED BY <1>2, <1>6

LEMMA SumIsSums ==
    ASSUME NEW f, NEW S, NEW g, Sums(g, f, S), \A h : Sums(h, f, S) => h = g
    PROVE  SumFunctionOnSet(f, S) = g[S]
BY Zenon DEF SumFunctionOnSet, FoldFunctionOnSet, MapThenFoldSet, Sums, Pick

(* The recursion of the sum, on which everything below rests.              *)
LEMMA SumStep ==
    ASSUME NEW S, IsFiniteSet(S), NEW f
    PROVE  SumFunctionOnSet(f, S) =
              IF S = {} THEN 0 ELSE f[Pick(S)] + SumFunctionOnSet(f, S \ {Pick(S)})
<1>1. PICK g : Sums(g, f, S) BY SumsExist
<1>2. ASSUME NEW U \in SUBSET S PROVE SumFunctionOnSet(f, U) = g[U]
  <2>1. IsFiniteSet(U) BY FS_Subset
  <2> DEFINE r == [s \in SUBSET U |-> g[s]]
  <2>2. Sums(r, f, U) BY <1>1, SumsRestrict
  <2>3. \A h : Sums(h, f, U) => h = r
    <3> HIDE DEF r
    <3> QED BY <2>1, <2>2, SumsUnique
  <2>4. SumFunctionOnSet(f, U) = r[U]
    <3> HIDE DEF r
    <3> QED BY <2>2, <2>3, SumIsSums
  <2> QED BY <2>4
<1>3. g[S] = IF S = {} THEN 0 ELSE f[Pick(S)] + g[S \ {Pick(S)}]
  BY <1>1 DEF Sums
<1>4. SumFunctionOnSet(f, S) = g[S] /\ SumFunctionOnSet(f, S \ {Pick(S)}) = g[S \ {Pick(S)}]
  BY <1>2
<1> QED BY <1>3, <1>4

-----------------------------------------------------------------------------
(* Integers add up to an integer, naturals to a natural.                   *)
LEMMA SumType ==
    ASSUME NEW D \in {Nat, Int}, NEW S, IsFiniteSet(S), NEW f, \A x \in S : f[x] \in D
    PROVE  SumFunctionOnSet(f, S) \in D
<1> DEFINE T == {U \in SUBSET S : SumFunctionOnSet(f, U) \notin D}
<1>1. SUFFICES ASSUME T # {} PROVE FALSE
  OBVIOUS
<1>2. PICK U \in T : \A V \in SUBSET U : V # U => V \notin T
  <2>1. T \in SUBSET (SUBSET S) OBVIOUS
  <2> HIDE DEF T
  <2> QED BY <1>1, <2>1, LeastSubset
<1>3. IsFiniteSet(U) BY FS_Subset
<1>4. U # {} BY <1>2, <1>3, SumStep
<1>5. Pick(U) \in U BY <1>4, PickIn
<1>6. SumFunctionOnSet(f, U \ {Pick(U)}) \in D BY <1>2, <1>5
<1>7. SumFunctionOnSet(f, U) = f[Pick(U)] + SumFunctionOnSet(f, U \ {Pick(U)})
  BY <1>3, <1>4, SumStep
<1>8. f[Pick(U)] \in D BY <1>5
<1> QED BY <1>2, <1>6, <1>7, <1>8

(* Larger values add up to more.                                           *)
LEMMA SumMonotonic ==
    ASSUME NEW S, IsFiniteSet(S), NEW f, NEW g,
           \A x \in S : f[x] \in Int /\ g[x] \in Int /\ f[x] <= g[x]
    PROVE  SumFunctionOnSet(f, S) <= SumFunctionOnSet(g, S)
<1> DEFINE T == {U \in SUBSET S : ~ (SumFunctionOnSet(f, U) <= SumFunctionOnSet(g, U))}
<1>1. SUFFICES ASSUME T # {} PROVE FALSE
  OBVIOUS
<1>2. PICK U \in T : \A V \in SUBSET U : V # U => V \notin T
  <2>1. T \in SUBSET (SUBSET S) OBVIOUS
  <2> HIDE DEF T
  <2> QED BY <1>1, <2>1, LeastSubset
<1>3. IsFiniteSet(U) BY FS_Subset
<1>4. U # {}
  <2>1. SumFunctionOnSet(f, {}) = 0 /\ SumFunctionOnSet(g, {}) = 0
    BY FS_EmptySet, SumStep
  <2>2. ~ (SumFunctionOnSet(f, U) <= SumFunctionOnSet(g, U))
    BY <1>2
  <2>3. ASSUME U = {} PROVE FALSE
    <3>1. ~ (0 <= 0) BY <2>1, <2>2, <2>3
    <3> QED BY <3>1
  <2> QED BY <2>3
<1> DEFINE p == Pick(U)
           R == U \ {p}
<1>5. p \in U BY <1>4, PickIn
<1>6. SumFunctionOnSet(f, R) <= SumFunctionOnSet(g, R) BY <1>2, <1>5
<1>7. SumFunctionOnSet(f, R) \in Int /\ SumFunctionOnSet(g, R) \in Int
  <2>1. IsFiniteSet(R) BY <1>3, FS_Subset
  <2> HIDE DEF R
  <2>2. R \subseteq S BY DEF R
  <2> QED BY <2>1, <2>2, SumType
<1>8. /\ SumFunctionOnSet(f, U) = f[p] + SumFunctionOnSet(f, R)
      /\ SumFunctionOnSet(g, U) = g[p] + SumFunctionOnSet(g, R)
  BY <1>3, <1>4, SumStep
<1>9. f[p] \in Int /\ g[p] \in Int /\ f[p] <= g[p] BY <1>5
<1> HIDE DEF p, R
<1> QED BY <1>2, <1>6, <1>7, <1>8, <1>9

(* Equal values add up to the same.                                        *)
LEMMA SumSame ==
    ASSUME NEW S, IsFiniteSet(S), NEW f, NEW g, \A x \in S : f[x] = g[x]
    PROVE  SumFunctionOnSet(f, S) = SumFunctionOnSet(g, S)
<1> DEFINE T == {U \in SUBSET S : SumFunctionOnSet(f, U) # SumFunctionOnSet(g, U)}
<1>1. SUFFICES ASSUME T # {} PROVE FALSE
  <2>1. ASSUME T = {} PROVE SumFunctionOnSet(f, S) = SumFunctionOnSet(g, S)
    <3>1. S \notin T BY <2>1
    <3> QED BY <3>1
  <2> QED BY <2>1
<1>2. PICK U \in T : \A V \in SUBSET U : V # U => V \notin T
  <2>1. T \in SUBSET (SUBSET S) OBVIOUS
  <2> HIDE DEF T
  <2> QED BY <1>1, <2>1, LeastSubset
<1>3. IsFiniteSet(U) BY FS_Subset
<1>4. U # {} BY <1>2, <1>3, SumStep
<1>5. Pick(U) \in U BY <1>4, PickIn
<1>6. SumFunctionOnSet(f, U \ {Pick(U)}) = SumFunctionOnSet(g, U \ {Pick(U)})
  BY <1>2, <1>5
<1>7. /\ SumFunctionOnSet(f, U) = f[Pick(U)] + SumFunctionOnSet(f, U \ {Pick(U)})
      /\ SumFunctionOnSet(g, U) = g[Pick(U)] + SumFunctionOnSet(g, U \ {Pick(U)})
  BY <1>3, <1>4, SumStep
<1>8. f[Pick(U)] = g[Pick(U)] BY <1>5
<1>9. SumFunctionOnSet(f, U) # SumFunctionOnSet(g, U) BY <1>2
<1> QED BY <1>6, <1>7, <1>8, <1>9

(* Nothing but zeros adds up to zero.                                      *)
LEMMA SumOfZeros ==
    ASSUME NEW S, IsFiniteSet(S)
    PROVE  SumFunctionOnSet([x \in S |-> 0], S) = 0
<1> DEFINE z == [x \in S |-> 0]
           T == {U \in SUBSET S : SumFunctionOnSet(z, U) # 0}
<1>1. SUFFICES ASSUME T # {} PROVE FALSE
  OBVIOUS
<1>2. PICK U \in T : \A V \in SUBSET U : V # U => V \notin T
  <2>1. T \in SUBSET (SUBSET S) OBVIOUS
  <2> HIDE DEF T
  <2> QED BY <1>1, <2>1, LeastSubset
<1>3. IsFiniteSet(U) /\ SumFunctionOnSet(z, U) # 0 BY <1>2, FS_Subset
<1>4. U # {}
  <2> HIDE DEF z
  <2> QED BY <1>3, SumStep
<1>5. Pick(U) \in U BY <1>4, PickIn
<1>6. SumFunctionOnSet(z, U \ {Pick(U)}) = 0 BY <1>2, <1>5
<1>7. z[Pick(U)] = 0 BY <1>5
<1>8. SumFunctionOnSet(z, U) = z[Pick(U)] + SumFunctionOnSet(z, U \ {Pick(U)})
  <2> HIDE DEF z
  <2> QED BY <1>3, <1>4, SumStep
<1> QED BY <1>3, <1>6, <1>7, <1>8

(* A change of one value changes the sum by as much.                       *)
LEMMA SumChange ==
    ASSUME NEW S, IsFiniteSet(S), NEW i \in S, NEW f, NEW g,
           \A x \in S : f[x] \in Int /\ g[x] \in Int,
           \A x \in S \ {i} : f[x] = g[x]
    PROVE  SumFunctionOnSet(g, S) = SumFunctionOnSet(f, S) - f[i] + g[i]
<1> DEFINE T == {U \in SUBSET S : i \in U /\
                   SumFunctionOnSet(g, U) # SumFunctionOnSet(f, U) - f[i] + g[i]}
<1>1. SUFFICES ASSUME T # {} PROVE FALSE
  OBVIOUS
<1>2. PICK U \in T : \A V \in SUBSET U : V # U => V \notin T
  <2>1. T \in SUBSET (SUBSET S) OBVIOUS
  <2> HIDE DEF T
  <2> QED BY <1>1, <2>1, LeastSubset
<1>3. IsFiniteSet(U) BY FS_Subset
<1> DEFINE p == Pick(U)
           R == U \ {p}
<1>4. p \in U /\ U # {} /\ i \in U
  <2>1. i \in U BY <1>2
  <2>2. U # {} BY <2>1
  <2> QED BY <2>1, <2>2, PickIn
<1>5. IsFiniteSet(R) /\ R \subseteq S BY <1>3, FS_Subset
<1>6. SumFunctionOnSet(f, R) \in Int /\ SumFunctionOnSet(g, R) \in Int
  <2> HIDE DEF R
  <2> QED BY <1>5, SumType
<1>7. /\ SumFunctionOnSet(f, U) = f[p] + SumFunctionOnSet(f, R)
      /\ SumFunctionOnSet(g, U) = g[p] + SumFunctionOnSet(g, R)
  BY <1>3, <1>4, SumStep
<1>8. CASE p = i
  <2>1. SumFunctionOnSet(f, R) = SumFunctionOnSet(g, R)
    <3>1. \A x \in R : f[x] = g[x] BY <1>8, <1>5
    <3> HIDE DEF R
    <3> QED BY <3>1, <1>5, SumSame
  <2>2. f[i] \in Int /\ g[i] \in Int OBVIOUS
  <2> HIDE DEF R
  <2> QED BY <1>2, <1>6, <1>7, <1>8, <2>1, <2>2
<1>9. CASE p # i
  <2>1. SumFunctionOnSet(g, R) = SumFunctionOnSet(f, R) - f[i] + g[i]
    BY <1>2, <1>4, <1>9
  <2>2. f[p] = g[p] /\ f[p] \in Int /\ f[i] \in Int /\ g[i] \in Int
    BY <1>4, <1>9
  <2> HIDE DEF R, p
  <2> QED BY <1>2, <1>6, <1>7, <2>1, <2>2
<1> QED BY <1>8, <1>9

(* Any member may be taken out of a sum.                                   *)
LEMMA SumRemove ==
    ASSUME NEW S, IsFiniteSet(S), NEW i \in S, NEW f, \A x \in S : f[x] \in Int
    PROVE  SumFunctionOnSet(f, S) = f[i] + SumFunctionOnSet(f, S \ {i})
<1> DEFINE T == {U \in SUBSET S : \E x \in U :
                   SumFunctionOnSet(f, U) # f[x] + SumFunctionOnSet(f, U \ {x})}
<1>1. SUFFICES ASSUME T # {} PROVE FALSE
  <2>1. ASSUME T = {} PROVE SumFunctionOnSet(f, S) = f[i] + SumFunctionOnSet(f, S \ {i})
    <3>1. S \notin T BY <2>1
    <3> QED BY <3>1
  <2> QED BY <2>1
<1>2. PICK U \in T : \A V \in SUBSET U : V # U => V \notin T
  <2>1. T \in SUBSET (SUBSET S) OBVIOUS
  <2> HIDE DEF T
  <2> QED BY <1>1, <2>1, LeastSubset
<1>3. IsFiniteSet(U) BY FS_Subset
<1>4. PICK x \in U : SumFunctionOnSet(f, U) # f[x] + SumFunctionOnSet(f, U \ {x})
  BY <1>2
<1> DEFINE p == Pick(U)
<1>5. p \in U /\ U # {}
  <2>1. U # {} BY <1>4
  <2> QED BY <2>1, PickIn
<1>6. SumFunctionOnSet(f, U) = f[p] + SumFunctionOnSet(f, U \ {p})
  BY <1>3, <1>5, SumStep
<1>7. p # x BY <1>4, <1>6
<1> HIDE DEF p
<1> DEFINE R == (U \ {p}) \ {x}
<1>8. SumFunctionOnSet(f, U \ {p}) = f[x] + SumFunctionOnSet(f, R)
  BY <1>2, <1>5, <1>7
<1>9. SumFunctionOnSet(f, U \ {x}) = f[p] + SumFunctionOnSet(f, R)
  <2>1. (U \ {x}) \ {p} = R OBVIOUS
  <2>2. SumFunctionOnSet(f, U \ {x}) = f[p] + SumFunctionOnSet(f, (U \ {x}) \ {p})
    BY <1>2, <1>5, <1>7
  <2> QED BY <2>1, <2>2
<1>10. SumFunctionOnSet(f, R) \in Int
  <2>1. IsFiniteSet(R) /\ R \subseteq S BY <1>3, FS_Subset
  <2> HIDE DEF R
  <2> QED BY <2>1, SumType
<1>11. f[x] \in Int /\ f[p] \in Int BY <1>5
<1> HIDE DEF R
<1> QED BY <1>4, <1>6, <1>8, <1>9, <1>10, <1>11

(* No part of a sum of naturals exceeds it.                                *)
LEMMA SumCoversPart ==
    ASSUME NEW S, IsFiniteSet(S), NEW i \in S, NEW f, \A x \in S : f[x] \in Nat
    PROVE  f[i] <= SumFunctionOnSet(f, S)
<1>1. SumFunctionOnSet(f, S) = f[i] + SumFunctionOnSet(f, S \ {i})
  BY SumRemove
<1>2. IsFiniteSet(S \ {i}) BY FS_Subset
<1>3. SumFunctionOnSet(f, S \ {i}) \in Nat BY <1>2, SumType
<1> QED BY <1>1, <1>3
-----------------------------------------------------------------------------
(* A quotient is the largest number that fits.                             *)
LEMMA Division ==
    ASSUME NEW a \in Nat, NEW b \in Nat \ {0}
    PROVE  a \div b \in Nat /\ b * (a \div b) <= a /\ a < b * (a \div b) + b
OBVIOUS

LEMMA DivisionAtMost ==
    ASSUME NEW a \in Nat, NEW b \in Nat \ {0}, NEW c \in Nat, a <= b * c
    PROVE  a \div b <= c
<1>1. a \div b \in Nat /\ b * (a \div b) <= b * c BY Division
<1> QED BY <1>1

(* A finite set of numbers has a greatest one: a smallest set without one  *)
(* would have one as soon as a member is put back.                         *)
LEMMA Greatest ==
    ASSUME NEW S \in SUBSET Nat, IsFiniteSet(S), S # {}
    PROVE  \E x \in S : \A y \in S : y <= x
<1> DEFINE T == {U \in SUBSET S : U # {} /\ \A x \in U : \E y \in U : ~(y <= x)}
<1>1. SUFFICES ASSUME T # {} PROVE FALSE
  <2>1. ASSUME T = {} PROVE \E x \in S : \A y \in S : y <= x
    <3>1. S \notin T BY <2>1
    <3> QED BY <3>1
  <2> QED BY <2>1
<1>2. PICK U \in T : \A V \in SUBSET U : V # U => V \notin T
  <2>1. T \in SUBSET (SUBSET S) OBVIOUS
  <2> HIDE DEF T
  <2> QED BY <1>1, <2>1, LeastSubset
<1>3. PICK x \in U : TRUE BY <1>2
<1>4. PICK y \in U : ~(y <= x) BY <1>2, <1>3
<1>5. U \ {x} # {} /\ U \ {x} \in SUBSET S /\ U \ {x} # U BY <1>3, <1>4
<1>6. PICK z \in U \ {x} : \A w \in U \ {x} : w <= z BY <1>2, <1>5
<1>7. z \in Nat /\ x \in Nat /\ y \in Nat BY <1>3, <1>4, <1>6
<1>8. \A w \in U : w <= z BY <1>4, <1>6, <1>7
<1> QED BY <1>2, <1>6, <1>8
=============================================================================
