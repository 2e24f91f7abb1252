--------------------------- MODULE SikaRulesProofs ---------------------------
(***************************************************************************)
(* Proofs about SikaRules, for every number of producers, every threshold  *)
(* and every length of the windows.                                        *)
(***************************************************************************)
EXTENDS SikaRules, TLAPS, FiniteSetTheorems, SequenceTheorems

(* No entry occurs twice.                                                  *)
NoRepeats(approvals) ==
    \A i, j \in DOMAIN approvals : approvals[i] = approvals[j] => i = j

Entries(approvals) == {approvals[i] : i \in DOMAIN approvals}

(* Taking one producer out of an approvals vector without repeats leaves   *)
(* exactly the other producers in it, each of them once (unapprove).       *)
LEMMA WithoutProperties ==
    ASSUME NEW S, NEW approvals \in Seq(S), NEW bp \in S, NoRepeats(approvals)
    PROVE  /\ Without(approvals, bp) \in Seq(S)
           /\ NoRepeats(Without(approvals, bp))
           /\ Entries(Without(approvals, bp)) = Entries(approvals) \ {bp}
<1>1. CASE \E i \in DOMAIN approvals : approvals[i] = bp
  <2>1. PICK i \in 1..Len(approvals) :
           /\ approvals[i] = bp
           /\ Without(approvals, bp)
                = SubSeq(approvals, 1, i - 1) \o SubSeq(approvals, i + 1, Len(approvals))
    <3> DEFINE j == CHOOSE k \in DOMAIN approvals : approvals[k] = bp
    <3>1. j \in DOMAIN approvals /\ approvals[j] = bp
      BY <1>1
    <3>2. Without(approvals, bp)
            = SubSeq(approvals, 1, j - 1) \o SubSeq(approvals, j + 1, Len(approvals))
      BY <1>1 DEF Without
    <3>3. j \in 1..Len(approvals)
      BY <3>1
    <3> HIDE DEF j
    <3>4. QED
      BY <3>1, <3>2, <3>3
  <2> DEFINE front == SubSeq(approvals, 1, i - 1)
             back == SubSeq(approvals, i + 1, Len(approvals))
             rest == front \o back
  <2>2. /\ front \in Seq(S)
        /\ Len(front) = i - 1
        /\ \A k \in 1..(i - 1) : front[k] = approvals[k]
    BY SubSeqProperties
  <2>3. /\ back \in Seq(S)
        /\ Len(back) = Len(approvals) - i
        /\ \A k \in 1..(Len(approvals) - i) : back[k] = approvals[i + k]
    BY SubSeqProperties
  <2>4. /\ rest \in Seq(S)
        /\ Len(rest) = Len(approvals) - 1
        /\ \A k \in 1..(Len(approvals) - 1) :
              rest[k] = IF k < i THEN approvals[k] ELSE approvals[k + 1]
    <3> HIDE DEF front, back
    <3>1. /\ rest \in Seq(S)
          /\ Len(rest) = Len(front) + Len(back)
          /\ \A k \in 1..(Len(front) + Len(back)) :
                rest[k] = IF k <= Len(front) THEN front[k] ELSE back[k - Len(front)]
      BY <2>2, <2>3, ConcatProperties
    <3> HIDE DEF rest
    <3>2. Len(rest) = Len(approvals) - 1
      BY <2>2, <2>3, <3>1
    <3>3. ASSUME NEW k \in 1..(Len(approvals) - 1)
          PROVE  rest[k] = IF k < i THEN approvals[k] ELSE approvals[k + 1]
      <4>1. CASE k < i
        BY <2>2, <2>3, <3>1, <4>1
      <4>2. CASE ~(k < i)
        <5>1. /\ k - (i - 1) \in 1..(Len(approvals) - i)
              /\ i + (k - (i - 1)) = k + 1
          BY <4>2
        <5>2. k \in 1..(Len(front) + Len(back)) /\ ~(k <= Len(front))
          BY <2>2, <2>3, <4>2
        <5>3. rest[k] = back[k - Len(front)]
          BY <3>1, <5>2
        <5>4. rest[k] = back[k - (i - 1)]
          BY <2>2, <5>3
        <5>5. QED
          BY <2>3, <4>2, <5>1, <5>4
      <4>3. QED
        BY <4>1, <4>2
    <3>4. QED
      BY <3>1, <3>2, <3>3
  <2>5. NoRepeats(rest)
    <3> HIDE DEF rest
    <3> SUFFICES ASSUME NEW k \in 1..Len(rest), NEW m \in 1..Len(rest), rest[k] = rest[m]
                 PROVE  k = m
      BY <2>4 DEF NoRepeats
    <3> DEFINE old(n) == IF n < i THEN n ELSE n + 1
    <3>1. /\ old(k) \in DOMAIN approvals /\ old(m) \in DOMAIN approvals
          /\ approvals[old(k)] = approvals[old(m)]
      BY <2>4
    <3>2. old(k) = old(m)
      BY <3>1 DEF NoRepeats
    <3>3. QED
      BY <3>2
  <2>6. Entries(rest) = Entries(approvals) \ {bp}
    <3> HIDE DEF rest
    <3>1. ASSUME NEW k \in 1..Len(rest)
          PROVE  rest[k] \in Entries(approvals) /\ rest[k] # bp
      BY <2>1, <2>4 DEF Entries, NoRepeats
    <3>2. ASSUME NEW k \in 1..Len(approvals), approvals[k] # bp
          PROVE  approvals[k] \in Entries(rest)
      <4>1. CASE k < i
        BY <2>4, <4>1 DEF Entries
      <4>2. CASE k > i
        <5>1. /\ k - 1 \in 1..Len(rest)
              /\ rest[k - 1] = approvals[k]
          BY <2>4, <4>2
        <5>2. QED
          BY <2>4, <5>1 DEF Entries
      <4>3. QED
        BY <2>1, <3>2, <4>1, <4>2
    <3>3. QED
      BY <2>4, <3>1, <3>2 DEF Entries
  <2>7. QED
    BY <2>1, <2>4, <2>5, <2>6
<1>2. CASE ~ \E i \in DOMAIN approvals : approvals[i] = bp
  BY <1>2 DEF Without, Entries
<1>3. QED
  BY <1>1, <1>2

(* Adding a producer that is not in the vector (approve).                  *)
LEMMA AppendKeepsNoRepeats ==
    ASSUME NEW S, NEW approvals \in Seq(S), NEW bp \in S,
           NoRepeats(approvals), bp \notin Entries(approvals)
    PROVE  /\ Append(approvals, bp) \in Seq(S)
           /\ NoRepeats(Append(approvals, bp))
           /\ Entries(Append(approvals, bp)) = Entries(approvals) \cup {bp}
<1> DEFINE longer == Append(approvals, bp)
<1>1. /\ longer \in Seq(S)
      /\ Len(longer) = Len(approvals) + 1
      /\ \A i \in 1..Len(approvals) : longer[i] = approvals[i]
      /\ longer[Len(approvals) + 1] = bp
  BY AppendProperties
<1> HIDE DEF longer
<1>2. NoRepeats(longer)
  BY <1>1 DEF NoRepeats, Entries
<1>3. Entries(longer) = Entries(approvals) \cup {bp}
  BY <1>1 DEF Entries
<1>4. QED
  BY <1>1, <1>2, <1>3 DEF longer

(* count_valid_approvals counts vector entries; without repeats it counts  *)
(* no more than the different producers in the vector.                     *)
LEMMA CountsDistinctProducers ==
    ASSUME NEW approvals \in Seq(BPs), NoRepeats(approvals), NEW top
    PROVE  CountValidApprovals(approvals, top) <= Cardinality(Entries(approvals))
<1> DEFINE valid == {i \in DOMAIN approvals : approvals[i] \in top}
           f == [i \in valid |-> approvals[i]]
<1>1. /\ Entries(approvals) \subseteq BPs
      /\ IsFiniteSet(Entries(approvals))
  BY RulesAssumption, FS_Subset DEF Entries
<1>2. f \in Injection(valid, Entries(approvals))
  BY DEF Injection, IsInjective, NoRepeats, Entries
<1>3. Cardinality(valid) <= Cardinality(Entries(approvals))
  <2> HIDE DEF f, valid
  <2> QED BY <1>1, <1>2, FS_Injection
<1>4. QED
  BY <1>3 DEF CountValidApprovals

-----------------------------------------------------------------------------
(* Every row keeps one entry per producer: approve checks before it adds.  *)
OneApprovalEach ==
    \A id \in Ids : Exists(id) => NoRepeats(amendments[id].bp_approvals)

(* The two rows an approval can leave behind.                              *)
LEMMA ApproveRow ==
    ASSUME NEW bp \in BPs, NEW id \in Ids, TypeOK, OneApprovalEach, Approve(bp, id)
    PROVE  \E row \in Amendment :
              /\ amendments[id] \in Amendment
              /\ amendments' = [amendments EXCEPT ![id] = row]
              /\ row.serial = amendments[id].serial
              /\ row.expires_at = amendments[id].expires_at
              /\ NoRepeats(row.bp_approvals)
              /\ Supporters(row) = Supporters(amendments[id]) \cup {bp}
              /\ \/ /\ row.status = "PROPOSED"
                    /\ row.executable_at = amendments[id].executable_at
                 \/ /\ row.status = "APPROVED"
                    /\ row.approved_at = now
                    /\ row.executable_at = now + VetoWindow
                    /\ Cardinality(Supporters(row)) >= Threshold
<1> DEFINE old == amendments[id]
           approvals == Append(old.bp_approvals, bp)
<1>1. old \in Amendment /\ old.status = "PROPOSED" /\ bp \notin Supporters(old)
  BY DEF TypeOK, Approve, Exists, HasStatus, NoRow
<1>2. old.bp_approvals \in Seq(BPs) /\ NoRepeats(old.bp_approvals)
  BY <1>1 DEF Amendment, OneApprovalEach, Exists
<1>3. /\ approvals \in Seq(BPs)
      /\ NoRepeats(approvals)
      /\ Entries(approvals) = Supporters(old) \cup {bp}
  <2>1. Supporters(old) = Entries(old.bp_approvals)
    BY DEF Supporters, Entries
  <2>2. QED
    BY <1>1, <1>2, <2>1, AppendKeepsNoRepeats
<1>4. PICK top \in SUBSET BPs :
         amendments' = [amendments EXCEPT ![id] =
            IF CountValidApprovals(approvals, top) >= Threshold
            THEN [@ EXCEPT !.bp_approvals = approvals, !.status = "APPROVED",
                           !.approved_at = now, !.executable_at = now + VetoWindow]
            ELSE [@ EXCEPT !.bp_approvals = approvals]]
  BY DEF Approve
<1> HIDE DEF approvals
<1>5. CASE CountValidApprovals(approvals, top) >= Threshold
  <2> DEFINE row == [old EXCEPT !.bp_approvals = approvals, !.status = "APPROVED",
                                !.approved_at = now, !.executable_at = now + VetoWindow]
  <2>1. /\ row \in Amendment
        /\ row.bp_approvals = approvals
        /\ row.serial = old.serial
        /\ row.expires_at = old.expires_at
        /\ row.status = "APPROVED"
        /\ row.approved_at = now
        /\ row.executable_at = now + VetoWindow
    <3>1. now \in Nat /\ now + VetoWindow \in Nat
      BY RulesAssumption DEF TypeOK
    <3> HIDE DEF old
    <3>2. QED
      BY <1>1, <1>3, <3>1 DEF Amendment, Statuses
  <2>2. Cardinality(Entries(approvals)) >= Threshold
    <3>1. /\ CountValidApprovals(approvals, top) <= Cardinality(Entries(approvals))
          /\ CountValidApprovals(approvals, top) \in Nat
          /\ Cardinality(Entries(approvals)) \in Nat
      <4>1. IsFiniteSet(Entries(approvals))
        BY <1>3, RulesAssumption, FS_Subset DEF Entries
      <4>2. IsFiniteSet({i \in DOMAIN approvals : approvals[i] \in top})
        <5>1. IsFiniteSet(DOMAIN approvals)
          BY <1>3, FS_Interval
        <5>2. QED
          BY <5>1, FS_Subset
      <4>3. QED
        BY <1>3, <4>1, <4>2, FS_CardinalityType, CountsDistinctProducers
           DEF CountValidApprovals
    <3>2. QED
      BY <1>5, <3>1, RulesAssumption
  <2>3. amendments' = [amendments EXCEPT ![id] = row]
    BY <1>4, <1>5
  <2>4. Supporters(row) = Entries(approvals)
    BY <2>1 DEF Supporters, Entries
  <2> HIDE DEF row, old
  <2>5. QED
    BY <1>1, <1>3, <2>1, <2>2, <2>3, <2>4 DEF old
<1>6. CASE ~(CountValidApprovals(approvals, top) >= Threshold)
  <2> DEFINE row == [old EXCEPT !.bp_approvals = approvals]
  <2>1. /\ row \in Amendment
        /\ row.bp_approvals = approvals
        /\ row.serial = old.serial
        /\ row.expires_at = old.expires_at
        /\ row.status = "PROPOSED"
        /\ row.executable_at = old.executable_at
    BY <1>1, <1>3 DEF Amendment
  <2>2. amendments' = [amendments EXCEPT ![id] = row]
    BY <1>4, <1>6
  <2>3. Supporters(row) = Entries(approvals)
    BY <2>1 DEF Supporters, Entries
  <2> HIDE DEF row, old
  <2>4. QED
    BY <1>1, <1>3, <2>1, <2>2, <2>3 DEF old
<1>7. QED
  BY <1>5, <1>6

(* The row a withdrawn approval leaves behind.                             *)
LEMMA UnapproveRow ==
    ASSUME NEW bp \in BPs, NEW id \in Ids, TypeOK, OneApprovalEach, Unapprove(bp, id)
    PROVE  \E row \in Amendment :
              /\ amendments[id] \in Amendment
              /\ amendments' = [amendments EXCEPT ![id] = row]
              /\ row.serial = amendments[id].serial
              /\ row.status = "PROPOSED"
              /\ amendments[id].status = "PROPOSED"
              /\ row.executable_at = amendments[id].executable_at
              /\ NoRepeats(row.bp_approvals)
              /\ Supporters(row) = Supporters(amendments[id]) \ {bp}
<1> DEFINE old == amendments[id]
           approvals == Without(old.bp_approvals, bp)
           row == [old EXCEPT !.bp_approvals = approvals]
<1>1. old \in Amendment /\ old.status = "PROPOSED"
  BY DEF TypeOK, Unapprove, Exists, HasStatus, NoRow
<1>2. old.bp_approvals \in Seq(BPs) /\ NoRepeats(old.bp_approvals)
  BY <1>1 DEF Amendment, OneApprovalEach, Exists
<1>3. /\ approvals \in Seq(BPs)
      /\ NoRepeats(approvals)
      /\ Entries(approvals) = Supporters(old) \ {bp}
  <2>1. Supporters(old) = Entries(old.bp_approvals)
    BY DEF Supporters, Entries
  <2>2. QED
    BY <1>2, <2>1, WithoutProperties
<1>4. amendments' = [amendments EXCEPT ![id] = row]
  BY DEF Unapprove
<1> HIDE DEF approvals
<1>5. /\ row \in Amendment
      /\ row.bp_approvals = approvals
      /\ row.serial = old.serial
      /\ row.status = "PROPOSED"
      /\ row.executable_at = old.executable_at
  BY <1>1, <1>3 DEF Amendment
<1>6. Supporters(row) = Entries(approvals)
  BY <1>5 DEF Supporters, Entries
<1> HIDE DEF row, old
<1>7. QED
  BY <1>1, <1>3, <1>4, <1>5, <1>6 DEF old

(* Type correctness together with the one-entry-per-producer invariant:    *)
(* the second is needed because unapprove takes out a single entry.        *)
Typed == TypeOK /\ OneApprovalEach

LEMMA TypedInit == Init => Typed
  BY RulesAssumption DEF Init, Typed, TypeOK, OneApprovalEach, Exists, NoRow

LEMMA TypedNext == Typed /\ [Next]_vars => Typed'
<1> SUFFICES ASSUME Typed, [Next]_vars
             PROVE  Typed'
  OBVIOUS
<1> USE RulesAssumption DEF Typed
<1>1. CASE Tick
  BY <1>1 DEF Tick, TypeOK, OneApprovalEach, Exists, producerVars, historyVars
<1>2. CASE ProducersChange
  BY <1>2 DEF ProducersChange, TypeOK, OneApprovalEach, Exists, historyVars
<1>3. ASSUME NEW id \in Ids, NEW has_actions \in BOOLEAN, Propose(id, has_actions)
      PROVE  Typed'
  <2> DEFINE row == [serial |-> serial + 1, has_actions |-> has_actions,
                     bp_approvals |-> <<>>, status |-> "PROPOSED", approved_at |-> 0,
                     executable_at |-> 0, expires_at |-> now + Lifetime]
  <2>1. row \in Amendment
    BY <1>3 DEF Propose, TypeOK, Amendment, Statuses, Serials
  <2>2. amendments' = [amendments EXCEPT ![id] = row]
    BY <1>3 DEF Propose
  <2>3. NoRepeats(row.bp_approvals)
    BY DEF NoRepeats
  <2> HIDE DEF row
  <2>4. QED
    BY <1>3, <2>1, <2>2, <2>3
       DEF Propose, TypeOK, OneApprovalEach, Exists, producerVars, historyVars
<1>4. ASSUME NEW id \in Ids, NEW bp \in BPs, Approve(bp, id)
      PROVE  Typed'
  <2>1. PICK row \in Amendment : /\ amendments' = [amendments EXCEPT ![id] = row]
                                 /\ NoRepeats(row.bp_approvals)
    BY <1>4, ApproveRow
  <2>2. QED
    BY <1>4, <2>1 DEF Approve, TypeOK, OneApprovalEach, Exists, producerVars, historyVars
<1>5. ASSUME NEW id \in Ids, NEW bp \in BPs, Unapprove(bp, id)
      PROVE  Typed'
  <2>1. PICK row \in Amendment : /\ amendments' = [amendments EXCEPT ![id] = row]
                                 /\ NoRepeats(row.bp_approvals)
    BY <1>5, UnapproveRow
  <2>2. QED
    BY <1>5, <2>1 DEF Unapprove, TypeOK, OneApprovalEach, Exists, producerVars, historyVars
<1>6. ASSUME NEW id \in Ids, Veto(id)
      PROVE  Typed'
  <2> DEFINE row == [amendments[id] EXCEPT !.status = "VETOED"]
  <2>1. /\ amendments[id] \in Amendment
        /\ row \in Amendment
        /\ row.bp_approvals = amendments[id].bp_approvals
        /\ amendments' = [amendments EXCEPT ![id] = row]
    <3>1. amendments[id] \in Amendment
      BY <1>6 DEF Veto, TypeOK, Exists, NoRow
    <3>2. amendments' = [amendments EXCEPT ![id] = row]
      BY <1>6 DEF Veto
    <3>3. QED
      BY <3>1, <3>2 DEF Amendment, Statuses
  <2>2. amendments[id].serial \in Serials
    BY <2>1 DEF Amendment
  <2> HIDE DEF row
  <2>3. QED
    BY <1>6, <2>1, <2>2 DEF Veto, TypeOK, OneApprovalEach, Exists, producerVars
<1>7. ASSUME NEW id \in Ids, Execute(id)
      PROVE  Typed'
  <2> DEFINE row == [amendments[id] EXCEPT !.status = "EXECUTED"]
  <2>1. /\ amendments[id] \in Amendment
        /\ row \in Amendment
        /\ row.bp_approvals = amendments[id].bp_approvals
        /\ amendments' = [amendments EXCEPT ![id] = row]
    <3>1. amendments[id] \in Amendment
      BY <1>7 DEF Execute, Executable, MarkedExecuted, TypeOK, Exists, NoRow
    <3>2. amendments' = [amendments EXCEPT ![id] = row]
      BY <1>7 DEF Execute, Executable, MarkedExecuted
    <3>3. QED
      BY <3>1, <3>2 DEF Amendment, Statuses
  <2>2. deferred' \subseteq [sender_id : Ids, serial : Serials]
    <3>1. amendments[id].serial \in Serials
      BY <2>1 DEF Amendment
    <3>2. \/ deferred' = deferred
          \/ deferred' = deferred \cup {[sender_id |-> id, serial |-> amendments[id].serial]}
      BY <1>7 DEF Execute, Executable, MarkedExecuted
    <3>3. QED
      BY <3>1, <3>2 DEF TypeOK
  <2> HIDE DEF row
  <2>3. QED
    BY <1>7, <2>1, <2>2 DEF Execute, Executable, MarkedExecuted, TypeOK, OneApprovalEach, Exists, producerVars, historyVars
<1>8. ASSUME NEW id \in Ids, Gc(id)
      PROVE  Typed'
  BY <1>8 DEF Gc, TypeOK, OneApprovalEach, Exists, NoRow, producerVars, historyVars
<1>9. ASSUME NEW tx \in deferred, RunDeferred(tx)
      PROVE  Typed'
  <2>1. tx.serial \in Serials
    BY DEF TypeOK
  <2>2. QED
    BY <1>9, <2>1 DEF RunDeferred, TypeOK, OneApprovalEach, Exists, producerVars
<1>10. CASE UNCHANGED vars
  BY <1>10 DEF vars, TypeOK, OneApprovalEach, Exists
<1>11. QED
  BY <1>1, <1>2, <1>3, <1>4, <1>5, <1>6, <1>7, <1>8, <1>9, <1>10 DEF Next

(* The tables of sika.rules are always well formed.                        *)
THEOREM TypeCorrect == Spec => []TypeOK
<1>1. Typed => TypeOK
  BY DEF Typed
<1>2. QED
  BY <1>1, TypedInit, TypedNext, PTL DEF Spec

-----------------------------------------------------------------------------
(* What holds of an approved amendment while it waits, so that it still    *)
(* holds when execute changes nothing but the status.                      *)
Earned(row, t) ==
    row.status \in {"APPROVED", "EXECUTED"} =>
       /\ Cardinality(Supporters(row)) >= Threshold
       /\ row.approved_at < row.expires_at
       /\ row.executable_at = row.approved_at + VetoWindow
       /\ row.status = "EXECUTED" => t >= row.executable_at

EarnedInv == \A id \in Ids : Earned(amendments[id], now)

LEMMA EarnedInit == Init => EarnedInv
  BY DEF Init, EarnedInv, Earned, NoRow

(* Rows a step leaves alone stay earned as time passes.                    *)
LEMMA EarnedFrame ==
    ASSUME TypeOK, EarnedInv, now' \in Nat, now' >= now,
           \A id \in Ids : \/ amendments'[id] = amendments[id]
                            \/ Earned(amendments'[id], now')
    PROVE  EarnedInv'
<1> SUFFICES ASSUME NEW id \in Ids, amendments'[id] = amendments[id],
                    amendments[id].status \in {"APPROVED", "EXECUTED"}
             PROVE  Earned(amendments[id], now')
  BY DEF EarnedInv, Earned
<1>1. amendments[id].executable_at \in Nat /\ now \in Nat
  BY DEF TypeOK, Amendment, NoRow
<1>2. QED
  BY <1>1 DEF EarnedInv, Earned

LEMMA EarnedNext == Typed /\ EarnedInv /\ [Next]_vars => EarnedInv'
<1> SUFFICES ASSUME Typed, EarnedInv, [Next]_vars
             PROVE  EarnedInv'
  OBVIOUS
<1> USE DEF Typed
<1>1. CASE Tick
  BY <1>1, EarnedFrame DEF Tick, TypeOK
<1>2. CASE ProducersChange
  BY <1>2, EarnedFrame DEF ProducersChange, TypeOK
<1>3. ASSUME NEW id \in Ids, NEW has_actions \in BOOLEAN, Propose(id, has_actions)
      PROVE  EarnedInv'
  <2>1. Earned(amendments'[id], now')
    BY <1>3 DEF Propose, TypeOK, Earned
  <2>2. QED
    BY <1>3, <2>1, EarnedFrame DEF Propose, TypeOK
<1>4. ASSUME NEW id \in Ids, NEW bp \in BPs, Approve(bp, id)
      PROVE  EarnedInv'
  <2>1. PICK row \in Amendment :
           /\ amendments' = [amendments EXCEPT ![id] = row]
           /\ row.expires_at = amendments[id].expires_at
           /\ \/ row.status = "PROPOSED"
              \/ /\ row.status = "APPROVED"
                 /\ row.approved_at = now
                 /\ row.executable_at = now + VetoWindow
                 /\ Cardinality(Supporters(row)) >= Threshold
    BY <1>4, ApproveRow
  <2>2. now < amendments[id].expires_at /\ now' = now /\ now \in Nat
    BY <1>4 DEF Approve, TypeOK
  <2>3. Earned(row, now')
    BY <2>1, <2>2 DEF Earned
  <2>4. QED
    BY <2>1, <2>2, <2>3, EarnedFrame DEF TypeOK
<1>5. ASSUME NEW id \in Ids, NEW bp \in BPs, Unapprove(bp, id)
      PROVE  EarnedInv'
  <2>1. PICK row \in Amendment : /\ amendments' = [amendments EXCEPT ![id] = row]
                                 /\ row.status = "PROPOSED"
    BY <1>5, UnapproveRow
  <2>2. Earned(row, now')
    BY <2>1 DEF Earned
  <2>3. QED
    BY <1>5, <2>1, <2>2, EarnedFrame DEF Unapprove, TypeOK
<1>6. ASSUME NEW id \in Ids, Veto(id)
      PROVE  EarnedInv'
  <2> DEFINE row == [amendments[id] EXCEPT !.status = "VETOED"]
  <2>1. amendments[id] \in Amendment /\ amendments' = [amendments EXCEPT ![id] = row]
    BY <1>6 DEF Veto, TypeOK, Exists, NoRow
  <2>2. row.status = "VETOED"
    BY <2>1 DEF Amendment
  <2> HIDE DEF row
  <2>3. Earned(row, now')
    BY <2>2 DEF Earned
  <2>4. QED
    BY <1>6, <2>1, <2>3, EarnedFrame DEF Veto, TypeOK
<1>7. ASSUME NEW id \in Ids, Execute(id)
      PROVE  EarnedInv'
  <2> DEFINE row == [amendments[id] EXCEPT !.status = "EXECUTED"]
  <2>1. /\ amendments[id] \in Amendment
        /\ amendments[id].status = "APPROVED"
        /\ now >= amendments[id].executable_at
        /\ amendments' = [amendments EXCEPT ![id] = row]
    BY <1>7 DEF Execute, Executable, MarkedExecuted, TypeOK, Exists, HasStatus, NoRow
  <2>2. Earned(amendments[id], now)
    BY DEF EarnedInv
  <2>3. /\ row.bp_approvals = amendments[id].bp_approvals
        /\ row.approved_at = amendments[id].approved_at
        /\ row.executable_at = amendments[id].executable_at
        /\ row.expires_at = amendments[id].expires_at
    BY <2>1 DEF Amendment
  <2> HIDE DEF row
  <2>4. Supporters(row) = Supporters(amendments[id])
    BY <2>3 DEF Supporters
  <2>5. Earned(row, now)
    BY <2>1, <2>2, <2>3, <2>4 DEF Earned
  <2>6. QED
    BY <1>7, <2>1, <2>5, EarnedFrame DEF Execute, Executable, MarkedExecuted, TypeOK
<1>8. ASSUME NEW id \in Ids, Gc(id)
      PROVE  EarnedInv'
  <2>1. Earned(NoRow, now')
    BY DEF Earned, NoRow
  <2>2. QED
    BY <1>8, <2>1, EarnedFrame DEF Gc, TypeOK
<1>9. ASSUME NEW tx \in deferred, RunDeferred(tx)
      PROVE  EarnedInv'
  BY <1>9, EarnedFrame DEF RunDeferred, TypeOK
<1>10. CASE UNCHANGED vars
  BY <1>10, EarnedFrame DEF vars, TypeOK
<1>11. QED
  BY <1>1, <1>2, <1>3, <1>4, <1>5, <1>6, <1>7, <1>8, <1>9, <1>10 DEF Next

(* An executed amendment had the approval of the threshold of different    *)
(* producers before it expired and waited out the whole veto window.       *)
THEOREM ExecutionEarned == Spec => []ExecutionWasEarned
<1>1. Typed /\ EarnedInv => ExecutionWasEarned
  BY RulesAssumption DEF EarnedInv, Earned, ExecutionWasEarned, HasStatus
<1>2. QED
  BY <1>1, TypedInit, TypedNext, EarnedInit, EarnedNext, PTL DEF Spec

-----------------------------------------------------------------------------
(* The history is tied to the rows by the serial numbers: they grow, no    *)
(* two rows share one, and only an executed row has been dispatched.       *)
SerialsAreOld ==
    /\ \A id \in Ids : Exists(id) => amendments[id].serial <= serial
    /\ \A tx \in deferred : tx.serial <= serial
    /\ \A s \in Serials : applied[s] > 0 => s <= serial
    /\ \A s \in vetoed : s <= serial

SerialsAreUnique ==
    \A id, other \in Ids :
       Exists(id) /\ Exists(other) /\ amendments[id].serial = amendments[other].serial
       => id = other

OnlyExecutedDispatched ==
    \A id \in Ids : Exists(id) /\ ~HasStatus(id, "EXECUTED") =>
       /\ applied[amendments[id].serial] = 0
       /\ \A tx \in deferred : tx.serial # amendments[id].serial

OnlyVetoedVetoed ==
    \A id \in Ids : Exists(id) /\ ~HasStatus(id, "VETOED") =>
       amendments[id].serial \notin vetoed

(* At most one dispatch, without counting: either the transaction ran, or  *)
(* one and only one deferred transaction carries it.                       *)
OneDispatch ==
    /\ \A s \in Serials : applied[s] <= 1
    /\ \A tx \in deferred : applied[tx.serial] = 0
    /\ \A tx, other \in deferred : tx.serial = other.serial => tx = other

HistoryInv ==
    /\ SerialsAreOld
    /\ SerialsAreUnique
    /\ OnlyExecutedDispatched
    /\ OnlyVetoedVetoed
    /\ OneDispatch
    /\ VetoIsFinal

LEMMA HistoryInit == Init => HistoryInv
  BY DEF Init, HistoryInv, SerialsAreOld, SerialsAreUnique, OnlyExecutedDispatched,
         OnlyVetoedVetoed, OneDispatch, VetoIsFinal, Exists, NoRow

(* Steps that leave every status, every serial and the history alone.      *)
LEMMA HistoryFrame ==
    ASSUME HistoryInv, UNCHANGED <<deferred, applied, vetoed, serial>>,
           \A id \in Ids : /\ amendments'[id].status = "NONE" <=> amendments[id].status = "NONE"
                           /\ Exists(id) => amendments'[id].serial = amendments[id].serial
                           /\ HasStatus(id, "EXECUTED")' <=> HasStatus(id, "EXECUTED")
                           /\ HasStatus(id, "VETOED")' <=> HasStatus(id, "VETOED")
    PROVE  HistoryInv'
  BY DEF HistoryInv, SerialsAreOld, SerialsAreUnique, OnlyExecutedDispatched,
         OnlyVetoedVetoed, OneDispatch, VetoIsFinal, Exists, HasStatus

LEMMA HistoryNext == Typed /\ HistoryInv /\ [Next]_vars => HistoryInv'
<1> SUFFICES ASSUME Typed, HistoryInv, [Next]_vars
             PROVE  HistoryInv'
  OBVIOUS
<1> USE DEF Typed
<1>1. CASE Tick
  BY <1>1, HistoryFrame DEF Tick, historyVars, Exists, HasStatus
<1>2. CASE ProducersChange
  BY <1>2, HistoryFrame DEF ProducersChange, historyVars, Exists, HasStatus
<1>3. ASSUME NEW id \in Ids, NEW has_actions \in BOOLEAN, Propose(id, has_actions)
      PROVE  HistoryInv'
  <2> DEFINE s == serial + 1
  <2>1. /\ ~Exists(id)
        /\ amendments'[id].serial = s
        /\ amendments'[id].status = "PROPOSED"
        /\ \A other \in Ids \ {id} : amendments'[other] = amendments[other]
        /\ serial' = s /\ s \in Serials /\ serial \in Nat
        /\ UNCHANGED <<deferred, applied, vetoed>>
    BY <1>3, RulesAssumption DEF Propose, IsAvailableKey, TypeOK, Ids, Serials
  <2>2. /\ applied[s] = 0
        /\ s \notin vetoed
        /\ \A tx \in deferred : tx.serial # s
        /\ \A other \in Ids : Exists(other) => amendments[other].serial # s
    <3> HIDE <1>3
    <3>1. applied[s] \in Nat
      BY <2>1 DEF TypeOK
    <3>2. \A n \in Nat : s <= n => n # serial
      BY <2>1
    <3>3. QED
      BY <2>1, <3>1 DEF HistoryInv, SerialsAreOld
  <2>3. SerialsAreOld'
    <3>1. \A n \in Nat : n <= serial => n <= serial'
      BY <2>1
    <3>2. /\ \A other \in Ids : Exists(other) => amendments[other].serial \in Nat
          /\ \A tx \in deferred : tx.serial \in Nat
          /\ Serials \subseteq Nat
          /\ vetoed \subseteq Nat
      BY DEF TypeOK, Exists, NoRow, Amendment, Serials
    <3> HIDE DEF s
    <3>3. serial' \in Nat /\ s <= serial'
      BY <2>1 DEF s
    <3>4. QED
      BY <2>1, <3>1, <3>2, <3>3 DEF HistoryInv, SerialsAreOld, Exists
  <2> HIDE DEF s
  <2>4. SerialsAreUnique'
    BY <2>1, <2>2 DEF HistoryInv, SerialsAreUnique, Exists
  <2>5. OnlyExecutedDispatched' /\ OnlyVetoedVetoed'
    BY <2>1, <2>2 DEF HistoryInv, OnlyExecutedDispatched, OnlyVetoedVetoed, Exists, HasStatus
  <2>6. QED
    BY <2>1, <2>3, <2>4, <2>5 DEF HistoryInv, OneDispatch, VetoIsFinal
<1>4. ASSUME NEW id \in Ids, NEW bp \in BPs, Approve(bp, id)
      PROVE  HistoryInv'
  <2>1. PICK row \in Amendment :
           /\ amendments[id] \in Amendment
           /\ amendments' = [amendments EXCEPT ![id] = row]
           /\ row.serial = amendments[id].serial
           /\ row.status \in {"PROPOSED", "APPROVED"}
    BY <1>4, ApproveRow
  <2>2. amendments[id].status = "PROPOSED" /\ UNCHANGED <<deferred, applied, vetoed, serial>>
    BY <1>4 DEF Approve, HasStatus, historyVars
  <2>3. QED
    BY <2>1, <2>2, HistoryFrame DEF TypeOK, HasStatus, Exists
<1>5. ASSUME NEW id \in Ids, NEW bp \in BPs, Unapprove(bp, id)
      PROVE  HistoryInv'
  <2>1. PICK row \in Amendment :
           /\ amendments' = [amendments EXCEPT ![id] = row]
           /\ row.serial = amendments[id].serial
           /\ row.status = "PROPOSED"
           /\ amendments[id].status = "PROPOSED"
    BY <1>5, UnapproveRow
  <2>2. UNCHANGED <<deferred, applied, vetoed, serial>>
    BY <1>5 DEF Unapprove, historyVars
  <2>3. QED
    BY <2>1, <2>2, HistoryFrame DEF TypeOK, HasStatus, Exists
<1>6. ASSUME NEW id \in Ids, Veto(id)
      PROVE  HistoryInv'
  <2> DEFINE s == amendments[id].serial
  <2>1. /\ amendments[id] \in Amendment
        /\ amendments[id].status = "APPROVED"
        /\ amendments'[id].serial = s
        /\ amendments'[id].status = "VETOED"
        /\ \A other \in Ids \ {id} : amendments'[other] = amendments[other]
        /\ vetoed' = vetoed \cup {s}
        /\ UNCHANGED <<deferred, applied, serial>>
    BY <1>6 DEF Veto, TypeOK, Exists, HasStatus, NoRow, Amendment
  <2>2. applied[s] = 0 /\ \A tx \in deferred : tx.serial # s
    BY <2>1 DEF HistoryInv, OnlyExecutedDispatched, Exists, HasStatus
  <2>3. \A other \in Ids \ {id} : Exists(other) => amendments[other].serial # s
    BY <2>1 DEF HistoryInv, SerialsAreUnique, Exists
  <2> HIDE DEF s
  <2>4. SerialsAreOld'
    BY <2>1 DEF HistoryInv, SerialsAreOld, Exists, s
  <2>5. SerialsAreUnique' /\ OnlyExecutedDispatched' /\ OnlyVetoedVetoed'
    <3>1. SerialsAreUnique'
      BY <2>1, <2>3 DEF HistoryInv, SerialsAreUnique, Exists
    <3>2. OnlyExecutedDispatched'
      BY <2>1, <2>2 DEF HistoryInv, OnlyExecutedDispatched, Exists, HasStatus
    <3>3. OnlyVetoedVetoed'
      BY <2>1, <2>3 DEF HistoryInv, OnlyVetoedVetoed, Exists, HasStatus
    <3>4. QED
      BY <3>1, <3>2, <3>3
  <2>6. QED
    BY <2>1, <2>2, <2>4, <2>5 DEF HistoryInv, OneDispatch, VetoIsFinal
<1>7. ASSUME NEW id \in Ids, Execute(id)
      PROVE  HistoryInv'
  <2> DEFINE s == amendments[id].serial
             tx == [sender_id |-> id, serial |-> s]
  <2>1. /\ amendments[id] \in Amendment
        /\ amendments[id].status = "APPROVED"
        /\ amendments'[id].serial = s
        /\ amendments'[id].status = "EXECUTED"
        /\ \A other \in Ids \ {id} : amendments'[other] = amendments[other]
        /\ deferred' = deferred \/ deferred' = deferred \cup {tx}
        /\ UNCHANGED <<applied, vetoed, serial>>
    <3>1. amendments[id] \in Amendment
      BY <1>7 DEF Execute, Executable, MarkedExecuted, TypeOK, Exists, NoRow
    <3>2. amendments' = [amendments EXCEPT ![id].status = "EXECUTED"]
      BY <1>7 DEF Execute, Executable, MarkedExecuted
    <3>3. amendments'[id].serial = s /\ amendments'[id].status = "EXECUTED"
      BY <3>1, <3>2 DEF TypeOK, Amendment
    <3>4. QED
      BY <1>7, <3>1, <3>2, <3>3 DEF Execute, Executable, MarkedExecuted, TypeOK, HasStatus, historyVars
  <2>2. applied[s] = 0 /\ \A other \in deferred : other.serial # s
    BY <2>1 DEF HistoryInv, OnlyExecutedDispatched, Exists, HasStatus
  <2>3. \A other \in Ids \ {id} : Exists(other) => amendments[other].serial # s
    BY <2>1 DEF HistoryInv, SerialsAreUnique, Exists
  <2>4. s \notin vetoed /\ s <= serial
    BY <2>1 DEF HistoryInv, OnlyVetoedVetoed, SerialsAreOld, Exists, HasStatus
  <2>5. tx.serial = s
    OBVIOUS
  <2> HIDE DEF s, tx
  <2>6. SerialsAreOld'
    BY <2>1, <2>4, <2>5 DEF HistoryInv, SerialsAreOld, Exists, s
  <2>7. SerialsAreUnique'
    BY <2>1, <2>3 DEF HistoryInv, SerialsAreUnique, Exists
  <2>8. OnlyExecutedDispatched'
    BY <2>1, <2>3, <2>5 DEF HistoryInv, OnlyExecutedDispatched, Exists, HasStatus
  <2>9. OnlyVetoedVetoed'
    BY <2>1, <2>4 DEF HistoryInv, OnlyVetoedVetoed, Exists, HasStatus
  <2>10. OneDispatch' /\ VetoIsFinal'
    BY <2>1, <2>2, <2>4, <2>5 DEF HistoryInv, OneDispatch, VetoIsFinal
  <2>11. QED
    BY <2>6, <2>7, <2>8, <2>9, <2>10 DEF HistoryInv
<1>8. ASSUME NEW id \in Ids, Gc(id)
      PROVE  HistoryInv'
  <2>1. /\ amendments'[id].status = "NONE"
        /\ \A other \in Ids \ {id} : amendments'[other] = amendments[other]
        /\ UNCHANGED <<deferred, applied, vetoed, serial>>
    BY <1>8 DEF Gc, TypeOK, NoRow, historyVars
  <2>2. QED
    BY <2>1 DEF HistoryInv, SerialsAreOld, SerialsAreUnique, OnlyExecutedDispatched,
                OnlyVetoedVetoed, OneDispatch, VetoIsFinal, Exists, HasStatus
<1>9. ASSUME NEW tx \in deferred, RunDeferred(tx)
      PROVE  HistoryInv'
  <2>1. /\ deferred' = deferred \ {tx}
        /\ applied' = applied \/ applied' = [applied EXCEPT ![tx.serial] = @ + 1]
        /\ UNCHANGED <<amendments, serial, vetoed>>
        /\ tx.serial \in Serials
        /\ tx.serial <= serial
        /\ applied[tx.serial] = 0
        /\ tx.serial \notin vetoed
    BY <1>9 DEF RunDeferred, TypeOK, HistoryInv, SerialsAreOld, OneDispatch, VetoIsFinal
  <2>2. /\ applied'[tx.serial] \in {0, 1}
        /\ \A s \in Serials \ {tx.serial} : applied'[s] = applied[s]
    BY <2>1 DEF TypeOK
  <2>3. \A other \in deferred' : other \in deferred /\ other.serial # tx.serial
    BY <2>1 DEF HistoryInv, OneDispatch
  <2>4. \A id \in Ids : Exists(id) /\ ~HasStatus(id, "EXECUTED")
                        => amendments[id].serial \in Serials \ {tx.serial}
    BY DEF HistoryInv, OnlyExecutedDispatched, TypeOK, Exists, NoRow, Amendment
  <2>5. SerialsAreOld' /\ SerialsAreUnique'
    BY <2>1, <2>2, <2>3 DEF HistoryInv, SerialsAreOld, SerialsAreUnique, Exists
  <2>6. OnlyExecutedDispatched'
    BY <2>1, <2>2, <2>3, <2>4 DEF HistoryInv, OnlyExecutedDispatched, Exists, HasStatus
  <2>7. OnlyVetoedVetoed'
    BY <2>1 DEF HistoryInv, OnlyVetoedVetoed, Exists, HasStatus
  <2>8. \A other \in deferred : other.serial \in Serials
    BY DEF TypeOK
  <2>9. OneDispatch' /\ VetoIsFinal'
    <3>1. OneDispatch'
      BY <2>1, <2>2, <2>3, <2>8 DEF HistoryInv, OneDispatch
    <3>2. VetoIsFinal'
      BY <2>1, <2>2, <2>3 DEF HistoryInv, VetoIsFinal, TypeOK
    <3>3. QED
      BY <3>1, <3>2
  <2>10. QED
    BY <2>5, <2>6, <2>7, <2>9 DEF HistoryInv
<1>10. CASE UNCHANGED vars
  BY <1>10, HistoryFrame DEF vars, Exists, HasStatus
<1>11. QED
  BY <1>1, <1>2, <1>3, <1>4, <1>5, <1>6, <1>7, <1>8, <1>9, <1>10 DEF Next

LEMMA HistoryAlways == Spec => [](TypeOK /\ HistoryInv)
<1>1. Typed => TypeOK
  BY DEF Typed
<1>2. QED
  BY <1>1, TypedInit, TypedNext, HistoryInit, HistoryNext, PTL DEF Spec

(* A veto is final: the vetoed transaction is never sent and never runs.   *)
THEOREM VetoFinal == Spec => []VetoIsFinal
<1>1. HistoryInv => VetoIsFinal
  BY DEF HistoryInv
<1>2. QED
  BY <1>1, HistoryAlways, PTL

(* No transaction is dispatched twice, also when ids are used again.       *)
THEOREM DispatchAtMostOnce == Spec => []DispatchedAtMostOnce
<1>1. TypeOK /\ HistoryInv => DispatchedAtMostOnce
  <2> SUFFICES ASSUME TypeOK, HistoryInv, NEW s \in Serials
               PROVE  applied[s] + Cardinality({tx \in deferred : tx.serial = s}) <= 1
    BY DEF DispatchedAtMostOnce
  <2> DEFINE pending == {tx \in deferred : tx.serial = s}
  <2>1. CASE pending = {}
    <3>1. Cardinality(pending) = 0
      BY <2>1, FS_EmptySet
    <3>2. QED
      BY <3>1 DEF HistoryInv, OneDispatch, TypeOK
  <2>2. CASE pending # {}
    <3>1. PICK tx \in deferred : pending = {tx} /\ applied[s] = 0
      BY <2>2 DEF HistoryInv, OneDispatch
    <3>2. Cardinality(pending) = 1
      BY <3>1, FS_Singleton
    <3>3. QED
      BY <3>1, <3>2
  <2>3. QED
    BY <2>1, <2>2
<1>2. QED
  BY <1>1, HistoryAlways, PTL

-----------------------------------------------------------------------------
(* Refinement: replacing one row moves one slot of the life cycle.         *)
LEMMA SlotUpdate ==
    ASSUME TypeOK, NEW id \in Ids, NEW row, amendments' = [amendments EXCEPT ![id] = row]
    PROVE  /\ phases' = [phases EXCEPT ![id] = PhaseOf(row.status)]
           /\ supports' = [supports EXCEPT ![id] = SupportOf(row)]
           /\ deadlines' = [deadlines EXCEPT ![id] = DeadlineOf(row)]
<1>1. \A other \in Ids : amendments'[other] = IF other = id THEN row ELSE amendments[other]
  BY DEF TypeOK
<1>2. phases' = [phases EXCEPT ![id] = PhaseOf(row.status)]
  <2>1. \A other \in Ids :
           phases'[other] = IF other = id THEN PhaseOf(row.status) ELSE phases[other]
    BY <1>1 DEF phases
  <2>2. phases = [other \in Ids |-> phases[other]] /\ phases' = [other \in Ids |-> phases'[other]]
    BY DEF phases
  <2>3. QED
    BY <2>1, <2>2
<1>3. supports' = [supports EXCEPT ![id] = SupportOf(row)]
  <2>1. \A other \in Ids :
           supports'[other] = IF other = id THEN SupportOf(row) ELSE supports[other]
    BY <1>1 DEF supports
  <2>2. supports = [other \in Ids |-> supports[other]] /\ supports' = [other \in Ids |-> supports'[other]]
    BY DEF supports
  <2>3. QED
    BY <2>1, <2>2
<1>4. deadlines' = [deadlines EXCEPT ![id] = DeadlineOf(row)]
  <2>1. \A other \in Ids :
           deadlines'[other] = IF other = id THEN DeadlineOf(row) ELSE deadlines[other]
    BY <1>1 DEF deadlines
  <2>2. deadlines = [other \in Ids |-> deadlines[other]] /\ deadlines' = [other \in Ids |-> deadlines'[other]]
    BY DEF deadlines
  <2>3. QED
    BY <2>1, <2>2
<1>5. QED
  BY <1>2, <1>3, <1>4

LEMMA SlotsUnchanged ==
    ASSUME amendments' = amendments
    PROVE  UNCHANGED <<phases, supports, deadlines>>
  BY DEF phases, supports, deadlines

(* A row of the table is not the empty slot.                               *)
LEMMA SlotOfRow ==
    ASSUME NEW row \in Amendment
    PROVE  /\ row # NoRow
           /\ SupportOf(row) = Supporters(row)
           /\ DeadlineOf(row) = row.executable_at
<1>1. row.status # "NONE"
  BY DEF Amendment, Statuses
<1>2. QED
  BY <1>1 DEF NoRow, SupportOf, DeadlineOf

LEMMA PhaseNames ==
    /\ PhaseOf("NONE") = "absent"
    /\ PhaseOf("PROPOSED") = "open"
    /\ PhaseOf("APPROVED") = "window"
    /\ PhaseOf("EXECUTED") = "executed"
    /\ PhaseOf("VETOED") = "vetoed"
  BY DEF PhaseOf

LEMMA LifecycleInit == Init => Lifecycle!Init
  BY PhaseNames DEF Init, Lifecycle!Init, phases, supports, deadlines,
                    SupportOf, DeadlineOf, NoRow

LEMMA LifecycleStep == Typed /\ [Next]_vars => [Lifecycle!Next]_(Lifecycle!vars)
<1> SUFFICES ASSUME Typed, [Next]_vars
             PROVE  [Lifecycle!Next]_(Lifecycle!vars)
  OBVIOUS
<1> USE DEF Typed
<1>a. /\ \A id \in Ids : phases[id] = PhaseOf(amendments[id].status)
      /\ \A id \in Ids : supports[id] = SupportOf(amendments[id])
      /\ \A id \in Ids : deadlines[id] = DeadlineOf(amendments[id])
  BY DEF phases, supports, deadlines
<1>1. CASE Tick
  <2>1. Lifecycle!PassTime
    BY <1>1, SlotsUnchanged DEF Tick, Lifecycle!PassTime, TypeOK
  <2>2. QED
    BY <2>1 DEF Lifecycle!Next
<1>2. CASE ProducersChange
  BY <1>2, SlotsUnchanged DEF ProducersChange, Lifecycle!vars
<1>3. ASSUME NEW id \in Ids, NEW has_actions \in BOOLEAN, Propose(id, has_actions)
      PROVE  Lifecycle!Open(id)
  <2> DEFINE row == [serial |-> serial + 1, has_actions |-> has_actions,
                     bp_approvals |-> <<>>, status |-> "PROPOSED", approved_at |-> 0,
                     executable_at |-> 0, expires_at |-> now + Lifetime]
  <2>1. row \in Amendment
    BY <1>3, RulesAssumption DEF Propose, TypeOK, Amendment, Statuses, Serials
  <2>2. amendments' = [amendments EXCEPT ![id] = row] /\ now' = now
    BY <1>3 DEF Propose
  <2>3. amendments[id] = NoRow
    <3>1. ~Exists(id)
      BY <1>3 DEF Propose, IsAvailableKey, Ids
    <3>2. QED
      BY <3>1 DEF Exists, TypeOK, Amendment, Statuses
  <2>4. row.status = "PROPOSED" /\ Supporters(row) = {} /\ row.executable_at = 0
    BY DEF Supporters
  <2>5. NoRow.status = "NONE" /\ SupportOf(NoRow) = {} /\ DeadlineOf(NoRow) = 0
    BY DEF NoRow, SupportOf, DeadlineOf
  <2> HIDE DEF row
  <2>6. /\ phases[id] = "absent"
        /\ phases' = [phases EXCEPT ![id] = "open"]
        /\ supports' = [supports EXCEPT ![id] = {}] /\ supports[id] = {}
        /\ deadlines' = [deadlines EXCEPT ![id] = 0] /\ deadlines[id] = 0
    <3>1. SupportOf(row) = {} /\ DeadlineOf(row) = 0
      BY <2>1, <2>4, SlotOfRow
    <3>2. /\ phases' = [phases EXCEPT ![id] = PhaseOf(row.status)]
          /\ supports' = [supports EXCEPT ![id] = SupportOf(row)]
          /\ deadlines' = [deadlines EXCEPT ![id] = DeadlineOf(row)]
      BY <2>2, SlotUpdate
    <3>3. QED
      BY <1>a, <2>3, <2>4, <2>5, <3>1, <3>2, PhaseNames
  <2>7. supports' = supports /\ deadlines' = deadlines
    BY <2>6 DEF supports, deadlines
  <2>8. QED
    BY <2>2, <2>6, <2>7 DEF Lifecycle!Open
<1>4. ASSUME NEW id \in Ids, NEW bp \in BPs, Approve(bp, id)
      PROVE  Lifecycle!ChangeSupport(id) \/ Lifecycle!ArmWindow(id)
  <2>1. PICK row \in Amendment :
           /\ amendments[id] \in Amendment
           /\ amendments' = [amendments EXCEPT ![id] = row]
           /\ Supporters(row) = Supporters(amendments[id]) \cup {bp}
           /\ \/ /\ row.status = "PROPOSED"
                 /\ row.executable_at = amendments[id].executable_at
              \/ /\ row.status = "APPROVED"
                 /\ row.executable_at = now + VetoWindow
                 /\ Cardinality(Supporters(row)) >= Threshold
    BY <1>4, ApproveRow
  <2>2. now' = now /\ amendments[id].status = "PROPOSED"
    BY <1>4 DEF Approve, HasStatus
  <2>3. /\ phases[id] = "open"
        /\ phases' = [phases EXCEPT ![id] = PhaseOf(row.status)]
        /\ supports' = [supports EXCEPT ![id] = supports[id] \cup {bp}]
        /\ deadlines[id] = amendments[id].executable_at
        /\ deadlines' = [deadlines EXCEPT ![id] = row.executable_at]
    <3>1. /\ phases' = [phases EXCEPT ![id] = PhaseOf(row.status)]
          /\ supports' = [supports EXCEPT ![id] = SupportOf(row)]
          /\ deadlines' = [deadlines EXCEPT ![id] = DeadlineOf(row)]
      BY <2>1, SlotUpdate
    <3>2. /\ SupportOf(row) = Supporters(row)
          /\ DeadlineOf(row) = row.executable_at
          /\ supports[id] = Supporters(amendments[id])
          /\ deadlines[id] = amendments[id].executable_at
          /\ phases[id] = PhaseOf(amendments[id].status)
      BY <1>a, <2>1, SlotOfRow
    <3>3. QED
      BY <2>1, <2>2, <3>1, <3>2, PhaseNames
  <2>4. supports'[id] = Supporters(row)
    BY <1>a, <2>1, <2>3, SlotOfRow DEF supports
  <2>5. CASE row.status = "PROPOSED"
    <3>1. phases' = phases /\ deadlines' = deadlines
      BY <2>1, <2>3, <2>5, PhaseNames DEF phases, deadlines
    <3>2. QED
      BY <2>2, <2>3, <3>1 DEF Lifecycle!ChangeSupport
  <2>6. CASE row.status = "APPROVED"
    <3>1. phases' = [phases EXCEPT ![id] = "window"]
      BY <2>3, <2>6, PhaseNames
    <3>2. /\ supports'[id] \in Quorums
          /\ deadlines' = [deadlines EXCEPT ![id] = now + VetoWindow]
      <4>1. Supporters(row) \subseteq BPs
        BY DEF Supporters, Amendment
      <4>2. QED
        BY <2>1, <2>3, <2>4, <2>6, <4>1 DEF Quorums
    <3>3. \E b \in BPs : supports' = [supports EXCEPT ![id] = supports[id] \cup {b}]
      BY <2>3
    <3>4. Lifecycle!ArmWindow(id)
      BY <2>2, <2>3, <3>1, <3>2, <3>3 DEF Lifecycle!ArmWindow
    <3>5. QED
      BY <3>4
  <2>7. QED
    BY <2>1, <2>5, <2>6
<1>5. ASSUME NEW id \in Ids, NEW bp \in BPs, Unapprove(bp, id)
      PROVE  Lifecycle!ChangeSupport(id)
  <2>1. PICK row \in Amendment :
           /\ amendments[id] \in Amendment
           /\ amendments' = [amendments EXCEPT ![id] = row]
           /\ row.status = "PROPOSED"
           /\ amendments[id].status = "PROPOSED"
           /\ row.executable_at = amendments[id].executable_at
           /\ Supporters(row) = Supporters(amendments[id]) \ {bp}
    BY <1>5, UnapproveRow
  <2>2. /\ phases[id] = "open"
        /\ phases' = [phases EXCEPT ![id] = phases[id]]
        /\ supports' = [supports EXCEPT ![id] = supports[id] \ {bp}]
        /\ deadlines' = [deadlines EXCEPT ![id] = deadlines[id]]
    <3>1. /\ phases' = [phases EXCEPT ![id] = PhaseOf(row.status)]
          /\ supports' = [supports EXCEPT ![id] = SupportOf(row)]
          /\ deadlines' = [deadlines EXCEPT ![id] = DeadlineOf(row)]
      BY <2>1, SlotUpdate
    <3>2. /\ SupportOf(row) = Supporters(row)
          /\ DeadlineOf(row) = row.executable_at
          /\ supports[id] = Supporters(amendments[id])
          /\ deadlines[id] = amendments[id].executable_at
          /\ phases[id] = PhaseOf(amendments[id].status)
      BY <1>a, <2>1, SlotOfRow
    <3>3. QED
      BY <2>1, <3>1, <3>2, PhaseNames
  <2>3. phases' = phases /\ deadlines' = deadlines /\ now' = now
    BY <1>5, <2>2 DEF phases, deadlines, Unapprove
  <2>4. QED
    BY <2>2, <2>3 DEF Lifecycle!ChangeSupport
<1>6. ASSUME NEW id \in Ids, NEW st \in {"VETOED", "EXECUTED"},
             Exists(id), HasStatus(id, "APPROVED"),
             amendments' = [amendments EXCEPT ![id].status = st]
      PROVE  /\ phases[id] = "window"
             /\ phases' = [phases EXCEPT ![id] = PhaseOf(st)]
             /\ UNCHANGED <<supports, deadlines>>
             /\ deadlines[id] = amendments[id].executable_at
  <2> DEFINE row == [amendments[id] EXCEPT !.status = st]
  <2>1. amendments[id] \in Amendment
    BY <1>6 DEF TypeOK, Exists, NoRow
  <2>2. /\ row \in Amendment
        /\ row.status = st
        /\ row.bp_approvals = amendments[id].bp_approvals
        /\ row.executable_at = amendments[id].executable_at
    BY <2>1 DEF Amendment, Statuses
  <2>3. amendments' = [amendments EXCEPT ![id] = row]
    BY <1>6
  <2> HIDE DEF row
  <2>4. Supporters(row) = Supporters(amendments[id])
    BY <2>2 DEF Supporters
  <2>5. /\ phases' = [phases EXCEPT ![id] = PhaseOf(st)]
        /\ supports' = [supports EXCEPT ![id] = supports[id]]
        /\ deadlines' = [deadlines EXCEPT ![id] = deadlines[id]]
        /\ deadlines[id] = amendments[id].executable_at
    <3>1. /\ phases' = [phases EXCEPT ![id] = PhaseOf(row.status)]
          /\ supports' = [supports EXCEPT ![id] = SupportOf(row)]
          /\ deadlines' = [deadlines EXCEPT ![id] = DeadlineOf(row)]
      BY <2>3, SlotUpdate
    <3>2. /\ SupportOf(row) = Supporters(row)
          /\ DeadlineOf(row) = row.executable_at
          /\ supports[id] = Supporters(amendments[id])
          /\ deadlines[id] = amendments[id].executable_at
      BY <1>a, <2>1, <2>2, SlotOfRow
    <3>3. QED
      BY <2>2, <2>4, <3>1, <3>2
  <2>6. QED
    BY <1>6, <1>a, <2>5, PhaseNames DEF HasStatus, supports, deadlines
<1>7. ASSUME NEW id \in Ids, Veto(id)
      PROVE  Lifecycle!Veto(id)
  BY <1>6, <1>7, PhaseNames DEF Veto, Lifecycle!Veto
<1>8. ASSUME NEW id \in Ids, Execute(id)
      PROVE  Lifecycle!Execute(id)
  BY <1>6, <1>8, PhaseNames DEF Execute, Executable, MarkedExecuted, Lifecycle!Execute
<1>9. ASSUME NEW id \in Ids, Gc(id)
      PROVE  Lifecycle!Forget(id)
  <2>1. /\ amendments[id].status \in {"PROPOSED", "EXECUTED", "VETOED"}
        /\ amendments' = [amendments EXCEPT ![id] = NoRow]
        /\ now' = now
    BY <1>9 DEF Gc, CanGc, HasStatus
  <2>2. /\ phases' = [phases EXCEPT ![id] = "absent"]
        /\ supports' = [supports EXCEPT ![id] = {}]
        /\ deadlines' = [deadlines EXCEPT ![id] = 0]
    BY <2>1, SlotUpdate, PhaseNames DEF NoRow, SupportOf, DeadlineOf
  <2>3. QED
    BY <1>a, <2>1, <2>2, PhaseNames DEF Lifecycle!Forget
<1>10. ASSUME NEW tx \in deferred, RunDeferred(tx)
       PROVE  UNCHANGED Lifecycle!vars
  BY <1>10, SlotsUnchanged DEF RunDeferred, Lifecycle!vars
<1>11. CASE UNCHANGED vars
  BY <1>11, SlotsUnchanged DEF vars, Lifecycle!vars
<1>12. QED
  BY <1>1, <1>2, <1>3, <1>4, <1>5, <1>7, <1>8, <1>9, <1>10, <1>11
     DEF Next, Lifecycle!Next

(* The contract implements the life cycle it promises.                     *)
THEOREM Implementation == Spec => ImplementsLifecycle
<1>1. Spec => []Typed
  BY TypedInit, TypedNext, PTL DEF Spec
<1>2. QED
  BY <1>1, LifecycleInit, LifecycleStep, PTL DEF Spec, ImplementsLifecycle, Lifecycle!Spec
=============================================================================
