------------------------ MODULE SikaComplianceProofs ------------------------
(***************************************************************************)
(* Proofs about SikaCompliance, for any number of producers, any window    *)
(* and any mix of attestations.                                            *)
(*                                                                         *)
(* The row operators come first: each keeps a row typed with its clock     *)
(* running exactly in probation (GoodRow), and a producer's clock is never *)
(* wound back further than it was except by an overdue issue (Kept).       *)
(***************************************************************************)
EXTENDS SikaCompliance, TLAPS

GoodRow(p) ==
    /\ p \in ProducerRow
    /\ (p.clock = None) <=> (p.flags = {})

(* The clock of row q started no earlier than that of row p before it.     *)
Kept(q, p) ==
    \/ q.flags = {}
    \/ q.clock = 0
    \/ p.flags # {} /\ q.clock = p.clock

-----------------------------------------------------------------------------
(* A row with new flags and a new clock.                                   *)
Written(p, flags, clock) == [p EXCEPT !.flags = flags, !.clock = clock]

LEMMA RowWritten ==
    ASSUME NEW p \in ProducerRow, NEW flags \in SUBSET Rules, NEW clock \in Ages \cup {None}
    PROVE  /\ Written(p, flags, clock) \in ProducerRow
           /\ Written(p, flags, clock).flags = flags
           /\ Written(p, flags, clock).clock = clock
           /\ Written(p, flags, clock).is_active = p.is_active
BY DEF Written, ProducerRow

(* A judgement of one rule keeps a good row good.                          *)
LEMMA JudgeGood ==
    ASSUME NEW p, GoodRow(p), NEW rule \in Rules, NEW failing \in BOOLEAN
    PROVE  GoodRow(Judge(p, rule, failing))
<1> USE ComplianceAssumption DEF ProducerRow, Ages, None
<1>1. CASE failing
  <2>1. CASE rule \in p.flags
    BY <1>1, <2>1 DEF Judge, Flag
  <2>2. CASE rule \notin p.flags
    <3> DEFINE flags == p.flags \cup {rule}
               clock == IF p.clock = None THEN 0 ELSE p.clock
    <3>1. Judge(p, rule, failing) = Written(p, flags, clock)
      BY <1>1, <2>2 DEF Judge, Flag, Written
    <3>2. p \in ProducerRow /\ flags \in SUBSET Rules /\ flags # {}
      BY DEF GoodRow
    <3>3. clock \in Ages /\ clock # None
      BY DEF GoodRow
    <3> HIDE DEF flags, clock, ProducerRow, Ages, None
    <3>4. Judge(p, rule, failing) \in ProducerRow /\ Judge(p, rule, failing).flags = flags
          /\ Judge(p, rule, failing).clock = clock
      BY <3>1, <3>2, <3>3, RowWritten
    <3> QED BY <3>2, <3>3, <3>4 DEF GoodRow
  <2> QED BY <2>1, <2>2
<1>2. CASE ~failing
  <2>1. CASE rule \notin p.flags
    BY <1>2, <2>1 DEF Judge, Clear
  <2>2. CASE rule \in p.flags
    BY <1>2, <2>2 DEF Judge, Clear, GoodRow
  <2> QED BY <2>1, <2>2
<1> QED BY <1>1, <1>2

(* A judgement does not wind the clock back, touches no other rule, and    *)
(* neither the candidacy nor the issue.                                    *)
LEMMA JudgeKeeps ==
    ASSUME NEW p, GoodRow(p), NEW rule \in Rules, NEW failing \in BOOLEAN
    PROVE  /\ Kept(Judge(p, rule, failing), p)
           /\ Judge(p, rule, failing).is_active = p.is_active
           /\ Judge(p, rule, failing).issue = p.issue
<1> USE ComplianceAssumption DEF ProducerRow, Ages, None
<1>1. CASE failing
  <2>1. CASE rule \in p.flags
    BY <1>1, <2>1 DEF Judge, Flag, Kept
  <2>2. CASE rule \notin p.flags
    BY <1>1, <2>2 DEF Judge, Flag, Kept, GoodRow
  <2> QED BY <2>1, <2>2
<1>2. CASE ~failing
  <2>1. CASE rule \notin p.flags
    BY <1>2, <2>1 DEF Judge, Clear, Kept
  <2>2. CASE rule \in p.flags
    BY <1>2, <2>2 DEF Judge, Clear, Kept, GoodRow
  <2> QED BY <2>1, <2>2
<1> QED BY <1>1, <1>2

(* Keeping the clock composes.                                             *)
LEMMA KeptTransitive ==
    ASSUME NEW p, NEW q, NEW r, Kept(q, p), Kept(r, q)
    PROVE  Kept(r, p)
BY DEF Kept

(* An attestation is three judgements.                                     *)
LEMMA AttestedGood ==
    ASSUME NEW p, GoodRow(p), NEW failing
    PROVE  /\ GoodRow(Attested(p, failing))
           /\ Kept(Attested(p, failing), p)
           /\ Attested(p, failing).is_active = p.is_active
<1> DEFINE uptime == Judge(p, "UPTIME_BELOW_FLOOR", "UPTIME_BELOW_FLOOR" \in failing)
           rpc == Judge(uptime, "NO_PUBLIC_RPC", "NO_PUBLIC_RPC" \in failing)
           upgrade == Judge(rpc, "MISSED_UPGRADE", "MISSED_UPGRADE" \in failing)
<1>0. /\ "UPTIME_BELOW_FLOOR" \in Rules /\ ("UPTIME_BELOW_FLOOR" \in failing) \in BOOLEAN
      /\ "NO_PUBLIC_RPC" \in Rules /\ ("NO_PUBLIC_RPC" \in failing) \in BOOLEAN
      /\ "MISSED_UPGRADE" \in Rules /\ ("MISSED_UPGRADE" \in failing) \in BOOLEAN
  BY DEF Rules, AttestedRules
<1>1. GoodRow(uptime) /\ Kept(uptime, p) /\ uptime.is_active = p.is_active
  BY <1>0, JudgeGood, JudgeKeeps
<1>2. GoodRow(rpc) /\ Kept(rpc, uptime) /\ rpc.is_active = uptime.is_active
  <2> HIDE DEF uptime
  <2> QED BY <1>0, <1>1, JudgeGood, JudgeKeeps
<1>3. GoodRow(upgrade) /\ Kept(upgrade, rpc) /\ upgrade.is_active = rpc.is_active
  <2> HIDE DEF rpc
  <2> QED BY <1>0, <1>2, JudgeGood, JudgeKeeps
<1>4. Kept(upgrade, p)
  <2> HIDE DEF uptime, rpc, upgrade
  <2> QED BY <1>1, <1>2, <1>3, KeptTransitive
<1>5. upgrade = Attested(p, failing)
  BY DEF Attested
<1> HIDE DEF uptime, rpc, upgrade
<1> QED BY <1>1, <1>2, <1>3, <1>4, <1>5

(* Noticing an overdue issue either changes nothing or records the breach. *)
LEMMA JudgeIssueGood ==
    ASSUME NEW p, GoodRow(p)
    PROVE  /\ GoodRow(JudgeIssue(p))
           /\ JudgeIssue(p).is_active = p.is_active
           /\ JudgeIssue(p) = p \/ SLA \in JudgeIssue(p).flags
<1> USE ComplianceAssumption DEF ProducerRow, Ages, None, Rules
<1>1. CASE p.issue # Window
  BY <1>1 DEF JudgeIssue
<1>2. CASE p.issue = Window /\ SLA \in p.flags
  <2>1. [p EXCEPT !.clock = p.clock] = p
    BY DEF GoodRow
  <2>2. JudgeIssue(p) = p
    BY <1>2, <2>1 DEF JudgeIssue, Flag
  <2> QED BY <2>2
<1>3. CASE p.issue = Window /\ SLA \notin p.flags
  <2> DEFINE flags == p.flags \cup {SLA}
  <2>1. JudgeIssue(p) = Written(p, flags, Window)
    <3>1. JudgeIssue(p) = Flag([p EXCEPT !.clock = Window], SLA)
      BY <1>3 DEF JudgeIssue
    <3>2. [p EXCEPT !.clock = Window].flags = p.flags /\ [p EXCEPT !.clock = Window].clock = Window
      BY DEF GoodRow
    <3>3. Window # None
      OBVIOUS
    <3> QED BY <1>3, <3>1, <3>2, <3>3 DEF Flag, Written
  <2>2. p \in ProducerRow /\ flags \in SUBSET Rules /\ SLA \in flags
    BY DEF GoodRow
  <2>3. Window \in Ages /\ Window # None
    OBVIOUS
  <2> HIDE DEF flags, ProducerRow, Ages, None, Rules
  <2>4. JudgeIssue(p) \in ProducerRow /\ JudgeIssue(p).flags = flags
        /\ JudgeIssue(p).clock = Window /\ JudgeIssue(p).is_active = p.is_active
    BY <2>1, <2>2, <2>3, RowWritten
  <2> QED BY <2>2, <2>3, <2>4 DEF GoodRow
<1> QED BY <1>1, <1>2, <1>3

(* What one sweep does to one producer.                                    *)
LEMMA EnforcedGood ==
    ASSUME NEW p, GoodRow(p), NEW meets \in BOOLEAN
    PROVE  /\ GoodRow(Enforced(p, meets))
           /\ SLA \in Enforced(p, meets).flags \/ Kept(Enforced(p, meets), p)
           /\ (p.is_active /\ ~Enforced(p, meets).is_active)
              => Enforced(p, meets).flags # {} /\ Enforced(p, meets).clock = Window
           /\ ~Enforced(p, meets).is_active \/ p.is_active
<1> DEFINE floor == Judge(p, "BELOW_STAKE_FLOOR", ~meets)
           issue == JudgeIssue(floor)
<1>1. GoodRow(floor) /\ Kept(floor, p) /\ floor.is_active = p.is_active
  BY JudgeGood, JudgeKeeps DEF Rules
<1>2. /\ GoodRow(issue) /\ issue.is_active = floor.is_active
      /\ issue = floor \/ SLA \in issue.flags
  <2> HIDE DEF floor
  <2> QED BY <1>1, JudgeIssueGood
<1>3. Enforced(p, meets) = Withdrawn(issue)
  BY DEF Enforced
<1> HIDE DEF floor, issue
<1>4. /\ GoodRow(Withdrawn(issue))
      /\ Withdrawn(issue).flags = issue.flags
      /\ Withdrawn(issue).clock = issue.clock
      /\ Withdrawn(issue).is_active = (issue.is_active /\ ~(issue.flags # {} /\ issue.clock = Window))
  BY <1>2 DEF Withdrawn, GoodRow, ProducerRow
<1>5. SLA \in Withdrawn(issue).flags \/ Kept(Withdrawn(issue), p)
  BY <1>1, <1>2, <1>4 DEF Kept
<1> QED BY <1>1, <1>2, <1>3, <1>4, <1>5

(* Closing an issue.                                                       *)
LEMMA ClosedGood ==
    ASSUME NEW p, GoodRow(p)
    PROVE  /\ GoodRow(Clear([p EXCEPT !.issue = None], SLA))
           /\ Kept(Clear([p EXCEPT !.issue = None], SLA), p)
           /\ Clear([p EXCEPT !.issue = None], SLA).is_active = p.is_active
<1> DEFINE closed == [p EXCEPT !.issue = None]
<1>1. GoodRow(closed) /\ closed.flags = p.flags /\ closed.clock = p.clock
      /\ closed.is_active = p.is_active
  BY DEF GoodRow, ProducerRow, None
<1>2. Clear(closed, SLA) = Judge(closed, SLA, FALSE)
  BY DEF Judge
<1> HIDE DEF closed
<1>3. GoodRow(Judge(closed, SLA, FALSE)) /\ Kept(Judge(closed, SLA, FALSE), closed)
      /\ Judge(closed, SLA, FALSE).is_active = closed.is_active
  BY <1>1, JudgeGood, JudgeKeeps DEF Rules
<1>4. Kept(Judge(closed, SLA, FALSE), p)
  BY <1>1, <1>3 DEF Kept
<1> QED BY <1>1, <1>2, <1>3, <1>4 DEF closed

-----------------------------------------------------------------------------
(* The inductive invariant: types, the clock, and the age of the clock     *)
(* against the history.                                                    *)
HistoryOK(p, age, late) ==
    /\ (p.flags = {}) <=> (age = None)
    /\ p.flags # {} => p.clock <= age \/ late

Inductive ==
    /\ TypeOK
    /\ ClockRunsInProbation
    /\ \A bp \in BPs : HistoryOK(producers[bp], spell[bp], breached[bp])

(* A row that is not wound back keeps up with the history recorded for it. *)
LEMMA HistoryKept ==
    ASSUME NEW p, GoodRow(p), NEW q, GoodRow(q), NEW age \in Ages \cup {None},
           NEW late \in BOOLEAN, HistoryOK(p, age, late),
           SLA \in q.flags \/ Kept(q, p)
    PROVE  LET age1 == IF q.flags = {} THEN None ELSE IF age = None THEN 0 ELSE age
               late1 == q.flags # {} /\ (late \/ SLA \in q.flags)
           IN  age1 \in Ages \cup {None} /\ late1 \in BOOLEAN /\ HistoryOK(q, age1, late1)
BY ComplianceAssumption DEF HistoryOK, GoodRow, ProducerRow, Kept, Ages, None

(* The rows of an inductive state are good.                                *)
LEMMA RowsGood ==
    ASSUME TypeOK, ClockRunsInProbation, NEW bp \in BPs
    PROVE  GoodRow(producers[bp])
BY DEF TypeOK, ClockRunsInProbation, GoodRow

(* Steps that rewrite rows without winding a clock back.                   *)
LEMMA RewriteKeeps ==
    ASSUME Inductive, Recorded,
           NEW new, producers' = [bp \in BPs |-> new[bp]],
           \A bp \in BPs : /\ GoodRow(new[bp])
                           /\ SLA \in new[bp].flags \/ Kept(new[bp], producers[bp])
    PROVE  /\ producers' \in [BPs -> ProducerRow]
           /\ spell' \in [BPs -> Ages \cup {None}]
           /\ breached' \in [BPs -> BOOLEAN]
           /\ ClockRunsInProbation'
           /\ \A bp \in BPs : HistoryOK(producers'[bp], spell'[bp], breached'[bp])
<1>1. ASSUME NEW bp \in BPs
      PROVE  /\ spell'[bp] \in Ages \cup {None} /\ breached'[bp] \in BOOLEAN
             /\ HistoryOK(producers'[bp], spell'[bp], breached'[bp])
  <2>1. GoodRow(producers[bp])
    BY RowsGood DEF Inductive
  <2>2. spell[bp] \in Ages \cup {None} /\ breached[bp] \in BOOLEAN
        /\ HistoryOK(producers[bp], spell[bp], breached[bp])
    BY DEF Inductive, TypeOK
  <2>3. producers'[bp] = new[bp]
    OBVIOUS
  <2>4. GoodRow(new[bp]) /\ (SLA \in new[bp].flags \/ Kept(new[bp], producers[bp]))
    OBVIOUS
  <2> QED BY <2>1, <2>2, <2>3, <2>4, HistoryKept DEF Recorded
<1>2. producers' \in [BPs -> ProducerRow] /\ ClockRunsInProbation'
  BY DEF GoodRow, ClockRunsInProbation
<1>3. spell' \in [BPs -> Ages \cup {None}]
  BY <1>1 DEF Recorded
<1>4. breached' \in [BPs -> BOOLEAN]
  BY <1>1 DEF Recorded
<1> QED BY <1>1, <1>2, <1>3, <1>4

(* Steps that leave flags, clocks and history alone.                       *)
LEMMA FrameKeeps ==
    ASSUME Inductive, UNCHANGED historyVars,
           producers' \in [BPs -> ProducerRow],
           \A bp \in BPs : /\ producers'[bp].flags = producers[bp].flags
                           /\ producers'[bp].clock = producers[bp].clock
    PROVE  /\ spell' \in [BPs -> Ages \cup {None}]
           /\ breached' \in [BPs -> BOOLEAN]
           /\ ClockRunsInProbation'
           /\ \A bp \in BPs : HistoryOK(producers'[bp], spell'[bp], breached'[bp])
BY DEF Inductive, TypeOK, historyVars, ClockRunsInProbation, HistoryOK

(* The bonus rows stay typed under what the actions do to them.            *)
LEMMA VestTyped ==
    ASSUME NEW status \in {"none", "vesting", "forfeited"}
    PROVE  /\ Forfeited(status) \in {"none", "forfeited"}
           /\ Credited(status) \in {"vesting", "forfeited"}
BY DEF Forfeited, Credited

-----------------------------------------------------------------------------
LEMMA InductiveInit == Init => Inductive
<1> USE ComplianceAssumption
<1> SUFFICES ASSUME Init PROVE Inductive
  OBVIOUS
<1>1. NoProducer \in ProducerRow /\ NoProducer.flags = {} /\ NoProducer.clock = None
  BY DEF NoProducer, ProducerRow, Rules, Ages, None
<1> QED BY <1>1 DEF Init, Inductive, TypeOK, ClockRunsInProbation, HistoryOK, Ages

LEMMA InductiveNext == Inductive /\ [Next]_vars => Inductive'
<1> SUFFICES ASSUME Inductive, [Next]_vars PROVE Inductive'
  OBVIOUS
<1> USE ComplianceAssumption
<1>0. TypeOK /\ ClockRunsInProbation
  BY DEF Inductive
<1>00. bpvest \in [BPs -> {"none", "vesting", "forfeited"}] /\ meets_floor \in [BPs -> BOOLEAN]
       /\ producers \in [BPs -> ProducerRow]
  BY <1>0 DEF TypeOK
<1>1. CASE Tick
  <2>1. ASSUME NEW bp \in BPs
        PROVE  /\ producers'[bp] \in ProducerRow
               /\ spell'[bp] \in Ages \cup {None}
               /\ (producers'[bp].clock = None) <=> (producers'[bp].flags = {})
               /\ HistoryOK(producers'[bp], spell'[bp], breached'[bp])
    <3>1. GoodRow(producers[bp])
      BY <1>0, RowsGood
    <3>2. spell[bp] \in Ages \cup {None} /\ HistoryOK(producers[bp], spell[bp], breached[bp])
      BY DEF Inductive, TypeOK
    <3>3. \A age \in Ages \cup {None} :
             /\ Older(age) \in Ages \cup {None}
             /\ Older(age) = None <=> age = None
      BY DEF Older, Ages, None
    <3>4. \A a \in Ages, b \in Ages : a <= b => Older(a) <= Older(b)
      BY DEF Older, Ages, None
    <3>5. producers'[bp] = [producers[bp] EXCEPT !.clock = Older(@), !.issue = Older(@)]
          /\ spell'[bp] = Older(spell[bp]) /\ breached'[bp] = breached[bp]
      BY <1>1 DEF Tick
    <3>6. producers'[bp] \in ProducerRow
          /\ producers'[bp].clock = Older(producers[bp].clock)
          /\ producers'[bp].flags = producers[bp].flags
      BY <3>1, <3>3, <3>5 DEF GoodRow, ProducerRow
    <3>7. (producers'[bp].clock = None) <=> (producers'[bp].flags = {})
      BY <3>1, <3>3, <3>6 DEF GoodRow, ProducerRow
    <3>8. HistoryOK(producers'[bp], spell'[bp], breached'[bp])
      BY <3>1, <3>2, <3>3, <3>4, <3>5, <3>6 DEF HistoryOK, GoodRow, ProducerRow
    <3> QED BY <3>2, <3>3, <3>5, <3>6, <3>7, <3>8
  <2>2. producers' \in [BPs -> ProducerRow] /\ spell' \in [BPs -> Ages \cup {None}]
    BY <2>1, <1>1 DEF Tick
  <2> QED BY <1>1, <2>1, <2>2 DEF Tick, Inductive, TypeOK, ClockRunsInProbation
<1>2. CASE Enforce
  <2> DEFINE new == [bp \in BPs |->
          IF producers[bp].registered THEN Enforced(producers[bp], meets_floor[bp])
          ELSE producers[bp]]
  <2>1. ASSUME NEW bp \in BPs
        PROVE  GoodRow(new[bp]) /\ (SLA \in new[bp].flags \/ Kept(new[bp], producers[bp]))
    <3>1. GoodRow(producers[bp]) /\ meets_floor[bp] \in BOOLEAN
      BY <1>0, <1>00, RowsGood
    <3>2. Kept(producers[bp], producers[bp])
      BY DEF Kept
    <3> QED BY <3>1, <3>2, EnforcedGood
  <2>2. producers' = [bp \in BPs |-> new[bp]] /\ Recorded
    BY <1>2 DEF Enforce
  <2> HIDE DEF new
  <2>3. /\ producers' \in [BPs -> ProducerRow]
        /\ spell' \in [BPs -> Ages \cup {None}]
        /\ breached' \in [BPs -> BOOLEAN]
        /\ ClockRunsInProbation'
        /\ \A bp \in BPs : HistoryOK(producers'[bp], spell'[bp], breached'[bp])
    BY <2>1, <2>2, RewriteKeeps
  <2>4. bpvest' \in [BPs -> {"none", "vesting", "forfeited"}]
    BY <1>2, <1>00, VestTyped DEF Enforce
  <2> QED BY <1>2, <1>00, <2>3, <2>4 DEF Enforce, Inductive, TypeOK
<1>3. ASSUME NEW bp \in BPs, StakeMoves(bp)
      PROVE  Inductive'
  BY <1>00, <1>3, FrameKeeps DEF StakeMoves, Inductive, TypeOK
<1>4. ASSUME NEW bp \in BPs, RegProducer(bp)
      PROVE  Inductive'
  <2>1. producers' \in [BPs -> ProducerRow]
        /\ \A b \in BPs : /\ producers'[b].flags = producers[b].flags
                          /\ producers'[b].clock = producers[b].clock
    BY <1>00, <1>4 DEF RegProducer, ProducerRow
  <2> QED BY <1>00, <1>4, <2>1, FrameKeeps DEF RegProducer, Inductive, TypeOK
<1>5. ASSUME NEW bp \in BPs, UnregProd(bp)
      PROVE  Inductive'
  <2>1. producers' \in [BPs -> ProducerRow]
        /\ \A b \in BPs : /\ producers'[b].flags = producers[b].flags
                          /\ producers'[b].clock = producers[b].clock
    BY <1>00, <1>5 DEF UnregProd, ProducerRow
  <2>2. bpvest' \in [BPs -> {"none", "vesting", "forfeited"}]
    BY <1>00, <1>5, VestTyped DEF UnregProd
  <2> QED BY <1>00, <1>5, <2>1, <2>2, FrameKeeps DEF UnregProd, Inductive, TypeOK
<1>6. ASSUME NEW bp \in BPs, OpenIssue(bp)
      PROVE  Inductive'
  <2>1. producers' \in [BPs -> ProducerRow]
        /\ \A b \in BPs : /\ producers'[b].flags = producers[b].flags
                          /\ producers'[b].clock = producers[b].clock
    BY <1>00, <1>6 DEF OpenIssue, ProducerRow, Ages
  <2> QED BY <1>00, <1>6, <2>1, FrameKeeps DEF OpenIssue, Inductive, TypeOK
<1>7. ASSUME NEW bp \in BPs, CloseIssue(bp)
      PROVE  Inductive'
  <2> DEFINE closed == Clear([producers[bp] EXCEPT !.issue = None], SLA)
             new == [producers EXCEPT ![bp] = closed]
  <2>1. GoodRow(closed) /\ Kept(closed, producers[bp])
    BY <1>0, RowsGood, ClosedGood
  <2> HIDE DEF closed
  <2>2. ASSUME NEW b \in BPs
        PROVE  GoodRow(new[b]) /\ (SLA \in new[b].flags \/ Kept(new[b], producers[b]))
    BY <1>0, <1>00, <2>1, RowsGood DEF Kept
  <2>3. producers' = [b \in BPs |-> new[b]] /\ Recorded
    BY <1>00, <1>7 DEF CloseIssue, closed
  <2> HIDE DEF new
  <2>4. /\ producers' \in [BPs -> ProducerRow]
        /\ spell' \in [BPs -> Ages \cup {None}]
        /\ breached' \in [BPs -> BOOLEAN]
        /\ ClockRunsInProbation'
        /\ \A b \in BPs : HistoryOK(producers'[b], spell'[b], breached'[b])
    BY <2>2, <2>3, RewriteKeeps
  <2> QED BY <1>00, <1>7, <2>4 DEF CloseIssue, Inductive, TypeOK
<1>8. ASSUME NEW bp \in BPs, ClaimProd(bp)
      PROVE  Inductive'
  <2>1. bpvest' \in [BPs -> {"none", "vesting", "forfeited"}]
    BY <1>00, <1>8, VestTyped DEF ClaimProd
  <2> QED BY <1>00, <1>8, <2>1, FrameKeeps DEF ClaimProd, Inductive, TypeOK
<1>9. ASSUME NEW bp \in BPs, NEW failing \in Attestations, AttestCompl(bp, failing)
      PROVE  Inductive'
  <2> DEFINE judged == Attested(producers[bp], failing)
             new == [producers EXCEPT ![bp] = judged]
  <2>1. GoodRow(judged) /\ Kept(judged, producers[bp])
    BY <1>0, RowsGood, AttestedGood
  <2> HIDE DEF judged
  <2>2. ASSUME NEW b \in BPs
        PROVE  GoodRow(new[b]) /\ (SLA \in new[b].flags \/ Kept(new[b], producers[b]))
    BY <1>0, <1>00, <2>1, RowsGood DEF Kept
  <2>3. producers' = [b \in BPs |-> new[b]] /\ Recorded
    BY <1>00, <1>9 DEF AttestCompl, judged
  <2> HIDE DEF new
  <2>4. /\ producers' \in [BPs -> ProducerRow]
        /\ spell' \in [BPs -> Ages \cup {None}]
        /\ breached' \in [BPs -> BOOLEAN]
        /\ ClockRunsInProbation'
        /\ \A b \in BPs : HistoryOK(producers'[b], spell'[b], breached'[b])
    BY <2>2, <2>3, RewriteKeeps
  <2> QED BY <1>00, <1>9, <2>4 DEF AttestCompl, Inductive, TypeOK
<1>10. CASE UNCHANGED vars
  BY <1>00, <1>10, FrameKeeps DEF vars, historyVars, Inductive, TypeOK
<1> QED
  BY <1>1, <1>2, <1>3, <1>4, <1>5, <1>6, <1>7, <1>8, <1>9, <1>10 DEF Next, Act

LEMMA InductiveHolds == Spec => []Inductive
BY InductiveInit, InductiveNext, PTL DEF Spec

(* The tables of SikaCompliance stay typed.                                *)
THEOREM TypeCorrect == Spec => []TypeOK
<1>1. Inductive => TypeOK
  BY DEF Inductive
<1> QED BY <1>1, InductiveHolds, PTL

(* The probation clock runs exactly while some rule fails.                 *)
THEOREM ClockCorrect == Spec => []ClockRunsInProbation
<1>1. Inductive => ClockRunsInProbation
  BY DEF Inductive
<1> QED BY <1>1, InductiveHolds, PTL

(* Nobody but a candidate holds a bonus that still vests.                  *)
THEOREM VestCorrect == Spec => []WithdrawnHoldsNoVest
<1>1. Init => WithdrawnHoldsNoVest
  BY DEF Init, WithdrawnHoldsNoVest
<1>2. ASSUME Inductive, WithdrawnHoldsNoVest, [Next]_vars
      PROVE  WithdrawnHoldsNoVest'
  <2>0. producers \in [BPs -> ProducerRow] /\ bpvest \in [BPs -> {"none", "vesting", "forfeited"}]
        /\ meets_floor \in [BPs -> BOOLEAN] /\ TypeOK /\ ClockRunsInProbation
    BY <1>2 DEF Inductive, TypeOK
  <2>1. SUFFICES ASSUME NEW bp \in BPs, bpvest'[bp] = "vesting"
                 PROVE  producers'[bp].is_active
    BY DEF WithdrawnHoldsNoVest
  <2>2. GoodRow(producers[bp])
    BY <2>0, RowsGood
  <2>3. bpvest[bp] = "vesting" => producers[bp].is_active
    BY <1>2 DEF WithdrawnHoldsNoVest
  <2>4. CASE Tick
    BY <2>0, <2>1, <2>2, <2>3, <2>4 DEF Tick, GoodRow, ProducerRow
  <2>5. CASE Enforce
    <3>1. bpvest[bp] = "vesting" /\ ~(~producers'[bp].is_active /\ producers'[bp].flags # {})
      BY <2>0, <2>1, <2>5, VestTyped DEF Enforce
    <3>2. producers[bp].is_active
      BY <2>3, <3>1
    <3>3. CASE ~producers[bp].registered
      BY <2>5, <3>2, <3>3 DEF Enforce
    <3>4. CASE producers[bp].registered
      BY <2>0, <2>2, <2>5, <3>1, <3>2, <3>4, EnforcedGood DEF Enforce
    <3> QED BY <3>3, <3>4
  <2>6. ASSUME NEW b \in BPs, StakeMoves(b) PROVE producers'[bp].is_active
    BY <2>1, <2>3, <2>6 DEF StakeMoves
  <2>7. ASSUME NEW b \in BPs, RegProducer(b) PROVE producers'[bp].is_active
    BY <2>0, <2>1, <2>3, <2>7 DEF RegProducer, ProducerRow
  <2>8. ASSUME NEW b \in BPs, UnregProd(b) PROVE producers'[bp].is_active
    BY <2>0, <2>1, <2>3, <2>8, VestTyped DEF UnregProd
  <2>9. ASSUME NEW b \in BPs, OpenIssue(b) PROVE producers'[bp].is_active
    BY <2>0, <2>1, <2>3, <2>9 DEF OpenIssue, ProducerRow
  <2>10. ASSUME NEW b \in BPs, CloseIssue(b) PROVE producers'[bp].is_active
    BY <2>0, <2>1, <2>2, <2>3, <2>10, ClosedGood DEF CloseIssue
  <2>11. ASSUME NEW b \in BPs, ClaimProd(b) PROVE producers'[bp].is_active
    BY <2>0, <2>1, <2>3, <2>11, VestTyped DEF ClaimProd
  <2>12. ASSUME NEW b \in BPs, NEW failing \in Attestations, AttestCompl(b, failing)
         PROVE  producers'[bp].is_active
    BY <2>0, <2>1, <2>2, <2>3, <2>12, AttestedGood DEF AttestCompl
  <2>13. CASE UNCHANGED vars
    BY <2>1, <2>3, <2>13 DEF vars
  <2> QED
    BY <1>2, <2>4, <2>5, <2>6, <2>7, <2>8, <2>9, <2>10, <2>11, <2>12, <2>13 DEF Next, Act
<1> QED BY <1>1, <1>2, InductiveHolds, PTL DEF Spec

(* enforce withdraws a producer only after a full window of probation or   *)
(* after an overdue issue.                                                 *)
THEOREM RemovalIsEarned == Spec => RemovalEarned
<1>1. ASSUME Inductive, Inductive', [Next]_vars
      PROVE  [RemovalEarnedStep]_vars
  <2>1. SUFFICES ASSUME Enforce, NEW bp \in BPs, producers[bp].is_active, ~producers'[bp].is_active
                 PROVE  spell'[bp] = Window \/ breached'[bp]
    BY DEF RemovalEarnedStep
  <2>2. GoodRow(producers[bp]) /\ meets_floor[bp] \in BOOLEAN
    BY <1>1, RowsGood DEF Inductive, TypeOK
  <2>3. producers[bp].registered /\ producers'[bp] = Enforced(producers[bp], meets_floor[bp])
    BY <2>1 DEF Enforce
  <2>4. producers'[bp].flags # {} /\ producers'[bp].clock = Window
    BY <2>1, <2>2, <2>3, EnforcedGood
  <2>5. HistoryOK(producers'[bp], spell'[bp], breached'[bp]) /\ spell'[bp] \in Ages \cup {None}
    BY <1>1 DEF Inductive, TypeOK
  <2> QED BY <2>4, <2>5, ComplianceAssumption DEF HistoryOK, Ages, None
<1> QED BY <1>1, InductiveHolds, PTL DEF Spec, RemovalEarned
=============================================================================
