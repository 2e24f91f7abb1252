--------------------------- MODULE SikaCompliance ---------------------------
(***************************************************************************)
(* Article IV compliance of block producers, as sika.system enforces it:   *)
(* the rule violations of a producer, the probation clock they share, the  *)
(* open issue with its own clock, and what becomes of the producer's       *)
(* candidacy and of its vesting bonus.                                     *)
(*                                                                         *)
(* A recorded time point is only ever compared with one of two periods of  *)
(* equal length (sla_seconds = bp_probation_seconds), so it is kept as an  *)
(* age that stops growing at Window: no run is cut off by a last instant.  *)
(* The vesting row is kept as its status; its amounts belong to pay.       *)
(***************************************************************************)
EXTENDS Integers

CONSTANTS
    BPs,            \* accounts that may register as producers
    Window,         \* sla_seconds and bp_probation_seconds (both 7 days)
    Attestations,   \* bound: the violations that attestcompl may report
    Watched,        \* bound: producers the Guardians open issues against
    Leaving         \* bound: producers that unregister

AttestedRules == {"UPTIME_BELOW_FLOOR", "NO_PUBLIC_RPC", "MISSED_UPGRADE"}

ASSUME ComplianceAssumption ==
    /\ Window \in Nat \ {0}
    /\ Attestations \subseteq SUBSET AttestedRules

VARIABLES
    producers,      \* compliance columns of the producers table
    meets_floor,    \* whether the producer's own stake reaches bp_stake_floor
    bpvest,         \* status of the producer's bpvest row
    spell,          \* history: how long the producer has had some flag
    breached        \* history: an issue went overdue in that time

historyVars == <<spell, breached>>
vars == <<producers, meets_floor, bpvest, spell, breached>>

SLA == "ISSUE_SLA_BREACHED"
Rules == AttestedRules \cup {"BELOW_STAKE_FLOOR", SLA}

None == -1
Ages == 0..Window
Older(age) == IF age \in {None, Window} THEN age ELSE age + 1

ProducerRow ==
    [registered : BOOLEAN, is_active : BOOLEAN, flags : SUBSET Rules,
     clock : Ages \cup {None}, issue : Ages \cup {None}]

NoProducer ==
    [registered |-> FALSE, is_active |-> FALSE, flags |-> {}, clock |-> None, issue |-> None]

-----------------------------------------------------------------------------
(* flag_violation and clear_violation.                                     *)

\* Mutant: a rule that is already failing starts the clock again.
FlagRestarts(p, rule) == [p EXCEPT !.flags = @ \cup {rule}, !.clock = 0]

Flag(p, rule) ==
    IF rule \in p.flags THEN p
    ELSE [p EXCEPT !.flags = @ \cup {rule}, !.clock = IF @ = None THEN 0 ELSE @]

Clear(p, rule) ==
    IF rule \notin p.flags THEN p
    ELSE [p EXCEPT !.flags = @ \ {rule}, !.clock = IF p.flags = {rule} THEN None ELSE @]

Judge(p, rule, failing) == IF failing THEN Flag(p, rule) ELSE Clear(p, rule)

Attested(p, failing) ==
    LET uptime == Judge(p, "UPTIME_BELOW_FLOOR", "UPTIME_BELOW_FLOOR" \in failing)
        rpc == Judge(uptime, "NO_PUBLIC_RPC", "NO_PUBLIC_RPC" \in failing)
    IN  Judge(rpc, "MISSED_UPGRADE", "MISSED_UPGRADE" \in failing)

(* The body of enforce for one producer, in its order: the stake floor,    *)
(* the overdue issue, and withdrawal when probation has lasted.            *)
JudgeIssue(p) ==
    IF p.issue = Window
    THEN Flag([p EXCEPT !.clock = IF SLA \in p.flags THEN @ ELSE p.issue], SLA)
    ELSE p

\* Mutant: withdrawal does not look at the clock.
WithdrawnAtOnce(p) == [p EXCEPT !.is_active = @ /\ p.flags = {}]

Withdrawn(p) == [p EXCEPT !.is_active = @ /\ ~(p.flags # {} /\ p.clock = Window)]

Enforced(p, meets) == Withdrawn(JudgeIssue(Judge(p, "BELOW_STAKE_FLOOR", ~meets)))

\* Mutant: the row of a forfeited bonus gets a status of its own.
Burned(status) == IF status = "vesting" THEN "burned" ELSE status

(* forfeit_bp_vest: a forfeited row keeps that status for ever, also when  *)
(* credit_bp_vest adds to it later.                                        *)
Forfeited(status) == IF status = "vesting" THEN "forfeited" ELSE status
Credited(status) == IF status = "none" THEN "vesting" ELSE status

(* The history that goes with every change of the producers.               *)
Recorded ==
    /\ spell' = [bp \in BPs |->
          IF producers'[bp].flags = {} THEN None ELSE IF spell[bp] = None THEN 0 ELSE spell[bp]]
    /\ breached' = [bp \in BPs |->
          producers'[bp].flags # {} /\ (breached[bp] \/ SLA \in producers'[bp].flags)]

-----------------------------------------------------------------------------
Init ==
    /\ producers = [bp \in BPs |-> NoProducer]
    /\ meets_floor = [bp \in BPs |-> FALSE]
    /\ bpvest = [bp \in BPs |-> "none"]
    /\ spell = [bp \in BPs |-> None]
    /\ breached = [bp \in BPs |-> FALSE]

Tick ==
    /\ producers' = [bp \in BPs |->
          [producers[bp] EXCEPT !.clock = Older(@), !.issue = Older(@)]]
    /\ spell' = [bp \in BPs |-> Older(spell[bp])]
    /\ UNCHANGED <<meets_floor, bpvest, breached>>

(* Staking moves a producer across the floor.                              *)
StakeMoves(bp) ==
    /\ meets_floor' = [meets_floor EXCEPT ![bp] = ~@]
    /\ UNCHANGED <<producers, bpvest, historyVars>>

RegProducer(bp) ==
    /\ producers' = [producers EXCEPT ![bp].registered = TRUE, ![bp].is_active = TRUE]
    /\ UNCHANGED <<meets_floor, bpvest, historyVars>>

\* Mutant: a withdrawal keeps the unreleased bonus.
UnregProdKeepsVest(bp) ==
    /\ producers[bp].registered
    /\ producers' = [producers EXCEPT ![bp].is_active = FALSE]
    /\ UNCHANGED <<meets_floor, bpvest, historyVars>>

UnregProd(bp) ==
    /\ producers[bp].registered
    /\ bpvest' = [bpvest EXCEPT ![bp] = Forfeited(@)]
    /\ producers' = [producers EXCEPT ![bp].is_active = FALSE]
    /\ UNCHANGED <<meets_floor, historyVars>>

AttestCompl(bp, failing) ==
    /\ producers[bp].registered
    /\ producers' = [producers EXCEPT ![bp] = Attested(@, failing)]
    /\ Recorded
    /\ UNCHANGED <<meets_floor, bpvest>>

\* Mutant: an issue may be opened while one is open.
ReopenIssue(bp) ==
    /\ producers[bp].registered
    /\ producers' = [producers EXCEPT ![bp].issue = 0]
    /\ UNCHANGED <<meets_floor, bpvest, historyVars>>

OpenIssue(bp) ==
    /\ producers[bp].registered
    /\ producers[bp].issue = None
    /\ producers' = [producers EXCEPT ![bp].issue = 0]
    /\ UNCHANGED <<meets_floor, bpvest, historyVars>>

CloseIssue(bp) ==
    /\ producers[bp].registered
    /\ producers[bp].issue # None
    /\ producers' = [producers EXCEPT ![bp] = Clear([@ EXCEPT !.issue = None], SLA)]
    /\ Recorded
    /\ UNCHANGED <<meets_floor, bpvest>>

(* claimprod, as far as it reaches the bonus: in probation the claim       *)
(* forfeits it, otherwise the claim may credit some.                       *)
ClaimProd(bp) ==
    /\ producers[bp].registered
    /\ producers[bp].is_active
    /\ IF producers[bp].flags # {}
       THEN bpvest' = [bpvest EXCEPT ![bp] = Forfeited(@)]
       ELSE bpvest' \in {bpvest, [bpvest EXCEPT ![bp] = Credited(@)]}
    /\ UNCHANGED <<producers, meets_floor, historyVars>>

(* enforce: one pass over all producers; the rows do not depend on each    *)
(* other.  The votes it removes are in SikaElection.                       *)
Enforce ==
    /\ producers' = [bp \in BPs |->
          IF producers[bp].registered THEN Enforced(producers[bp], meets_floor[bp])
          ELSE producers[bp]]
    /\ bpvest' = [bp \in BPs |->
          IF ~producers'[bp].is_active /\ producers'[bp].flags # {}
          THEN Forfeited(bpvest[bp]) ELSE bpvest[bp]]
    /\ Recorded
    /\ UNCHANGED meets_floor

(* What a producer, or a Guardian with respect to it, may do.              *)
Act(bp) ==
    \/ RegProducer(bp)
    \/ bp \in Leaving /\ UnregProd(bp)
    \/ \E failing \in Attestations : AttestCompl(bp, failing)
    \/ bp \in Watched /\ OpenIssue(bp)
    \/ CloseIssue(bp)
    \/ ClaimProd(bp)

Next ==
    \/ Tick
    \/ Enforce
    \/ \E bp \in BPs : StakeMoves(bp) \/ Act(bp)

Spec == Init /\ [][Next]_vars

(* Time passes, and enforce "should be called regularly (hourly) by a cron *)
(* account" (enforcement.cpp:147); it needs no authority and cannot fail.  *)
FairSpec == Spec /\ WF_vars(Tick) /\ WF_vars(Enforce)

-----------------------------------------------------------------------------
(* Types of the tables and of the history.                                 *)
TypeOK ==
    /\ producers \in [BPs -> ProducerRow]
    /\ meets_floor \in [BPs -> BOOLEAN]
    /\ bpvest \in [BPs -> {"none", "vesting", "forfeited"}]
    /\ spell \in [BPs -> Ages \cup {None}]
    /\ breached \in [BPs -> BOOLEAN]

(* The probation clock that flag_violation, clear_violation, enforce and   *)
(* closeissue write runs exactly while some rule fails.                    *)
ClockRunsInProbation ==
    \A bp \in BPs : (producers[bp].clock = None) <=> (producers[bp].flags = {})

(* Whichever way a producer stopped being a candidate (unregprod, enforce) *)
(* and whatever it did in between, it holds no bonus that still vests.     *)
WithdrawnHoldsNoVest ==
    \A bp \in BPs : bpvest[bp] = "vesting" => producers[bp].is_active

(* enforce withdraws a producer only after the full window in which some   *)
(* rule failed all the time, or when in that time an issue went overdue.   *)
RemovalEarnedStep ==
    Enforce => \A bp \in BPs :
       (producers[bp].is_active /\ ~producers'[bp].is_active)
       => spell'[bp] = Window \/ breached'[bp]

RemovalEarned == [][RemovalEarnedStep]_vars

(* A producer that fails one rule for good does not stay a candidate,      *)
(* however often it attests, claims or registers again: the sweeps         *)
(* withdraw it again and again.  (It takes one and the same rule: when a   *)
(* single attestation clears the only failing rule and then flags a later  *)
(* one, the clock starts afresh between the two.)                          *)
PersistentFailureIsWithdrawn ==
    \A bp \in BPs, rule \in Rules :
       <>[](rule \in producers[bp].flags) => []<>(~producers[bp].is_active)

(* An issue that the Guardians never close ends as a recorded breach.      *)
OverdueIssueIsRecorded ==
    \A bp \in BPs :
       <>[](producers[bp].issue # None) => <>[](SLA \in producers[bp].flags)
=============================================================================
