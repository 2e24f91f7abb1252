------------------------------ MODULE SikaRules ------------------------------
(***************************************************************************)
(* The sika.rules contract: protocol amendments of Article VIII.           *)
(* Producers approve an amendment; with enough approvals from the current  *)
(* top ranks it waits out a veto window in which sika.guard may stop it,   *)
(* after which anybody may dispatch its transaction as a deferred one.     *)
(*                                                                         *)
(* Every action of the contract is one transaction and hence atomic.  The  *)
(* producers table belongs to sika.system and changes between any two      *)
(* transactions; deferred transactions run, or fail, at any later time.    *)
(***************************************************************************)
EXTENDS Integers, Sequences, FiniteSets

CONSTANTS
    BPs,          \* accounts registered as producers
    TopCount,     \* bp_active_count (21)
    Threshold,    \* bp_approval_threshold (17)
    VetoWindow,   \* veto_window_seconds (7 days)
    Lifetime,     \* max_proposal_lifetime (30 days)
    Retention,    \* days(90) in gc
    MaxVotes,     \* bound: votes of a producer are 0..MaxVotes
    MaxId,        \* bound: amendment ids are 0..MaxId
    MaxSerial,    \* bound: number of proposals ever made
    MaxTime       \* bound: last instant

ASSUME RulesAssumption ==
    /\ IsFiniteSet(BPs)
    /\ {TopCount, Threshold, VetoWindow, Lifetime, Retention,
        MaxVotes, MaxId, MaxSerial, MaxTime} \subseteq Nat

VARIABLES
    now,          \* current_time_point()
    total_votes,  \* producers table, written by sika.system
    is_active,    \* producers table, written by sika.system
    amendments,   \* the amendments table
    deferred,     \* deferred transactions sent and not yet run
    serial,       \* history: proposals made so far; ids are reused, serials are not
    applied,      \* history: how often the transaction of each proposal took effect
    vetoed        \* history: serials of the vetoed amendments

producerVars == <<total_votes, is_active>>
historyVars == <<serial, applied, vetoed>>
vars == <<now, total_votes, is_active, amendments, deferred, serial, applied, vetoed>>

Ids == 0..MaxId
Serials == 1..MaxSerial
Statuses == {"PROPOSED", "APPROVED", "EXECUTED", "VETOED"}

Amendment ==
    [serial : Serials, has_actions : BOOLEAN, bp_approvals : Seq(BPs),
     status : Statuses, approved_at : Nat, executable_at : Nat, expires_at : Nat]

NoRow == [status |-> "NONE"]
Exists(id) == amendments[id].status # "NONE"
HasStatus(id, st) == amendments[id].status = st

Supporters(row) == {row.bp_approvals[i] : i \in DOMAIN row.bp_approvals}

-----------------------------------------------------------------------------
(* current_top21: the active producers with the most votes.  std::sort     *)
(* leaves the order of equal votes open, so any consistent cut is allowed. *)
Active == {bp \in BPs : is_active[bp]}

IsTop21(top) ==
    /\ top \subseteq Active
    /\ Cardinality(top) <= TopCount
    /\ top = Active \/ Cardinality(top) = TopCount
    /\ \A bp \in top, other \in Active \ top : total_votes[bp] >= total_votes[other]

(* count_valid_approvals: entries of the vector, not distinct producers.   *)
CountValidApprovals(approvals, top) ==
    Cardinality({i \in DOMAIN approvals : approvals[i] \in top})

(* erase(remove(...)): approve admits a producer once, so there is at most *)
(* one entry to take out.                                                  *)
Without(approvals, bp) ==
    IF \E i \in DOMAIN approvals : approvals[i] = bp
    THEN LET i == CHOOSE j \in DOMAIN approvals : approvals[j] = bp
         IN  SubSeq(approvals, 1, i - 1) \o SubSeq(approvals, i + 1, Len(approvals))
    ELSE approvals

(* available_primary_key: one more than the largest id in the table.       *)
IsAvailableKey(id) ==
    /\ \A other \in Ids : other >= id => ~Exists(other)
    /\ id > 0 => Exists(id - 1)

-----------------------------------------------------------------------------
Init ==
    /\ now = 0
    /\ total_votes = [bp \in BPs |-> 0]
    /\ is_active = [bp \in BPs |-> TRUE]
    /\ amendments = [id \in Ids |-> NoRow]
    /\ deferred = {}
    /\ serial = 0
    /\ applied = [s \in Serials |-> 0]
    /\ vetoed = {}

Tick ==
    /\ now < MaxTime
    /\ now' = now + 1
    /\ UNCHANGED <<producerVars, amendments, deferred, historyVars>>

(* Votes, registrations and enforcement move a producer's row.             *)
ProducersChange ==
    /\ \E bp \in BPs :
          /\ \E v \in 0..MaxVotes : total_votes' = [total_votes EXCEPT ![bp] = v]
          /\ \E a \in BOOLEAN : is_active' = [is_active EXCEPT ![bp] = a]
    /\ UNCHANGED <<now, amendments, deferred, historyVars>>

Propose(id, has_actions) ==
    /\ serial < MaxSerial
    /\ IsAvailableKey(id)
    /\ serial' = serial + 1
    /\ amendments' = [amendments EXCEPT ![id] =
          [serial |-> serial + 1, has_actions |-> has_actions, bp_approvals |-> <<>>,
           status |-> "PROPOSED", approved_at |-> 0, executable_at |-> 0,
           expires_at |-> now + Lifetime]]
    /\ UNCHANGED <<now, producerVars, deferred, applied, vetoed>>

Approve(bp, id) ==
    /\ Exists(id)
    /\ now < amendments[id].expires_at
    /\ HasStatus(id, "PROPOSED")
    /\ bp \notin Supporters(amendments[id])
    /\ \E top \in SUBSET BPs :
          /\ IsTop21(top)
          /\ bp \in top
          /\ LET approvals == Append(amendments[id].bp_approvals, bp)
             IN  amendments' = [amendments EXCEPT ![id] =
                    IF CountValidApprovals(approvals, top) >= Threshold
                    THEN [@ EXCEPT !.bp_approvals = approvals, !.status = "APPROVED",
                                   !.approved_at = now, !.executable_at = now + VetoWindow]
                    ELSE [@ EXCEPT !.bp_approvals = approvals]]
    /\ UNCHANGED <<now, producerVars, deferred, historyVars>>

\* Mutant: an approval can be withdrawn after the amendment was locked in.
UnapproveAnyTime(bp, id) ==
    /\ Exists(id)
    /\ amendments' = [amendments EXCEPT ![id].bp_approvals = Without(@, bp)]
    /\ UNCHANGED <<now, producerVars, deferred, historyVars>>

Unapprove(bp, id) ==
    /\ Exists(id)
    /\ HasStatus(id, "PROPOSED")
    /\ amendments' = [amendments EXCEPT ![id].bp_approvals = Without(@, bp)]
    /\ UNCHANGED <<now, producerVars, deferred, historyVars>>

(* veto: called by sika.guard, whose own deferred transaction may arrive   *)
(* at any time.                                                            *)
Veto(id) ==
    /\ Exists(id)
    /\ HasStatus(id, "APPROVED")
    /\ now < amendments[id].executable_at
    /\ amendments' = [amendments EXCEPT ![id].status = "VETOED"]
    /\ vetoed' = vetoed \cup {amendments[id].serial}
    /\ UNCHANGED <<now, producerVars, deferred, serial, applied>>

\* Mutant: execute does not wait for the veto window.
ExecutableEarly(id) == HasStatus(id, "APPROVED")

\* Mutant: execute looks at the clock only and overlooks the veto.
ExecutableVetoed(id) ==
    /\ amendments[id].status \in {"APPROVED", "VETOED"}
    /\ now >= amendments[id].executable_at

Executable(id) ==
    /\ HasStatus(id, "APPROVED")
    /\ now >= amendments[id].executable_at

\* Mutant: execute dispatches without recording that it did.
UnmarkedExecuted(id) == amendments

MarkedExecuted(id) == [amendments EXCEPT ![id].status = "EXECUTED"]

(* execute: transaction::send rejects a sender id that is still pending,   *)
(* which reverts the whole action.                                         *)
Execute(id) ==
    /\ Exists(id)
    /\ Executable(id)
    /\ \E top \in SUBSET BPs :
          /\ IsTop21(top)
          /\ CountValidApprovals(amendments[id].bp_approvals, top) >= Threshold
    /\ IF amendments[id].has_actions
       THEN /\ \A tx \in deferred : tx.sender_id # id
            /\ deferred' = deferred \cup {[sender_id |-> id, serial |-> amendments[id].serial]}
       ELSE UNCHANGED deferred
    /\ amendments' = MarkedExecuted(id)
    /\ UNCHANGED <<now, producerVars, historyVars>>

CanGc(id) ==
    \/ /\ amendments[id].status \in {"EXECUTED", "VETOED"}
       /\ now > amendments[id].approved_at + Retention
    \/ /\ HasStatus(id, "PROPOSED")
       /\ now > amendments[id].expires_at

\* Mutant: gc marks the row EXPIRED and leaves it in the table.
GcMarksExpired(id) ==
    /\ Exists(id)
    /\ CanGc(id)
    /\ amendments' = [amendments EXCEPT ![id].status = "EXPIRED"]
    /\ UNCHANGED <<now, producerVars, deferred, historyVars>>

Gc(id) ==
    /\ Exists(id)
    /\ CanGc(id)
    /\ amendments' = [amendments EXCEPT ![id] = NoRow]
    /\ UNCHANGED <<now, producerVars, deferred, historyVars>>

(* The chain runs a deferred transaction; it takes effect or fails.        *)
RunDeferred(tx) ==
    /\ deferred' = deferred \ {tx}
    /\ applied' \in {applied, [applied EXCEPT ![tx.serial] = @ + 1]}
    /\ UNCHANGED <<now, producerVars, amendments, serial, vetoed>>

Next ==
    \/ Tick
    \/ ProducersChange
    \/ \E id \in Ids :
          \/ \E has_actions \in BOOLEAN : Propose(id, has_actions)
          \/ \E bp \in BPs : Approve(bp, id) \/ Unapprove(bp, id)
          \/ Veto(id)
          \/ Execute(id)
          \/ Gc(id)
    \/ \E tx \in deferred : RunDeferred(tx)

Spec == Init /\ [][Next]_vars

-----------------------------------------------------------------------------
(* Types of the tables, of the deferred queue and of the history.          *)
TypeOK ==
    /\ now \in Nat
    /\ total_votes \in [BPs -> Nat]
    /\ is_active \in [BPs -> BOOLEAN]
    /\ amendments \in [Ids -> Amendment \cup {NoRow}]
    /\ deferred \subseteq [sender_id : Ids, serial : Serials]
    /\ serial \in 0..MaxSerial
    /\ applied \in [Serials -> Nat]
    /\ vetoed \subseteq Serials

(* An amendment that reached EXECUTED (sika.rules.cpp, execute) was        *)
(* approved before it expired, by at least the threshold of different      *)
(* producers, and the whole veto window lay between approval and execution.*)
ExecutionWasEarned ==
    \A id \in Ids : HasStatus(id, "EXECUTED") =>
       /\ Cardinality(Supporters(amendments[id])) >= Threshold
       /\ amendments[id].approved_at < amendments[id].expires_at
       /\ now >= amendments[id].approved_at + VetoWindow

(* The transaction of a vetoed amendment is never sent and never takes     *)
(* effect, also after the row is collected and its id is used again.       *)
VetoIsFinal ==
    /\ \A tx \in deferred : tx.serial \notin vetoed
    /\ \A s \in vetoed : applied[s] = 0

(* The transaction of an amendment runs at most once over the whole life   *)
(* of the chain: what is pending and what already took effect add up to    *)
(* one at most, whatever is executed, collected and proposed again.        *)
DispatchedAtMostOnce ==
    \A s \in Serials :
       applied[s] + Cardinality({tx \in deferred : tx.serial = s}) <= 1

-----------------------------------------------------------------------------
(* The life cycle the contract implements.                                 *)
PhaseOf(status) ==
    CASE status = "NONE" -> "absent"
      [] status = "PROPOSED" -> "open"
      [] status = "APPROVED" -> "window"
      [] status = "EXECUTED" -> "executed"
      [] status = "VETOED" -> "vetoed"

SupportOf(row) == IF row = NoRow THEN {} ELSE Supporters(row)
DeadlineOf(row) == IF row = NoRow THEN 0 ELSE row.executable_at

phases == [id \in Ids |-> PhaseOf(amendments[id].status)]
supports == [id \in Ids |-> SupportOf(amendments[id])]
deadlines == [id \in Ids |-> DeadlineOf(amendments[id])]

Quorums == {group \in SUBSET BPs : Cardinality(group) >= Threshold}

Lifecycle == INSTANCE AmendmentLifecycle
    WITH phase <- phases, support <- supports, deadline <- deadlines

(* Every run of the contract is a run of AmendmentLifecycle: a veto lands  *)
(* only inside the window, nothing but a veto or an execution after the    *)
(* window ends it, and decided amendments never change.                    *)
ImplementsLifecycle == Lifecycle!Spec
=============================================================================
