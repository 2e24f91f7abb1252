--------------------------- MODULE SikaGuardProofs ---------------------------
(***************************************************************************)
(* Proofs about SikaGuard for any accounts, seats, thresholds and times.   *)
(* The inductive invariant adds to the checked invariants how old a cycle  *)
(* must be in each round, that candidates have vote rows, and that the     *)
(* approvals of a proposal are those given by seated Guardians.            *)
(***************************************************************************)
EXTENDS SikaGuard, FiniteSetTheorems, TLAPS

(* The cycle began when its round 1 did, and rounds end only by closeround.*)
CycleIsOldEnough ==
    RoundOpen =>
        /\ round.number = 1 => cycle_age + ends_in >= RoundTime
        /\ round.number = 2 => cycle_age + ends_in >= 2 * RoundTime
        /\ round.number = 3 => cycle_age + ends_in >= 3 * RoundTime

(* A term is running only once a council has been seated.                  *)
TermNeedsCouncil == due_in = 0 \/ CouncilExists

CandidatesHaveRows == \A c \in round.candidates : votes[c].exists

ApprovalsAreBacked ==
    \A id \in Ids : proposals[id].exists => proposals[id].approvals = backing[id]

ExecutedExist == \A id \in Ids : proposals[id].executed => proposals[id].exists

ElectionInv ==
    /\ council \in SUBSET Accounts /\ (CouncilExists => Cardinality(council) = Seats)
    /\ due_in \in 0..CycleTime /\ ends_in \in 0..RoundTime
    /\ round \in [number : 0..3, candidates : SUBSET Accounts, finalized : BOOLEAN]
    /\ votes \in [Accounts -> [exists : BOOLEAN, count : Nat, of_round : BOOLEAN]]
    /\ cast \in [Accounts -> Nat] /\ cycle_age \in 0..(3 * RoundTime)
    /\ NoElectionInTerm
    /\ LaterRoundsCountAfresh
    /\ CycleIsOldEnough
    /\ CandidatesHaveRows
    /\ TermNeedsCouncil

MultisigInv ==
    /\ proposals \in [Ids -> [exists : BOOLEAN, approvals : SUBSET Accounts,
                              executed : BOOLEAN, expires_in : Nat]]
    /\ deferred \subseteq Ids
    /\ backing \in [Ids -> SUBSET Accounts] /\ supporters \in [Ids -> SUBSET Accounts]
    /\ ExecutedByQuorum
    /\ PendingWasExecuted
    /\ ApprovalsAreBacked
    /\ ExecutedExist

Inductive == ElectionInv /\ MultisigInv

-----------------------------------------------------------------------------
LEMMA Constants ==
    /\ Seats \in Nat /\ Seats > 0 /\ Threshold \in Nat
    /\ RoundTime \in Nat /\ CycleTime \in Nat /\ 3 * RoundTime \in Nat
    /\ MaxTally \in Nat /\ MaxId \in Int /\ Lifetimes \subseteq Nat
    /\ IsFiniteSet(Accounts)
BY GuardAssumption

LEMMA LessType == \A t \in Nat : Less(t) \in Nat /\ Less(t) <= t /\ t <= Less(t) + 1
BY DEF Less

LEMMA InitInductive == Init => Inductive
<1> SUFFICES ASSUME Init PROVE Inductive OBVIOUS
<1>1. ElectionInv
  BY Constants DEF Init, ElectionInv, CouncilExists, NoVotes, NoElectionInTerm,
     LaterRoundsCountAfresh, CycleIsOldEnough, CandidatesHaveRows, TermNeedsCouncil, RoundOpen
<1>2. MultisigInv
  BY DEF Init, MultisigInv, NoProposal, ExecutedByQuorum, PendingWasExecuted,
     ApprovalsAreBacked, ExecutedExist
<1> QED BY <1>1, <1>2 DEF Inductive

-----------------------------------------------------------------------------
(* The two halves: each keeps its invariant while the other one moves.     *)
LEMMA ElectionKept == ElectionInv /\ UNCHANGED electionVars => ElectionInv'
BY DEF ElectionInv, electionVars, CouncilExists, NoElectionInTerm,
   LaterRoundsCountAfresh, CycleIsOldEnough, CandidatesHaveRows, TermNeedsCouncil, RoundOpen

LEMMA MultisigKept == MultisigInv /\ UNCHANGED multisigVars => MultisigInv'
BY DEF MultisigInv, multisigVars, ExecutedByQuorum, PendingWasExecuted,
   ApprovalsAreBacked, ExecutedExist

(* A new latest round with candidates that have rows, tallies reset to     *)
(* zero from round 2 on, and a cycle that is old enough.                   *)
LEMMA RoundOpened ==
    ASSUME ElectionInv, NEW number \in 1..3, NEW candidates \in SUBSET Accounts,
           NEW tallies \in [Accounts -> [exists : BOOLEAN, count : Nat, of_round : BOOLEAN]],
           OpenRound(number, candidates, tallies),
           UNCHANGED <<council, due_in>>,
           CouncilExists => due_in = 0,
           \A c \in candidates : tallies[c].exists,
           number > 1 => \A c \in candidates : tallies[c].of_round /\ tallies[c].count = 0,
           cycle_age' \in 0..(3 * RoundTime),
           number = 2 => cycle_age' >= RoundTime,
           number = 3 => cycle_age' >= 2 * RoundTime
    PROVE  ElectionInv'
<1>1. /\ round' = [number |-> number, candidates |-> candidates, finalized |-> FALSE]
      /\ ends_in' = RoundTime /\ votes' = tallies /\ cast' = [a \in Accounts |-> 0]
  BY DEF OpenRound
<1>2. round' \in [number : 0..3, candidates : SUBSET Accounts, finalized : BOOLEAN]
  BY <1>1
<1>3. ends_in' \in 0..RoundTime /\ cast' \in [Accounts -> Nat]
  BY <1>1, Constants
<1>4. LaterRoundsCountAfresh'
  BY <1>1 DEF LaterRoundsCountAfresh, RoundOpen
<1>5. CycleIsOldEnough'
  <2> DEFINE age == cycle_age'
  <2>1. /\ number = 1 => age + RoundTime >= RoundTime
        /\ number = 2 => age + RoundTime >= 2 * RoundTime
        /\ number = 3 => age + RoundTime >= 3 * RoundTime
    <3>1. age \in 0..(3 * RoundTime) /\ (number = 2 => age >= RoundTime)
          /\ (number = 3 => age >= 2 * RoundTime)
      OBVIOUS
    <3> HIDE DEF age
    <3> QED BY <3>1, Constants
  <2> QED BY <1>1, <2>1 DEF CycleIsOldEnough, RoundOpen
<1>6. CandidatesHaveRows' /\ NoElectionInTerm'
  BY <1>1 DEF CandidatesHaveRows, NoElectionInTerm, CouncilExists, RoundOpen
<1> QED BY <1>1, <1>2, <1>3, <1>4, <1>5, <1>6 DEF ElectionInv, CouncilExists, TermNeedsCouncil

LEMMA PastType ==
    ASSUME ElectionInv
    PROVE  /\ VotesOfPast \in [Accounts -> [exists : BOOLEAN, count : Nat, of_round : BOOLEAN]]
           /\ \A top \in SUBSET Accounts :
                 /\ ResetTallies(top)
                       \in [Accounts -> [exists : BOOLEAN, count : Nat, of_round : BOOLEAN]]
                 /\ top \subseteq round.candidates =>
                       \A c \in top : /\ ResetTallies(top)[c].exists
                                      /\ ResetTallies(top)[c].of_round
                                      /\ ResetTallies(top)[c].count = 0
BY DEF ElectionInv, VotesOfPast, ResetTallies, CandidatesHaveRows

LEMMA TickKeeps == Inductive /\ Tick => Inductive'
<1> SUFFICES ASSUME Inductive, Tick PROVE Inductive' OBVIOUS
<1> USE DEF Inductive
<1>1. /\ due_in' = Less(due_in) /\ ends_in' = Less(ends_in)
      /\ cycle_age' = Smaller(cycle_age + 1, 3 * RoundTime)
      /\ proposals' = [id \in Ids |-> [proposals[id] EXCEPT !.expires_in = Less(@)]]
      /\ UNCHANGED <<council, round, votes, deferred, cast, backing, supporters>>
  BY DEF Tick
<1>2. /\ due_in \in 0..CycleTime /\ ends_in \in 0..RoundTime /\ cycle_age \in 0..(3 * RoundTime)
  BY DEF ElectionInv
<1>3. /\ due_in' \in 0..CycleTime /\ ends_in' \in 0..RoundTime
      /\ (due_in = 0 => due_in' = 0) /\ ends_in' + 1 >= ends_in
  BY <1>1, <1>2, Constants DEF Less
<1>4. /\ cycle_age' \in 0..(3 * RoundTime)
      /\ cycle_age' = cycle_age + 1 \/ cycle_age' = 3 * RoundTime
  BY <1>1, <1>2, Constants DEF Smaller
<1>5. ElectionInv'
  <2>1. CycleIsOldEnough'
    <3> DEFINE s == cycle_age
               t == cycle_age'
               e == ends_in
               f == ends_in'
    <3>1. /\ s \in 0..(3 * RoundTime) /\ t \in 0..(3 * RoundTime)
          /\ e \in 0..RoundTime /\ f \in 0..RoundTime
      BY <1>2, <1>3, <1>4
    <3>3. f + 1 >= e /\ (t = s + 1 \/ t = 3 * RoundTime)
      BY <1>3, <1>4
    <3>2. /\ s + e >= RoundTime => t + f >= RoundTime
          /\ s + e >= 2 * RoundTime => t + f >= 2 * RoundTime
          /\ s + e >= 3 * RoundTime => t + f >= 3 * RoundTime
      <4> HIDE DEF s, t, e, f
      <4> QED BY <3>1, <3>3, Constants
    <3> QED BY <1>1, <3>2 DEF ElectionInv, CycleIsOldEnough, RoundOpen
  <2>2. NoElectionInTerm' /\ LaterRoundsCountAfresh' /\ CandidatesHaveRows'
    BY <1>1, <1>3 DEF ElectionInv, NoElectionInTerm, LaterRoundsCountAfresh,
       CandidatesHaveRows, CouncilExists, RoundOpen
  <2> QED BY <1>1, <1>3, <1>4, <2>1, <2>2 DEF ElectionInv, CouncilExists, TermNeedsCouncil
<1>6. MultisigInv'
  <2>1. /\ proposals' \in [Ids -> [exists : BOOLEAN, approvals : SUBSET Accounts,
                                   executed : BOOLEAN, expires_in : Nat]]
        /\ \A id \in Ids : /\ proposals'[id].exists = proposals[id].exists
                           /\ proposals'[id].executed = proposals[id].executed
                           /\ proposals'[id].approvals = proposals[id].approvals
    BY <1>1, LessType DEF MultisigInv
  <2>2. ExecutedByQuorum' /\ PendingWasExecuted'
    BY <1>1, <2>1 DEF MultisigInv, ExecutedByQuorum, PendingWasExecuted
  <2>3. ApprovalsAreBacked' /\ ExecutedExist'
    BY <1>1, <2>1 DEF MultisigInv, ApprovalsAreBacked, ExecutedExist
  <2> QED BY <1>1, <2>1, <2>2, <2>3 DEF MultisigInv
<1> QED BY <1>5, <1>6

-----------------------------------------------------------------------------
LEMMA StartElecKeeps == ElectionInv /\ StartElec => ElectionInv'
<1> SUFFICES ASSUME ElectionInv, StartElec PROVE ElectionInv' OBVIOUS
<1>1. /\ CouncilExists => due_in = 0
      /\ OpenRound(1, {}, VotesOfPast) /\ cycle_age' = 0
      /\ UNCHANGED <<council, due_in>>
  BY DEF StartElec
<1>2. cycle_age' \in 0..(3 * RoundTime) /\ {} \in SUBSET Accounts /\ 1 \in 1..3
  BY <1>1, Constants
<1> QED BY <1>1, <1>2, PastType, RoundOpened

LEMMA NominateKeeps ==
    ASSUME ElectionInv, NEW c \in Accounts, Nominate(c) PROVE ElectionInv'
<1>1. /\ round.number = 1 /\ round' = [round EXCEPT !.candidates = @ \cup {c}]
      /\ votes' = IF votes[c].exists THEN votes
                  ELSE [votes EXCEPT ![c] = [exists |-> TRUE, count |-> 0, of_round |-> TRUE]]
      /\ UNCHANGED <<council, due_in, ends_in, cast, cycle_age>>
  BY DEF Nominate
<1>2. round' \in [number : 0..3, candidates : SUBSET Accounts, finalized : BOOLEAN]
      /\ round'.number = 1 /\ round'.finalized = round.finalized
      /\ round'.candidates = round.candidates \cup {c}
  BY <1>1 DEF ElectionInv
<1>3. votes' \in [Accounts -> [exists : BOOLEAN, count : Nat, of_round : BOOLEAN]]
      /\ votes'[c].exists /\ \A d \in Accounts : votes[d].exists => votes'[d].exists
  BY <1>1 DEF ElectionInv
<1>4. CandidatesHaveRows'
  BY <1>2, <1>3 DEF ElectionInv, CandidatesHaveRows
<1>5. NoElectionInTerm' /\ LaterRoundsCountAfresh' /\ CycleIsOldEnough'
  BY <1>1, <1>2 DEF ElectionInv, NoElectionInTerm, LaterRoundsCountAfresh, CycleIsOldEnough,
     CouncilExists, RoundOpen
<1> QED BY <1>1, <1>2, <1>3, <1>4, <1>5 DEF ElectionInv, CouncilExists, TermNeedsCouncil

LEMMA ElecVoteKeeps ==
    ASSUME ElectionInv, NEW c \in Accounts, ElecVote(c) PROVE ElectionInv'
<1>1. /\ votes' = [votes EXCEPT ![c].count = @ + 1] /\ cast' = [cast EXCEPT ![c] = @ + 1]
      /\ UNCHANGED <<council, due_in, round, ends_in, cycle_age>>
  BY DEF ElecVote
<1>2. votes \in [Accounts -> [exists : BOOLEAN, count : Nat, of_round : BOOLEAN]]
      /\ cast \in [Accounts -> Nat] /\ round.candidates \subseteq Accounts
  BY DEF ElectionInv
<1>3. /\ votes' \in [Accounts -> [exists : BOOLEAN, count : Nat, of_round : BOOLEAN]]
      /\ cast' \in [Accounts -> Nat]
      /\ \A d \in Accounts : /\ votes'[d].exists = votes[d].exists
                             /\ votes'[d].of_round = votes[d].of_round
                             /\ votes[d].count = cast[d] => votes'[d].count = cast'[d]
  BY <1>1, <1>2
<1>4. LaterRoundsCountAfresh' /\ CandidatesHaveRows'
  BY <1>1, <1>2, <1>3 DEF ElectionInv, LaterRoundsCountAfresh, CandidatesHaveRows, RoundOpen
<1>5. NoElectionInTerm' /\ CycleIsOldEnough'
  BY <1>1 DEF ElectionInv, NoElectionInTerm, CycleIsOldEnough, CouncilExists, RoundOpen
<1> QED BY <1>1, <1>3, <1>4, <1>5 DEF ElectionInv, CouncilExists, TermNeedsCouncil

LEMMA CloseRoundKeeps ==
    ASSUME ElectionInv, NEW top \in SUBSET Accounts, CloseRound(top) PROVE ElectionInv'
<1>1. /\ RoundOpen /\ round.number < 3 /\ ends_in = 0 /\ top \subseteq round.candidates
      /\ OpenRound(round.number + 1, top, ResetTallies(top))
      /\ UNCHANGED <<council, due_in>> /\ cycle_age' = cycle_age
  BY DEF CloseRound, IsTop
<1>2. round.number \in 1..2 /\ round.number + 1 \in 1..3
  BY <1>1 DEF ElectionInv, RoundOpen
<1>3. cycle_age \in 0..(3 * RoundTime) /\ (CouncilExists => due_in = 0)
  BY <1>1 DEF ElectionInv, NoElectionInTerm
<1>4. /\ round.number = 1 => cycle_age >= RoundTime
      /\ round.number = 2 => cycle_age >= 2 * RoundTime
  BY <1>1, <1>3, Constants DEF ElectionInv, CycleIsOldEnough
<1>5. ResetTallies(top) \in [Accounts -> [exists : BOOLEAN, count : Nat, of_round : BOOLEAN]]
      /\ \A c \in top : /\ ResetTallies(top)[c].exists
                        /\ ResetTallies(top)[c].of_round /\ ResetTallies(top)[c].count = 0
  BY <1>1, PastType
<1> DEFINE n == round.number + 1
<1>6. n \in 1..3 /\ (n = 2 => cycle_age' >= RoundTime) /\ (n = 3 => cycle_age' >= 2 * RoundTime)
  BY <1>1, <1>2, <1>4
<1>7. OpenRound(n, top, ResetTallies(top)) BY <1>1
<1> HIDE DEF n
<1> QED BY <1>1, <1>3, <1>5, <1>6, <1>7, RoundOpened

LEMMA SwearInKeeps ==
    ASSUME ElectionInv, NEW top \in SUBSET Accounts, SwearIn(top) PROVE ElectionInv'
<1>1. /\ round' = [round EXCEPT !.finalized = TRUE] /\ council' = top
      /\ Cardinality(top) = Seats /\ due_in' = CycleTime
      /\ UNCHANGED <<ends_in, votes, cast, cycle_age>>
  BY DEF SwearIn
<1>2. round' \in [number : 0..3, candidates : SUBSET Accounts, finalized : BOOLEAN]
      /\ round'.finalized /\ round'.candidates = round.candidates
  BY <1>1 DEF ElectionInv
<1>3. due_in' \in 0..CycleTime /\ council' # {}
  BY <1>1, Constants, FS_EmptySet
<1>4. CandidatesHaveRows' /\ LaterRoundsCountAfresh' /\ CycleIsOldEnough' /\ NoElectionInTerm'
  BY <1>1, <1>2 DEF ElectionInv, CandidatesHaveRows, LaterRoundsCountAfresh,
     CycleIsOldEnough, NoElectionInTerm, RoundOpen
<1> QED BY <1>1, <1>2, <1>3, <1>4 DEF ElectionInv, CouncilExists, TermNeedsCouncil

-----------------------------------------------------------------------------
(* An id that propose hands out belongs to no row, so to no executed one.  *)
LEMMA ProposeKeeps ==
    ASSUME MultisigInv, NEW id \in Ids, NEW lifetime \in Lifetimes, Propose(id, lifetime)
    PROVE  MultisigInv'
<1>1. /\ ~proposals[id].exists
      /\ proposals' = [proposals EXCEPT ![id] =
            [exists |-> TRUE, approvals |-> {}, executed |-> FALSE, expires_in |-> lifetime]]
      /\ backing' = [backing EXCEPT ![id] = {}]
      /\ UNCHANGED <<deferred, supporters>>
  <2>1. id >= id BY DEF Ids
  <2> QED BY <2>1 DEF Propose, IsAvailableKey
<1>2. lifetime \in Nat BY Constants
<1>3. id \notin deferred /\ ~proposals[id].executed
  BY <1>1 DEF MultisigInv, PendingWasExecuted, ExecutedExist
<1> QED BY <1>1, <1>2, <1>3 DEF MultisigInv, ExecutedByQuorum, PendingWasExecuted,
           ApprovalsAreBacked, ExecutedExist

LEMMA ApproveKeeps ==
    ASSUME MultisigInv, NEW id \in Ids, NEW g \in Accounts, Approve(g, id)
    PROVE  MultisigInv'
<1>1. /\ g \in council /\ proposals[id].exists
      /\ proposals' = [proposals EXCEPT ![id].approvals = @ \cup {g}]
      /\ backing' = [backing EXCEPT ![id] = @ \cup {g}]
      /\ UNCHANGED <<deferred, supporters>>
  BY DEF Approve, Open
<1> QED BY <1>1 DEF MultisigInv, ExecutedByQuorum, PendingWasExecuted,
           ApprovalsAreBacked, ExecutedExist

LEMMA UnapproveKeeps ==
    ASSUME MultisigInv, NEW id \in Ids, NEW g \in Accounts, Unapprove(g, id)
    PROVE  MultisigInv'
<1>1. /\ proposals' = [proposals EXCEPT ![id].approvals = @ \ {g}]
      /\ backing' = [backing EXCEPT ![id] = @ \ {g}]
      /\ UNCHANGED <<deferred, supporters>>
  BY DEF Unapprove
<1>2. /\ proposals' \in [Ids -> [exists : BOOLEAN, approvals : SUBSET Accounts,
                                 executed : BOOLEAN, expires_in : Nat]]
      /\ \A other \in Ids : /\ proposals'[other].exists = proposals[other].exists
                            /\ proposals'[other].executed = proposals[other].executed
  BY <1>1 DEF MultisigInv
<1>3. ExecutedByQuorum' /\ PendingWasExecuted' /\ ExecutedExist'
  BY <1>1, <1>2 DEF MultisigInv, ExecutedByQuorum, PendingWasExecuted, ExecutedExist
<1>4. ApprovalsAreBacked' /\ backing' \in [Ids -> SUBSET Accounts]
  BY <1>1, <1>2 DEF MultisigInv, ApprovalsAreBacked
<1> QED BY <1>1, <1>2, <1>3, <1>4 DEF MultisigInv

(* The approvals that exec counts are those of backers that hold a seat.   *)
LEMMA ExecKeeps ==
    ASSUME MultisigInv, NEW id \in Ids, Exec(id)
    PROVE  MultisigInv'
<1>1. /\ proposals[id].exists
      /\ Cardinality(proposals[id].approvals \cap council) >= Threshold
      /\ deferred' = deferred \cup {id}
      /\ proposals' = [proposals EXCEPT ![id].executed = TRUE]
      /\ supporters' = [supporters EXCEPT ![id] = backing[id] \cap council]
      /\ UNCHANGED backing
  BY DEF Exec, Open, ValidApprovals
<1>2. proposals[id].approvals = backing[id]
  BY <1>1 DEF MultisigInv, ApprovalsAreBacked
<1>3. supporters' \in [Ids -> SUBSET Accounts]
      /\ Cardinality(supporters'[id]) >= Threshold
      /\ \A other \in Ids \ {id} : supporters'[other] = supporters[other]
  BY <1>1, <1>2 DEF MultisigInv
<1>4. proposals' \in [Ids -> [exists : BOOLEAN, approvals : SUBSET Accounts,
                              executed : BOOLEAN, expires_in : Nat]]
      /\ \A other \in Ids : /\ proposals'[other].exists = proposals[other].exists
                            /\ proposals'[other].approvals = proposals[other].approvals
                            /\ proposals'[other].executed = (proposals[other].executed \/ other = id)
  BY <1>1 DEF MultisigInv
<1>5. ExecutedByQuorum' /\ PendingWasExecuted'
  BY <1>1, <1>3, <1>4 DEF MultisigInv, ExecutedByQuorum, PendingWasExecuted
<1>6. ApprovalsAreBacked' /\ ExecutedExist'
  BY <1>1, <1>4 DEF MultisigInv, ApprovalsAreBacked, ExecutedExist
<1> QED BY <1>1, <1>3, <1>4, <1>5, <1>6 DEF MultisigInv

LEMMA CancelKeeps ==
    ASSUME MultisigInv, NEW id \in Ids, Cancel(id)
    PROVE  MultisigInv'
<1>1. /\ ~proposals[id].executed
      /\ proposals' = [proposals EXCEPT ![id] = NoProposal]
      /\ UNCHANGED <<deferred, backing, supporters>>
  BY DEF Cancel, Open
<1>2. id \notin deferred
  BY <1>1 DEF MultisigInv, PendingWasExecuted
<1>3. /\ proposals' \in [Ids -> [exists : BOOLEAN, approvals : SUBSET Accounts,
                                 executed : BOOLEAN, expires_in : Nat]]
      /\ ~proposals'[id].exists /\ ~proposals'[id].executed
      /\ \A other \in Ids \ {id} : proposals'[other] = proposals[other]
  BY <1>1 DEF NoProposal, MultisigInv
<1>4. ExecutedByQuorum' /\ PendingWasExecuted'
  BY <1>1, <1>2, <1>3 DEF MultisigInv, ExecutedByQuorum, PendingWasExecuted
<1>5. ApprovalsAreBacked' /\ ExecutedExist'
  BY <1>1, <1>3 DEF MultisigInv, ApprovalsAreBacked, ExecutedExist
<1> QED BY <1>1, <1>3, <1>4, <1>5 DEF MultisigInv

LEMMA RunDeferredKeeps ==
    ASSUME MultisigInv, NEW id \in Ids, RunDeferred(id)
    PROVE  MultisigInv'
BY DEF RunDeferred, MultisigInv, ExecutedByQuorum, PendingWasExecuted,
   ApprovalsAreBacked, ExecutedExist

-----------------------------------------------------------------------------
LEMMA NextKeeps == Inductive /\ [Next]_vars => Inductive'
<1> SUFFICES ASSUME Inductive, [Next]_vars PROVE Inductive' OBVIOUS
<1>0. ElectionInv /\ MultisigInv BY DEF Inductive
<1>1. CASE Tick BY <1>1, TickKeeps
<1>2. CASE StartElec
  BY <1>0, <1>2, StartElecKeeps, MultisigKept DEF StartElec, Inductive
<1>3. ASSUME NEW a \in Accounts, Nominate(a) PROVE Inductive'
  BY <1>0, <1>3, NominateKeeps, MultisigKept DEF Nominate, Inductive
<1>4. ASSUME NEW a \in Accounts, ElecVote(a) PROVE Inductive'
  BY <1>0, <1>4, ElecVoteKeeps, MultisigKept DEF ElecVote, Inductive
<1>5. ASSUME NEW top \in SUBSET Accounts, CloseRound(top) PROVE Inductive'
  BY <1>0, <1>5, CloseRoundKeeps, MultisigKept DEF CloseRound, Inductive
<1>6. ASSUME NEW top \in SUBSET Accounts, SwearIn(top) PROVE Inductive'
  BY <1>0, <1>6, SwearInKeeps, MultisigKept DEF SwearIn, Inductive
<1>7. ASSUME NEW id \in Ids, NEW lifetime \in Lifetimes, Propose(id, lifetime) PROVE Inductive'
  BY <1>0, <1>7, ProposeKeeps, ElectionKept DEF Propose, Inductive
<1>8. ASSUME NEW id \in Ids, NEW g \in Accounts, Approve(g, id) PROVE Inductive'
  BY <1>0, <1>8, ApproveKeeps, ElectionKept DEF Approve, Inductive
<1>9. ASSUME NEW id \in Ids, NEW g \in Accounts, Unapprove(g, id) PROVE Inductive'
  BY <1>0, <1>9, UnapproveKeeps, ElectionKept DEF Unapprove, Inductive
<1>10. ASSUME NEW id \in Ids, Exec(id) PROVE Inductive'
  BY <1>0, <1>10, ExecKeeps, ElectionKept DEF Exec, Inductive
<1>11. ASSUME NEW id \in Ids, Cancel(id) PROVE Inductive'
  BY <1>0, <1>11, CancelKeeps, ElectionKept DEF Cancel, Inductive
<1>12. ASSUME NEW id \in Ids, RunDeferred(id) PROVE Inductive'
  BY <1>0, <1>12, RunDeferredKeeps, ElectionKept DEF RunDeferred, Inductive
<1>13. CASE UNCHANGED vars
  BY <1>0, <1>13, ElectionKept, MultisigKept DEF vars, electionVars, multisigVars, Inductive
<1> QED BY <1>1, <1>2, <1>3, <1>4, <1>5, <1>6, <1>7, <1>8, <1>9, <1>10, <1>11, <1>12, <1>13
        DEF Next

LEMMA InductiveHolds == Spec => []Inductive
BY InitInductive, NextKeeps, PTL DEF Spec

-----------------------------------------------------------------------------
(* Types hold, and from the first one on every council has all its seats.  *)
THEOREM TypeCorrect == Spec => []TypeOK
<1>1. Inductive => TypeOK BY DEF Inductive, ElectionInv, MultisigInv, TypeOK
<1> QED BY <1>1, InductiveHolds, PTL

(* No playoff is under way while a council's term runs.                    *)
THEOREM NoElectionDuringTerm == Spec => []NoElectionInTerm
<1>1. Inductive => NoElectionInTerm BY DEF Inductive, ElectionInv
<1> QED BY <1>1, InductiveHolds, PTL

(* Rounds 2 and 3 count their own votes only.                              *)
THEOREM LaterRoundsFresh == Spec => []LaterRoundsCountAfresh
<1>1. Inductive => LaterRoundsCountAfresh BY DEF Inductive, ElectionInv
<1> QED BY <1>1, InductiveHolds, PTL

(* Executed proposals had a quorum of Guardians that were seated twice: at *)
(* their approval and at the execution.                                    *)
THEOREM QuorumExecutes == Spec => []ExecutedByQuorum
<1>1. Inductive => ExecutedByQuorum BY DEF Inductive, MultisigInv
<1> QED BY <1>1, InductiveHolds, PTL

(* No sender id of a pending transaction is used for another proposal.     *)
THEOREM PendingBelongs == Spec => []PendingWasExecuted
<1>1. Inductive => PendingWasExecuted BY DEF Inductive, MultisigInv
<1> QED BY <1>1, InductiveHolds, PTL

(* A council changes only when its term is over, by the third of three     *)
(* full rounds of one cycle.                                               *)
THEOREM FullTerms == Spec => TermsAreFull
<1> DEFINE Full == council' # council => due_in = 0 /\ cycle_age >= 3 * RoundTime
<1>1. Inductive /\ [Next]_vars => [Full]_vars
  <2> SUFFICES ASSUME Inductive, Next, council' # council
               PROVE  due_in = 0 /\ cycle_age >= 3 * RoundTime
    BY DEF vars
  <2>1. PICK top \in SUBSET Accounts : SwearIn(top)
    BY DEF Next, Tick, StartElec, Nominate, ElecVote, CloseRound, Propose, Approve, Unapprove,
       Exec, Cancel, RunDeferred, electionVars
  <2>2. RoundOpen /\ round.number = 3 /\ ends_in = 0 BY <2>1 DEF SwearIn
  <2>3. cycle_age \in 0..(3 * RoundTime) /\ cycle_age + ends_in >= 3 * RoundTime
    BY <2>2 DEF Inductive, ElectionInv, CycleIsOldEnough
  <2>4. due_in = 0
    BY <2>2 DEF Inductive, ElectionInv, NoElectionInTerm, TermNeedsCouncil
  <2>5. cycle_age >= 3 * RoundTime BY <2>2, <2>3, Constants
  <2> QED BY <2>4, <2>5
<1> QED BY <1>1, InductiveHolds, PTL DEF Spec, TermsAreFull
=============================================================================
