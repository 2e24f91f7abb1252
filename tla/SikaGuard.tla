------------------------------ MODULE SikaGuard ------------------------------
(***************************************************************************)
(* The sika.guard contract: the council of Network Guardians.  Its two     *)
(* halves meet in the seats.  A playoff of three rounds seats a new        *)
(* council each term; proposals of anybody are approved by the Guardians   *)
(* and dispatched as deferred transactions with the contract's authority.  *)
(*                                                                         *)
(* Deadlines are kept as the time that is left until them, so time needs   *)
(* no bound.  Of the rounds only the latest is ever read (rbegin), and of  *)
(* a vote row's round_id only whether it is the latest round's.            *)
(***************************************************************************)
EXTENDS Integers, FiniteSets

CONSTANTS
    Accounts,     \* Guardians, candidates and voters
    Seats,        \* guardian_seats (9)
    Threshold,    \* approval_threshold (6)
    RoundSize,    \* candidates of rounds 1, 2, 3 (27, 18, 9)
    RoundTime,    \* election_round_seconds (7 days)
    CycleTime,    \* election_cycle_seconds (91 days)
    Lifetimes,    \* expiries that proposers choose (up to 30 days)
    MaxId,        \* bound: proposal ids are 0..MaxId
    MaxTally      \* bound: votes a candidate's row holds

ASSUME GuardAssumption ==
    /\ IsFiniteSet(Accounts)
    /\ {Seats, Threshold, RoundTime, CycleTime, MaxTally} \subseteq Nat
    /\ Seats > 0 /\ MaxId \in Int
    /\ RoundSize \in [1..3 -> Nat]
    /\ Lifetimes \subseteq Nat \ {0}

VARIABLES
    council,      \* guardians singleton; no seats before the first election
    due_in,       \* time until next_election_starts
    round,        \* latest row of elecround; number 0 before the first
    ends_in,      \* time until that round's ends_at
    votes,        \* candvotes table
    proposals,    \* proposals table
    deferred,     \* ids of the deferred transactions sent and not yet run
    cast,         \* history: votes for each account in the latest round
    cycle_age,    \* history: age of the election cycle, up to three rounds
    backing,      \* history: who approved each proposal while holding a seat
    supporters    \* history: seated backers at the moment of execution

electionVars == <<council, due_in, round, ends_in, votes, cast, cycle_age>>
multisigVars == <<proposals, deferred, backing, supporters>>
vars == <<council, due_in, round, ends_in, votes, cast, cycle_age,
          proposals, deferred, backing, supporters>>

Ids == 0..MaxId
CouncilExists == council # {}
RoundOpen == round.number > 0 /\ ~round.finalized
NoVotes == [exists |-> FALSE, count |-> 0, of_round |-> FALSE]
NoProposal == [exists |-> FALSE, approvals |-> {}, executed |-> FALSE, expires_in |-> 0]

Less(t) == IF t > 0 THEN t - 1 ELSE 0
Smaller(a, b) == IF a < b THEN a ELSE b
Tally(c) == IF votes[c].exists THEN votes[c].count ELSE 0

(* available_primary_key: one more than the largest id in the table.       *)
IsAvailableKey(id) ==
    /\ \A other \in Ids : other >= id => ~proposals[other].exists
    /\ id > 0 => proposals[id - 1].exists

(* closeround sorts by weight and cuts; std::sort leaves the order of      *)
(* equal weights open, so any consistent cut is allowed.                   *)
IsTop(top, n) ==
    /\ top \subseteq round.candidates
    /\ Cardinality(top) = Smaller(n, Cardinality(round.candidates))
    /\ \A c \in top, other \in round.candidates \ top : Tally(c) >= Tally(other)

-----------------------------------------------------------------------------
Init ==
    /\ council = {} /\ due_in = 0
    /\ round = [number |-> 0, candidates |-> {}, finalized |-> FALSE] /\ ends_in = 0
    /\ votes = [a \in Accounts |-> NoVotes]
    /\ proposals = [id \in Ids |-> NoProposal]
    /\ deferred = {}
    /\ cast = [a \in Accounts |-> 0] /\ cycle_age = 0
    /\ backing = [id \in Ids |-> {}] /\ supporters = [id \in Ids |-> {}]

Tick ==
    /\ due_in > 0 \/ ends_in > 0 \/ \E id \in Ids : proposals[id].expires_in > 0
    /\ due_in' = Less(due_in)
    /\ ends_in' = Less(ends_in)
    /\ proposals' = [id \in Ids |-> [proposals[id] EXCEPT !.expires_in = Less(@)]]
    /\ cycle_age' = Smaller(cycle_age + 1, 3 * RoundTime)
    /\ UNCHANGED <<council, round, votes, deferred, cast, backing, supporters>>

-----------------------------------------------------------------------------
(* A new row opens the next round: votes so far were for other rounds.     *)
OpenRound(number, candidates, tallies) ==
    /\ round' = [number |-> number, candidates |-> candidates, finalized |-> FALSE]
    /\ ends_in' = RoundTime
    /\ votes' = tallies
    /\ cast' = [a \in Accounts |-> 0]

VotesOfPast == [a \in Accounts |-> [votes[a] EXCEPT !.of_round = FALSE]]

\* Mutant: startelec does not look at the date of the next election.
StartElecAnyTime ==
    /\ OpenRound(1, {}, VotesOfPast)
    /\ cycle_age' = 0
    /\ UNCHANGED <<council, due_in, multisigVars>>

(* startelec: it looks at the date only, so it also replaces a round that  *)
(* is under way by a new round 1.                                          *)
StartElec ==
    /\ CouncilExists => due_in = 0
    /\ OpenRound(1, {}, VotesOfPast)
    /\ cycle_age' = 0
    /\ UNCHANGED <<council, due_in, multisigVars>>

(* nominate: a row left from an earlier cycle is kept as it is.            *)
Nominate(c) ==
    /\ RoundOpen /\ round.number = 1 /\ ends_in > 0
    /\ Cardinality(round.candidates) < RoundSize[1]
    /\ c \notin round.candidates
    /\ round' = [round EXCEPT !.candidates = @ \cup {c}]
    /\ votes' = IF votes[c].exists THEN votes
                ELSE [votes EXCEPT ![c] = [exists |-> TRUE, count |-> 0, of_round |-> TRUE]]
    /\ UNCHANGED <<council, due_in, ends_in, cast, cycle_age, multisigVars>>

(* elecvote: every vote weighs the same; nothing records who voted.        *)
ElecVote(c) ==
    /\ RoundOpen /\ ends_in > 0
    /\ c \in round.candidates
    /\ votes[c].exists /\ votes[c].count < MaxTally
    /\ votes' = [votes EXCEPT ![c].count = @ + 1]
    /\ cast' = [cast EXCEPT ![c] = @ + 1]
    /\ UNCHANGED <<council, due_in, round, ends_in, cycle_age, multisigVars>>

\* Mutant: the tallies go on into the next round.
KeptTallies(top) ==
    [a \in Accounts |-> [votes[a] EXCEPT !.of_round = a \in top /\ votes[a].exists]]

ResetTallies(top) ==
    [a \in Accounts |-> IF a \in top /\ votes[a].exists
                        THEN [exists |-> TRUE, count |-> 0, of_round |-> TRUE]
                        ELSE [votes[a] EXCEPT !.of_round = FALSE]]

\* Mutant: rounds 1 and 2 can be closed before they end.
CloseRoundEarly(top) ==
    /\ RoundOpen /\ round.number < 3
    /\ IsTop(top, RoundSize[round.number + 1])
    /\ OpenRound(round.number + 1, top, ResetTallies(top))
    /\ UNCHANGED <<council, due_in, cycle_age, multisigVars>>

(* closeround of rounds 1 and 2.                                           *)
CloseRound(top) ==
    /\ RoundOpen /\ round.number < 3 /\ ends_in = 0
    /\ IsTop(top, RoundSize[round.number + 1])
    /\ OpenRound(round.number + 1, top, ResetTallies(top))
    /\ UNCHANGED <<council, due_in, cycle_age, multisigVars>>

\* Mutant: a council is seated even if there are fewer candidates than seats.
SwearInFewer(top) ==
    /\ RoundOpen /\ round.number = 3 /\ ends_in = 0
    /\ IsTop(top, Seats)
    /\ round' = [round EXCEPT !.finalized = TRUE]
    /\ council' = top
    /\ due_in' = CycleTime
    /\ UNCHANGED <<ends_in, votes, cast, cycle_age, multisigVars>>

(* closeround of round 3, with seat_guardians_for_next_term: with too few  *)
(* candidates it fails, and only startelec leads on.                       *)
SwearIn(top) ==
    /\ RoundOpen /\ round.number = 3 /\ ends_in = 0
    /\ IsTop(top, Seats) /\ Cardinality(top) = Seats
    /\ round' = [round EXCEPT !.finalized = TRUE]
    /\ council' = top
    /\ due_in' = CycleTime
    /\ UNCHANGED <<ends_in, votes, cast, cycle_age, multisigVars>>

-----------------------------------------------------------------------------
Propose(id, lifetime) ==
    /\ IsAvailableKey(id)
    /\ proposals' = [proposals EXCEPT ![id] =
          [exists |-> TRUE, approvals |-> {}, executed |-> FALSE, expires_in |-> lifetime]]
    /\ backing' = [backing EXCEPT ![id] = {}]
    /\ UNCHANGED <<electionVars, deferred, supporters>>

Open(id) == proposals[id].exists /\ ~proposals[id].executed
InTime(id) == proposals[id].expires_in > 0

Approve(g, id) ==
    /\ g \in council
    /\ Open(id) /\ InTime(id)
    /\ g \notin proposals[id].approvals
    /\ proposals' = [proposals EXCEPT ![id].approvals = @ \cup {g}]
    /\ backing' = [backing EXCEPT ![id] = @ \cup (council \cap {g})]
    /\ UNCHANGED <<electionVars, deferred, supporters>>

Unapprove(g, id) ==
    /\ Open(id)
    /\ proposals' = [proposals EXCEPT ![id].approvals = @ \ {g}]
    /\ backing' = [backing EXCEPT ![id] = @ \ {g}]
    /\ UNCHANGED <<electionVars, deferred, supporters>>

\* Mutant: approvals count although their Guardian has left office.
AllApprovals(id) == proposals[id].approvals

ValidApprovals(id) == proposals[id].approvals \cap council

(* exec: transaction::send rejects a sender id that is still pending.      *)
Exec(id) ==
    /\ Open(id) /\ InTime(id)
    /\ CouncilExists
    /\ Cardinality(ValidApprovals(id)) >= Threshold
    /\ id \notin deferred
    /\ deferred' = deferred \cup {id}
    /\ proposals' = [proposals EXCEPT ![id].executed = TRUE]
    /\ supporters' = [supporters EXCEPT ![id] = backing[id] \cap council]
    /\ UNCHANGED <<electionVars, backing>>

(* cancel: by the proposer at any time, by others after the expiry.        *)
Cancel(id) ==
    /\ Open(id)
    /\ proposals' = [proposals EXCEPT ![id] = NoProposal]
    /\ UNCHANGED <<electionVars, deferred, backing, supporters>>

(* The chain runs a deferred transaction some time later, or drops it.     *)
RunDeferred(id) ==
    /\ id \in deferred
    /\ deferred' = deferred \ {id}
    /\ UNCHANGED <<electionVars, proposals, backing, supporters>>

Next ==
    \/ Tick
    \/ StartElec
    \/ \E a \in Accounts : Nominate(a) \/ ElecVote(a)
    \/ \E top \in SUBSET Accounts : CloseRound(top) \/ SwearIn(top)
    \/ \E id \in Ids :
          \/ \E lifetime \in Lifetimes : Propose(id, lifetime)
          \/ \E g \in Accounts : Approve(g, id) \/ Unapprove(g, id)
          \/ Exec(id)
          \/ Cancel(id)
          \/ RunDeferred(id)

Spec == Init /\ [][Next]_vars

-----------------------------------------------------------------------------
(* Types of the tables, with a council of full size from the first one on. *)
TypeOK ==
    /\ council \in SUBSET Accounts /\ (CouncilExists => Cardinality(council) = Seats)
    /\ due_in \in 0..CycleTime /\ ends_in \in 0..RoundTime
    /\ round \in [number : 0..3, candidates : SUBSET Accounts, finalized : BOOLEAN]
    /\ votes \in [Accounts -> [exists : BOOLEAN, count : Nat, of_round : BOOLEAN]]
    /\ proposals \in [Ids -> [exists : BOOLEAN, approvals : SUBSET Accounts,
                              executed : BOOLEAN, expires_in : Nat]]
    /\ deferred \subseteq Ids
    /\ cast \in [Accounts -> Nat] /\ cycle_age \in 0..(3 * RoundTime)
    /\ backing \in [Ids -> SUBSET Accounts] /\ supporters \in [Ids -> SUBSET Accounts]

(* While a term runs no round is open: a playoff ends with the round that  *)
(* seats the council, and rounds that a new cycle replaced never return    *)
(* (startelec, closeround).  So a round that cannot be closed, for want of *)
(* candidates, can always be replaced.                                     *)
NoElectionInTerm == CouncilExists /\ RoundOpen => due_in = 0

(* A council is replaced only after a full term, by a playoff of three     *)
(* full rounds, whatever cycles were begun and abandoned before.           *)
TermsAreFull ==
    [][council' # council => due_in = 0 /\ cycle_age >= 3 * RoundTime]_vars

(* In rounds 2 and 3 every candidate's row holds this round's votes and    *)
(* no others (the reset at the end of closeround).                         *)
LaterRoundsCountAfresh ==
    RoundOpen /\ round.number > 1 =>
        \A c \in round.candidates : votes[c].of_round /\ votes[c].count = cast[c]

(* In every round a candidate's row holds this round's votes only, as      *)
(* nominate says of round 1: it seeds a row with zero weight.              *)
RoundsCountAfresh ==
    RoundOpen => \A c \in round.candidates : votes[c].count = cast[c]

(* Whatever was executed had enough different Guardians who held a seat    *)
(* both when they approved this proposal, not an earlier one of its id,    *)
(* and when it was executed (exec counts again over the current seats).    *)
ExecutedByQuorum ==
    \A id \in Ids : proposals[id].executed => Cardinality(supporters[id]) >= Threshold

(* A pending transaction belongs to the executed proposal of its sender    *)
(* id: executed rows stay, so their ids and sender ids are never reused.   *)
PendingWasExecuted == \A id \in deferred : proposals[id].executed
=============================================================================
