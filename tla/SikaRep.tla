------------------------------- MODULE SikaRep ------------------------------
(***************************************************************************)
(* Representatives (sika.rep): registration, the boost they declare, and   *)
(* the cGHS that is deposited to pay it.  The declared rate is recorded    *)
(* and read by nobody; the slate, checked for its form only, is left out.  *)
(***************************************************************************)
EXTENDS Integers, FiniteSets

CONSTANTS
    Reps,           \* accounts that may register
    BoostCap,       \* rep_boost_cap_bps
    Boosts,         \* bound: rates that setboost is called with
    Deposits,       \* bound: amounts of a deposit
    MaxFunded       \* bound: cGHS deposited for a Representative

VARIABLES
    reps,           \* the reps table
    boostbal        \* the boostbal table

repVars == <<reps, boostbal>>

RepAssumption ==
    /\ IsFiniteSet(Reps) /\ {BoostCap, MaxFunded} \cup Boosts \subseteq Nat
    /\ Deposits \subseteq Nat \ {0}

NoRep == [status |-> "none", boost_apy_bps |-> 0]

RepInit ==
    /\ reps = [r \in Reps |-> NoRep]
    /\ boostbal = [r \in Reps |-> [cghs_funded |-> 0, cghs_paid |-> 0]]

RegRep(r) == reps' = [reps EXCEPT ![r].status = "active"] /\ UNCHANGED boostbal

UnregRep(r) ==
    /\ reps[r].status # "none"
    /\ reps' = [reps EXCEPT ![r].status = "inactive"]
    /\ UNCHANGED boostbal

SetBoost(r, bps) ==
    /\ bps <= BoostCap /\ reps[r].status = "active"
    /\ reps' = [reps EXCEPT ![r].boost_apy_bps = bps]
    /\ UNCHANGED boostbal

(* on_transfer: cGHS with a memo that names an active Representative.      *)
Fund(r, amount) ==
    /\ reps[r].status = "active"
    /\ boostbal[r].cghs_funded + amount <= MaxFunded
    /\ boostbal' = [boostbal EXCEPT ![r].cghs_funded = @ + amount]
    /\ UNCHANGED reps

Available(r) == boostbal[r].cghs_funded - boostbal[r].cghs_paid

\* Mutant: the payment is not noted.
PaidUnnoted(r) == reps[r].status = "active" /\ Available(r) > 0 /\ UNCHANGED repVars

(* payboost, for any delegator: everything there is, whatever the rate.    *)
AllPaid(r) ==
    /\ reps[r].status = "active" /\ Available(r) > 0
    /\ boostbal' = [boostbal EXCEPT ![r].cghs_paid = @ + Available(r)]
    /\ UNCHANGED reps

(* The cap on rates; never more paid out than was deposited.               *)
RepTypeOK ==
    /\ reps \in [Reps -> [status : {"none", "active", "inactive"}, boost_apy_bps : 0..BoostCap]]
    /\ boostbal \in [Reps -> [cghs_funded : 0..MaxFunded, cghs_paid : Nat]]
    /\ \A r \in Reps : Available(r) >= 0
=============================================================================
