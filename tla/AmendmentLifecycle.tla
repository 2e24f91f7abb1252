------------------------- MODULE AmendmentLifecycle -------------------------
(***************************************************************************)
(* What sika.rules promises to the rest of the chain, without the table    *)
(* layout, the ranking of producers or the deferred transaction:           *)
(* an amendment slot is empty, open for approvals, in its veto window, or  *)
(* decided; a slot enters the window only with enough supporters, stays    *)
(* in it untouched until the Guardians veto it in time or the window has   *)
(* passed, and a decision is never revised.                                *)
(***************************************************************************)
EXTENDS Integers

CONSTANTS
    Ids,         \* amendment slots
    BPs,         \* accounts that may support an amendment
    Quorums,     \* sets of supporters that are enough
    VetoWindow   \* length of the Guardians' window

VARIABLES
    now,         \* block time
    phase,       \* phase of each slot
    support,     \* supporters of each slot
    deadline     \* end of the veto window of a slot that has one, else 0

vars == <<now, phase, support, deadline>>

Phases == {"absent", "open", "window", "executed", "vetoed"}

TypeOK ==
    /\ now \in Nat
    /\ phase \in [Ids -> Phases]
    /\ support \in [Ids -> SUBSET BPs]
    /\ deadline \in [Ids -> Nat]

Init ==
    /\ now = 0
    /\ phase = [id \in Ids |-> "absent"]
    /\ support = [id \in Ids |-> {}]
    /\ deadline = [id \in Ids |-> 0]

PassTime ==
    /\ now' > now
    /\ now' \in Nat
    /\ UNCHANGED <<phase, support, deadline>>

Open(id) ==
    /\ phase[id] = "absent"
    /\ phase' = [phase EXCEPT ![id] = "open"]
    /\ UNCHANGED <<now, support, deadline>>

(* One supporter is added or withdrawn while the slot is open.             *)
ChangeSupport(id) ==
    /\ phase[id] = "open"
    /\ \E bp \in BPs : support' \in
          { [support EXCEPT ![id] = @ \cup {bp}], [support EXCEPT ![id] = @ \ {bp}] }
    /\ UNCHANGED <<now, phase, deadline>>

(* The last supporter needed arms the window.                              *)
ArmWindow(id) ==
    /\ phase[id] = "open"
    /\ \E bp \in BPs : support' = [support EXCEPT ![id] = @ \cup {bp}]
    /\ support'[id] \in Quorums
    /\ phase' = [phase EXCEPT ![id] = "window"]
    /\ deadline' = [deadline EXCEPT ![id] = now + VetoWindow]
    /\ UNCHANGED now

Veto(id) ==
    /\ phase[id] = "window"
    /\ now < deadline[id]
    /\ phase' = [phase EXCEPT ![id] = "vetoed"]
    /\ UNCHANGED <<now, support, deadline>>

Execute(id) ==
    /\ phase[id] = "window"
    /\ now >= deadline[id]
    /\ phase' = [phase EXCEPT ![id] = "executed"]
    /\ UNCHANGED <<now, support, deadline>>

(* A slot that is not in its window may be cleared.                        *)
Forget(id) ==
    /\ phase[id] \in {"open", "executed", "vetoed"}
    /\ phase' = [phase EXCEPT ![id] = "absent"]
    /\ support' = [support EXCEPT ![id] = {}]
    /\ deadline' = [deadline EXCEPT ![id] = 0]
    /\ UNCHANGED now

Next ==
    \/ PassTime
    \/ \E id \in Ids :
          \/ Open(id) \/ ChangeSupport(id) \/ ArmWindow(id)
          \/ Veto(id) \/ Execute(id) \/ Forget(id)

Spec == Init /\ [][Next]_vars
=============================================================================
