-------------------------- MODULE IssuerLifecycle --------------------------
(***************************************************************************)
(* What sika.issue promises about a registered issuer: the way to LIVE is  *)
(* by an audit and the Guardians, only a LIVE issuer mints, whoever fails  *)
(* its duties is paused until the Guardians resume it, and a revocation is *)
(* final.                                                                  *)
(***************************************************************************)
EXTENDS Integers

CONSTANT Symbols

VARIABLES
    status,         \* where each symbol's issuer is
    supply          \* how much of each symbol there is

Statuses == {"NONE", "APPLIED", "AUDITED", "LIVE", "PAUSED", "REVOKED"}

Init == status = [s \in Symbols |-> "NONE"] /\ supply = [s \in Symbols |-> 0]

Move(s, from, to) ==
    /\ status[s] \in from /\ status' = [status EXCEPT ![s] = to]
    /\ UNCHANGED supply

Apply(s) == Move(s, {"NONE"}, "APPLIED")
Audit(s) == Move(s, {"APPLIED"}, "AUDITED")
Approve(s) == Move(s, {"AUDITED"}, "LIVE")
Resume(s) == Move(s, {"PAUSED"}, "LIVE")
Revoke(s) == Move(s, Statuses \ {"NONE", "REVOKED"}, "REVOKED")

(* Several issuers may be paused at once.                                  *)
Pause(failing) ==
    /\ \A s \in failing : status[s] = "LIVE"
    /\ status' = [s \in Symbols |-> IF s \in failing THEN "PAUSED" ELSE status[s]]
    /\ UNCHANGED supply

Mint(s) ==
    /\ status[s] = "LIVE"
    /\ supply'[s] > supply[s] /\ supply' = [supply EXCEPT ![s] = supply'[s]]
    /\ UNCHANGED status

(* Redemption is possible whatever became of the issuer.                   *)
Burn(s) ==
    /\ status[s] # "NONE"
    /\ supply'[s] < supply[s] /\ supply' = [supply EXCEPT ![s] = supply'[s]]
    /\ UNCHANGED status

Next ==
    \/ \E s \in Symbols : \/ Apply(s) \/ Audit(s) \/ Approve(s) \/ Resume(s) \/ Revoke(s)
                          \/ Mint(s) \/ Burn(s)
    \/ \E failing \in SUBSET Symbols : Pause(failing)

Spec == Init /\ [][Next]_<<status, supply>>
=============================================================================
