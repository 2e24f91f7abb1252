----------------------------- MODULE SikaIssue -----------------------------
(***************************************************************************)
(* The registry of stablecoin issuers, sika.issue (sika.issue.cpp), with   *)
(* the token contract that it mints and burns through (SikaToken).         *)
(*                                                                         *)
(* An inline action is part of its handler: when the token refuses, the    *)
(* whole transaction does.  The issuer acts for its own row, the Guardians *)
(* by sika.guard.  Time points are ages in ticks, which stop growing when  *)
(* they are past every limit; a row never audited has such an age.         *)
(***************************************************************************)
EXTENDS SikaToken

CONSTANTS
    Auditors,
    MonthlyAttest,  \* monthly_attest_seconds, in ticks
    AnnualAudit,    \* annual_audit_seconds, in ticks
    Tokens,         \* bound: symbols that sika.token ever creates
    MaxSupplies,    \* bound: maximum supplies that tokens are created with
    Reserves,       \* bound: reserves that are reported
    Quantities      \* bound: amounts that are minted, burned and transferred

VARIABLE issuers    \* the issuers table

vars == <<stats, accounts, issuers>>

ASSUME IssueAssumption ==
    /\ TokenAssumption /\ "eosio" \in Holders /\ Tokens \subseteq Symbols
    /\ {MonthlyAttest, AnnualAudit} \subseteq Nat
    /\ MaxSupplies \subseteq Nat /\ Reserves \subseteq Nat /\ Quantities \subseteq Nat

OldestAttest == MonthlyAttest + 1
OldestAudit == AnnualAudit + 1

NoIssuer == [status |-> "NONE", circulating_supply |-> 0, reserves_attested |-> 0,
             attested |-> 0, audited |-> OldestAudit, auditors |-> {}]

Exists(s) == issuers[s].status # "NONE"

Init == TokenInit /\ issuers = [s \in Symbols |-> NoIssuer]

Older(age, oldest) == IF age < oldest THEN age + 1 ELSE age

Tick ==
    /\ issuers' = [s \in Symbols |->
          IF Exists(s) THEN [issuers[s] EXCEPT !.attested = Older(@, OldestAttest),
                                               !.audited = Older(@, OldestAudit)]
          ELSE issuers[s]]
    /\ UNCHANGED <<stats, accounts>>

-----------------------------------------------------------------------------
(* A row is never erased: one application per symbol for ever.             *)
ApplyIssuer(s, reserves) ==
    /\ ~Exists(s) /\ reserves > 0
    /\ issuers' = [issuers EXCEPT ![s] =
          [NoIssuer EXCEPT !.status = "APPLIED", !.reserves_attested = reserves]]
    /\ UNCHANGED <<stats, accounts>>

(* Only the first audit moves the row on.                                  *)
AttestAudit(auditor, s) ==
    /\ issuers[s].status \in {"APPLIED", "LIVE"} /\ auditor \in issuers[s].auditors
    /\ issuers' = [issuers EXCEPT ![s].audited = 0,
                                  ![s].status = IF @ = "APPLIED" THEN "AUDITED" ELSE @]
    /\ UNCHANGED <<stats, accounts>>

(* A change of status, from one of the given ones.                         *)
Move(s, from, to) ==
    /\ issuers[s].status \in from
    /\ issuers' = [issuers EXCEPT ![s].status = to]
    /\ UNCHANGED <<stats, accounts>>

(* approve: the token itself is not created here.                          *)
Approve(s) == Move(s, {"AUDITED"}, "LIVE")

SuspIssuer(s) == Move(s, {"LIVE"}, "PAUSED")

\* Mutant: a revoked issuer may be resumed.
ResumesRevoked(s) == Move(s, {"PAUSED", "REVOKED"}, "LIVE")

ResumIssuer(s) == Move(s, {"PAUSED"}, "LIVE")

RevkIssuer(s) == Move(s, {"APPLIED", "AUDITED", "LIVE", "PAUSED"}, "REVOKED")

(* attreserves, in any status: less may be reported than circulates.       *)
AttReserves(s, reserves) ==
    /\ Exists(s)
    /\ issuers' = [issuers EXCEPT ![s].reserves_attested = reserves, ![s].attested = 0]
    /\ UNCHANGED <<stats, accounts>>

(* addauditor puts the auditor on the list of the rows there are.          *)
AddAuditor(auditor) ==
    /\ issuers' = [s \in Symbols |->
          IF Exists(s) THEN [issuers[s] EXCEPT !.auditors = @ \cup {auditor}] ELSE issuers[s]]
    /\ UNCHANGED <<stats, accounts>>

Stale(row) == row.attested > MonthlyAttest \/ row.audited > AnnualAudit

\* Mutant: only the monthly report is looked at.
MonthlyOnly == {s \in Symbols : issuers[s].status = "LIVE" /\ issuers[s].attested > MonthlyAttest}

Failing == {s \in Symbols : issuers[s].status = "LIVE" /\ Stale(issuers[s])}

CheckStale ==
    /\ issuers' = [s \in Symbols |->
          IF s \in Failing THEN [issuers[s] EXCEPT !.status = "PAUSED"] ELSE issuers[s]]
    /\ UNCHANGED <<stats, accounts>>

\* Mutant: minting looks at the status alone, as checkstale will see to the rest.
LiveCanMint(row) == row.status = "LIVE"

(* issuer_can_mint.                                                        *)
CanMint(row) == row.status = "LIVE" /\ ~Stale(row)

Mint(s, to, quantity) ==
    /\ CanMint(issuers[s])
    /\ issuers[s].circulating_supply + quantity <= issuers[s].reserves_attested
    /\ issuers' = [issuers EXCEPT ![s].circulating_supply = @ + quantity]
    /\ Issue(s, to, quantity, "sika.issue")

\* Mutant: the registry keeps its count.
BurnUncounted(s, quantity) == Exists(s) /\ UNCHANGED issuers /\ Retire(s, quantity, "sika.issue")

(* burn, of what holders have sent to sika.issue.                          *)
Burn(s, quantity) ==
    LET left == issuers[s].circulating_supply - quantity
    IN  /\ Exists(s)
        /\ issuers' = [issuers EXCEPT ![s].circulating_supply = IF left < 0 THEN 0 ELSE left]
        /\ Retire(s, quantity, "sika.issue")

-----------------------------------------------------------------------------
(* The token's other callers.  eosio issues and retires a symbol of its    *)
(* own; sika.issue has no other way to its authority than mint and burn.   *)
TokenActions ==
    /\ UNCHANGED issuers
    /\ \E s \in Tokens :
          \/ \E issuer \in {"eosio", "sika.issue"}, n \in MaxSupplies : Create(s, issuer, n)
          \/ \E quantity \in Quantities :
                \/ \E to \in Holders : Issue(s, to, quantity, "eosio")
                \/ Retire(s, quantity, "eosio")
                \/ \E from, to \in Holders : Transfer(s, from, to, quantity)
          \/ \E owner \in Holders : Open(s, owner) \/ Close(s, owner)

Next ==
    \/ Tick \/ CheckStale \/ TokenActions
    \/ \E auditor \in Auditors : AddAuditor(auditor)
    \/ \E s \in Symbols :
          \/ Approve(s) \/ SuspIssuer(s) \/ ResumIssuer(s) \/ RevkIssuer(s)
          \/ \E reserves \in Reserves : ApplyIssuer(s, reserves) \/ AttReserves(s, reserves)
          \/ \E auditor \in Auditors : AttestAudit(auditor, s)
          \/ \E quantity \in Quantities :
                \/ \E to \in Holders : Mint(s, to, quantity)
                \/ Burn(s, quantity)

(* Somebody calls checkstale from time to time, as a cron job off chain.   *)
Fairness == WF_vars(CheckStale)

Spec == Init /\ [][Next]_vars /\ Fairness

-----------------------------------------------------------------------------
Statuses == {"NONE", "APPLIED", "AUDITED", "LIVE", "PAUSED", "REVOKED"}

TypeOK ==
    /\ TokenTypeOK
    /\ issuers \in [Symbols ->
          [status : Statuses, circulating_supply : Nat, reserves_attested : Nat,
           attested : 0..OldestAttest, audited : 0..OldestAudit, auditors : SUBSET Auditors]]

(* What there is of each symbol that is the registry's to mint.            *)
Issued == [s \in Symbols |-> IF stats[s].issuer = "sika.issue" THEN stats[s].supply ELSE 0]

(* The two contracts agree: what the registry counts as circulating is the *)
(* supply of the token, which is what holders have; for a token that is    *)
(* not the registry's to mint it counts nothing.                           *)
SupplyAddsUp ==
    /\ LedgerAddsUp
    /\ \A s \in Symbols : issuers[s].circulating_supply = Issued[s]

(* A token of the registry is minted only within the reserves last         *)
(* reported, by a report of this month and under an audit of this year.    *)
MintsAreBacked ==
    [][\A s \in Symbols : Issued'[s] > Issued[s] =>
          /\ Issued'[s] <= issuers[s].reserves_attested
          /\ issuers[s].attested <= MonthlyAttest /\ issuers[s].audited <= AnnualAudit]_vars

StatusOf == [s \in Symbols |-> issuers[s].status]

Lifecycle == INSTANCE IssuerLifecycle WITH status <- StatusOf, supply <- Issued

(* Every run of the two contracts is a run of IssuerLifecycle: tokens come *)
(* into being only under a LIVE issuer, by way of an audit and the         *)
(* Guardians, and a revocation is final.                                   *)
ImplementsLifecycle == Lifecycle!Spec

(* A LIVE issuer does not stay behind with its duties: it catches up, or   *)
(* checkstale pauses it.                                                   *)
StaleIsPaused ==
    \A s \in Symbols :
       issuers[s].status = "LIVE" /\ Stale(issuers[s])
          ~> ~(issuers[s].status = "LIVE" /\ Stale(issuers[s]))
=============================================================================
