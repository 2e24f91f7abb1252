-------------------------- MODULE SikaStableProofs -------------------------
(***************************************************************************)
(* Proofs about the stablecoin contracts, for any symbols, accounts,       *)
(* limits, rates and amounts: first the issuers (SikaIssue), then the      *)
(* treasury (SikaTreas).  Neither part uses the other.                     *)
(*                                                                         *)
(* Issuers.  A handler of the token changes the rows of one symbol and its *)
(* supply by the same amount.  That keeps the ledger; with the registry's  *)
(* own count it makes circulating_supply the supply of the token, so that  *)
(* the check that mint makes of its count is a check of the supply.        *)
(*                                                                         *)
(* Treasury.  A market's row balances in its own currency and was swept of *)
(* no more than its fees were worth at the best rate; the rows' net        *)
(* contributions add up to what was swept.  Fees, sweeps and subsidies     *)
(* write one or two rows and keep that, since converting an amount there   *)
(* and back never gains; everything else moves between the pools.          *)
(***************************************************************************)
EXTENDS SikaIssue, SikaTreas, SumProofs

-----------------------------------------------------------------------------
(* The rows of one symbol.                                                 *)
Rows == [Holders -> [open : BOOLEAN, balance : Nat]]
Good(rows) == rows \in Rows /\ \A a \in Holders : ~rows[a].open => rows[a].balance = 0
Held(rows) == SumFunctionOnSet([a \in Holders |-> rows[a].balance], Holders)

LEMMA HeldType == ASSUME NEW rows \in Rows PROVE Held(rows) \in Nat
<1> DEFINE f == [a \in Holders |-> rows[a].balance]
<1>1. \A a \in Holders : f[a] \in Nat BY DEF Rows
<1>2. IsFiniteSet(Holders) BY IssueAssumption DEF TokenAssumption
<1> HIDE DEF f
<1>3. SumFunctionOnSet(f, Holders) \in Nat BY <1>1, <1>2, SumType
<1> QED BY <1>3 DEF Held, f

LEMMA HeldCovers ==
    ASSUME NEW rows \in Rows, NEW a \in Holders
    PROVE  rows[a].balance <= Held(rows)
<1> DEFINE f == [x \in Holders |-> rows[x].balance]
<1>1. f[a] = rows[a].balance /\ \A x \in Holders : f[x] \in Nat BY DEF Rows
<1>2. IsFiniteSet(Holders) BY IssueAssumption DEF TokenAssumption
<1> HIDE DEF f
<1>3. f[a] <= SumFunctionOnSet(f, Holders) BY <1>1, <1>2, SumCoversPart
<1> QED BY <1>1, <1>3 DEF Held, f

LEMMA HeldChange ==
    ASSUME NEW rows \in Rows, NEW next \in Rows, NEW a \in Holders, NEW d \in Int,
           next[a].balance = rows[a].balance + d, \A x \in Holders \ {a} : next[x] = rows[x]
    PROVE  Held(next) = Held(rows) + d
<1> DEFINE f == [x \in Holders |-> rows[x].balance]
           g == [x \in Holders |-> next[x].balance]
<1>1. /\ \A x \in Holders : f[x] \in Int /\ g[x] \in Int
      /\ \A x \in Holders \ {a} : f[x] = g[x]
      /\ g[a] = f[a] + d
  BY DEF Rows
<1>2. IsFiniteSet(Holders) BY IssueAssumption DEF TokenAssumption
<1> HIDE DEF f, g
<1>3. SumFunctionOnSet(g, Holders) = SumFunctionOnSet(f, Holders) - f[a] + g[a]
  BY <1>1, <1>2, SumChange
<1>4. SumFunctionOnSet(f, Holders) \in Int BY <1>1, <1>2, SumType
<1>5. SumFunctionOnSet(g, Holders) = SumFunctionOnSet(f, Holders) + d
  BY <1>1, <1>3, <1>4
<1> QED BY <1>5 DEF Held, f, g

LEMMA AddedFacts ==
    ASSUME NEW rows, Good(rows), NEW a \in Holders, NEW q \in Nat
    PROVE  /\ Good(Added(rows, a, q))
           /\ Held(Added(rows, a, q)) = Held(rows) + q
           /\ Covers(Added(rows, a, q), a, q)
<1> DEFINE next == Added(rows, a, q)
<1>1. rows \in Rows BY DEF Good
<1>2. next \in Rows BY <1>1 DEF Added, Rows
<1>3. /\ next[a].open /\ next[a].balance = rows[a].balance + q
      /\ \A x \in Holders \ {a} : next[x] = rows[x]
  BY <1>1 DEF Added, Rows
<1> HIDE DEF next
<1>4. Held(next) = Held(rows) + q BY <1>1, <1>2, <1>3, HeldChange
<1>5. Good(next) BY <1>2, <1>3 DEF Good
<1>6. Covers(next, a, q) BY <1>1, <1>3 DEF Covers, Rows
<1> QED BY <1>4, <1>5, <1>6 DEF next

LEMMA SubtractedFacts ==
    ASSUME NEW rows, Good(rows), NEW a \in Holders, NEW q \in Nat, Covers(rows, a, q)
    PROVE  /\ Good(Subtracted(rows, a, q))
           /\ Held(Subtracted(rows, a, q)) = Held(rows) - q
           /\ q <= Held(rows)
<1> DEFINE next == Subtracted(rows, a, q)
<1>1. rows \in Rows /\ rows[a].open /\ q <= rows[a].balance BY DEF Good, Covers, Rows
<1>2. next \in Rows
  <2>1. rows[a].balance - q \in Nat BY <1>1 DEF Rows
  <2> QED BY <1>1, <2>1 DEF Subtracted, Rows
<1>3. /\ next[a].open /\ next[a].balance = rows[a].balance + (-q)
      /\ \A x \in Holders \ {a} : next[x] = rows[x]
  BY <1>1 DEF Subtracted, Rows
<1> HIDE DEF next
<1>4. Held(next) = Held(rows) + (-q) BY <1>1, <1>2, <1>3, HeldChange
<1>5. Good(next) BY <1>2, <1>3 DEF Good
<1>6. Held(rows) \in Nat /\ rows[a].balance <= Held(rows) /\ rows[a].balance \in Nat
  BY <1>1, HeldType, HeldCovers DEF Rows
<1> QED BY <1>1, <1>4, <1>5, <1>6 DEF next

LEMMA OpenFacts ==
    ASSUME NEW rows, Good(rows), NEW a \in Holders, NEW open \in BOOLEAN,
           open \/ rows[a].balance = 0
    PROVE  /\ Good([rows EXCEPT ![a].open = open])
           /\ Held([rows EXCEPT ![a].open = open]) = Held(rows)
<1> DEFINE next == [rows EXCEPT ![a].open = open]
<1>1. rows \in Rows BY DEF Good
<1>2. next \in Rows BY <1>1 DEF Rows
<1>3. /\ next[a].open = open /\ next[a].balance = rows[a].balance
      /\ \A x \in Holders \ {a} : next[x] = rows[x]
  BY <1>1 DEF Rows
<1> HIDE DEF next
<1>4. next[a].balance = rows[a].balance + 0 BY <1>1, <1>3 DEF Rows
<1>5. Held(next) = Held(rows) + 0 BY <1>1, <1>2, <1>3, <1>4, HeldChange
<1>6. Held(rows) \in Nat BY <1>1, HeldType
<1>7. Good(next) BY <1>2, <1>3 DEF Good
<1> QED BY <1>5, <1>6, <1>7 DEF next

-----------------------------------------------------------------------------
(* The inductive invariant: the types, the sums, and that a symbol without *)
(* a token has neither an issuer nor a supply, one without a row no count. *)
Unborn == \A s \in Symbols : ~stats[s].exists => stats[s].issuer = "none" /\ stats[s].supply = 0

TokenInv == TokenTypeOK /\ LedgerAddsUp /\ Unborn

Uncounted == \A s \in Symbols : ~Exists(s) => issuers[s].circulating_supply = 0

IInv == TypeOK /\ SupplyAddsUp /\ Unborn /\ Uncounted

LEMMA TokenPart == IInv => TokenInv
BY DEF IInv, TokenInv, TypeOK, SupplyAddsUp

LEMMA RowsOf ==
    ASSUME TokenInv, NEW s \in Symbols
    PROVE  Good(accounts[s]) /\ Held(accounts[s]) = stats[s].supply
BY DEF TokenInv, TokenTypeOK, LedgerAddsUp, Good, Rows, Held, Circulation, Balances

(* What every handler of the token comes down to.                          *)
LEMMA LedgerStep ==
    ASSUME TokenInv, NEW s \in Symbols, NEW rows, Good(rows), stats[s].exists,
           Held(rows) \in 0..stats[s].max_supply,
           accounts' = [accounts EXCEPT ![s] = rows],
           stats' = [stats EXCEPT ![s].supply = Held(rows)]
    PROVE  TokenInv'
<1>1. /\ TokenTypeOK /\ accounts \in [Symbols -> Rows] /\ rows \in Rows
      /\ stats \in [Symbols -> [exists : BOOLEAN, supply : Nat, max_supply : Nat,
                                issuer : Holders \cup {"none"}]]
  BY DEF TokenInv, TokenTypeOK, Rows, Good
<1>2. /\ accounts' \in [Symbols -> Rows] /\ accounts'[s] = rows
      /\ \A t \in Symbols \ {s} : accounts'[t] = accounts[t]
  BY <1>1
<1>3. Held(rows) \in Nat /\ Held(rows) <= stats[s].max_supply
  BY <1>1
<1>4. /\ stats' \in [Symbols -> [exists : BOOLEAN, supply : Nat, max_supply : Nat,
                                 issuer : Holders \cup {"none"}]]
      /\ stats'[s].supply = Held(rows) /\ stats'[s].max_supply = stats[s].max_supply
      /\ stats'[s].exists = stats[s].exists /\ stats'[s].issuer = stats[s].issuer
      /\ \A t \in Symbols \ {s} : stats'[t] = stats[t]
  BY <1>1, <1>3
<1>5. TokenTypeOK' BY <1>2, <1>4 DEF TokenTypeOK, Rows
<1>6. ASSUME NEW t \in Symbols
      PROVE  /\ stats'[t].supply = Circulation(t)'
             /\ stats'[t].supply <= stats'[t].max_supply
             /\ \A a \in Holders : ~accounts'[t][a].open => accounts'[t][a].balance = 0
  <2>1. CASE t = s
    <3>1. Circulation(t)' = Held(rows) BY <1>2, <2>1 DEF Circulation, Balances, Held
    <3> QED BY <1>2, <1>3, <1>4, <2>1, <3>1 DEF Good
  <2>2. CASE t # s
    <3>1. Circulation(t)' = Circulation(t) BY <1>2, <2>2 DEF Circulation, Balances
    <3> QED BY <1>2, <1>4, <2>2, <3>1 DEF TokenInv, LedgerAddsUp
  <2> QED BY <2>1, <2>2
<1>7. LedgerAddsUp' BY <1>6 DEF LedgerAddsUp
<1>8. Unborn' BY <1>4 DEF TokenInv, Unborn
<1> QED BY <1>5, <1>7, <1>8 DEF TokenInv

LEMMA CreateStep ==
    ASSUME TokenInv, NEW s \in Symbols, NEW issuer \in Holders, NEW n \in Nat, Create(s, issuer, n)
    PROVE  TokenInv'
<1>1. TokenTypeOK /\ stats[s].supply = 0 BY DEF TokenInv, Create, Unborn
<1>2. /\ stats' = [stats EXCEPT ![s] =
              [exists |-> TRUE, supply |-> 0, max_supply |-> n, issuer |-> issuer]]
      /\ UNCHANGED accounts
  BY DEF Create
<1>3. TokenTypeOK' BY <1>1, <1>2 DEF TokenTypeOK
<1>4. \A t \in Symbols : Circulation(t)' = Circulation(t) BY <1>2 DEF Circulation, Balances
<1>5. LedgerAddsUp' BY <1>1, <1>2, <1>4 DEF TokenInv, LedgerAddsUp, TokenTypeOK
<1>6. Unborn' BY <1>1, <1>2 DEF TokenInv, Unborn, TokenTypeOK
<1> QED BY <1>3, <1>5, <1>6 DEF TokenInv

LEMMA IssueStep ==
    ASSUME TokenInv, NEW s \in Symbols, NEW to \in Holders, NEW sender \in Holders, NEW q \in Nat,
           Issue(s, to, q, sender)
    PROVE  /\ TokenInv'
           /\ stats[s].issuer = sender /\ q > 0
           /\ stats' = [stats EXCEPT ![s].supply = @ + q]
<1>1. /\ stats[s].exists /\ stats[s].issuer = sender /\ q > 0
      /\ q <= stats[s].max_supply - stats[s].supply
      /\ stats' = [stats EXCEPT ![s].supply = @ + q]
  BY DEF Issue
<1>2. stats[s].supply \in Nat /\ stats[s].max_supply \in Nat /\ accounts \in [Symbols -> Rows]
  BY DEF TokenInv, TokenTypeOK, Rows
<1> DEFINE own == Added(accounts[s], sender, q)
           out == Subtracted(own, sender, q)
           rows == IF to = sender THEN own ELSE Added(out, to, q)
<1>4. accounts' = [accounts EXCEPT ![s] = rows] BY DEF Issue
<1>5. Good(accounts[s]) /\ Held(accounts[s]) = stats[s].supply BY RowsOf
<1>6. Good(own) /\ Held(own) = Held(accounts[s]) + q /\ Covers(own, sender, q)
  BY <1>5, AddedFacts
<1> HIDE DEF own
<1>7. Good(out) /\ Held(out) = Held(own) - q BY <1>6, SubtractedFacts
<1> HIDE DEF out
<1>8. Good(Added(out, to, q)) /\ Held(Added(out, to, q)) = Held(out) + q BY <1>7, AddedFacts
<1>9. Good(rows) /\ Held(rows) = stats[s].supply + q BY <1>2, <1>5, <1>6, <1>7, <1>8
<1> HIDE DEF rows
<1>10. TokenInv'
  <2>1. Held(rows) \in 0..stats[s].max_supply BY <1>1, <1>2, <1>9
  <2>2. stats' = [stats EXCEPT ![s].supply = Held(rows)] BY <1>1, <1>9
  <2> QED BY <1>1, <1>4, <1>9, <2>1, <2>2, LedgerStep
<1> QED BY <1>1, <1>10

LEMMA RetireStep ==
    ASSUME TokenInv, NEW s \in Symbols, NEW sender \in Holders, NEW q \in Nat, Retire(s, q, sender)
    PROVE  /\ TokenInv'
           /\ stats[s].issuer = sender /\ q > 0 /\ q <= stats[s].supply
           /\ stats' = [stats EXCEPT ![s].supply = @ - q]
<1>1. /\ stats[s].exists /\ stats[s].issuer = sender /\ q > 0 /\ Covers(accounts[s], sender, q)
      /\ stats' = [stats EXCEPT ![s].supply = @ - q]
      /\ accounts' = [accounts EXCEPT ![s] = Subtracted(accounts[s], sender, q)]
  BY DEF Retire
<1>2. /\ stats[s].supply \in Nat /\ stats[s].max_supply \in Nat
      /\ stats[s].supply <= stats[s].max_supply
  BY DEF TokenInv, TokenTypeOK, LedgerAddsUp
<1>3. Good(accounts[s]) /\ Held(accounts[s]) = stats[s].supply BY RowsOf
<1> DEFINE rows == Subtracted(accounts[s], sender, q)
<1>4. Good(rows) /\ Held(rows) = Held(accounts[s]) - q /\ q <= Held(accounts[s])
  BY <1>1, <1>3, SubtractedFacts
<1>5. accounts' = [accounts EXCEPT ![s] = rows] BY <1>1
<1> HIDE DEF rows
<1>6. Held(rows) \in 0..stats[s].max_supply BY <1>2, <1>3, <1>4
<1>7. stats' = [stats EXCEPT ![s].supply = Held(rows)] BY <1>1, <1>3, <1>4
<1>8. TokenInv' BY <1>1, <1>4, <1>5, <1>6, <1>7, LedgerStep
<1> QED BY <1>1, <1>3, <1>4, <1>8

(* transfer, open and close leave the supply alone.                        *)
LEMMA HolderStep ==
    ASSUME TokenInv, NEW s \in Symbols,
           \/ \E from, to \in Holders, q \in Nat : Transfer(s, from, to, q)
           \/ \E owner \in Holders : Open(s, owner) \/ Close(s, owner)
    PROVE  TokenInv' /\ UNCHANGED stats
<1>1. /\ stats[s].supply \in Nat /\ stats[s].supply <= stats[s].max_supply
      /\ stats[s].max_supply \in Nat /\ stats \in [Symbols -> [exists : BOOLEAN, supply : Nat,
                                          max_supply : Nat, issuer : Holders \cup {"none"}]]
  BY DEF TokenInv, TokenTypeOK, LedgerAddsUp
<1>2. Good(accounts[s]) /\ Held(accounts[s]) = stats[s].supply BY RowsOf
<1>3. stats = [stats EXCEPT ![s].supply = stats[s].supply] BY <1>1
<1>4. ASSUME NEW rows, Good(rows), Held(rows) = Held(accounts[s]), stats[s].exists,
             accounts' = [accounts EXCEPT ![s] = rows], UNCHANGED stats
      PROVE  TokenInv'
  <2>1. Held(rows) \in 0..stats[s].max_supply BY <1>1, <1>2, <1>4
  <2>2. stats' = [stats EXCEPT ![s].supply = Held(rows)] BY <1>2, <1>3, <1>4
  <2> QED BY <1>4, <2>1, <2>2, LedgerStep
<1>5. ASSUME NEW from \in Holders, NEW to \in Holders, NEW q \in Nat, Transfer(s, from, to, q)
      PROVE  TokenInv' /\ UNCHANGED stats
  <2> DEFINE out == Subtracted(accounts[s], from, q)
             rows == Added(out, to, q)
  <2>1. /\ stats[s].exists /\ Covers(accounts[s], from, q) /\ UNCHANGED stats
        /\ accounts' = [accounts EXCEPT ![s] = rows]
    BY <1>5 DEF Transfer
  <2>2. Good(out) /\ Held(out) = Held(accounts[s]) - q /\ q <= Held(accounts[s])
    BY <1>2, <2>1, SubtractedFacts
  <2> HIDE DEF out
  <2>3. Good(rows) /\ Held(rows) = Held(out) + q BY <2>2, AddedFacts
  <2> HIDE DEF rows
  <2>4. Held(rows) = Held(accounts[s]) BY <1>1, <1>2, <2>2, <2>3
  <2> QED BY <1>4, <2>1, <2>3, <2>4
<1>6. ASSUME NEW owner \in Holders, Open(s, owner)
      PROVE  TokenInv' /\ UNCHANGED stats
  <2> DEFINE rows == [accounts[s] EXCEPT ![owner].open = TRUE]
  <2>1. stats[s].exists /\ UNCHANGED stats /\ accounts' = [accounts EXCEPT ![s] = rows]
    BY <1>6 DEF Open
  <2>2. Good(rows) /\ Held(rows) = Held(accounts[s]) BY <1>2, OpenFacts
  <2> HIDE DEF rows
  <2> QED BY <1>4, <2>1, <2>2
<1>7. ASSUME NEW owner \in Holders, Close(s, owner)
      PROVE  TokenInv' /\ UNCHANGED stats
  <2> DEFINE rows == [accounts[s] EXCEPT ![owner].open = FALSE]
  <2>1. /\ accounts[s][owner].balance = 0 /\ UNCHANGED stats
        /\ accounts' = [accounts EXCEPT ![s] = rows]
    BY <1>7 DEF Close
  <2>2. Good(rows) /\ Held(rows) = Held(accounts[s]) BY <1>2, <2>1, OpenFacts
  <2>3. CASE stats[s].exists
    <3> HIDE DEF rows
    <3> QED BY <1>4, <2>1, <2>2, <2>3
  <2>4. CASE ~stats[s].exists
    <3> HIDE DEF rows
    <3>1. accounts' \in [Symbols -> Rows] /\ \A t \in Symbols : accounts'[t] = IF t = s THEN rows ELSE accounts[t]
      BY <2>1, <2>2 DEF TokenInv, TokenTypeOK, Good, Rows
    <3>2. \A t \in Symbols : Circulation(t)' = Held(accounts'[t])
      BY DEF Circulation, Balances, Held
    <3>3. \A t \in Symbols : Circulation(t)' = stats[t].supply
      BY <1>2, <2>2, <3>1, <3>2, RowsOf
    <3>4. LedgerAddsUp'
      BY <2>1, <2>2, <3>1, <3>3 DEF LedgerAddsUp, TokenInv, Good
    <3> QED BY <2>1, <3>1, <3>4 DEF TokenInv, TokenTypeOK, Unborn, Rows
  <2> QED BY <2>1, <2>3, <2>4
<1> QED BY <1>5, <1>6, <1>7

-----------------------------------------------------------------------------
(* The registry.  What a handler that leaves the token alone has to keep.  *)
IssuerRow == [status : Statuses, circulating_supply : Nat, reserves_attested : Nat,
              attested : 0..OldestAttest, audited : 0..OldestAudit, auditors : SUBSET Auditors]

LEMMA RegistryStep ==
    ASSUME IInv, UNCHANGED <<stats, accounts>>, issuers' \in [Symbols -> IssuerRow],
           \A s \in Symbols :
              /\ issuers'[s].circulating_supply = issuers[s].circulating_supply
              /\ issuers'[s].status = "NONE" => issuers[s].status = "NONE"
    PROVE  IInv' /\ Issued' = Issued
<1>1. \A s \in Symbols : Circulation(s)' = Circulation(s) BY DEF Circulation, Balances
<1>2. Issued' = Issued BY DEF Issued
<1>3. Uncounted' BY DEF IInv, Uncounted, Exists
<1> QED BY <1>1, <1>2, <1>3
       DEF IInv, TypeOK, TokenTypeOK, IssuerRow, SupplyAddsUp, LedgerAddsUp, Unborn

LEMMA RowTypes == IInv => issuers \in [Symbols -> IssuerRow]
BY DEF IInv, TypeOK, IssuerRow

LEMMA NoIssuerType == NoIssuer \in IssuerRow
BY IssueAssumption DEF NoIssuer, IssuerRow, Statuses, OldestAttest, OldestAudit

LEMMA OlderType ==
    ASSUME NEW oldest \in Nat, NEW age \in 0..oldest
    PROVE  Older(age, oldest) \in 0..oldest
BY DEF Older

LEMMA TickInv == IInv /\ Tick => IInv' /\ Issued' = Issued
<1>1. SUFFICES ASSUME IInv, Tick PROVE IInv' /\ Issued' = Issued OBVIOUS
<1>2. issuers \in [Symbols -> IssuerRow] BY <1>1, RowTypes
<1>3. OldestAttest \in Nat /\ OldestAudit \in Nat
  BY IssueAssumption DEF OldestAttest, OldestAudit
<1>4. ASSUME NEW s \in Symbols
      PROVE  /\ issuers'[s] \in IssuerRow
             /\ issuers'[s].circulating_supply = issuers[s].circulating_supply
             /\ issuers'[s].status = issuers[s].status
  <2>1. Older(issuers[s].attested, OldestAttest) \in 0..OldestAttest
    BY <1>2, <1>3, OlderType DEF IssuerRow
  <2>2. Older(issuers[s].audited, OldestAudit) \in 0..OldestAudit
    BY <1>2, <1>3, OlderType DEF IssuerRow
  <2>3. issuers'[s] = IF Exists(s)
                      THEN [issuers[s] EXCEPT !.attested = Older(@, OldestAttest),
                                              !.audited = Older(@, OldestAudit)]
                      ELSE issuers[s]
    BY <1>1 DEF Tick
  <2> QED BY <1>2, <2>1, <2>2, <2>3 DEF IssuerRow
<1>5. issuers' \in [Symbols -> IssuerRow]
  <2>1. issuers' = [s \in Symbols |-> issuers'[s]] BY <1>1 DEF Tick
  <2> QED BY <1>4, <2>1
<1> QED BY <1>1, <1>4, <1>5, RegistryStep DEF Tick

LEMMA CheckStaleInv == IInv /\ CheckStale => IInv' /\ Issued' = Issued
<1>1. SUFFICES ASSUME IInv, CheckStale PROVE IInv' /\ Issued' = Issued OBVIOUS
<1>2. issuers \in [Symbols -> IssuerRow] BY <1>1, RowTypes
<1>3. issuers' \in [Symbols -> IssuerRow]
  <2>1. \A s \in Symbols : issuers'[s] \in IssuerRow
    BY <1>1, <1>2 DEF CheckStale, IssuerRow, Statuses
  <2>2. issuers' = [s \in Symbols |-> issuers'[s]] BY <1>1 DEF CheckStale
  <2> QED BY <2>1, <2>2
<1>4. \A s \in Symbols :
         /\ issuers'[s].circulating_supply = issuers[s].circulating_supply
         /\ issuers'[s].status = "NONE" => issuers[s].status = "NONE"
  BY <1>1, <1>2 DEF CheckStale, IssuerRow
<1> QED BY <1>1, <1>3, <1>4, RegistryStep DEF CheckStale

LEMMA AddAuditorInv ==
    \A auditor \in Auditors : IInv /\ AddAuditor(auditor) => IInv' /\ Issued' = Issued
<1>1. SUFFICES ASSUME NEW auditor \in Auditors, IInv, AddAuditor(auditor)
               PROVE  IInv' /\ Issued' = Issued
  OBVIOUS
<1>2. issuers \in [Symbols -> IssuerRow] BY <1>1, RowTypes
<1>3. issuers' \in [Symbols -> IssuerRow]
  <2>1. \A s \in Symbols : issuers'[s] \in IssuerRow
    BY <1>1, <1>2 DEF AddAuditor, IssuerRow
  <2>2. issuers' = [s \in Symbols |-> issuers'[s]] BY <1>1 DEF AddAuditor
  <2> QED BY <2>1, <2>2
<1>4. \A s \in Symbols :
         /\ issuers'[s].circulating_supply = issuers[s].circulating_supply
         /\ issuers'[s].status = "NONE" => issuers[s].status = "NONE"
  BY <1>1, <1>2 DEF AddAuditor, IssuerRow
<1> QED BY <1>1, <1>3, <1>4, RegistryStep DEF AddAuditor

(* A change of status takes the row to one of the later statuses.          *)
LEMMA MoveInv ==
    ASSUME IInv, NEW s \in Symbols, NEW from, NEW to \in Statuses \ {"NONE"}, Move(s, from, to)
    PROVE  IInv' /\ Issued' = Issued
<1>1. issuers \in [Symbols -> IssuerRow] BY RowTypes
<1>2. issuers' \in [Symbols -> IssuerRow] BY <1>1 DEF Move, IssuerRow
<1>3. \A t \in Symbols :
         /\ issuers'[t].circulating_supply = issuers[t].circulating_supply
         /\ issuers'[t].status = "NONE" => issuers[t].status = "NONE"
  BY <1>1 DEF Move, IssuerRow
<1> QED BY <1>2, <1>3, RegistryStep DEF Move

LEMMA ApplyIssuerInv ==
    ASSUME IInv, NEW s \in Symbols, NEW reserves \in Nat, ApplyIssuer(s, reserves)
    PROVE  IInv' /\ Issued' = Issued
<1> DEFINE row == [NoIssuer EXCEPT !.status = "APPLIED", !.reserves_attested = reserves]
<1>1. issuers \in [Symbols -> IssuerRow] BY RowTypes
<1>2. issuers' = [issuers EXCEPT ![s] = row] /\ ~Exists(s) /\ UNCHANGED <<stats, accounts>>
  BY DEF ApplyIssuer
<1>3. row \in IssuerRow /\ row.circulating_supply = 0 /\ row.status # "NONE"
  BY NoIssuerType DEF IssuerRow, NoIssuer, Statuses
<1> HIDE DEF row
<1>4. issuers' \in [Symbols -> IssuerRow] BY <1>1, <1>2, <1>3
<1>5. issuers[s].circulating_supply = 0 BY <1>2 DEF IInv, Uncounted
<1>6. \A t \in Symbols :
         /\ issuers'[t].circulating_supply = issuers[t].circulating_supply
         /\ issuers'[t].status = "NONE" => issuers[t].status = "NONE"
  BY <1>1, <1>2, <1>3, <1>5
<1> QED BY <1>2, <1>4, <1>6, RegistryStep

(* A row stays a row when a report or an audit is entered into it.         *)
LEMMA ReportedRow ==
    ASSUME NEW r \in IssuerRow, NEW n \in Nat
    PROVE  [r EXCEPT !.reserves_attested = n, !.attested = 0] \in IssuerRow
<1>1. 0 \in 0..OldestAttest BY IssueAssumption DEF OldestAttest
<1> QED BY <1>1 DEF IssuerRow

LEMMA AuditedRow ==
    ASSUME NEW r \in IssuerRow
    PROVE  [r EXCEPT !.audited = 0, !.status = IF @ = "APPLIED" THEN "AUDITED" ELSE @] \in IssuerRow
<1>1. 0 \in 0..OldestAudit BY IssueAssumption DEF OldestAudit
<1> QED BY <1>1 DEF IssuerRow, Statuses

LEMMA AttReservesInv ==
    ASSUME IInv, NEW s \in Symbols, NEW reserves \in Nat, AttReserves(s, reserves)
    PROVE  IInv' /\ Issued' = Issued
<1>1. issuers \in [Symbols -> IssuerRow] /\ OldestAttest \in Nat
  BY RowTypes, IssueAssumption DEF OldestAttest
<1> DEFINE row == [issuers[s] EXCEPT !.reserves_attested = reserves, !.attested = 0]
<1>t. issuers[s] \in IssuerRow BY <1>1
<1>r. row \in IssuerRow BY <1>t, ReportedRow
<1>e. issuers' = [issuers EXCEPT ![s] = row] BY <1>1 DEF AttReserves, IssuerRow
<1>2. issuers' \in [Symbols -> IssuerRow]
  <2> HIDE DEF row
  <2> QED BY <1>1, <1>r, <1>e
<1>3. \A t \in Symbols :
         /\ issuers'[t].circulating_supply = issuers[t].circulating_supply
         /\ issuers'[t].status = "NONE" => issuers[t].status = "NONE"
  BY <1>1 DEF AttReserves, IssuerRow
<1> QED BY <1>2, <1>3, RegistryStep DEF AttReserves

LEMMA AttestAuditInv ==
    ASSUME IInv, NEW s \in Symbols, NEW auditor \in Auditors, AttestAudit(auditor, s)
    PROVE  IInv' /\ Issued' = Issued
<1>1. issuers \in [Symbols -> IssuerRow] /\ OldestAudit \in Nat
  BY RowTypes, IssueAssumption DEF OldestAudit
<1> DEFINE row == [issuers[s] EXCEPT !.audited = 0,
                                    !.status = IF @ = "APPLIED" THEN "AUDITED" ELSE @]
<1>t. issuers[s] \in IssuerRow BY <1>1
<1>r. row \in IssuerRow BY <1>t, AuditedRow
<1>e. issuers' = [issuers EXCEPT ![s] = row] BY <1>1 DEF AttestAudit, IssuerRow
<1>2. issuers' \in [Symbols -> IssuerRow]
  <2> HIDE DEF row
  <2> QED BY <1>1, <1>r, <1>e
<1>3. \A t \in Symbols :
         /\ issuers'[t].circulating_supply = issuers[t].circulating_supply
         /\ issuers'[t].status = "NONE" => issuers[t].status = "NONE"
  BY <1>1 DEF AttestAudit, IssuerRow
<1> QED BY <1>2, <1>3, RegistryStep DEF AttestAudit

-----------------------------------------------------------------------------
(* Minting and burning: count and supply move together.                    *)
LEMMA CountedStep ==
    ASSUME IInv, TokenInv', NEW s \in Symbols, stats[s].issuer = "sika.issue", Exists(s),
           NEW n \in Nat, stats' = [stats EXCEPT ![s].supply = n],
           issuers' = [issuers EXCEPT ![s].circulating_supply = n]
    PROVE  /\ IInv'
           /\ Issued[s] = issuers[s].circulating_supply /\ Issued'[s] = n
           /\ \A t \in Symbols \ {s} : Issued'[t] = Issued[t]
<1>1. issuers \in [Symbols -> IssuerRow] BY RowTypes
<1>2. issuers' \in [Symbols -> IssuerRow] BY <1>1 DEF IssuerRow
<1>3. /\ issuers'[s].circulating_supply = n /\ issuers'[s].status = issuers[s].status
      /\ \A t \in Symbols \ {s} : issuers'[t] = issuers[t]
  BY <1>1 DEF IssuerRow
<1>4. /\ stats'[s].supply = n /\ stats'[s].issuer = stats[s].issuer
      /\ \A t \in Symbols \ {s} : stats'[t] = stats[t]
  BY DEF IInv, TypeOK, TokenTypeOK
<1>5. Issued'[s] = n /\ \A t \in Symbols \ {s} : Issued'[t] = Issued[t]
  BY <1>4 DEF Issued
<1>6. \A t \in Symbols : issuers[t].circulating_supply = Issued[t]
  BY DEF IInv, SupplyAddsUp
<1>7. SupplyAddsUp' BY <1>3, <1>5, <1>6 DEF SupplyAddsUp, TokenInv
<1>8. Uncounted' BY <1>3 DEF IInv, Uncounted, Exists
<1> QED BY <1>2, <1>5, <1>6, <1>7, <1>8 DEF IInv, TokenInv, TypeOK, IssuerRow

LEMMA MintFacts ==
    ASSUME IInv, NEW s \in Symbols, NEW to \in Holders, NEW q \in Nat, Mint(s, to, q)
    PROVE  /\ IInv'
           /\ Issued'[s] = Issued[s] + q /\ q > 0
           /\ Issued'[s] <= issuers[s].reserves_attested /\ CanMint(issuers[s])
           /\ \A t \in Symbols \ {s} : Issued'[t] = Issued[t]
           /\ \A t \in Symbols : issuers'[t].status = issuers[t].status
<1>1. issuers \in [Symbols -> IssuerRow] /\ TokenInv BY RowTypes, TokenPart
<1>2. /\ CanMint(issuers[s])
      /\ issuers[s].circulating_supply + q <= issuers[s].reserves_attested
      /\ issuers' = [issuers EXCEPT ![s].circulating_supply = @ + q]
      /\ Issue(s, to, q, "sika.issue")
  BY DEF Mint
<1>3. "sika.issue" \in Holders BY IssueAssumption DEF TokenAssumption
<1>4. /\ TokenInv' /\ stats[s].issuer = "sika.issue" /\ q > 0
      /\ stats' = [stats EXCEPT ![s].supply = @ + q]
  BY <1>1, <1>2, <1>3, IssueStep
<1>5. Issued[s] = stats[s].supply /\ issuers[s].circulating_supply = Issued[s]
  BY <1>4 DEF Issued, IInv, SupplyAddsUp
<1> DEFINE n == stats[s].supply + q
<1>6. n \in Nat BY <1>1 DEF TokenInv, TokenTypeOK
<1>7. stats' = [stats EXCEPT ![s].supply = n] BY <1>4
<1>8. issuers' = [issuers EXCEPT ![s].circulating_supply = n] BY <1>2, <1>5
<1>9. n = Issued[s] + q /\ n <= issuers[s].reserves_attested BY <1>2, <1>5
<1> HIDE DEF n
<1>10. Exists(s) BY <1>2 DEF CanMint, Exists
<1>11. /\ IInv' /\ Issued'[s] = n
       /\ \A t \in Symbols \ {s} : Issued'[t] = Issued[t]
  BY <1>4, <1>6, <1>7, <1>8, <1>10, CountedStep
<1>12. \A t \in Symbols : issuers'[t].status = issuers[t].status BY <1>1, <1>2 DEF IssuerRow
<1> QED BY <1>2, <1>4, <1>9, <1>11, <1>12

LEMMA BurnFacts ==
    ASSUME IInv, NEW s \in Symbols, NEW q \in Nat, Burn(s, q)
    PROVE  /\ IInv'
           /\ Issued'[s] = Issued[s] - q /\ q > 0 /\ Exists(s)
           /\ \A t \in Symbols \ {s} : Issued'[t] = Issued[t]
           /\ \A t \in Symbols : issuers'[t].status = issuers[t].status
<1> DEFINE left == issuers[s].circulating_supply - q
<1>1. issuers \in [Symbols -> IssuerRow] /\ TokenInv BY RowTypes, TokenPart
<1>2. /\ Exists(s)
      /\ issuers' = [issuers EXCEPT ![s].circulating_supply = IF left < 0 THEN 0 ELSE left]
      /\ Retire(s, q, "sika.issue")
  BY DEF Burn
<1>3. "sika.issue" \in Holders BY IssueAssumption DEF TokenAssumption
<1>4. /\ TokenInv' /\ stats[s].issuer = "sika.issue" /\ q > 0 /\ q <= stats[s].supply
      /\ stats' = [stats EXCEPT ![s].supply = @ - q]
  BY <1>1, <1>2, <1>3, RetireStep
<1>5. Issued[s] = stats[s].supply /\ issuers[s].circulating_supply = Issued[s]
  BY <1>4 DEF Issued, IInv, SupplyAddsUp
<1> DEFINE n == stats[s].supply - q
<1>6. stats[s].supply \in Nat /\ n \in Nat BY <1>1, <1>4 DEF TokenInv, TokenTypeOK
<1>7. stats' = [stats EXCEPT ![s].supply = n] BY <1>4
<1>8. left = n /\ n = Issued[s] - q BY <1>5
<1> HIDE DEF n, left
<1>9. issuers' = [issuers EXCEPT ![s].circulating_supply = n]
  <2>1. ~(n < 0) BY <1>6
  <2> QED BY <1>2, <1>8, <2>1
<1>10. /\ IInv' /\ Issued'[s] = n
       /\ \A t \in Symbols \ {s} : Issued'[t] = Issued[t]
  BY <1>2, <1>4, <1>6, <1>7, <1>9, CountedStep
<1>11. \A t \in Symbols : issuers'[t].status = issuers[t].status BY <1>1, <1>2 DEF IssuerRow
<1> QED BY <1>2, <1>4, <1>8, <1>10, <1>11

(* What the token's other callers do is not the registry's to count.       *)
LEMMA OthersStep ==
    ASSUME IInv, TokenInv', UNCHANGED issuers, Issued' = Issued
    PROVE  IInv'
BY DEF IInv, TokenInv, TypeOK, SupplyAddsUp, Uncounted, Exists

LEMMA TokenActionsInv == IInv /\ TokenActions => IInv' /\ Issued' = Issued
<1>1. SUFFICES ASSUME IInv, TokenActions PROVE IInv' /\ Issued' = Issued OBVIOUS
<1>2. UNCHANGED issuers /\ TokenInv BY <1>1, TokenPart DEF TokenActions
<1>3. "eosio" \in Holders /\ "sika.issue" \in Holders /\ Tokens \subseteq Symbols
  BY IssueAssumption DEF TokenAssumption
<1>4. stats \in [Symbols -> [exists : BOOLEAN, supply : Nat, max_supply : Nat,
                              issuer : Holders \cup {"none"}]]
  BY <1>2 DEF TokenInv, TokenTypeOK
<1>5. ASSUME NEW s \in Symbols, NEW issuer \in Holders, NEW n \in Nat, Create(s, issuer, n)
      PROVE  TokenInv' /\ Issued' = Issued
  <2>1. TokenInv' BY <1>2, <1>5, CreateStep
  <2>2. stats[s].issuer = "none" /\ stats[s].supply = 0 BY <1>2, <1>5 DEF TokenInv, Unborn, Create
  <2>3. /\ stats'[s].supply = 0 /\ \A t \in Symbols \ {s} : stats'[t] = stats[t]
    BY <1>4, <1>5 DEF Create
  <2>4. \A t \in Symbols : Issued'[t] = Issued[t] BY <2>2, <2>3 DEF Issued
  <2> QED BY <2>1, <2>4 DEF Issued
<1>6. ASSUME NEW s \in Symbols, NEW n, stats[s].issuer = "eosio",
             stats' = [stats EXCEPT ![s].supply = n]
      PROVE  Issued' = Issued
  <2>1. /\ stats'[s].issuer = "eosio" /\ \A t \in Symbols \ {s} : stats'[t] = stats[t]
    BY <1>4, <1>6
  <2>2. \A t \in Symbols : Issued'[t] = Issued[t] BY <1>6, <2>1 DEF Issued
  <2> QED BY <2>2 DEF Issued
<1>7. ASSUME NEW s \in Symbols, NEW q \in Nat,
             (\E to \in Holders : Issue(s, to, q, "eosio")) \/ Retire(s, q, "eosio")
      PROVE  TokenInv' /\ Issued' = Issued
  <2>1. CASE \E to \in Holders : Issue(s, to, q, "eosio")
    <3>1. TokenInv' /\ stats[s].issuer = "eosio" /\ stats' = [stats EXCEPT ![s].supply = @ + q]
      BY <1>2, <1>3, <2>1, IssueStep
    <3> QED BY <1>6, <3>1
  <2>2. CASE Retire(s, q, "eosio")
    <3>1. TokenInv' /\ stats[s].issuer = "eosio" /\ stats' = [stats EXCEPT ![s].supply = @ - q]
      BY <1>2, <1>3, <2>2, RetireStep
    <3> QED BY <1>6, <3>1
  <2> QED BY <1>7, <2>1, <2>2
<1>8. ASSUME NEW s \in Symbols,
             \/ \E from, to \in Holders, q \in Nat : Transfer(s, from, to, q)
             \/ \E owner \in Holders : Open(s, owner) \/ Close(s, owner)
      PROVE  TokenInv' /\ Issued' = Issued
  <2>1. TokenInv' /\ UNCHANGED stats BY <1>2, <1>8, HolderStep
  <2> QED BY <2>1 DEF Issued
<1>9. TokenInv' /\ Issued' = Issued
  <2>1. MaxSupplies \subseteq Nat /\ Quantities \subseteq Nat BY IssueAssumption
  <2> QED BY <1>1, <1>3, <1>5, <1>7, <1>8, <2>1 DEF TokenActions
<1> QED BY <1>1, <1>2, <1>9, OthersStep

-----------------------------------------------------------------------------
(* Every step is one of these: it keeps the invariant, and the registry's  *)
(* tokens are minted or burned, or left alone.                             *)
LEMMA InitIInv == Init => IInv
<1>1. SUFFICES ASSUME Init PROVE IInv OBVIOUS
<1>2. /\ stats = [s \in Symbols |-> NoToken]
      /\ accounts = [s \in Symbols |-> [a \in Holders |-> NoRow]]
      /\ issuers = [s \in Symbols |-> NoIssuer]
  BY <1>1 DEF Init, TokenInit
<1>3. issuers \in [Symbols -> IssuerRow] BY <1>2, NoIssuerType
<1>4. TypeOK
  BY <1>2, <1>3 DEF TypeOK, TokenTypeOK, NoToken, NoRow, IssuerRow
<1>5. \A s \in Symbols : Circulation(s) = 0
  <2>1. SumFunctionOnSet([a \in Holders |-> 0], Holders) = 0
    BY SumOfZeros, IssueAssumption DEF TokenAssumption
  <2>2. \A s \in Symbols : Balances(s) = [a \in Holders |-> 0] BY <1>2 DEF Balances, NoRow
  <2> QED BY <2>1, <2>2 DEF Circulation
<1>6. SupplyAddsUp
  BY <1>2, <1>5 DEF SupplyAddsUp, LedgerAddsUp, Issued, NoToken, NoRow, NoIssuer
<1>7. Unborn /\ Uncounted BY <1>2 DEF Unborn, Uncounted, NoToken, NoIssuer
<1> QED BY <1>4, <1>6, <1>7 DEF IInv

(* The steps that leave the registry's tokens alone.                       *)
Quiet ==
    \/ Tick \/ CheckStale \/ TokenActions
    \/ \E auditor \in Auditors : AddAuditor(auditor)
    \/ \E s \in Symbols :
          \/ Approve(s) \/ SuspIssuer(s) \/ ResumIssuer(s) \/ RevkIssuer(s)
          \/ \E reserves \in Reserves : ApplyIssuer(s, reserves) \/ AttReserves(s, reserves)
          \/ \E auditor \in Auditors : AttestAudit(auditor, s)

LEMMA NextSplit ==
    Next => \/ Quiet
            \/ \E s \in Symbols, q \in Quantities :
                  (\E to \in Holders : Mint(s, to, q)) \/ Burn(s, q)
BY DEF Next, Quiet

LEMMA QuietInv == IInv /\ Quiet => IInv' /\ Issued' = Issued
<1>1. SUFFICES ASSUME IInv, Quiet PROVE IInv' /\ Issued' = Issued OBVIOUS
<1>2. Reserves \subseteq Nat BY IssueAssumption
<1>3. ASSUME NEW s \in Symbols, Approve(s) \/ SuspIssuer(s) \/ ResumIssuer(s) \/ RevkIssuer(s)
      PROVE  IInv' /\ Issued' = Issued
  <2>1. /\ "LIVE" \in Statuses \ {"NONE"} /\ "PAUSED" \in Statuses \ {"NONE"}
        /\ "REVOKED" \in Statuses \ {"NONE"}
    BY DEF Statuses
  <2> QED BY <1>1, <1>3, <2>1, MoveInv DEF Approve, SuspIssuer, ResumIssuer, RevkIssuer
<1>4. ASSUME NEW s \in Symbols, NEW reserves \in Reserves,
             ApplyIssuer(s, reserves) \/ AttReserves(s, reserves)
      PROVE  IInv' /\ Issued' = Issued
  BY <1>1, <1>2, <1>4, ApplyIssuerInv, AttReservesInv
<1>5. ASSUME NEW s \in Symbols, NEW auditor \in Auditors, AttestAudit(auditor, s)
      PROVE  IInv' /\ Issued' = Issued
  BY <1>1, <1>5, AttestAuditInv
<1> QED BY <1>1, <1>3, <1>4, <1>5, TickInv, CheckStaleInv, TokenActionsInv, AddAuditorInv DEF Quiet

LEMMA NextInv == IInv /\ [Next]_vars => IInv'
<1>1. SUFFICES ASSUME IInv, [Next]_vars PROVE IInv' OBVIOUS
<1>2. CASE UNCHANGED vars
  <2>1. \A s \in Symbols : Circulation(s)' = Circulation(s) BY <1>2 DEF vars, Circulation, Balances
  <2>2. Issued' = Issued BY <1>2 DEF vars, Issued
  <2> QED BY <1>1, <1>2, <2>1, <2>2
         DEF vars, IInv, TypeOK, TokenTypeOK, SupplyAddsUp, LedgerAddsUp, Unborn, Uncounted, Exists
<1>3. ASSUME NEW s \in Symbols, NEW q \in Quantities,
             (\E to \in Holders : Mint(s, to, q)) \/ Burn(s, q)
      PROVE  IInv'
  <2>1. q \in Nat BY IssueAssumption
  <2> QED BY <1>1, <1>3, <2>1, MintFacts, BurnFacts
<1> QED BY <1>1, <1>2, <1>3, NextSplit, QuietInv

LEMMA Correct == Spec => []IInv
BY InitIInv, NextInv, PTL DEF Spec

(* The tables of the registry and of the token stay typed: no balance, no  *)
(* supply and no count ever goes below zero.                               *)
THEOREM TypeCorrect == Spec => []TypeOK
<1>1. IInv => TypeOK BY DEF IInv
<1> QED BY <1>1, Correct, PTL

(* What the registry counts is the supply, and the supply is what holders  *)
(* have.                                                                   *)
THEOREM SupplyCorrect == Spec => []SupplyAddsUp
<1>1. IInv => SupplyAddsUp BY DEF IInv
<1> QED BY <1>1, Correct, PTL

-----------------------------------------------------------------------------
(* Whatever grows the supply of a registry token is a backed mint.         *)
Backed ==
    \A s \in Symbols : Issued'[s] > Issued[s] =>
       /\ Issued'[s] <= issuers[s].reserves_attested
       /\ issuers[s].attested <= MonthlyAttest /\ issuers[s].audited <= AnnualAudit

LEMMA IssuedType == IInv => Issued \in [Symbols -> Nat]
BY DEF IInv, TypeOK, TokenTypeOK, Issued

LEMMA NextBacked == IInv /\ [Next]_vars => Backed
<1>1. SUFFICES ASSUME IInv, [Next]_vars PROVE Backed OBVIOUS
<1>2. Issued \in [Symbols -> Nat] BY <1>1, IssuedType
<1>3. CASE Issued' = Issued BY <1>2, <1>3 DEF Backed
<1>4. CASE UNCHANGED vars
  <2>1. Issued' = Issued BY <1>4 DEF vars, Issued
  <2> QED BY <1>3, <2>1
<1>5. ASSUME NEW s \in Symbols, NEW q \in Quantities, NEW to \in Holders, Mint(s, to, q)
      PROVE  Backed
  <2>1. q \in Nat BY IssueAssumption
  <2>2. /\ Issued'[s] <= issuers[s].reserves_attested /\ CanMint(issuers[s])
        /\ \A t \in Symbols \ {s} : Issued'[t] = Issued[t]
    BY <1>1, <1>5, <2>1, MintFacts
  <2>3. issuers[s].attested <= MonthlyAttest /\ issuers[s].audited <= AnnualAudit
    <3>1. issuers[s].attested \in Int /\ issuers[s].audited \in Int
      BY <1>1, IssueAssumption, RowTypes DEF IssuerRow, OldestAttest, OldestAudit
    <3> QED BY <2>2, <3>1, IssueAssumption DEF CanMint, Stale
  <2> QED BY <1>2, <2>2, <2>3 DEF Backed
<1>6. ASSUME NEW s \in Symbols, NEW q \in Quantities, Burn(s, q)
      PROVE  Backed
  <2>1. q \in Nat BY IssueAssumption
  <2>2. /\ Issued'[s] = Issued[s] - q /\ q > 0
        /\ \A t \in Symbols \ {s} : Issued'[t] = Issued[t]
    BY <1>1, <1>6, <2>1, BurnFacts
  <2> QED BY <1>2, <2>1, <2>2 DEF Backed
<1>7. CASE Quiet BY <1>1, <1>3, <1>7, QuietInv
<1> QED BY <1>1, <1>4, <1>5, <1>6, <1>7, NextSplit

(* Every mint is within the reserves reported, by a fresh report and under *)
(* a valid audit.                                                          *)
THEOREM MintsCorrect == Spec => MintsAreBacked
<1>1. IInv /\ [Next]_vars =>
         \A s \in Symbols : Issued'[s] > Issued[s] =>
            /\ Issued'[s] <= issuers[s].reserves_attested
            /\ issuers[s].attested <= MonthlyAttest /\ issuers[s].audited <= AnnualAudit
  BY NextBacked DEF Backed
<1> QED BY <1>1, Correct, PTL DEF Spec, MintsAreBacked

-----------------------------------------------------------------------------
(* The refinement.  A change of status is one of the abstract moves.       *)
LEMMA StatusChange ==
    ASSUME IInv, NEW s \in Symbols, NEW to,
           issuers'[s].status = to, \A t \in Symbols \ {s} : issuers'[t].status = issuers[t].status
    PROVE  StatusOf' = [StatusOf EXCEPT ![s] = to] /\ StatusOf[s] = issuers[s].status
BY DEF StatusOf

LEMMA StatusSame ==
    ASSUME \A t \in Symbols : issuers'[t].status = issuers[t].status
    PROVE  StatusOf' = StatusOf
BY DEF StatusOf

Simulated == [Lifecycle!Next]_<<StatusOf, Issued>>

LEMMA MoveSimulated ==
    ASSUME IInv, NEW s \in Symbols, NEW from, NEW to, Move(s, from, to), Issued' = Issued
    PROVE  Lifecycle!Move(s, from, to)
<1>1. issuers \in [Symbols -> IssuerRow] BY RowTypes
<1>2. issuers[s].status \in from /\ issuers' = [issuers EXCEPT ![s].status = to] BY DEF Move
<1>3. issuers'[s].status = to /\ \A t \in Symbols \ {s} : issuers'[t].status = issuers[t].status
  BY <1>1, <1>2 DEF IssuerRow
<1> QED BY <1>2, <1>3, StatusChange DEF Lifecycle!Move

LEMMA QuietSimulated ==
    ASSUME IInv, Quiet
    PROVE  Simulated
<1>1. issuers \in [Symbols -> IssuerRow] /\ Issued' = Issued BY RowTypes, QuietInv
<1>2. ASSUME \A t \in Symbols : issuers'[t].status = issuers[t].status PROVE Simulated
  BY <1>1, <1>2, StatusSame DEF Simulated
<1>3. CASE Tick \/ TokenActions \/ \E auditor \in Auditors : AddAuditor(auditor)
  <2>1. \A t \in Symbols : issuers'[t].status = issuers[t].status
    BY <1>1, <1>3 DEF Tick, TokenActions, AddAuditor, IssuerRow
  <2> QED BY <1>2, <2>1
<1>4. CASE CheckStale
  <2>1. \A t \in Failing : t \in Symbols /\ issuers[t].status = "LIVE" BY DEF Failing
  <2>2. \A t \in Symbols :
           issuers'[t].status = IF t \in Failing THEN "PAUSED" ELSE issuers[t].status
    BY <1>1, <1>4 DEF CheckStale, IssuerRow
  <2>3. Lifecycle!Pause(Failing)
    BY <1>1, <2>1, <2>2 DEF Lifecycle!Pause, StatusOf
  <2>4. Failing \in SUBSET Symbols BY DEF Failing
  <2> QED BY <2>3, <2>4 DEF Simulated, Lifecycle!Next
<1>5. ASSUME NEW s \in Symbols, Approve(s) \/ SuspIssuer(s) \/ ResumIssuer(s) \/ RevkIssuer(s)
      PROVE  Simulated
  <2>1. CASE Approve(s)
    <3>1. Lifecycle!Approve(s) BY <1>1, <2>1, MoveSimulated DEF Approve, Lifecycle!Approve
    <3> QED BY <3>1 DEF Simulated, Lifecycle!Next
  <2>2. CASE SuspIssuer(s)
    <3>1. issuers[s].status = "LIVE" /\ issuers' = [issuers EXCEPT ![s].status = "PAUSED"]
      BY <2>2 DEF SuspIssuer, Move
    <3>2. \A t \in Symbols : issuers'[t].status = IF t \in {s} THEN "PAUSED" ELSE issuers[t].status
      BY <1>1, <3>1 DEF IssuerRow
    <3>3. Lifecycle!Pause({s}) BY <1>1, <3>1, <3>2 DEF Lifecycle!Pause, StatusOf
    <3>4. {s} \in SUBSET Symbols OBVIOUS
    <3> QED BY <3>3, <3>4 DEF Simulated, Lifecycle!Next
  <2>3. CASE ResumIssuer(s)
    <3>1. Lifecycle!Resume(s) BY <1>1, <2>3, MoveSimulated DEF ResumIssuer, Lifecycle!Resume
    <3> QED BY <3>1 DEF Simulated, Lifecycle!Next
  <2>4. CASE RevkIssuer(s)
    <3>1. {"APPLIED", "AUDITED", "LIVE", "PAUSED"} = Lifecycle!Statuses \ {"NONE", "REVOKED"}
      BY DEF Lifecycle!Statuses
    <3>2. Lifecycle!Revoke(s)
      BY <1>1, <2>4, <3>1, MoveSimulated DEF RevkIssuer, Lifecycle!Revoke
    <3> QED BY <3>2 DEF Simulated, Lifecycle!Next
  <2> QED BY <1>5, <2>1, <2>2, <2>3, <2>4
<1>6. ASSUME NEW s \in Symbols, NEW reserves \in Reserves,
             ApplyIssuer(s, reserves) \/ AttReserves(s, reserves)
      PROVE  Simulated
  <2>1. CASE ApplyIssuer(s, reserves)
    <3>1. /\ issuers[s].status = "NONE"
          /\ issuers'[s].status = "APPLIED"
          /\ \A t \in Symbols \ {s} : issuers'[t].status = issuers[t].status
      BY <1>1, <2>1 DEF ApplyIssuer, Exists, NoIssuer
    <3>2. Lifecycle!Apply(s)
      BY <1>1, <3>1, StatusChange DEF Lifecycle!Apply, Lifecycle!Move
    <3> QED BY <3>2 DEF Simulated, Lifecycle!Next
  <2>2. CASE AttReserves(s, reserves)
    <3>1. \A t \in Symbols : issuers'[t].status = issuers[t].status
      BY <1>1, <2>2 DEF AttReserves, IssuerRow
    <3> QED BY <1>2, <3>1
  <2> QED BY <1>6, <2>1, <2>2
<1>7. ASSUME NEW s \in Symbols, NEW auditor \in Auditors, AttestAudit(auditor, s)
      PROVE  Simulated
  <2>1. /\ issuers'[s].status = IF issuers[s].status = "APPLIED" THEN "AUDITED" ELSE issuers[s].status
        /\ \A t \in Symbols \ {s} : issuers'[t].status = issuers[t].status
    BY <1>1, <1>7 DEF AttestAudit, IssuerRow
  <2>2. CASE issuers[s].status = "APPLIED"
    <3>1. Lifecycle!Audit(s)
      BY <1>1, <2>1, <2>2, StatusChange DEF Lifecycle!Audit, Lifecycle!Move
    <3> QED BY <3>1 DEF Simulated, Lifecycle!Next
  <2>3. CASE issuers[s].status # "APPLIED" BY <1>2, <2>1, <2>3
  <2> QED BY <2>2, <2>3
<1> QED BY <1>3, <1>4, <1>5, <1>6, <1>7 DEF Quiet

LEMMA NextSimulated == IInv /\ [Next]_vars => Simulated
<1>1. SUFFICES ASSUME IInv, [Next]_vars PROVE Simulated OBVIOUS
<1>2. Issued \in [Symbols -> Nat] BY <1>1, IssuedType
<1>3. CASE UNCHANGED vars BY <1>3 DEF vars, Simulated, StatusOf, Issued
<1>4. ASSUME NEW s \in Symbols, NEW q \in Quantities, NEW to \in Holders, Mint(s, to, q)
      PROVE  Simulated
  <2>1. q \in Nat BY IssueAssumption
  <2>2. /\ Issued'[s] = Issued[s] + q /\ q > 0 /\ CanMint(issuers[s])
        /\ \A t \in Symbols \ {s} : Issued'[t] = Issued[t]
        /\ \A t \in Symbols : issuers'[t].status = issuers[t].status
    BY <1>1, <1>4, <2>1, MintFacts
  <2>3. StatusOf' = StatusOf /\ StatusOf[s] = "LIVE"
    BY <2>2, StatusSame DEF StatusOf, CanMint
  <2>4. Issued' = [Issued EXCEPT ![s] = Issued'[s]]
    BY <2>2 DEF Issued
  <2>5. Issued'[s] > Issued[s] BY <1>2, <2>1, <2>2
  <2>6. Lifecycle!Mint(s) BY <2>3, <2>4, <2>5 DEF Lifecycle!Mint
  <2> QED BY <2>6 DEF Simulated, Lifecycle!Next
<1>5. ASSUME NEW s \in Symbols, NEW q \in Quantities, Burn(s, q)
      PROVE  Simulated
  <2>1. q \in Nat BY IssueAssumption
  <2>2. /\ Issued'[s] = Issued[s] - q /\ q > 0 /\ Exists(s)
        /\ \A t \in Symbols \ {s} : Issued'[t] = Issued[t]
        /\ \A t \in Symbols : issuers'[t].status = issuers[t].status
    BY <1>1, <1>5, <2>1, BurnFacts
  <2>3. StatusOf' = StatusOf /\ StatusOf[s] # "NONE"
    BY <2>2, StatusSame DEF StatusOf, Exists
  <2>4. Issued' = [Issued EXCEPT ![s] = Issued'[s]]
    BY <2>2 DEF Issued
  <2>5. Issued'[s] < Issued[s] BY <1>2, <2>1, <2>2
  <2>6. Lifecycle!Burn(s) BY <2>3, <2>4, <2>5 DEF Lifecycle!Burn
  <2> QED BY <2>6 DEF Simulated, Lifecycle!Next
<1> QED BY <1>1, <1>3, <1>4, <1>5, NextSplit, QuietSimulated

LEMMA InitSimulated == Init => Lifecycle!Init
BY DEF Init, TokenInit, Lifecycle!Init, StatusOf, Issued, NoToken, NoIssuer

(* Every behaviour of the two contracts is one of IssuerLifecycle.         *)
THEOREM LifecycleCorrect == Spec => ImplementsLifecycle
<1>1. Init => Lifecycle!Init BY InitSimulated
<1>2. IInv /\ [Next]_vars => [Lifecycle!Next]_<<StatusOf, Issued>>
  BY NextSimulated DEF Simulated
<1> QED BY <1>1, <1>2, Correct, PTL DEF Spec, ImplementsLifecycle, Lifecycle!Spec

-----------------------------------------------------------------------------
(* Rates and conversions.  What a conversion loses it loses for good: an   *)
(* amount that a worth covers costs no more than what was worth it.        *)
LEMMA BestRate ==
    /\ HighestRate \in Nat \ {0}
    /\ \A q \in Rates \cup {FxScale} : q \in Nat \ {0} /\ q <= HighestRate
<1> DEFINE Quotes == Rates \cup {FxScale}
<1>1. Quotes \subseteq Nat \ {0} /\ Quotes # {} /\ IsFiniteSet(Quotes)
  <2>1. IsFiniteSet(Rates) /\ Quotes \subseteq Nat \ {0}
    BY TreasAssumption DEF FxAssumption
  <2> QED BY <2>1, FS_AddElement
<1>2. HighestRate = CHOOSE r \in Quotes : \A q \in Quotes : q <= r BY DEF HighestRate
<1> HIDE DEF Quotes
<1>3. \E r \in Quotes : \A q \in Quotes : q <= r BY <1>1, Greatest
<1>4. HighestRate \in Quotes /\ \A q \in Quotes : q <= HighestRate BY <1>2, <1>3
<1> QED BY <1>1, <1>4 DEF Quotes

LEMMA LongestType == LongestTTL \in Nat /\ \A ttl \in TTLs : ttl \in Nat /\ ttl <= LongestTTL
<1>1. TTLs \subseteq Nat /\ TTLs # {} /\ IsFiniteSet(TTLs)
  BY TreasAssumption DEF FxAssumption
<1>2. \E ttl \in TTLs : \A t \in TTLs : t <= ttl BY <1>1, Greatest
<1> QED BY <1>1, <1>2 DEF LongestTTL

LEMMA RateType ==
    ASSUME FxTypeOK, NEW c
    PROVE  Rate(c) \in Nat \ {0} /\ Rate(c) <= HighestRate /\ FxScale \in Nat \ {0}
<1>1. Rate(c) \in Rates \cup {FxScale} BY DEF Rate, FxTypeOK
<1> QED BY <1>1, BestRate

LEMMA ToCusdFacts ==
    ASSUME FxTypeOK, NEW c, NEW n \in Nat
    PROVE  /\ ToCusd(c, n) \in Nat
           /\ FxScale * ToCusd(c, n) <= n * Rate(c)
           /\ FxScale * ToCusd(c, n) <= n * HighestRate
<1> DEFINE r == Rate(c)
           s == FxScale
           worth == ToCusd(c, n)
<1>1. r \in Nat \ {0} /\ s \in Nat \ {0} /\ r <= HighestRate /\ HighestRate \in Nat
  BY RateType, BestRate
<1>2. worth \in Nat /\ s * worth <= n * r
  <2>1. CASE n = 0
    <3>1. worth = 0 BY <2>1 DEF ToCusd
    <3> HIDE DEF worth, r, s
    <3> QED BY <1>1, <2>1, <3>1
  <2>2. CASE n # 0
    <3>1. worth = (n * r) \div s BY <2>2 DEF ToCusd
    <3> HIDE DEF worth, r, s
    <3>2. n * r \in Nat BY <1>1
    <3> QED BY <1>1, <3>1, <3>2, Division
  <2> QED BY <2>1, <2>2
<1>3. n * r <= n * HighestRate
  <2> HIDE DEF r
  <2> QED BY <1>1
<1>4. n * r \in Nat /\ n * HighestRate \in Nat /\ s * worth \in Nat
  <2> HIDE DEF r, s, worth
  <2> QED BY <1>1, <1>2
<1> HIDE DEF r, s, worth
<1>5. s * worth <= n * HighestRate BY <1>2, <1>3, <1>4
<1> QED BY <1>2, <1>5 DEF r, s, worth

LEMMA ToLocalFacts ==
    ASSUME FxTypeOK, NEW c, NEW n \in Nat
    PROVE  ToLocal(c, n) \in Nat /\ Rate(c) * ToLocal(c, n) <= n * FxScale
<1> DEFINE r == Rate(c)
           s == FxScale
           local == ToLocal(c, n)
<1>1. r \in Nat \ {0} /\ s \in Nat \ {0} BY RateType
<1>2. CASE n = 0
  <2>1. local = 0 BY <1>2 DEF ToLocal
  <2>2. local \in Nat /\ r * local <= n * s
    <3> HIDE DEF local, r, s
    <3> QED BY <1>1, <1>2, <2>1
  <2> QED BY <2>2
<1>3. CASE n # 0
  <2>1. local = (n * s) \div r BY <1>3 DEF ToLocal
  <2>2. local \in Nat /\ r * local <= n * s
    <3> HIDE DEF local, r, s
    <3>1. n * s \in Nat BY <1>1
    <3> QED BY <1>1, <2>1, <3>1, Division
  <2> QED BY <2>2
<1> QED BY <1>2, <1>3

LEMMA CostsNoMore ==
    ASSUME FxTypeOK, NEW c, NEW n \in Nat, NEW amount \in Nat, amount <= ToCusd(c, n)
    PROVE  ToLocal(c, amount) <= n
<1> DEFINE r == Rate(c)
           s == FxScale
           worth == ToCusd(c, n)
           cost == ToLocal(c, amount)
<1>1. r \in Nat \ {0} /\ s \in Nat \ {0} BY RateType
<1>2. worth \in Nat /\ s * worth <= n * r BY ToCusdFacts
<1>3. cost \in Nat /\ r * cost <= amount * s BY ToLocalFacts
<1>4. amount <= worth OBVIOUS
<1>5. cost <= n
  <2> HIDE DEF r, s, worth, cost
  <2>1. s * amount <= s * worth BY <1>1, <1>2, <1>4
  <2>2. s * amount \in Nat /\ s * worth \in Nat /\ r * cost \in Nat /\ n * r \in Nat
    BY <1>1, <1>2, <1>3
  <2>3. s * amount = amount * s BY <1>1
  <2>4. r * cost <= n * r BY <1>2, <1>3, <2>1, <2>2, <2>3
  <2>5. ASSUME n + 1 <= cost PROVE FALSE
    <3>1. r * (n + 1) <= r * cost BY <1>1, <1>3, <2>5
    <3>2. r * (n + 1) = n * r + r BY <1>1
    <3> QED BY <1>1, <2>2, <2>4, <3>1, <3>2
  <2> QED BY <1>3, <2>5
<1> QED BY <1>5

(* Converting an amount there and back at one rate never gains             *)
(* (local_to_cusd_atoms, cusd_to_local_atoms): both round down, whichever  *)
(* comes first, so subsidies and payouts make nothing out of the rounding. *)
THEOREM ConversionsNeverGain ==
    ASSUME FxTypeOK, NEW c, NEW n \in Nat
    PROVE  ToLocal(c, ToCusd(c, n)) <= n /\ ToCusd(c, ToLocal(c, n)) <= n
<1> DEFINE r == Rate(c)
           s == FxScale
           local == ToLocal(c, n)
           back == ToCusd(c, local)
<1>1. ToLocal(c, ToCusd(c, n)) <= n
  <2>1. ToCusd(c, n) \in Nat BY ToCusdFacts
  <2>2. ToCusd(c, n) <= ToCusd(c, n) BY <2>1
  <2> QED BY <2>1, <2>2, CostsNoMore
<1>2. r \in Nat \ {0} /\ s \in Nat \ {0} BY RateType
<1>3. local \in Nat /\ r * local <= n * s BY ToLocalFacts
<1>4. back \in Nat /\ s * back <= local * r
  <2> HIDE DEF local
  <2> QED BY <1>3, ToCusdFacts
<1>5. back <= n
  <2> HIDE DEF r, s, local, back
  <2>1. r * local = local * r /\ n * s = s * n BY <1>2, <1>3
  <2>2. s * back \in Nat /\ local * r \in Nat /\ s * n \in Nat BY <1>2, <1>3, <1>4
  <2>3. s * back <= s * n BY <1>3, <1>4, <2>1, <2>2
  <2>4. ASSUME n + 1 <= back PROVE FALSE
    <3>1. s * (n + 1) <= s * back BY <1>2, <1>4, <2>4
    <3>2. s * (n + 1) = s * n + s BY <1>2
    <3> QED BY <1>2, <2>2, <2>3, <3>1, <3>2
  <2> QED BY <1>4, <2>4
<1> QED BY <1>1, <1>5

LEMMA PartFacts ==
    ASSUME NEW amount \in Nat, NEW bps \in Bps
    PROVE  Part(amount, bps) \in Nat /\ Part(amount, bps) <= amount
<1>1. bps \in Nat /\ bps <= 10000 BY DEF Bps
<1>2. amount * bps \in Nat /\ amount * bps <= 10000 * amount BY <1>1
<1>3. (amount * bps) \div 10000 \in Nat /\ (amount * bps) \div 10000 <= amount
  BY <1>2, Division, DivisionAtMost
<1> QED BY <1>3 DEF Part

-----------------------------------------------------------------------------
(* A ledger of markets.  Swept and contributed are sums over its rows.     *)
LedgerRow ==
    [symbol : Currencies \cup {"none"}, fees_local : 0..MaxFees, net_local : Nat,
     fees_cusd : Nat, net_cusd : Int, subsidy_in : Nat, subsidy_out : Nat]
Ledgers == [Markets -> LedgerRow]

SweptOf(rows) == SumFunctionOnSet([m \in Markets |-> rows[m].fees_cusd], Markets)
NetOf(rows) == SumFunctionOnSet([m \in Markets |-> rows[m].net_cusd], Markets)

(* A row balances in its own currency, and was swept of no more than its   *)
(* fees were worth at the best of rates.                                   *)
InBalance(row) == row.net_local = row.fees_local + row.subsidy_in - row.subsidy_out
SweptWithin(row) == row.fees_cusd * FxScale <= row.fees_local * HighestRate

GoodLedger(rows) ==
    /\ rows \in Ledgers
    /\ \A m \in Markets : InBalance(rows[m]) /\ SweptWithin(rows[m])
    /\ NetOf(rows) = SweptOf(rows)

LEMMA LedgerSums ==
    ASSUME NEW rows \in Ledgers PROVE SweptOf(rows) \in Nat /\ NetOf(rows) \in Int
<1> DEFINE f == [m \in Markets |-> rows[m].fees_cusd]
           g == [m \in Markets |-> rows[m].net_cusd]
<1>1. (\A m \in Markets : f[m] \in Nat) /\ \A m \in Markets : g[m] \in Int
  BY DEF Ledgers, LedgerRow
<1>2. IsFiniteSet(Markets) BY TreasAssumption
<1>3. SweptOf(rows) = SumFunctionOnSet(f, Markets) /\ NetOf(rows) = SumFunctionOnSet(g, Markets)
  BY DEF SweptOf, NetOf
<1> HIDE DEF f, g
<1>4. SumFunctionOnSet(f, Markets) \in Nat BY <1>1, <1>2, SumType
<1>5. SumFunctionOnSet(g, Markets) \in Int BY <1>1, <1>2, SumType
<1> QED BY <1>3, <1>4, <1>5

(* One row moves the sums by as much as it moves.                          *)
LEMMA OneRowMoves ==
    ASSUME NEW rows \in Ledgers, NEW next \in Ledgers, NEW m \in Markets,
           \A n \in Markets \ {m} : next[n] = rows[n]
    PROVE  /\ SweptOf(next) = SweptOf(rows) - rows[m].fees_cusd + next[m].fees_cusd
           /\ NetOf(next) = NetOf(rows) - rows[m].net_cusd + next[m].net_cusd
<1> DEFINE f == [n \in Markets |-> rows[n].fees_cusd]
           g == [n \in Markets |-> next[n].fees_cusd]
           p == [n \in Markets |-> rows[n].net_cusd]
           q == [n \in Markets |-> next[n].net_cusd]
<1>1. /\ \A n \in Markets : f[n] \in Int /\ g[n] \in Int
      /\ \A n \in Markets \ {m} : f[n] = g[n]
      /\ \A n \in Markets : p[n] \in Int /\ q[n] \in Int
      /\ \A n \in Markets \ {m} : p[n] = q[n]
  BY DEF Ledgers, LedgerRow
<1>2. IsFiniteSet(Markets) BY TreasAssumption
<1>3. /\ f[m] = rows[m].fees_cusd /\ g[m] = next[m].fees_cusd
      /\ p[m] = rows[m].net_cusd /\ q[m] = next[m].net_cusd
  OBVIOUS
<1>4. /\ SweptOf(rows) = SumFunctionOnSet(f, Markets)
      /\ SweptOf(next) = SumFunctionOnSet(g, Markets)
      /\ NetOf(rows) = SumFunctionOnSet(p, Markets)
      /\ NetOf(next) = SumFunctionOnSet(q, Markets)
  BY DEF SweptOf, NetOf
<1> HIDE DEF f, g, p, q
<1>5. SumFunctionOnSet(g, Markets) = SumFunctionOnSet(f, Markets) - f[m] + g[m]
  BY <1>1, <1>2, SumChange
<1>6. SumFunctionOnSet(q, Markets) = SumFunctionOnSet(p, Markets) - p[m] + q[m]
  BY <1>1, <1>2, SumChange
<1> QED BY <1>3, <1>4, <1>5, <1>6

LEMMA OneRowGood ==
    ASSUME NEW rows, GoodLedger(rows), NEW next \in Ledgers, NEW m \in Markets,
           \A n \in Markets \ {m} : next[n] = rows[n],
           InBalance(next[m]), SweptWithin(next[m]),
           next[m].net_cusd - rows[m].net_cusd = next[m].fees_cusd - rows[m].fees_cusd
    PROVE  /\ GoodLedger(next)
           /\ SweptOf(next) = SweptOf(rows) - rows[m].fees_cusd + next[m].fees_cusd
<1>1. rows \in Ledgers /\ NetOf(rows) = SweptOf(rows) BY DEF GoodLedger
<1>2. /\ SweptOf(next) = SweptOf(rows) - rows[m].fees_cusd + next[m].fees_cusd
      /\ NetOf(next) = NetOf(rows) - rows[m].net_cusd + next[m].net_cusd
  BY <1>1, OneRowMoves
<1>3. /\ SweptOf(rows) \in Int
      /\ rows[m].fees_cusd \in Int /\ next[m].fees_cusd \in Int
      /\ rows[m].net_cusd \in Int /\ next[m].net_cusd \in Int
  BY <1>1, LedgerSums DEF Ledgers, LedgerRow
<1>4. NetOf(next) = SweptOf(next) BY <1>1, <1>2, <1>3
<1>5. \A n \in Markets : InBalance(next[n]) /\ SweptWithin(next[n]) BY DEF GoodLedger
<1> QED BY <1>2, <1>4, <1>5 DEF GoodLedger

(* A fee is added to the row and to its net contribution.                  *)
LEMMA AccruedGood ==
    ASSUME GoodLedger(marketpnl), NEW m \in Markets, NEW c \in Currencies, NEW amount \in Fees,
           AccrueFee(m, c, amount)
    PROVE  GoodLedger(marketpnl') /\ SweptOf(marketpnl') = SweptOf(marketpnl)
<1> DEFINE row == marketpnl[m]
           new == [row EXCEPT !.symbol = IF @ = "none" THEN c ELSE @,
                              !.fees_local = @ + amount,
                              !.net_local = @ + amount]
<1>1. /\ marketpnl \in Ledgers /\ row \in LedgerRow /\ InBalance(row) /\ SweptWithin(row)
      /\ amount \in Nat /\ row.fees_local + amount <= MaxFees
  BY TreasAssumption DEF GoodLedger, Ledgers, AccrueFee
<1>w. marketpnl' = [marketpnl EXCEPT ![m] = new]
  BY <1>1 DEF AccrueFee, Ledgers, LedgerRow
<1>2. /\ row.fees_local + amount \in 0..MaxFees /\ row.net_local + amount \in Nat
      /\ MaxFees \in Nat
  BY <1>1, TreasAssumption DEF LedgerRow
<1>3. new \in LedgerRow BY <1>1, <1>2 DEF LedgerRow
<1>4. /\ new.fees_local = row.fees_local + amount
      /\ new.net_local = row.net_local + amount
      /\ new.fees_cusd = row.fees_cusd /\ new.net_cusd = row.net_cusd
      /\ new.subsidy_in = row.subsidy_in /\ new.subsidy_out = row.subsidy_out
  BY <1>1 DEF LedgerRow
<1>5. /\ row.fees_local \in Nat /\ row.net_local \in Nat /\ row.fees_cusd \in Nat
      /\ row.net_cusd \in Int /\ row.subsidy_in \in Nat /\ row.subsidy_out \in Nat
  BY <1>1 DEF LedgerRow
<1> HIDE DEF row, new
<1>6. InBalance(new) BY <1>1, <1>4, <1>5 DEF InBalance
<1>7. SweptWithin(new)
  <2>1. HighestRate \in Nat /\ FxScale \in Nat
    <3>1. FxScale \in Rates \cup {FxScale} OBVIOUS
    <3> QED BY <3>1, BestRate
  <2>2. row.fees_local * HighestRate <= (row.fees_local + amount) * HighestRate
    BY <1>1, <1>5, <2>1
  <2>3. /\ row.fees_cusd * FxScale \in Int /\ row.fees_local * HighestRate \in Int
        /\ (row.fees_local + amount) * HighestRate \in Int
    BY <1>1, <1>5, <2>1
  <2> QED BY <1>1, <1>4, <2>2, <2>3 DEF SweptWithin
<1>8. new.net_cusd - marketpnl[m].net_cusd = new.fees_cusd - marketpnl[m].fees_cusd
  BY <1>4, <1>5 DEF row
<1>9. /\ marketpnl' \in Ledgers /\ marketpnl'[m] = new
      /\ \A n \in Markets \ {m} : marketpnl'[n] = marketpnl[n]
  BY <1>w, <1>1, <1>3 DEF Ledgers
<1>10. /\ GoodLedger(marketpnl')
       /\ SweptOf(marketpnl') = SweptOf(marketpnl) - marketpnl[m].fees_cusd + new.fees_cusd
  <2>1. /\ InBalance(marketpnl'[m]) /\ SweptWithin(marketpnl'[m])
        /\ marketpnl'[m].net_cusd - marketpnl[m].net_cusd
               = marketpnl'[m].fees_cusd - marketpnl[m].fees_cusd
    BY <1>6, <1>7, <1>8, <1>9
  <2>2. /\ GoodLedger(marketpnl')
        /\ SweptOf(marketpnl')
               = SweptOf(marketpnl) - marketpnl[m].fees_cusd + marketpnl'[m].fees_cusd
    BY ONLY GoodLedger(marketpnl), m \in Markets, <1>9, <2>1, OneRowGood
  <2> QED BY <1>9, <2>2
<1>11. SweptOf(marketpnl) \in Int BY <1>1, LedgerSums
<1> QED BY <1>4, <1>5, <1>10, <1>11 DEF row

(* A sweep takes the row to its slice of what its fees are worth now.      *)
LEMMA SweptGood ==
    ASSUME FxTypeOK, GoodLedger(marketpnl), NEW m \in Markets,
           params.sweep_slice_bps \in Bps, Sweep(m)
    PROVE  /\ ToSweep(m) \in Nat /\ GoodLedger(marketpnl')
           /\ SweptOf(marketpnl') = SweptOf(marketpnl) + ToSweep(m)
<1> DEFINE row == marketpnl[m]
           slice == ToSweep(m)
           new == [row EXCEPT !.fees_cusd = @ + slice, !.net_cusd = @ + slice]
           worth == ToCusd(row.symbol, row.fees_local)
           target == Part(worth, params.sweep_slice_bps)
<1>1. marketpnl \in Ledgers /\ row \in LedgerRow /\ InBalance(row)
  BY DEF GoodLedger, Ledgers
<1>2. /\ row.fees_local \in Nat /\ row.net_local \in Nat /\ row.fees_cusd \in Nat
      /\ row.net_cusd \in Int /\ row.subsidy_in \in Nat /\ row.subsidy_out \in Nat
  BY <1>1, TreasAssumption DEF LedgerRow
<1>3. worth \in Nat /\ FxScale * worth <= row.fees_local * HighestRate
  BY <1>2, ToCusdFacts
<1>4. target \in Nat /\ target <= worth
  <2> HIDE DEF worth
  <2> QED BY <1>3, PartFacts
<1>5. slice = target - row.fees_cusd /\ slice > 0 BY DEF ToSweep, Sweep
<1>w. marketpnl' = [marketpnl EXCEPT ![m] = new]
  <2>1. marketpnl' = [marketpnl EXCEPT ![m].fees_cusd = @ + slice, ![m].net_cusd = @ + slice]
    BY DEF Sweep
  <2> HIDE DEF slice
  <2> QED BY <1>1, <2>1 DEF Ledgers, LedgerRow
<1> HIDE DEF slice
<1>6. slice \in Nat /\ row.fees_cusd + slice = target /\ row.net_cusd + slice \in Int
  <2> HIDE DEF target, row
  <2> QED BY <1>2, <1>4, <1>5
<1>7. new \in LedgerRow
  <2>1. row.fees_cusd + slice \in Nat BY <1>2, <1>6
  <2> HIDE DEF target, worth
  <2> QED BY <1>1, <1>6, <2>1 DEF LedgerRow
<1>8. /\ new.fees_cusd = row.fees_cusd + slice /\ new.net_cusd = row.net_cusd + slice
      /\ new.fees_local = row.fees_local /\ new.net_local = row.net_local
      /\ new.subsidy_in = row.subsidy_in /\ new.subsidy_out = row.subsidy_out
  BY <1>1 DEF LedgerRow
<1> HIDE DEF row, worth, target, new
<1>9. InBalance(new) BY <1>1, <1>8 DEF InBalance
<1>10. SweptWithin(new)
  <2>1. FxScale \in Nat /\ HighestRate \in Nat BY RateType, BestRate
  <2>2. target * FxScale <= FxScale * worth BY <1>3, <1>4, <2>1
  <2>3. target * FxScale \in Nat /\ FxScale * worth \in Nat /\ row.fees_local * HighestRate \in Nat
    BY <1>2, <1>3, <1>4, <2>1
  <2>4. target * FxScale <= row.fees_local * HighestRate BY <1>3, <2>2, <2>3
  <2> QED BY <1>6, <1>8, <2>4 DEF SweptWithin
<1>11. new.net_cusd - marketpnl[m].net_cusd = new.fees_cusd - marketpnl[m].fees_cusd
  BY <1>2, <1>6, <1>8 DEF row
<1>12. /\ marketpnl' \in Ledgers /\ marketpnl'[m] = new
       /\ \A n \in Markets \ {m} : marketpnl'[n] = marketpnl[n]
  BY <1>w, <1>1, <1>7 DEF Ledgers
<1>13. /\ GoodLedger(marketpnl')
       /\ SweptOf(marketpnl') = SweptOf(marketpnl) - marketpnl[m].fees_cusd + new.fees_cusd
  <2>1. /\ InBalance(marketpnl'[m]) /\ SweptWithin(marketpnl'[m])
        /\ marketpnl'[m].net_cusd - marketpnl[m].net_cusd
               = marketpnl'[m].fees_cusd - marketpnl[m].fees_cusd
    BY <1>9, <1>10, <1>11, <1>12
  <2>2. /\ GoodLedger(marketpnl')
        /\ SweptOf(marketpnl')
               = SweptOf(marketpnl) - marketpnl[m].fees_cusd + marketpnl'[m].fees_cusd
    BY ONLY GoodLedger(marketpnl), m \in Markets, <1>12, <2>1, OneRowGood
  <2> QED BY <1>12, <2>2
<1>14. SweptOf(marketpnl) \in Int BY <1>1, LedgerSums
<1> QED BY <1>2, <1>6, <1>8, <1>13, <1>14 DEF row, slice

(* A subsidy moves as much into one row as out of the other.  The donor's  *)
(* net contribution covers it: it was worth the amount at today's rate.    *)
LEMMA SubsidizedGood ==
    ASSUME FxTypeOK, GoodLedger(marketpnl), NEW from \in Markets, NEW to \in Markets,
           NEW amount \in Nat, Subsidize(from, to, amount)
    PROVE  GoodLedger(marketpnl') /\ SweptOf(marketpnl') = SweptOf(marketpnl)
<1> DEFINE a == marketpnl[from]
           b == marketpnl[to]
           out == ToLocal(a.symbol, amount)
           in == ToLocal(b.symbol, amount)
           p == [a EXCEPT !.subsidy_out = @ + out, !.net_local = @ - out, !.net_cusd = @ - amount]
           q == [b EXCEPT !.subsidy_in = @ + in, !.net_local = @ + in, !.net_cusd = @ + amount]
           mid == [marketpnl EXCEPT ![from] = p]
<1>1. /\ marketpnl \in Ledgers /\ a \in LedgerRow /\ b \in LedgerRow
      /\ InBalance(a) /\ SweptWithin(a) /\ InBalance(b) /\ SweptWithin(b)
      /\ NetOf(marketpnl) = SweptOf(marketpnl) /\ from # to
  BY DEF GoodLedger, Ledgers, Subsidize
<1>w. marketpnl' = [mid EXCEPT ![to] = q]
  <2>1. marketpnl' = [marketpnl EXCEPT
              ![from].subsidy_out = @ + out,
              ![from].net_local = @ - out,
              ![from].net_cusd = @ - amount,
              ![to].subsidy_in = @ + in,
              ![to].net_local = @ + in,
              ![to].net_cusd = @ + amount]
    BY DEF Subsidize
  <2> HIDE DEF out, in
  <2> QED BY <1>1, <2>1 DEF Ledgers, LedgerRow
<1>2. /\ a.fees_local \in Nat /\ a.net_local \in Nat /\ a.fees_cusd \in Nat /\ a.net_cusd \in Int
      /\ a.subsidy_in \in Nat /\ a.subsidy_out \in Nat
      /\ b.fees_local \in Nat /\ b.net_local \in Nat /\ b.fees_cusd \in Nat /\ b.net_cusd \in Int
      /\ b.subsidy_in \in Nat /\ b.subsidy_out \in Nat
  BY <1>1, TreasAssumption DEF LedgerRow
<1>3. in \in Nat /\ out \in Nat BY ToLocalFacts
<1>4. out <= a.net_local
  <2>1. amount <= ToCusd(a.symbol, a.net_local)
    <3>1. ToCusd(a.symbol, a.net_local) \in Nat BY <1>2, ToCusdFacts
    <3> QED BY <3>1 DEF CanGive, Subsidize
  <2> QED BY <1>2, <2>1, CostsNoMore
<1>5. /\ a.subsidy_out + out \in Nat /\ a.net_local - out \in Nat /\ a.net_cusd - amount \in Int
      /\ b.subsidy_in + in \in Nat /\ b.net_local + in \in Nat /\ b.net_cusd + amount \in Int
  <2> HIDE DEF a, b, in, out
  <2> QED BY <1>2, <1>3, <1>4
<1> HIDE DEF in, out
<1>6. /\ p \in LedgerRow
      /\ p.fees_cusd = a.fees_cusd /\ p.net_cusd = a.net_cusd - amount
      /\ p.fees_local = a.fees_local /\ p.net_local = a.net_local - out
      /\ p.subsidy_in = a.subsidy_in /\ p.subsidy_out = a.subsidy_out + out
  BY <1>1, <1>5 DEF LedgerRow
<1>7. /\ q \in LedgerRow
      /\ q.fees_cusd = b.fees_cusd /\ q.net_cusd = b.net_cusd + amount
      /\ q.fees_local = b.fees_local /\ q.net_local = b.net_local + in
      /\ q.subsidy_in = b.subsidy_in + in /\ q.subsidy_out = b.subsidy_out
  BY <1>1, <1>5 DEF LedgerRow
<1> HIDE DEF p, q
<1>8. mid \in Ledgers /\ mid[from] = p /\ \A n \in Markets \ {from} : mid[n] = marketpnl[n]
  BY <1>1, <1>6 DEF Ledgers
<1> HIDE DEF mid
<1>9. /\ marketpnl' \in Ledgers /\ marketpnl'[to] = q
      /\ \A n \in Markets \ {to} : marketpnl'[n] = mid[n]
  BY <1>w, <1>7, <1>8 DEF Ledgers
<1>10. mid[to] = b /\ marketpnl'[from] = p
       /\ \A n \in Markets \ {from, to} : marketpnl'[n] = marketpnl[n]
  BY <1>1, <1>8, <1>9
<1> HIDE DEF a, b
<1>11. SweptOf(marketpnl') = SweptOf(marketpnl) /\ NetOf(marketpnl') = NetOf(marketpnl)
  <2>1. /\ SweptOf(mid) = SweptOf(marketpnl) - a.fees_cusd + p.fees_cusd
        /\ NetOf(mid) = NetOf(marketpnl) - a.net_cusd + p.net_cusd
    <3>1. /\ SweptOf(mid) = SweptOf(marketpnl) - marketpnl[from].fees_cusd + mid[from].fees_cusd
          /\ NetOf(mid) = NetOf(marketpnl) - marketpnl[from].net_cusd + mid[from].net_cusd
      BY ONLY from \in Markets, <1>1, <1>8, OneRowMoves
    <3> QED BY <1>8, <3>1 DEF a
  <2>2. /\ SweptOf(marketpnl') = SweptOf(mid) - b.fees_cusd + q.fees_cusd
        /\ NetOf(marketpnl') = NetOf(mid) - b.net_cusd + q.net_cusd
    <3>1. /\ SweptOf(marketpnl') = SweptOf(mid) - mid[to].fees_cusd + marketpnl'[to].fees_cusd
          /\ NetOf(marketpnl') = NetOf(mid) - mid[to].net_cusd + marketpnl'[to].net_cusd
      BY ONLY to \in Markets, <1>8, <1>9, OneRowMoves
    <3> QED BY <1>9, <1>10, <3>1
  <2>3. /\ SweptOf(marketpnl) \in Int /\ NetOf(marketpnl) \in Int
        /\ SweptOf(mid) \in Int /\ NetOf(mid) \in Int
    BY <1>1, <1>8, LedgerSums
  <2>4. SweptOf(mid) = SweptOf(marketpnl) /\ NetOf(mid) = NetOf(marketpnl) - amount
    BY <1>2, <1>6, <2>1, <2>3
  <2> QED BY <1>2, <1>7, <2>2, <2>3, <2>4
<1>12. InBalance(p) /\ InBalance(q) BY <1>1, <1>2, <1>3, <1>6, <1>7 DEF InBalance
<1>13. SweptWithin(p) /\ SweptWithin(q) BY <1>1, <1>6, <1>7 DEF SweptWithin
<1>14. \A n \in Markets : InBalance(marketpnl'[n]) /\ SweptWithin(marketpnl'[n])
  BY <1>9, <1>10, <1>12, <1>13 DEF GoodLedger
<1> QED BY <1>1, <1>9, <1>11, <1>14 DEF GoodLedger

-----------------------------------------------------------------------------
(* The inductive invariant.  Beside the types and the books it says of     *)
(* boosts that they are worth no more than what Representatives have paid, *)
(* not just deposited: a payment empties the deposit it takes.             *)
SettingsTypeOK ==
    /\ params \in {s.params : s \in ParamSets} \cup
           {[sweep_slice_bps |-> 0, cost_recovery_cusd |-> 0,
             max_subsidy_per_market_bps |-> 0, fee_to_yield_bps |-> 0]}
    /\ marketpref \in [Markets -> SUBSET (Currencies \cup {"GGOLD"})]
    /\ userpayout \in [Owners -> Currencies \cup {"GGOLD", "none"}]

PoolsTypeOK ==
    /\ reserve \in [cusd_balance : Nat, ggold_balance : Nat, reserve_gold_bps : Bps]
    /\ yield_pool \in Nat /\ claimed \in [Owners -> Nat]
    /\ outside \in Int /\ boosted \in Nat

Paid == SumFunctionOnSet([r \in Reps |-> boostbal[r].cghs_paid], Reps)
BoostedOnce == boosted * FxScale <= Paid * HighestRate

TreasInv ==
    /\ FxTypeOK /\ RepTypeOK /\ SettingsTypeOK /\ GoodLedger(marketpnl)
    /\ PoolsTypeOK /\ PoolsAddUp /\ BoostedOnce

LEMMA ParamsType ==
    ASSUME SettingsTypeOK
    PROVE  /\ params.sweep_slice_bps \in Bps /\ params.max_subsidy_per_market_bps \in Bps
           /\ params.fee_to_yield_bps \in Bps /\ params.cost_recovery_cusd \in Int
<1> DEFINE P == [sweep_slice_bps : Bps, cost_recovery_cusd : Int,
                 max_subsidy_per_market_bps : Bps, fee_to_yield_bps : Bps]
<1>1. \A s \in ParamSets : s.params \in P BY TreasAssumption
<1>2. 0 \in Bps BY DEF Bps
<1>3. params \in P BY <1>1, <1>2 DEF SettingsTypeOK
<1> QED BY <1>3

LEMMA SumsAreNaturals ==
    ASSUME GoodLedger(marketpnl), PoolsTypeOK
    PROVE  /\ Swept = SweptOf(marketpnl) /\ Swept \in Nat
           /\ SumFunctionOnSet(claimed, Owners) \in Nat
<1>1. Swept = SweptOf(marketpnl) BY DEF Swept, SweptOf
<1>2. marketpnl \in Ledgers BY DEF GoodLedger
<1>3. SweptOf(marketpnl) \in Nat BY <1>2, LedgerSums
<1>4. IsFiniteSet(Owners) /\ \A u \in Owners : claimed[u] \in Nat
  BY TreasAssumption DEF PoolsTypeOK
<1>5. SumFunctionOnSet(claimed, Owners) \in Nat BY <1>4, SumType
<1> QED BY <1>1, <1>3, <1>5

(* What an action leaves alone keeps its part of the invariant.            *)
LEMMA FxStays == ASSUME FxTypeOK, UNCHANGED fxVars PROVE FxTypeOK'
BY DEF fxVars, FxTypeOK

LEMMA RepStays ==
    ASSUME RepTypeOK, UNCHANGED repVars PROVE RepTypeOK' /\ Paid' = Paid
BY DEF repVars, RepTypeOK, Available, Paid

LEMMA LedgersStay ==
    ASSUME GoodLedger(marketpnl), UNCHANGED marketpnl
    PROVE  GoodLedger(marketpnl)' /\ Swept' = Swept
BY DEF GoodLedger, NetOf, SweptOf, Swept

LEMMA SettingsStay ==
    ASSUME SettingsTypeOK, UNCHANGED <<params, menuVars>> PROVE SettingsTypeOK'
BY DEF SettingsTypeOK, menuVars

LEMMA PoolsStay ==
    ASSUME PoolsTypeOK, PoolsAddUp, UNCHANGED <<reserveVars, yieldVars>>, Swept' = Swept
    PROVE  PoolsTypeOK' /\ PoolsAddUp'
BY DEF PoolsTypeOK, PoolsAddUp, reserveVars, yieldVars

LEMMA BoostsStay ==
    ASSUME BoostedOnce, UNCHANGED boosted, Paid' = Paid PROVE BoostedOnce'
BY DEF BoostedOnce

-----------------------------------------------------------------------------
(* Quotes.                                                                 *)
Quotes == [cusd_ppm : {FxScale} \cup Rates, expires : BOOLEAN, left : 0..LongestTTL,
           age : 0..OldestInTime]
InTime(row) == row.expires => row.age + row.left <= OldestInTime

LEMMA Limits == LongestTTL \in Nat /\ MaxAge \in Nat /\ OldestInTime = MaxAge + LongestTTL
BY LongestType, TreasAssumption DEF FxAssumption, OldestInTime

LEMMA NoQuoteType == NoQuote \in Quotes /\ InTime(NoQuote)
BY Limits DEF NoQuote, Quotes, InTime

LEMMA QuoteUpserted ==
    ASSUME FxTypeOK, NEW c \in Locals, NEW ppm \in Rates, NEW ttl \in TTLs, NEW age \in 0..MaxAge,
           UpsertFx(c, ppm, ttl, age)
    PROVE  /\ fx' \in [Locals -> Quotes]
           /\ \A d \in Locals : InTime(fx'[d])
           /\ oracle' = oracle
<1>1. ttl \in 0..LongestTTL BY LongestType, TreasAssumption DEF FxAssumption
<1> DEFINE row == [cusd_ppm |-> ppm, expires |-> ttl > 0, left |-> ttl, age |-> age]
<1>2. row \in Quotes /\ InTime(row)
  <2>1. age \in 0..OldestInTime /\ age + ttl <= OldestInTime BY <1>1, Limits
  <2>2. (ttl > 0) \in BOOLEAN OBVIOUS
  <2> QED BY <1>1, <2>1, <2>2 DEF Quotes, InTime
<1>3. /\ fx \in [Locals -> Quotes] /\ \A d \in Locals : InTime(fx[d])
  BY DEF FxTypeOK, Quotes, InTime
<1>4. fx' = [fx EXCEPT ![c] = row] /\ oracle' = oracle BY DEF UpsertFx
<1> HIDE DEF row
<1> QED BY <1>2, <1>3, <1>4

LEMMA QuoteAges ==
    ASSUME NEW row \in Quotes, InTime(row)
    PROVE  OlderQuote(row) \in Quotes /\ InTime(OlderQuote(row))
<1>1. row.left \in 0..LongestTTL /\ row.age \in 0..OldestInTime /\ row.expires \in BOOLEAN
  BY DEF Quotes
<1>2. CASE row.expires /\ row.left > 1
  <2>1. OlderQuote(row) = [row EXCEPT !.left = row.left - 1, !.age = row.age + 1]
    BY <1>1, <1>2 DEF OlderQuote
  <2>2. /\ row.left - 1 \in 0..LongestTTL /\ row.age + 1 \in 0..OldestInTime
        /\ row.age + 1 + (row.left - 1) <= OldestInTime
    BY <1>1, <1>2, Limits DEF InTime
  <2>3. /\ OlderQuote(row) \in Quotes
        /\ OlderQuote(row).left = row.left - 1 /\ OlderQuote(row).age = row.age + 1
    BY <2>1, <2>2 DEF Quotes
  <2> QED BY <2>2, <2>3 DEF InTime
<1>3. CASE row.expires /\ row.left <= 1
  <2>1. OlderQuote(row) = NoQuote BY <1>1, <1>3 DEF OlderQuote
  <2> QED BY <2>1, NoQuoteType
<1>4. CASE ~row.expires
  <2>1. OlderQuote(row) = [row EXCEPT !.age = Aging(row.age)] BY <1>4 DEF OlderQuote
  <2>2. Aging(row.age) \in 0..OldestInTime BY <1>1, Limits DEF Aging
  <2>3. OlderQuote(row) \in Quotes /\ OlderQuote(row).expires = row.expires
    BY <2>1, <2>2 DEF Quotes
  <2> QED BY <1>4, <2>3 DEF InTime
<1>5. row.left > 1 \/ row.left <= 1 BY <1>1
<1> QED BY <1>1, <1>2, <1>3, <1>4, <1>5

LEMMA FxMovesType ==
    ASSUME FxTypeOK, FxMoves PROVE FxTypeOK'
<1>1. FxTypeOK <=> /\ fx \in [Locals -> Quotes] /\ oracle \in {"none", "any", "signed"}
                   /\ \A c \in Locals : InTime(fx[c])
  BY DEF FxTypeOK, Quotes, InTime
<1>2. FxTypeOK' <=> /\ fx' \in [Locals -> Quotes] /\ oracle' \in {"none", "any", "signed"}
                    /\ \A c \in Locals : InTime(fx'[c])
  BY DEF FxTypeOK, Quotes, InTime
<1>3. MaxAge \in Nat BY TreasAssumption DEF FxAssumption
<1>4. CASE FxTick
  <2>1. /\ fx' = [c \in Locals |-> OlderQuote(fx[c])] /\ oracle' = oracle
    BY <1>4 DEF FxTick
  <2>2. \A c \in Locals : OlderQuote(fx[c]) \in Quotes /\ InTime(OlderQuote(fx[c]))
    BY <1>1, QuoteAges
  <2> QED BY <1>1, <1>2, <2>1, <2>2
<1>5. ASSUME NEW c \in Locals, NEW ppm \in Rates, NEW ttl \in TTLs, NEW age \in 0..MaxAge,
             UpsertFx(c, ppm, ttl, age)
      PROVE  FxTypeOK'
  BY <1>1, <1>2, <1>5, QuoteUpserted
<1>6. ASSUME NEW c \in Locals, NEW ppm \in Rates, NEW ttl \in TTLs,
             SetFx(c, ppm, ttl) \/ PushFx(c, ppm, ttl)
      PROVE  FxTypeOK'
  BY <1>3, <1>5, <1>6 DEF SetFx, PushFx
<1>7. ASSUME NEW c \in Locals, NEW ppm \in Rates, NEW ttl \in TTLs, NEW age \in 0..(MaxAge + 1),
             PushFxSig(c, ppm, ttl, age)
      PROVE  FxTypeOK'
  <2>1. age \in 0..MaxAge BY <1>3, <1>7 DEF PushFxSig, Attested
  <2> QED BY <1>5, <1>7, <2>1 DEF PushFxSig
<1>8. ASSUME NEW signed \in Policies, SetOracleKey(signed) PROVE FxTypeOK'
  BY <1>1, <1>2, <1>8 DEF SetOracleKey
<1> QED BY <1>4, <1>6, <1>7, <1>8 DEF FxMoves

LEMMA FxMovesStep ==
    ASSUME TreasInv, FxMoves PROVE TreasInv'
<1>1. FxTypeOK' BY FxMovesType DEF TreasInv
<1>2. UNCHANGED <<repVars, settlementVars>> BY DEF FxMoves
<1>3. RepTypeOK' /\ Paid' = Paid BY <1>2, RepStays DEF TreasInv
<1>4. GoodLedger(marketpnl)' /\ Swept' = Swept
  BY <1>2, LedgersStay DEF TreasInv, settlementVars
<1>5. SettingsTypeOK' BY <1>2, SettingsStay DEF TreasInv, settlementVars
<1>6. PoolsTypeOK' /\ PoolsAddUp' BY <1>2, <1>4, PoolsStay DEF TreasInv, settlementVars
<1>7. BoostedOnce' BY <1>2, <1>3, BoostsStay DEF TreasInv, settlementVars, yieldVars
<1> QED BY <1>1, <1>3, <1>4, <1>5, <1>6, <1>7 DEF TreasInv

-----------------------------------------------------------------------------
(* Representatives: what is paid never decreases, a boost pays what there  *)
(* is.                                                                     *)
LEMMA PaidType == ASSUME RepTypeOK PROVE Paid \in Nat
<1> DEFINE f == [r \in Reps |-> boostbal[r].cghs_paid]
<1>1. \A r \in Reps : f[r] \in Nat BY DEF RepTypeOK
<1>2. IsFiniteSet(Reps) BY TreasAssumption DEF RepAssumption
<1> HIDE DEF f
<1>3. SumFunctionOnSet(f, Reps) \in Nat BY <1>1, <1>2, SumType
<1> QED BY <1>3 DEF Paid, f

LEMMA RepMovesType ==
    ASSUME RepTypeOK, RepMoves PROVE RepTypeOK' /\ Paid' = Paid
<1>1. BoostCap \in Nat /\ MaxFunded \in Nat /\ Boosts \subseteq Nat /\ Deposits \subseteq Nat \ {0}
  BY TreasAssumption DEF RepAssumption
<1>2. CASE boostbal' = boostbal
           /\ reps' \in [Reps -> [status : {"none", "active", "inactive"},
                                  boost_apy_bps : 0..BoostCap]]
  BY <1>2 DEF RepTypeOK, Available, Paid
<1>3. ASSUME NEW r \in Reps, RegRep(r) PROVE RepTypeOK' /\ Paid' = Paid
  BY <1>2, <1>3 DEF RegRep, RepTypeOK
<1>4. ASSUME NEW r \in Reps, UnregRep(r) PROVE RepTypeOK' /\ Paid' = Paid
  BY <1>2, <1>4 DEF UnregRep, RepTypeOK
<1>5. ASSUME NEW r \in Reps, NEW bps \in Boosts, SetBoost(r, bps) PROVE RepTypeOK' /\ Paid' = Paid
  <2>1. bps \in 0..BoostCap BY <1>1, <1>5 DEF SetBoost
  <2> QED BY <1>2, <1>5, <2>1 DEF SetBoost, RepTypeOK
<1>6. ASSUME NEW r \in Reps, NEW amount \in Deposits, Fund(r, amount)
      PROVE  RepTypeOK' /\ Paid' = Paid
  <2> DEFINE row == [boostbal[r] EXCEPT !.cghs_funded = boostbal[r].cghs_funded + amount]
  <2>1. boostbal' = [boostbal EXCEPT ![r] = row] /\ reps' = reps BY <1>6 DEF Fund
  <2>2. /\ boostbal[r].cghs_funded + amount \in 0..MaxFunded
        /\ boostbal[r].cghs_funded + amount - boostbal[r].cghs_paid >= 0
    BY <1>1, <1>6 DEF Fund, RepTypeOK, Available
  <2>3. /\ row \in [cghs_funded : 0..MaxFunded, cghs_paid : Nat]
        /\ row.cghs_funded - row.cghs_paid >= 0 /\ row.cghs_paid = boostbal[r].cghs_paid
    <3>1. boostbal[r] \in [cghs_funded : 0..MaxFunded, cghs_paid : Nat] BY DEF RepTypeOK
    <3>2. /\ row.cghs_funded = boostbal[r].cghs_funded + amount
          /\ row.cghs_paid = boostbal[r].cghs_paid
          /\ row \in [cghs_funded : 0..MaxFunded, cghs_paid : Nat]
      BY <2>2, <3>1
    <3> HIDE DEF row
    <3> QED BY <1>1, <2>2, <3>1, <3>2
  <2> HIDE DEF row
  <2>4. RepTypeOK' BY <2>1, <2>3 DEF RepTypeOK, Available
  <2>5. [q \in Reps |-> boostbal'[q].cghs_paid] = [q \in Reps |-> boostbal[q].cghs_paid]
    BY <2>1, <2>3 DEF RepTypeOK
  <2> QED BY <2>4, <2>5 DEF Paid
<1> QED BY <1>3, <1>4, <1>5, <1>6 DEF RepMoves

LEMMA RepMovesStep ==
    ASSUME TreasInv, RepMoves PROVE TreasInv'
<1>1. UNCHANGED <<fxVars, settlementVars>> BY DEF RepMoves
<1>2. FxTypeOK' BY <1>1, FxStays DEF TreasInv
<1>3. RepTypeOK' /\ Paid' = Paid BY RepMovesType DEF TreasInv
<1>4. GoodLedger(marketpnl)' /\ Swept' = Swept
  BY <1>1, LedgersStay DEF TreasInv, settlementVars
<1>5. SettingsTypeOK' BY <1>1, SettingsStay DEF TreasInv, settlementVars
<1>6. PoolsTypeOK' /\ PoolsAddUp' BY <1>1, <1>4, PoolsStay DEF TreasInv, settlementVars
<1>7. BoostedOnce' BY <1>1, <1>3, BoostsStay DEF TreasInv, settlementVars, yieldVars
<1> QED BY <1>2, <1>3, <1>4, <1>5, <1>6, <1>7 DEF TreasInv

LEMMA PayBoostStep ==
    ASSUME TreasInv, NEW r \in Reps, PayBoost(r) PROVE TreasInv'
<1> DEFINE left == Available(r)
           ref == ToCusd("CGHS", left)
           row == [boostbal[r] EXCEPT !.cghs_paid = boostbal[r].cghs_paid + left]
<1>1. /\ FxTypeOK /\ RepTypeOK /\ SettingsTypeOK /\ GoodLedger(marketpnl)
      /\ PoolsTypeOK /\ PoolsAddUp /\ BoostedOnce
  BY DEF TreasInv
<1>2. /\ boostbal' = [boostbal EXCEPT ![r] = row] /\ reps' = reps
      /\ yield_pool' = yield_pool + ref /\ boosted' = boosted + ref /\ claimed' = claimed
      /\ UNCHANGED <<fxVars, params, reserveVars, marketpnl, menuVars>>
  BY DEF PayBoost, AllPaid
<1>3. /\ boostbal[r].cghs_paid \in Nat /\ boostbal[r].cghs_funded \in 0..MaxFunded
      /\ MaxFunded \in Nat /\ left = boostbal[r].cghs_funded - boostbal[r].cghs_paid /\ left >= 0
  BY <1>1, TreasAssumption DEF RepTypeOK, Available, RepAssumption
<1> HIDE DEF left
<1>4. /\ left \in Nat /\ boostbal[r].cghs_paid + left = boostbal[r].cghs_funded
      /\ boostbal[r].cghs_funded \in Nat
  BY <1>3
<1>5. ref \in Nat /\ FxScale * ref <= left * HighestRate BY <1>1, <1>4, ToCusdFacts
<1>6. /\ row \in [cghs_funded : 0..MaxFunded, cghs_paid : Nat]
      /\ row.cghs_paid = boostbal[r].cghs_paid + left /\ row.cghs_funded - row.cghs_paid >= 0
  BY <1>1, <1>4 DEF RepTypeOK
<1> HIDE DEF row, ref
<1>7. FxTypeOK' BY <1>1, <1>2, FxStays
<1>8. GoodLedger(marketpnl)' /\ Swept' = Swept BY <1>1, <1>2, LedgersStay
<1>9. SettingsTypeOK' BY <1>1, <1>2, SettingsStay
<1>10. RepTypeOK' BY <1>1, <1>2, <1>6 DEF RepTypeOK, Available
<1>11. Paid' = Paid + left
  <2> DEFINE f == [q \in Reps |-> boostbal[q].cghs_paid]
             g == [q \in Reps |-> boostbal'[q].cghs_paid]
  <2>1. /\ \A q \in Reps : f[q] \in Int /\ g[q] \in Int
        /\ \A q \in Reps \ {r} : f[q] = g[q]
        /\ f[r] = boostbal[r].cghs_paid /\ g[r] = boostbal[r].cghs_paid + left
    BY <1>1, <1>2, <1>6, <1>10 DEF RepTypeOK
  <2>2. IsFiniteSet(Reps) BY TreasAssumption DEF RepAssumption
  <2>3. Paid = SumFunctionOnSet(f, Reps) /\ Paid' = SumFunctionOnSet(g, Reps) BY DEF Paid
  <2> HIDE DEF f, g
  <2>4. SumFunctionOnSet(g, Reps) = SumFunctionOnSet(f, Reps) - f[r] + g[r]
    BY <2>1, <2>2, SumChange
  <2>5. Paid \in Nat BY <1>1, PaidType
  <2> QED BY <1>3, <1>4, <2>1, <2>3, <2>4, <2>5
<1>12. PoolsTypeOK' BY <1>1, <1>2, <1>5 DEF PoolsTypeOK, reserveVars
<1>13. PoolsAddUp'
  <2>1. Swept \in Nat /\ SumFunctionOnSet(claimed, Owners) \in Nat BY <1>1, SumsAreNaturals
  <2>2. /\ reserve' = reserve /\ outside' = outside BY <1>2 DEF reserveVars
  <2>3. /\ reserve.cusd_balance \in Int /\ reserve.ggold_balance \in Int /\ yield_pool \in Int
        /\ outside \in Int /\ boosted \in Int
    BY <1>1 DEF PoolsTypeOK
  <2> QED BY <1>1, <1>2, <1>5, <1>8, <2>1, <2>2, <2>3 DEF PoolsAddUp
<1>14. BoostedOnce'
  <2>1. Paid \in Nat /\ HighestRate \in Nat /\ FxScale \in Nat /\ boosted \in Nat
    BY <1>1, PaidType, BestRate, RateType DEF PoolsTypeOK
  <2>2. boosted * FxScale <= Paid * HighestRate BY <1>1 DEF BoostedOnce
  <2>3. (boosted + ref) * FxScale = boosted * FxScale + FxScale * ref BY <1>5, <2>1
  <2>4. (Paid + left) * HighestRate = Paid * HighestRate + left * HighestRate BY <1>4, <2>1
  <2>5. /\ boosted * FxScale \in Int /\ FxScale * ref \in Int
        /\ Paid * HighestRate \in Int /\ left * HighestRate \in Int
    BY <1>4, <1>5, <2>1
  <2>6. (boosted + ref) * FxScale <= (Paid + left) * HighestRate
    BY <1>5, <2>2, <2>3, <2>4, <2>5
  <2> QED BY <1>2, <1>11, <2>6 DEF BoostedOnce
<1> QED BY <1>7, <1>8, <1>9, <1>10, <1>12, <1>13, <1>14 DEF TreasInv

-----------------------------------------------------------------------------
(* Governance and the reserve.                                             *)
LEMMA SetParamsStep ==
    ASSUME TreasInv, NEW s \in ParamSets, SetParams(s.params, s.reserve_gold_bps) PROVE TreasInv'
<1>1. /\ FxTypeOK' /\ RepTypeOK' /\ Paid' = Paid /\ GoodLedger(marketpnl)' /\ Swept' = Swept
  BY FxStays, RepStays, LedgersStay DEF SetParams, TreasInv
<1>2. params' = s.params /\ reserve' = [reserve EXCEPT !.reserve_gold_bps = s.reserve_gold_bps]
      /\ UNCHANGED <<outside, menuVars, yieldVars>>
  BY DEF SetParams
<1>3. s.reserve_gold_bps \in Bps BY TreasAssumption
<1>4. SettingsTypeOK' BY <1>2 DEF TreasInv, SettingsTypeOK, menuVars
<1>5. reserve \in [cusd_balance : Nat, ggold_balance : Nat, reserve_gold_bps : Bps]
  BY DEF TreasInv, PoolsTypeOK
<1>6. /\ reserve' \in [cusd_balance : Nat, ggold_balance : Nat, reserve_gold_bps : Bps]
      /\ reserve'.cusd_balance = reserve.cusd_balance
      /\ reserve'.ggold_balance = reserve.ggold_balance
  BY <1>2, <1>3, <1>5
<1>7. PoolsTypeOK' BY <1>2, <1>6 DEF TreasInv, PoolsTypeOK, yieldVars
<1>8. PoolsAddUp' BY <1>1, <1>2, <1>6 DEF TreasInv, PoolsAddUp, yieldVars
<1>9. BoostedOnce' BY <1>1, <1>2, BoostsStay DEF TreasInv, yieldVars
<1> QED BY <1>1, <1>4, <1>7, <1>8, <1>9 DEF TreasInv

LEMMA MenusStep ==
    ASSUME TreasInv, UNCHANGED <<fxVars, repVars, params, reserveVars, marketpnl, yieldVars>>,
           marketpref' \in [Markets -> SUBSET (Currencies \cup {"GGOLD"})],
           userpayout' \in [Owners -> Currencies \cup {"GGOLD", "none"}]
    PROVE  TreasInv'
<1>1. /\ FxTypeOK' /\ RepTypeOK' /\ Paid' = Paid /\ GoodLedger(marketpnl)' /\ Swept' = Swept
  BY FxStays, RepStays, LedgersStay DEF TreasInv
<1>2. SettingsTypeOK' BY DEF TreasInv, SettingsTypeOK
<1>3. PoolsTypeOK' /\ PoolsAddUp' BY <1>1, PoolsStay DEF TreasInv
<1>4. BoostedOnce' BY <1>1, BoostsStay DEF TreasInv, yieldVars
<1> QED BY <1>1, <1>2, <1>3, <1>4 DEF TreasInv

LEMMA SetMarketPrefStep ==
    ASSUME TreasInv, NEW m \in Licensed, NEW menu \in Menus, SetMarketPref(m, menu)
    PROVE  TreasInv'
<1>1. menu \in SUBSET (Currencies \cup {"GGOLD"}) BY TreasAssumption
<1>2. /\ marketpref' \in [Markets -> SUBSET (Currencies \cup {"GGOLD"})]
      /\ userpayout' \in [Owners -> Currencies \cup {"GGOLD", "none"}]
  BY <1>1 DEF SetMarketPref, TreasInv, SettingsTypeOK
<1> QED BY <1>2, MenusStep DEF SetMarketPref

LEMMA SetPayoutPrefStep ==
    ASSUME TreasInv, NEW u \in Owners, NEW m \in Markets, NEW c \in Currencies \cup {"GGOLD"},
           SetPayoutPref(u, m, c)
    PROVE  TreasInv'
<1>1. /\ marketpref' \in [Markets -> SUBSET (Currencies \cup {"GGOLD"})]
      /\ userpayout' \in [Owners -> Currencies \cup {"GGOLD", "none"}]
  BY DEF SetPayoutPref, TreasInv, SettingsTypeOK
<1> QED BY <1>1, MenusStep DEF SetPayoutPref

(* The reserve may change as long as its books follow.                     *)
LEMMA ReserveStep ==
    ASSUME TreasInv, UNCHANGED <<fxVars, repVars, params, marketpnl, menuVars, yieldVars>>,
           NEW cusd \in Nat, NEW gold \in Nat, outside' \in Int,
           reserve' = [reserve EXCEPT !.cusd_balance = cusd, !.ggold_balance = gold],
           cusd + gold - outside' = reserve.cusd_balance + reserve.ggold_balance - outside
    PROVE  TreasInv'
<1>1. /\ FxTypeOK' /\ RepTypeOK' /\ Paid' = Paid /\ GoodLedger(marketpnl)' /\ Swept' = Swept
  BY FxStays, RepStays, LedgersStay DEF TreasInv
<1>2. SettingsTypeOK' BY SettingsStay DEF TreasInv
<1>3. reserve \in [cusd_balance : Nat, ggold_balance : Nat, reserve_gold_bps : Bps]
  BY DEF TreasInv, PoolsTypeOK
<1>4. /\ reserve' \in [cusd_balance : Nat, ggold_balance : Nat, reserve_gold_bps : Bps]
      /\ reserve'.cusd_balance = cusd /\ reserve'.ggold_balance = gold
  BY <1>3
<1>5. PoolsTypeOK' BY <1>4 DEF TreasInv, PoolsTypeOK, yieldVars
<1>6. PoolsAddUp'
  <2>1. /\ Swept \in Nat /\ SumFunctionOnSet(claimed, Owners) \in Nat
    BY SumsAreNaturals DEF TreasInv
  <2>2. /\ reserve.cusd_balance \in Nat /\ reserve.ggold_balance \in Nat
        /\ yield_pool \in Nat /\ outside \in Int /\ boosted \in Nat
    BY <1>3 DEF TreasInv, PoolsTypeOK
  <2>3. Swept + outside + boosted
            = reserve.cusd_balance + reserve.ggold_balance + yield_pool
              + SumFunctionOnSet(claimed, Owners)
    BY DEF TreasInv, PoolsAddUp
  <2>4. Swept + outside' + boosted = cusd + gold + yield_pool + SumFunctionOnSet(claimed, Owners)
    BY <2>1, <2>2, <2>3
  <2>5. yield_pool' = yield_pool /\ boosted' = boosted /\ claimed' = claimed BY DEF yieldVars
  <2> QED BY <1>1, <1>4, <2>4, <2>5 DEF PoolsAddUp
<1>7. BoostedOnce' BY <1>1, BoostsStay DEF TreasInv, yieldVars
<1> QED BY <1>1, <1>2, <1>5, <1>6, <1>7 DEF TreasInv

LEMMA CreditReserveStep ==
    ASSUME TreasInv, NEW amount \in Fees, CreditReserve(amount) PROVE TreasInv'
<1> DEFINE cusd == reserve.cusd_balance + amount
           gold == reserve.ggold_balance
<1>1. /\ reserve \in [cusd_balance : Nat, ggold_balance : Nat, reserve_gold_bps : Bps]
      /\ outside \in Int /\ amount \in Nat
  BY TreasAssumption DEF TreasInv, PoolsTypeOK
<1>2. /\ cusd \in Nat /\ gold \in Nat /\ outside' \in Int
      /\ cusd + gold - outside' = reserve.cusd_balance + reserve.ggold_balance - outside
  BY <1>1 DEF CreditReserve
<1>3. reserve' = [reserve EXCEPT !.cusd_balance = cusd, !.ggold_balance = gold]
  BY <1>1 DEF CreditReserve
<1>4. UNCHANGED <<fxVars, repVars, params, marketpnl, menuVars, yieldVars>> BY DEF CreditReserve
<1> HIDE DEF cusd, gold
<1> QED BY <1>2, <1>3, <1>4, ReserveStep

(* Spending what the reserve covers keeps its type and its books.          *)
LEMMA SpentFacts ==
    ASSUME PoolsTypeOK, NEW amount \in Nat, reserve.cusd_balance >= amount, Spent(amount)
    PROVE  /\ reserve.cusd_balance - amount \in Nat /\ reserve.ggold_balance \in Nat
           /\ outside' = outside - amount /\ outside \in Int /\ outside' \in Int
           /\ reserve' = [reserve EXCEPT !.cusd_balance = reserve.cusd_balance - amount,
                                         !.ggold_balance = reserve.ggold_balance]
           /\ reserve' \in [cusd_balance : Nat, ggold_balance : Nat, reserve_gold_bps : Bps]
           /\ reserve'.cusd_balance = reserve.cusd_balance - amount
           /\ reserve'.ggold_balance = reserve.ggold_balance
           /\ reserve.cusd_balance \in Nat
<1>1. /\ reserve \in [cusd_balance : Nat, ggold_balance : Nat, reserve_gold_bps : Bps]
      /\ outside \in Int
  BY DEF PoolsTypeOK
<1>2. reserve.cusd_balance - amount \in Nat BY <1>1
<1>3. reserve' = [reserve EXCEPT !.cusd_balance = reserve.cusd_balance - amount]
      /\ outside' = outside - amount
  BY DEF Spent
<1> DEFINE cusd == reserve.cusd_balance - amount
<1>4. /\ reserve.ggold_balance \in Nat /\ reserve.cusd_balance \in Nat /\ outside' \in Int
  BY <1>1, <1>3
<1>5. /\ reserve' = [reserve EXCEPT !.cusd_balance = cusd, !.ggold_balance = reserve.ggold_balance]
      /\ reserve' \in [cusd_balance : Nat, ggold_balance : Nat, reserve_gold_bps : Bps]
      /\ reserve'.cusd_balance = cusd /\ reserve'.ggold_balance = reserve.ggold_balance
  <2>1. cusd \in Nat /\ reserve' = [reserve EXCEPT !.cusd_balance = cusd] BY <1>2, <1>3
  <2> HIDE DEF cusd
  <2> QED BY <1>1, <2>1
<1> QED BY <1>1, <1>2, <1>3, <1>4, <1>5

LEMMA PayCostStep == ASSUME TreasInv, PayCost PROVE TreasInv'
<1> DEFINE cost == params.cost_recovery_cusd
<1>1. cost \in Nat /\ reserve.cusd_balance >= cost /\ Spent(cost)
  <2>1. cost \in Int BY ParamsType DEF TreasInv
  <2> QED BY <2>1 DEF PayCost
<1>2. PoolsTypeOK BY DEF TreasInv
<1> HIDE DEF cost
<1>3. /\ reserve.cusd_balance - cost \in Nat /\ reserve.ggold_balance \in Nat
      /\ outside' = outside - cost /\ outside \in Int /\ outside' \in Int
      /\ reserve' = [reserve EXCEPT !.cusd_balance = reserve.cusd_balance - cost,
                                    !.ggold_balance = reserve.ggold_balance]
      /\ reserve.cusd_balance \in Nat
  BY <1>1, <1>2, SpentFacts
<1>4. reserve.cusd_balance - cost + reserve.ggold_balance - outside'
          = reserve.cusd_balance + reserve.ggold_balance - outside
  BY <1>1, <1>3
<1>5. UNCHANGED <<fxVars, repVars, params, marketpnl, menuVars, yieldVars>> BY DEF PayCost
<1> QED BY <1>3, <1>4, <1>5, ReserveStep

LEMMA RebalanceStep == ASSUME TreasInv, Rebalance PROVE TreasInv'
<1> DEFINE total == reserve.cusd_balance + reserve.ggold_balance
           gold == Part(total, reserve.reserve_gold_bps)
<1>1. reserve \in [cusd_balance : Nat, ggold_balance : Nat, reserve_gold_bps : Bps]
      /\ outside \in Int
  BY DEF TreasInv, PoolsTypeOK
<1>2. total \in Nat /\ reserve.reserve_gold_bps \in Bps BY <1>1
<1>3. gold \in Nat /\ gold <= total BY <1>2, PartFacts
<1>4. /\ reserve' = [reserve EXCEPT !.cusd_balance = total - gold, !.ggold_balance = gold]
      /\ outside' = outside
      /\ UNCHANGED <<fxVars, repVars, params, marketpnl, menuVars, yieldVars>>
  BY DEF Rebalance
<1>5. total = reserve.cusd_balance + reserve.ggold_balance OBVIOUS
<1> HIDE DEF total, gold
<1>6. /\ total - gold \in Nat /\ outside' \in Int
      /\ total - gold + gold - outside' = reserve.cusd_balance + reserve.ggold_balance - outside
  BY <1>1, <1>2, <1>3, <1>4, <1>5
<1> QED BY <1>3, <1>4, <1>6, ReserveStep

-----------------------------------------------------------------------------
(* The markets' ledgers.                                                   *)
LEMMA LedgersStep ==
    ASSUME TreasInv, UNCHANGED <<fxVars, repVars, params, menuVars>>,
           GoodLedger(marketpnl'), PoolsTypeOK', PoolsAddUp', boosted' = boosted
    PROVE  TreasInv'
<1>1. FxTypeOK' /\ RepTypeOK' /\ Paid' = Paid BY FxStays, RepStays DEF TreasInv
<1>2. SettingsTypeOK' BY SettingsStay DEF TreasInv
<1>3. BoostedOnce' BY <1>1, BoostsStay DEF TreasInv
<1>4. GoodLedger(marketpnl)' BY DEF GoodLedger, NetOf, SweptOf
<1> QED BY <1>1, <1>2, <1>3, <1>4 DEF TreasInv

LEMMA AccrueFeeStep ==
    ASSUME TreasInv, NEW m \in Markets, NEW c \in Currencies, NEW amount \in Fees,
           AccrueFee(m, c, amount)
    PROVE  TreasInv'
<1>1. GoodLedger(marketpnl') /\ SweptOf(marketpnl') = SweptOf(marketpnl)
  BY AccruedGood DEF TreasInv
<1>2. Swept' = Swept BY <1>1 DEF Swept, SweptOf
<1>3. PoolsTypeOK' /\ PoolsAddUp' BY <1>2, PoolsStay DEF TreasInv, AccrueFee
<1> QED BY <1>1, <1>3, LedgersStep DEF AccrueFee, yieldVars

LEMMA SweepStep == ASSUME TreasInv, NEW m \in Markets, Sweep(m) PROVE TreasInv'
<1> DEFINE slice == ToSweep(m)
           yield == Part(slice, params.fee_to_yield_bps)
<1>1. /\ FxTypeOK /\ SettingsTypeOK /\ GoodLedger(marketpnl) /\ PoolsTypeOK /\ PoolsAddUp
  BY DEF TreasInv
<1>2. /\ reserve' = [reserve EXCEPT !.cusd_balance = reserve.cusd_balance + (slice - yield)]
      /\ yield_pool' = yield_pool + yield
      /\ UNCHANGED <<fxVars, repVars, params, menuVars, claimed, outside, boosted>>
  BY DEF Sweep, Split
<1>3. params.sweep_slice_bps \in Bps /\ params.fee_to_yield_bps \in Bps BY <1>1, ParamsType
<1>4. /\ slice \in Nat /\ GoodLedger(marketpnl')
      /\ SweptOf(marketpnl') = SweptOf(marketpnl) + slice
  BY <1>1, <1>3, SweptGood
<1>5. yield \in Nat /\ yield <= slice
  <2> HIDE DEF slice
  <2> QED BY <1>3, <1>4, PartFacts
<1> HIDE DEF slice, yield
<1>6. /\ reserve \in [cusd_balance : Nat, ggold_balance : Nat, reserve_gold_bps : Bps]
      /\ outside \in Int /\ boosted \in Nat /\ yield_pool \in Nat
  BY <1>1 DEF PoolsTypeOK
<1>7. reserve.cusd_balance + (slice - yield) \in Nat BY <1>4, <1>5, <1>6
<1>8. /\ reserve' \in [cusd_balance : Nat, ggold_balance : Nat, reserve_gold_bps : Bps]
      /\ reserve'.cusd_balance = reserve.cusd_balance + (slice - yield)
      /\ reserve'.ggold_balance = reserve.ggold_balance
  BY <1>2, <1>6, <1>7
<1>9. PoolsTypeOK' BY <1>1, <1>2, <1>5, <1>8 DEF PoolsTypeOK
<1>10. Swept' = Swept + slice
  <2>1. Swept = SweptOf(marketpnl) /\ Swept' = SweptOf(marketpnl') BY DEF Swept, SweptOf
  <2> QED BY <1>4, <2>1
<1>11. PoolsAddUp'
  <2>1. /\ Swept \in Nat /\ SumFunctionOnSet(claimed, Owners) \in Nat
    BY <1>1, SumsAreNaturals
  <2>2. reserve.cusd_balance \in Nat /\ reserve.ggold_balance \in Nat BY <1>6
  <2>3. Swept + outside + boosted
            = reserve.cusd_balance + reserve.ggold_balance + yield_pool
              + SumFunctionOnSet(claimed, Owners)
    BY <1>1 DEF PoolsAddUp
  <2>4. Swept + slice + outside + boosted
            = reserve.cusd_balance + (slice - yield) + reserve.ggold_balance
              + (yield_pool + yield) + SumFunctionOnSet(claimed, Owners)
    BY <1>4, <1>5, <1>6, <2>1, <2>2, <2>3
  <2> QED BY <1>2, <1>8, <1>10, <2>4 DEF PoolsAddUp
<1> QED BY <1>2, <1>4, <1>9, <1>11, LedgersStep

LEMMA SubsidizeStep ==
    ASSUME TreasInv, NEW from \in Markets, NEW to \in Markets, NEW amount \in Subsidies,
           Subsidize(from, to, amount)
    PROVE  TreasInv'
<1>1. amount \in Nat BY TreasAssumption
<1>2. GoodLedger(marketpnl') /\ SweptOf(marketpnl') = SweptOf(marketpnl)
  BY <1>1, SubsidizedGood DEF TreasInv
<1>3. Swept' = Swept BY <1>2 DEF Swept, SweptOf
<1>4. PoolsTypeOK' /\ PoolsAddUp' BY <1>3, PoolsStay DEF TreasInv, Subsidize
<1> QED BY <1>2, <1>4, LedgersStep DEF Subsidize, yieldVars

-----------------------------------------------------------------------------
(* Yield: a share of the pool is no more than the pool.                    *)
LEMMA ShareFacts ==
    ASSUME PoolsTypeOK, NEW u \in Owners
    PROVE  Share(u) \in Nat /\ Share(u) <= yield_pool /\ yield_pool \in Nat
<1>1. /\ IsFiniteSet(Owners) /\ \A o \in Owners : Rex[o] \in Nat
      /\ Rex[u] \in Nat \ {0} /\ Others \in Nat /\ yield_pool \in Nat
  BY TreasAssumption DEF PoolsTypeOK
<1>2. Rex[u] <= SumFunctionOnSet(Rex, Owners) /\ SumFunctionOnSet(Rex, Owners) \in Nat
  BY <1>1, SumType, SumCoversPart
<1>3. TotalRex \in Nat \ {0} /\ Rex[u] <= TotalRex BY <1>1, <1>2 DEF TotalRex
<1>4. Rex[u] * yield_pool \in Nat /\ Rex[u] * yield_pool <= TotalRex * yield_pool
  BY <1>1, <1>3
<1> QED BY <1>1, <1>3, <1>4, Division, DivisionAtMost DEF Share

LEMMA TakenStep ==
    ASSUME TreasInv, NEW u \in Owners, Taken(u),
           UNCHANGED <<fxVars, repVars, params, marketpnl, menuVars>>,
           UNCHANGED reserveVars \/ (reserve.cusd_balance >= Share(u) /\ Spent(Share(u)))
    PROVE  TreasInv'
<1> DEFINE share == Share(u)
<1>1. /\ FxTypeOK /\ SettingsTypeOK /\ GoodLedger(marketpnl) /\ PoolsTypeOK /\ PoolsAddUp
  BY DEF TreasInv
<1>2. share \in Nat /\ share <= yield_pool /\ yield_pool \in Nat BY <1>1, ShareFacts
<1>3. /\ yield_pool' = yield_pool - share
      /\ claimed' = [claimed EXCEPT ![u] = claimed[u] + share] /\ boosted' = boosted
  BY DEF Taken
<1>4. UNCHANGED reserveVars \/ (reserve.cusd_balance >= share /\ Spent(share)) OBVIOUS
<1> HIDE DEF share
<1>5. /\ claimed \in [Owners -> Nat] /\ boosted \in Nat /\ outside \in Int
      /\ reserve \in [cusd_balance : Nat, ggold_balance : Nat, reserve_gold_bps : Bps]
  BY <1>1 DEF PoolsTypeOK
<1>6. claimed' \in [Owners -> Nat] /\ yield_pool' \in Nat BY <1>2, <1>3, <1>5
<1>7. /\ reserve' \in [cusd_balance : Nat, ggold_balance : Nat, reserve_gold_bps : Bps]
      /\ outside' \in Int /\ reserve'.ggold_balance = reserve.ggold_balance
      /\ reserve'.cusd_balance - outside' = reserve.cusd_balance - outside
  <2>1. CASE UNCHANGED reserveVars BY <1>5, <2>1 DEF reserveVars
  <2>2. CASE reserve.cusd_balance >= share /\ Spent(share)
    <3>1. /\ outside' = outside - share /\ outside' \in Int /\ reserve.cusd_balance \in Nat
          /\ reserve' \in [cusd_balance : Nat, ggold_balance : Nat, reserve_gold_bps : Bps]
          /\ reserve'.cusd_balance = reserve.cusd_balance - share
          /\ reserve'.ggold_balance = reserve.ggold_balance
      BY <1>1, <1>2, <2>2, SpentFacts
    <3>2. reserve'.cusd_balance - outside' = reserve.cusd_balance - outside
      BY <1>2, <1>5, <3>1
    <3> QED BY <3>1, <3>2
  <2> QED BY <1>4, <2>1, <2>2
<1>8. PoolsTypeOK' BY <1>3, <1>5, <1>6, <1>7 DEF PoolsTypeOK
<1>9. SumFunctionOnSet(claimed', Owners) = SumFunctionOnSet(claimed, Owners) + share
  <2>1. IsFiniteSet(Owners) BY TreasAssumption
  <2>2. /\ \A o \in Owners : claimed[o] \in Int /\ claimed'[o] \in Int
        /\ \A o \in Owners \ {u} : claimed[o] = claimed'[o]
        /\ claimed'[u] = claimed[u] + share
    BY <1>3, <1>5, <1>6
  <2>3. SumFunctionOnSet(claimed', Owners)
            = SumFunctionOnSet(claimed, Owners) - claimed[u] + claimed'[u]
    BY <2>1, <2>2, SumChange
  <2>4. SumFunctionOnSet(claimed, Owners) \in Nat BY <1>1, SumsAreNaturals
  <2> QED BY <1>2, <1>5, <2>2, <2>3, <2>4
<1>10. GoodLedger(marketpnl') /\ Swept' = Swept BY <1>1 DEF Swept
<1>11. PoolsAddUp'
  <2>1. /\ Swept \in Nat /\ SumFunctionOnSet(claimed, Owners) \in Nat
    BY <1>1, SumsAreNaturals
  <2>2. /\ reserve.cusd_balance \in Nat /\ reserve.ggold_balance \in Nat
        /\ reserve'.cusd_balance \in Nat
    BY <1>5, <1>7
  <2>3. Swept + outside + boosted
            = reserve.cusd_balance + reserve.ggold_balance + yield_pool
              + SumFunctionOnSet(claimed, Owners)
    BY <1>1 DEF PoolsAddUp
  <2>4. Swept + outside' + boosted
            = reserve'.cusd_balance + reserve'.ggold_balance + (yield_pool - share)
              + (SumFunctionOnSet(claimed, Owners) + share)
    BY <1>2, <1>5, <1>7, <2>1, <2>2, <2>3
  <2> QED BY <1>3, <1>9, <1>10, <2>4 DEF PoolsAddUp
<1> QED BY <1>3, <1>8, <1>10, <1>11, LedgersStep

LEMMA ClaimRewardsStep == ASSUME TreasInv, NEW u \in Owners, ClaimRewards(u) PROVE TreasInv'
BY TakenStep DEF ClaimRewards

LEMMA ClaimRexYldStep ==
    ASSUME TreasInv, NEW u \in Owners, NEW m \in Markets, NEW c \in Currencies \cup {"GGOLD"},
           ClaimRexYld(u, m, c)
    PROVE  TreasInv'
BY TakenStep DEF ClaimRexYld

-----------------------------------------------------------------------------
LEMMA TreasInitOK == TreasInit => TreasInv
<1> SUFFICES ASSUME TreasInit PROVE TreasInv
  OBVIOUS
<1>1. FxTypeOK
  <2>1. NoQuote \in Quotes /\ InTime(NoQuote) BY NoQuoteType
  <2>2. fx = [c \in Locals |-> NoQuote] /\ oracle = "none" BY DEF TreasInit, FxInit
  <2> QED BY <2>1, <2>2 DEF FxTypeOK, Quotes, InTime
<1>2. RepTypeOK
  <2>1. MaxFunded \in Nat /\ BoostCap \in Nat BY TreasAssumption DEF RepAssumption
  <2> QED BY <2>1 DEF TreasInit, RepInit, RepTypeOK, NoRep, Available
<1>3. SettingsTypeOK BY DEF TreasInit, SettingsTypeOK
<1>4. PoolsTypeOK BY DEF TreasInit, PoolsTypeOK, Bps
<1>5. IsFiniteSet(Markets) /\ IsFiniteSet(Owners) /\ IsFiniteSet(Reps) /\ MaxFees \in Nat
  BY TreasAssumption DEF RepAssumption
<1>6. NoMarket \in LedgerRow /\ InBalance(NoMarket) /\ SweptWithin(NoMarket)
  BY <1>5, BestRate DEF NoMarket, LedgerRow, InBalance, SweptWithin
<1>7. marketpnl = [m \in Markets |-> NoMarket] BY DEF TreasInit
<1>8. SweptOf(marketpnl) = 0 /\ NetOf(marketpnl) = 0
  <2>1. /\ [m \in Markets |-> marketpnl[m].fees_cusd] = [m \in Markets |-> 0]
        /\ [m \in Markets |-> marketpnl[m].net_cusd] = [m \in Markets |-> 0]
    BY <1>7 DEF NoMarket
  <2> QED BY <1>5, <2>1, SumOfZeros DEF SweptOf, NetOf
<1>9. GoodLedger(marketpnl) BY <1>6, <1>7, <1>8 DEF GoodLedger, Ledgers
<1>10. PoolsAddUp
  <2>1. SumFunctionOnSet(claimed, Owners) = 0 BY <1>5, SumOfZeros DEF TreasInit
  <2>2. Swept = 0 BY <1>8 DEF Swept, SweptOf
  <2> QED BY <2>1, <2>2 DEF TreasInit, PoolsAddUp
<1>11. BoostedOnce
  <2>1. Paid \in Nat /\ HighestRate \in Nat /\ FxScale \in Nat
    BY <1>1, <1>2, PaidType, BestRate, RateType
  <2>2. boosted = 0 BY DEF TreasInit
  <2>3. 0 * FxScale <= Paid * HighestRate BY <2>1
  <2> QED BY <2>2, <2>3 DEF BoostedOnce
<1> QED BY <1>1, <1>2, <1>3, <1>4, <1>9, <1>10, <1>11 DEF TreasInv

LEMMA TreasStutters == ASSUME TreasInv, UNCHANGED treasVars PROVE TreasInv'
<1>1. /\ UNCHANGED <<fxVars, repVars, params, reserveVars, marketpnl, menuVars, yieldVars>>
  BY DEF treasVars
<1>2. /\ FxTypeOK' /\ RepTypeOK' /\ Paid' = Paid /\ GoodLedger(marketpnl)' /\ Swept' = Swept
      /\ SettingsTypeOK'
  BY <1>1, FxStays, RepStays, LedgersStay, SettingsStay DEF TreasInv
<1>3. PoolsTypeOK' /\ PoolsAddUp' BY <1>1, <1>2, PoolsStay DEF TreasInv
<1>4. BoostedOnce' BY <1>1, <1>2, BoostsStay DEF TreasInv, yieldVars
<1> QED BY <1>2, <1>3, <1>4 DEF TreasInv

LEMMA TreasStep == TreasInv /\ [TreasNext]_treasVars => TreasInv'
<1> SUFFICES ASSUME TreasInv, [TreasNext]_treasVars PROVE TreasInv'
  OBVIOUS
<1>1. CASE FxMoves BY <1>1, FxMovesStep
<1>2. CASE RepMoves BY <1>2, RepMovesStep
<1>3. ASSUME NEW r \in Reps, PayBoost(r) PROVE TreasInv' BY <1>3, PayBoostStep
<1>4. ASSUME NEW s \in ParamSets, SetParams(s.params, s.reserve_gold_bps) PROVE TreasInv'
  BY <1>4, SetParamsStep
<1>5. ASSUME NEW m \in Licensed, NEW menu \in Menus, SetMarketPref(m, menu) PROVE TreasInv'
  BY <1>5, SetMarketPrefStep
<1>6. ASSUME NEW u \in Owners, NEW m \in Markets, NEW c \in Currencies \cup {"GGOLD"},
             SetPayoutPref(u, m, c)
      PROVE  TreasInv'
  BY <1>6, SetPayoutPrefStep
<1>7. ASSUME NEW amount \in Fees, CreditReserve(amount) PROVE TreasInv'
  BY <1>7, CreditReserveStep
<1>8. ASSUME NEW m \in Markets, NEW c \in Currencies, NEW amount \in Fees, AccrueFee(m, c, amount)
      PROVE  TreasInv'
  BY <1>8, AccrueFeeStep
<1>9. ASSUME NEW m \in Markets, Sweep(m) PROVE TreasInv' BY <1>9, SweepStep
<1>10. ASSUME NEW from \in Markets, NEW to \in Markets, NEW amount \in Subsidies,
              Subsidize(from, to, amount)
       PROVE  TreasInv'
  BY <1>10, SubsidizeStep
<1>11. CASE PayCost BY <1>11, PayCostStep
<1>12. CASE Rebalance BY <1>12, RebalanceStep
<1>13. ASSUME NEW u \in Owners, ClaimRewards(u) PROVE TreasInv' BY <1>13, ClaimRewardsStep
<1>14. ASSUME NEW u \in Owners, NEW m \in Markets, NEW c \in Currencies \cup {"GGOLD"},
              ClaimRexYld(u, m, c)
       PROVE  TreasInv'
  BY <1>14, ClaimRexYldStep
<1>15. CASE UNCHANGED treasVars BY <1>15, TreasStutters
<1> QED
  BY <1>1, <1>2, <1>3, <1>4, <1>5, <1>6, <1>7, <1>8, <1>9, <1>10, <1>11, <1>12, <1>13, <1>14, <1>15
  DEF TreasNext

LEMMA TreasInvariant == TreasSpec => []TreasInv
BY TreasInitOK, TreasStep, PTL DEF TreasSpec

-----------------------------------------------------------------------------
(* The treasury keeps its types (sika.treas, sika.fx.hpp, sika.rep, and    *)
(* the yield pool of rex.cpp): whatever the rates do, no market gives more *)
(* than its net contribution in its own currency, reserve and yield pool   *)
(* are never overdrawn, and no quote with a time to live is in use when it *)
(* is older than the longest one and the age at which an attestation is    *)
(* still accepted.  A quote without a time to live is in use at any age.   *)
THEOREM TreasTypeCorrect == TreasSpec => []TreasTypeOK
<1>1. TreasInv => TreasTypeOK
  BY DEF TreasInv, TreasTypeOK, SettingsTypeOK, PoolsTypeOK, GoodLedger, Ledgers, LedgerRow
<1> QED BY <1>1, TreasInvariant, PTL

(* The books of the treasury add up to the last unit (accruefee, sweep,    *)
(* subsidize, rebalance, paycost, clearyield, crediboost, claims): each    *)
(* market's net is its fees and the subsidies, subsidies cancel out over   *)
(* the markets, and what came in is in the reserve, in the pool or claimed.*)
THEOREM BooksCorrect == TreasSpec => []BooksAddUp
<1>1. TreasInv => BooksAddUp
  BY DEF TreasInv, BooksAddUp, LedgersAddUp, GoodLedger, InBalance, NetOf, SweptOf, Swept
<1> QED BY <1>1, TreasInvariant, PTL

(* No fee is swept and no boost credited beyond its worth (sweep,          *)
(* payboost), though rates change between the sweeps: what was boosted is  *)
(* covered by what Representatives have paid, and that by their deposits.  *)
THEOREM CountedOnceCorrect == TreasSpec => []CountedOnce
<1>1. ASSUME TreasInv PROVE CountedOnce
  <2> DEFINE f == [r \in Reps |-> boostbal[r].cghs_paid]
             g == [r \in Reps |-> boostbal[r].cghs_funded]
  <2>1. \A m \in Markets : marketpnl[m].fees_cusd * FxScale <= marketpnl[m].fees_local * HighestRate
    BY <1>1 DEF TreasInv, GoodLedger, SweptWithin
  <2>2. IsFiniteSet(Reps) /\ MaxFunded \in Nat BY TreasAssumption DEF RepAssumption
  <2>3. \A r \in Reps : f[r] \in Nat /\ g[r] \in Nat /\ f[r] <= g[r]
    BY <1>1, <2>2 DEF TreasInv, RepTypeOK, Available
  <2>4. Paid = SumFunctionOnSet(f, Reps) BY DEF Paid
  <2> HIDE DEF f, g
  <2>5. /\ Paid <= SumFunctionOnSet(g, Reps) /\ Paid \in Nat /\ SumFunctionOnSet(g, Reps) \in Nat
    BY <2>2, <2>3, <2>4, SumMonotonic, SumType
  <2>6. HighestRate \in Nat /\ FxScale \in Nat /\ boosted \in Nat
    BY <1>1, BestRate, RateType DEF TreasInv, PoolsTypeOK
  <2>7. Paid * HighestRate <= SumFunctionOnSet(g, Reps) * HighestRate BY <2>5, <2>6
  <2>8. boosted * FxScale <= SumFunctionOnSet(g, Reps) * HighestRate
    <3>1. boosted * FxScale <= Paid * HighestRate BY <1>1 DEF TreasInv, BoostedOnce
    <3>2. /\ boosted * FxScale \in Int /\ Paid * HighestRate \in Int
          /\ SumFunctionOnSet(g, Reps) * HighestRate \in Int
      BY <2>5, <2>6
    <3> QED BY <2>7, <3>1, <3>2
  <2> QED BY <2>1, <2>8 DEF CountedOnce, g
<1> QED BY <1>1, TreasInvariant, PTL
=============================================================================
