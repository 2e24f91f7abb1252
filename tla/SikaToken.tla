----------------------------- MODULE SikaToken -----------------------------
(***************************************************************************)
(* The ledger of sika.token (sika.token.cpp): the supply of each symbol    *)
(* and the balance rows of its holders.  The actions are those of the      *)
(* contract; who calls them is up to the module that extends this one.     *)
(***************************************************************************)
EXTENDS Integers, FiniteSets, Functions

CONSTANTS
    Symbols,        \* symbol codes, each of one precision
    Holders         \* accounts

VARIABLES
    stats,          \* the stat table
    accounts        \* the accounts tables: a row per symbol and holder

TokenAssumption == IsFiniteSet(Holders) /\ "sika.issue" \in Holders

NoToken == [exists |-> FALSE, supply |-> 0, max_supply |-> 0, issuer |-> "none"]
NoRow == [open |-> FALSE, balance |-> 0]

TokenInit ==
    /\ stats = [s \in Symbols |-> NoToken]
    /\ accounts = [s \in Symbols |-> [a \in Holders |-> NoRow]]

(* add_balance opens the row that it needs, sub_balance does not.          *)
Added(rows, a, quantity) == [rows EXCEPT ![a] = [open |-> TRUE, balance |-> @.balance + quantity]]
Subtracted(rows, a, quantity) == [rows EXCEPT ![a].balance = @ - quantity]

\* Mutant: balances may be overdrawn.
CoversAnything(rows, a, quantity) == rows[a].open

Covers(rows, a, quantity) == rows[a].open /\ rows[a].balance >= quantity

Create(s, issuer, max_supply) ==
    /\ ~stats[s].exists /\ max_supply > 0
    /\ stats' = [stats EXCEPT ![s] =
          [exists |-> TRUE, supply |-> 0, max_supply |-> max_supply, issuer |-> issuer]]
    /\ UNCHANGED accounts

(* issue: the quantity goes through the issuer's own row, which it opens.  *)
Issue(s, to, quantity, sender) ==
    /\ stats[s].exists /\ sender = stats[s].issuer /\ quantity > 0
    /\ quantity <= stats[s].max_supply - stats[s].supply
    /\ stats' = [stats EXCEPT ![s].supply = @ + quantity]
    /\ accounts' = [accounts EXCEPT ![s] =
          IF to = sender THEN Added(@, sender, quantity)
          ELSE Added(Subtracted(Added(@, sender, quantity), sender, quantity), to, quantity)]

Retire(s, quantity, sender) ==
    /\ stats[s].exists /\ sender = stats[s].issuer /\ quantity > 0
    /\ Covers(accounts[s], sender, quantity)
    /\ stats' = [stats EXCEPT ![s].supply = @ - quantity]
    /\ accounts' = [accounts EXCEPT ![s] = Subtracted(@, sender, quantity)]

Transfer(s, from, to, quantity) ==
    /\ stats[s].exists /\ from # to /\ quantity > 0
    /\ Covers(accounts[s], from, quantity)
    /\ accounts' = [accounts EXCEPT ![s] = Added(Subtracted(@, from, quantity), to, quantity)]
    /\ UNCHANGED stats

Open(s, owner) ==
    /\ stats[s].exists
    /\ accounts' = [accounts EXCEPT ![s][owner].open = TRUE]
    /\ UNCHANGED stats

Close(s, owner) ==
    /\ accounts[s][owner].open /\ accounts[s][owner].balance = 0
    /\ accounts' = [accounts EXCEPT ![s][owner].open = FALSE]
    /\ UNCHANGED stats

-----------------------------------------------------------------------------
TokenTypeOK ==
    /\ stats \in [Symbols -> [exists : BOOLEAN, supply : Nat, max_supply : Nat,
                              issuer : Holders \cup {"none"}]]
    /\ accounts \in [Symbols -> [Holders -> [open : BOOLEAN, balance : Nat]]]

Balances(s) == [a \in Holders |-> accounts[s][a].balance]
Circulation(s) == SumFunctionOnSet(Balances(s), Holders)

(* Every unit of the supply is in somebody's row, none is in a row that is *)
(* closed, and there are no more than the maximum.                         *)
LedgerAddsUp ==
    \A s \in Symbols :
       /\ stats[s].supply = Circulation(s)
       /\ stats[s].supply <= stats[s].max_supply
       /\ \A a \in Holders : ~accounts[s][a].open => accounts[s][a].balance = 0
=============================================================================
