------------------------------- MODULE SikaFx -------------------------------
(***************************************************************************)
(* The exchange rates of sika.treas and their use (sika.fx.hpp): quotes    *)
(* are set by governance, pushed by the oracle account, or relayed by      *)
(* anybody with a signature of the oracle key.                             *)
(*                                                                         *)
(* The clock of a quote is what is left of its time to live, if it has     *)
(* one, and the age of what it says.  A quote that has expired counts as   *)
(* no quote at all, and the code takes no quote for one to one.            *)
(***************************************************************************)
EXTENDS Integers, FiniteSets

CONSTANTS
    Locals,         \* symbols of the local stablecoins
    FxScale,        \* fx_ppm_scale
    MaxAge,         \* ticks after which a signed quote is stale (an hour)
    Rates,          \* bound: quotes, in units of 1 / FxScale
    TTLs            \* bound: values of ttl_seconds, in ticks

VARIABLES
    fx,             \* the fxquotes table
    oracle          \* the oraclecfg singleton: none, any push, or signed only

fxVars == <<fx, oracle>>

FxAssumption ==
    /\ {FxScale} \cup Rates \subseteq Nat \ {0}
    /\ IsFiniteSet(Rates) /\ IsFiniteSet(TTLs) /\ TTLs # {}
    /\ TTLs \subseteq Nat /\ MaxAge \in Nat /\ "CUSD" \notin Locals

NoQuote == [cusd_ppm |-> FxScale, expires |-> TRUE, left |-> 0, age |-> 0]
LongestTTL == CHOOSE ttl \in TTLs : \A t \in TTLs : t <= ttl

(* The age by which a quote with a time to live has expired, and at which  *)
(* the age of a quote without stops counting.                              *)
OldestInTime == MaxAge + LongestTTL
Aging(age) == IF age < OldestInTime THEN age + 1 ELSE age

FxInit == fx = [c \in Locals |-> NoQuote] /\ oracle = "none"

(* fx_rate_fresh, as time goes by.  A quote without a time to live stays   *)
(* in use for ever.                                                        *)
OlderQuote(row) ==
    CASE ~row.expires -> [row EXCEPT !.age = Aging(@)]
      [] row.expires /\ row.left > 1 -> [row EXCEPT !.left = @ - 1, !.age = @ + 1]
      [] row.expires /\ row.left <= 1 -> NoQuote

(* A currency without a quote, and CUSD itself, is taken one to one.       *)
Rate(c) == IF c \in Locals THEN fx[c].cusd_ppm ELSE FxScale

\* local_to_cusd_atoms and cusd_to_local_atoms: both round down.
ToCusd(c, n) == IF n <= 0 THEN 0 ELSE (n * Rate(c)) \div FxScale
ToLocal(c, n) == IF n <= 0 THEN 0 ELSE (n * FxScale) \div Rate(c)

-----------------------------------------------------------------------------
FxTick == fx' = [c \in Locals |-> OlderQuote(fx[c])] /\ UNCHANGED oracle

(* upsert_fx: the time to live starts now, whatever the age; with none the *)
(* quote never expires.                                                    *)
UpsertFx(c, ppm, ttl, age) ==
    /\ fx' = [fx EXCEPT ![c] = [cusd_ppm |-> ppm, expires |-> ttl > 0, left |-> ttl, age |-> age]]
    /\ UNCHANGED oracle

SetFx(c, ppm, ttl) == UpsertFx(c, ppm, ttl, 0)

PushFx(c, ppm, ttl) == oracle # "signed" /\ UpsertFx(c, ppm, ttl, 0)

\* verify_fx_attestation.  The future, up to five minutes, counts as age 0.
Attested(age) == oracle # "none" /\ age <= MaxAge

(* pushfxsig: the same attestation may arrive late, twice, or after a      *)
(* newer one.                                                              *)
PushFxSig(c, ppm, ttl, age) == Attested(age) /\ UpsertFx(c, ppm, ttl, age)

SetOracleKey(require_signed_push) ==
    /\ oracle' = IF require_signed_push THEN "signed" ELSE "any"
    /\ UNCHANGED fx

-----------------------------------------------------------------------------
(* A quote in use that has a time to live says what was attested at most   *)
(* that time and MaxAge ago, however late and often it was relayed.  Of a  *)
(* quote without one nothing is said: it stays in use however old.         *)
FxTypeOK ==
    /\ fx \in [Locals -> [cusd_ppm : {FxScale} \cup Rates, expires : BOOLEAN,
                          left : 0..LongestTTL, age : 0..OldestInTime]]
    /\ oracle \in {"none", "any", "signed"}
    /\ \A c \in Locals : fx[c].expires => fx[c].age + fx[c].left <= OldestInTime
=============================================================================
