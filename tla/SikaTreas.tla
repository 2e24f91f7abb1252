------------------------------ MODULE SikaTreas -----------------------------
(***************************************************************************)
(* The treasury (sika.treas) with its exchange rates, and the yield pool   *)
(* of sika.system that it and the Representatives fill (crediboost,        *)
(* credyield, claimrewards and claimrexyld of rex.cpp).                    *)
(*                                                                         *)
(* A market is its ledger row, or NoMarket.  The shares of the REX pool    *)
(* are those of some moment: how they change is in SikaStaking.  Tokens    *)
(* that sika.treas or eosio would lack for a transfer revert the action,   *)
(* which then is not taken.  What is accrued as epoch fee revenue is in    *)
(* SikaPay.  The history variables are not in the code.                    *)
(***************************************************************************)
EXTENDS SikaFx, SikaRep, Functions

CONSTANTS
    Markets,        \* market ids
    Owners,         \* holders of REX shares
    Rex,            \* their shares
    Others,         \* shares of everybody else
    Policies,       \* bound: values of require_signed_push
    Licensed,       \* bound: markets whose payout currencies are set
    ParamSets,      \* bound: what setparams is called with
    Menus,          \* bound: the payout currencies a market allows
    Fees,           \* bound: amounts of accruefee
    Subsidies,      \* bound: amounts of subsidize
    MaxFees,        \* bound: fees of a market
    MaxReserve      \* bound: the reserve before it is credited

Currencies == Locals \cup {"CUSD"}
Bps == 0..10000

ASSUME TreasAssumption ==
    /\ FxAssumption /\ RepAssumption
    /\ "CGHS" \in Locals /\ IsFiniteSet(Markets) /\ IsFiniteSet(Owners)
    /\ Rex \in [Owners -> Nat \ {0}] /\ Others \in Nat
    /\ Fees \subseteq Nat \ {0} /\ Subsidies \subseteq Nat \ {0}
    /\ {MaxFees, MaxReserve} \subseteq Nat
    /\ Policies \subseteq BOOLEAN
    /\ ParamSets \subseteq
          [params : [sweep_slice_bps : Bps, cost_recovery_cusd : Int,
                     max_subsidy_per_market_bps : Bps, fee_to_yield_bps : Bps],
           reserve_gold_bps : Bps]
    /\ Licensed \subseteq Markets /\ Menus \subseteq SUBSET (Currencies \cup {"GGOLD"})

VARIABLES
    params,         \* the params singleton
    reserve,        \* the reserve singleton
    marketpnl,      \* the marketpnl table
    marketpref,     \* the currencies that the marketpref table allows
    userpayout,     \* the userpayout table: recorded, and read by nobody
    yield_pool,     \* cghs_yield_pool
    claimed,        \* cghs_claimed_lifetime
    outside,        \* history: reserve credited from outside less reserve paid out
    boosted         \* history: boosts credited to the yield pool

menuVars == <<marketpref, userpayout>>
yieldVars == <<yield_pool, claimed, boosted>>
reserveVars == <<reserve, outside>>
treasVars == <<fxVars, repVars, params, reserveVars, marketpnl, menuVars, yieldVars>>

NoMarket == [symbol |-> "none", fees_local |-> 0, net_local |-> 0, fees_cusd |-> 0,
             net_cusd |-> 0, subsidy_in |-> 0, subsidy_out |-> 0]
HasLedger(m) == marketpnl[m].symbol # "none"

Part(amount, bps) == (amount * bps) \div 10000

(* The state after init, which sets no slice, no cost and no subsidies.    *)
TreasInit ==
    /\ FxInit /\ RepInit
    /\ params = [sweep_slice_bps |-> 0, cost_recovery_cusd |-> 0,
                 max_subsidy_per_market_bps |-> 0, fee_to_yield_bps |-> 0]
    /\ reserve = [cusd_balance |-> 0, ggold_balance |-> 0, reserve_gold_bps |-> 3000]
    /\ marketpnl = [m \in Markets |-> NoMarket]
    /\ marketpref = [m \in Markets |-> {}]
    /\ userpayout = [u \in Owners |-> "none"]
    /\ yield_pool = 0 /\ claimed = [u \in Owners |-> 0]
    /\ outside = 0 /\ boosted = 0

-----------------------------------------------------------------------------
(* Rates and Representatives move alone, but for the boosts.               *)
settlementVars == <<params, reserveVars, marketpnl, menuVars, yieldVars>>

FxMoves ==
    /\ \/ FxTick
       \/ \E c \in Locals, ppm \in Rates, ttl \in TTLs :
             \/ SetFx(c, ppm, ttl)
             \/ PushFx(c, ppm, ttl)
             \/ \E age \in 0..(MaxAge + 1) : PushFxSig(c, ppm, ttl, age)
       \/ \E signed \in Policies : SetOracleKey(signed)
    /\ UNCHANGED <<repVars, settlementVars>>

RepMoves ==
    /\ \E r \in Reps :
          \/ RegRep(r)
          \/ UnregRep(r)
          \/ \E bps \in Boosts : SetBoost(r, bps)
          \/ \E amount \in Deposits : Fund(r, amount)
    /\ UNCHANGED <<fxVars, settlementVars>>

(* payboost, which calls crediboost.                                       *)
PayBoost(r) ==
    LET ref == ToCusd("CGHS", Available(r))
    IN  /\ AllPaid(r) /\ ref > 0
        /\ yield_pool' = yield_pool + ref
        /\ boosted' = boosted + ref
        /\ UNCHANGED <<fxVars, params, reserveVars, marketpnl, menuVars, claimed>>

-----------------------------------------------------------------------------
(* Governance.                                                             *)
SetParams(p, reserve_gold_bps) ==
    /\ params' = p
    /\ reserve' = [reserve EXCEPT !.reserve_gold_bps = reserve_gold_bps]
    /\ UNCHANGED <<fxVars, repVars, outside, marketpnl, menuVars, yieldVars>>

SetMarketPref(m, menu) ==
    /\ marketpref' = [marketpref EXCEPT ![m] = menu]
    /\ UNCHANGED <<fxVars, repVars, params, reserveVars, marketpnl, userpayout, yieldVars>>

(* setpayoutpref: the menu is that of the moment.                          *)
SetPayoutPref(u, m, currency) ==
    /\ currency \in marketpref[m]
    /\ userpayout' = [userpayout EXCEPT ![u] = currency]
    /\ UNCHANGED <<fxVars, repVars, params, reserveVars, marketpnl, marketpref, yieldVars>>

CreditReserve(amount) ==
    /\ reserve.cusd_balance + reserve.ggold_balance < MaxReserve
    /\ reserve' = [reserve EXCEPT !.cusd_balance = @ + amount]
    /\ outside' = outside + amount
    /\ UNCHANGED <<fxVars, repVars, params, marketpnl, menuVars, yieldVars>>

-----------------------------------------------------------------------------
(* The markets' ledgers.  The symbol of the first fee is the row's; later  *)
(* fees are added to it whatever theirs is.                                *)
AccrueFee(m, c, amount) ==
    /\ ToCusd(c, amount) > 0
    /\ marketpnl[m].fees_local + amount <= MaxFees
    /\ marketpnl' = [marketpnl EXCEPT
          ![m].symbol = IF @ = "none" THEN c ELSE @,
          ![m].fees_local = @ + amount,
          ![m].net_local = @ + amount]
    /\ UNCHANGED <<fxVars, repVars, params, reserveVars, menuVars, yieldVars>>

\* Mutant: what was swept before is swept again.
SweepsAfresh(m) == Part(ToCusd(marketpnl[m].symbol, marketpnl[m].fees_local), params.sweep_slice_bps)

ToSweep(m) ==
    Part(ToCusd(marketpnl[m].symbol, marketpnl[m].fees_local), params.sweep_slice_bps)
    - marketpnl[m].fees_cusd

\* Mutant: the reserve's part is rounded down as well.
BothRoundedDown(slice) ==
    [reserve |-> Part(slice, 10000 - params.fee_to_yield_bps),
     yield |-> Part(slice, params.fee_to_yield_bps)]

Split(slice) ==
    LET yield == Part(slice, params.fee_to_yield_bps)
    IN  [reserve |-> slice - yield, yield |-> yield]

(* sweep, which calls credyield.  When the rate has fallen there may be    *)
(* nothing to sweep; nothing is ever given back.                           *)
Sweep(m) ==
    LET slice == ToSweep(m)
    IN  /\ HasLedger(m) /\ slice > 0
        /\ marketpnl' = [marketpnl EXCEPT ![m].fees_cusd = @ + slice, ![m].net_cusd = @ + slice]
        /\ reserve' = [reserve EXCEPT !.cusd_balance = @ + Split(slice).reserve]
        /\ yield_pool' = yield_pool + Split(slice).yield
        /\ UNCHANGED <<fxVars, repVars, params, menuVars, claimed, outside, boosted>>

\* Mutant: a donor within its cap is taken to have the amount.
WithinCap(m, amount) ==
    LET row == marketpnl[m]
    IN  ToCusd(row.symbol, row.subsidy_out) + amount
            <= Part(ToCusd(row.symbol, row.fees_local), params.max_subsidy_per_market_bps)

(* What a donor can give: out of its cap and of its net contribution, both *)
(* at the rate of the moment.                                              *)
CanGive(m, amount) ==
    LET row == marketpnl[m]
    IN  /\ ToCusd(row.symbol, row.subsidy_out) + amount
              <= Part(ToCusd(row.symbol, row.fees_local), params.max_subsidy_per_market_bps)
        /\ ToCusd(row.symbol, row.net_local) >= amount

Subsidize(from, to, amount) ==
    LET out == ToLocal(marketpnl[from].symbol, amount)
        in  == ToLocal(marketpnl[to].symbol, amount)
    IN  /\ from # to /\ HasLedger(from) /\ HasLedger(to)
        /\ params.max_subsidy_per_market_bps > 0
        /\ CanGive(from, amount)
        /\ marketpnl' = [marketpnl EXCEPT
              ![from].subsidy_out = @ + out,
              ![from].net_local = @ - out,
              ![from].net_cusd = @ - amount,
              ![to].subsidy_in = @ + in,
              ![to].net_local = @ + in,
              ![to].net_cusd = @ + amount]
        /\ UNCHANGED <<fxVars, repVars, params, reserveVars, menuVars, yieldVars>>

-----------------------------------------------------------------------------
(* The reserve.                                                            *)
Spent(amount) ==
    /\ reserve' = [reserve EXCEPT !.cusd_balance = @ - amount]
    /\ outside' = outside - amount

(* paycost, which claimprod calls: nothing happens unless it is covered.   *)
PayCost ==
    /\ params.cost_recovery_cusd > 0
    /\ reserve.cusd_balance >= params.cost_recovery_cusd
    /\ Spent(params.cost_recovery_cusd)
    /\ UNCHANGED <<fxVars, repVars, params, marketpnl, menuVars, yieldVars>>

(* rebalance, unless gold is within one per cent of its target.            *)
Rebalance ==
    LET total == reserve.cusd_balance + reserve.ggold_balance
        gold == Part(total, reserve.reserve_gold_bps)
        drift == reserve.ggold_balance - gold
    IN  /\ total > 0
        /\ drift > total \div 100 \/ drift < -(total \div 100)
        /\ reserve' = [reserve EXCEPT !.cusd_balance = total - gold, !.ggold_balance = gold]
        /\ UNCHANGED <<fxVars, repVars, params, outside, marketpnl, menuVars, yieldVars>>

-----------------------------------------------------------------------------
(* Yield.  A claim takes its share of what is left in the pool.            *)
TotalRex == Others + SumFunctionOnSet(Rex, Owners)
Share(u) == (Rex[u] * yield_pool) \div TotalRex

Taken(u) ==
    /\ Share(u) > 0
    /\ yield_pool' = yield_pool - Share(u)
    /\ claimed' = [claimed EXCEPT ![u] = @ + Share(u)]
    /\ UNCHANGED boosted

(* claimrewards, and claimrexyld in cGHS: paid by eosio.                   *)
ClaimRewards(u) ==
    /\ Taken(u)
    /\ UNCHANGED <<fxVars, repVars, params, reserveVars, marketpnl, menuVars>>

(* claimrexyld in another currency of the market, and clearyield: it is    *)
(* paid in full also when the reserve, then left alone, does not cover it; *)
(* a payout that rounds to nothing cannot be transferred.                  *)
ClaimRexYld(u, m, currency) ==
    /\ currency # "CGHS" /\ currency \in marketpref[m]
    /\ ToLocal(currency, Share(u)) > 0
    /\ Taken(u)
    /\ IF reserve.cusd_balance >= Share(u) THEN Spent(Share(u)) ELSE UNCHANGED reserveVars
    /\ UNCHANGED <<fxVars, repVars, params, marketpnl, menuVars>>

-----------------------------------------------------------------------------
TreasNext ==
    \/ FxMoves
    \/ RepMoves
    \/ \E r \in Reps : PayBoost(r)
    \/ \E s \in ParamSets : SetParams(s.params, s.reserve_gold_bps)
    \/ \E m \in Licensed, menu \in Menus : SetMarketPref(m, menu)
    \/ \E u \in Owners, m \in Markets, c \in Currencies \cup {"GGOLD"} : SetPayoutPref(u, m, c)
    \/ \E amount \in Fees : CreditReserve(amount)
    \/ \E m \in Markets, c \in Currencies, amount \in Fees : AccrueFee(m, c, amount)
    \/ \E m \in Markets : Sweep(m)
    \/ \E from \in Markets, to \in Markets, amount \in Subsidies : Subsidize(from, to, amount)
    \/ PayCost
    \/ Rebalance
    \/ \E u \in Owners : ClaimRewards(u)
    \/ \E u \in Owners, m \in Markets, c \in Currencies \cup {"GGOLD"} : ClaimRexYld(u, m, c)

TreasSpec == TreasInit /\ [][TreasNext]_treasVars

-----------------------------------------------------------------------------
HighestRate == CHOOSE r \in Rates \cup {FxScale} : \A q \in Rates \cup {FxScale} : q <= r

(* The type invariant.  No market's net contribution goes below zero in    *)
(* its own currency, though the cap and the conversions round and rates    *)
(* change between subsidies (subsidize); reserve and pool are never        *)
(* overdrawn; a quote with a time to live is not in use when what it says  *)
(* is older than FxTypeOK allows; a Representative's boosts come out of    *)
(* its deposits (RepTypeOK).                                               *)
TreasTypeOK ==
    /\ FxTypeOK /\ RepTypeOK
    /\ params \in {s.params : s \in ParamSets} \cup
           {[sweep_slice_bps |-> 0, cost_recovery_cusd |-> 0,
             max_subsidy_per_market_bps |-> 0, fee_to_yield_bps |-> 0]}
    /\ reserve \in [cusd_balance : Nat, ggold_balance : Nat, reserve_gold_bps : Bps]
    /\ marketpnl \in [Markets -> [symbol : Currencies \cup {"none"}, fees_local : 0..MaxFees,
                                  net_local : Nat, fees_cusd : Nat, net_cusd : Int,
                                  subsidy_in : Nat, subsidy_out : Nat]]
    /\ marketpref \in [Markets -> SUBSET (Currencies \cup {"GGOLD"})]
    /\ userpayout \in [Owners -> Currencies \cup {"GGOLD", "none"}]
    /\ yield_pool \in Nat /\ claimed \in [Owners -> Nat]
    /\ outside \in Int /\ boosted \in Nat

Swept == SumFunctionOnSet([m \in Markets |-> marketpnl[m].fees_cusd], Markets)

(* Nothing appears or is lost between the books (sweep, subsidize,         *)
(* rebalance, claims): each market's net is its fees and the subsidies,    *)
(* subsidies cancel out over the markets, and what was swept, boosted or   *)
(* credited is in the reserve, in the pool or claimed, to the last unit.   *)
LedgersAddUp ==
    /\ \A m \in Markets :
          marketpnl[m].net_local = marketpnl[m].fees_local + marketpnl[m].subsidy_in
                                   - marketpnl[m].subsidy_out
    /\ SumFunctionOnSet([m \in Markets |-> marketpnl[m].net_cusd], Markets) = Swept
PoolsAddUp ==
    Swept + outside + boosted
        = reserve.cusd_balance + reserve.ggold_balance + yield_pool
          + SumFunctionOnSet(claimed, Owners)
BooksAddUp == LedgersAddUp /\ PoolsAddUp

(* Sweeps may be repeated and rates may change between them: a market is   *)
(* never swept of more than its fees were worth at the best of rates, nor  *)
(* the pool credited with more than Representatives have deposited.        *)
CountedOnce ==
    /\ \A m \in Markets :
          marketpnl[m].fees_cusd * FxScale <= marketpnl[m].fees_local * HighestRate
    /\ boosted * FxScale
           <= SumFunctionOnSet([r \in Reps |-> boostbal[r].cghs_funded], Reps) * HighestRate

(* What the run looks at: settings that nothing reads are left out.        *)
TreasView == <<fx, oracle, [r \in Reps |-> reps[r].status], boostbal, params, reserve, marketpnl,
               marketpref, yield_pool, claimed, outside, boosted>>
=============================================================================
