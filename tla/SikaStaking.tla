---------------------------- MODULE SikaStaking ----------------------------
(***************************************************************************)
(* What happens to staked SIKA in sika.system: staking for bandwidth and   *)
(* the refunds of unstaking (sika.system.cpp), the shares of the REX pool  *)
(* (rex.cpp), the RAM market whose fees feed the pool (ram_bancor.cpp),    *)
(* and the token balances behind them.                                     *)
(*                                                                         *)
(* Of the voters table only the stake is kept: votes are in SikaElection.  *)
(* Of vesting only the escrow is kept: schedules are in SikaPay.  Time     *)
(* points are ages that stop growing once nothing depends on them.  The    *)
(* history variables are not in the code: they record what no table keeps. *)
(***************************************************************************)
EXTENDS RamCurve, FiniteSets, Functions

CONSTANTS
    Users,          \* accounts that stake
    Wealth,         \* their SIKA at the start
    Escrow,         \* SIKA that eosio holds for vesting rows at the start
    RamFeeBps,      \* ram_fee_bps
    Symbols,        \* symbols of the token contract
    Relay,          \* the RAM market as init seeds it: its supply,
    Bytes,          \*   its bytes
    Quote,          \*   and its SIKA, which nobody has paid in
    Stakers,        \* bound: users that stake
    Traders,        \* bound: users that trade RAM
    Stakes,         \* bound: <<net, cpu>> that delegatebw is called with
    Unstakes,       \* bound: <<net, cpu, symbol>> that stakers call undelegatebw with
    Amounts,        \* bound: amounts of the REX actions
    Payments,       \* bound: amounts of buyram
    ByteCounts,     \* bound: bytes that buyrambytes and sellram are called with
    Windows,        \* bound: values of unstake_seconds
    MaxBandwidth,   \* bound: stake for bandwidth
    MaxForeign,     \* bound: stake paid in other tokens than SIKA
    MaxPool,        \* bound: SIKA in the pool before a purchase
    Savings         \* bound: SIKA deposited less SIKA withdrawn

ASSUME StakingAssumption ==
    /\ IsFiniteSet(Users) /\ Stakers \subseteq Users /\ Traders \subseteq Users
    /\ {"eosio", "sika.rex", "sika.burn"} \cap Users = {}
    /\ Wealth \in [Users -> Nat] /\ Escrow \in Nat
    /\ RamFeeBps \in 0..9999
    /\ {Relay, Bytes, Quote} \subseteq Nat \ {0}
    /\ Stakes \subseteq Nat \X Nat /\ Unstakes \in [Stakers -> SUBSET (Int \X Int \X Symbols)]
    /\ "SIKA" \in Symbols /\ "none" \notin Symbols
    /\ Amounts \subseteq Nat \ {0} /\ Payments \subseteq Nat \ {0}
    /\ ByteCounts \subseteq Nat /\ Windows \subseteq Nat \ {0}
    /\ {MaxBandwidth, MaxForeign, MaxPool} \subseteq Nat /\ Savings \subseteq Int

VARIABLES
    voters,         \* staked, of the voters table
    resources,      \* the userres table
    refunds,        \* the refunds table
    pool,           \* the rexpool row
    rexbalance,     \* the rexbal table
    market,         \* the rammarket row
    balance,        \* the token's balances of SIKA
    escrow,         \* what vesting rows may still release
    window,         \* unstake_seconds
    uncounted,      \* history: stake in REX that no voter row was there to count
    savings,        \* history: deposits to sika.rex less withdrawals
    unqueued,       \* history: stake taken back less SIKA queued for refund
    foreign,        \* history: stake that was paid in another token than SIKA
    rested          \* history: ticks since SIKA last left a stake for the queue

histories == <<uncounted, savings, unqueued, foreign, rested>>
vars == <<voters, resources, refunds, pool, rexbalance, market, balance, escrow, window,
          histories>>

Accounts == Users \cup {"eosio", "sika.rex", "sika.burn"}

SIKA == "SIKA"

(* A receiver without a row in userres, whose symbol the first stake or    *)
(* purchase of RAM fixes for good.                                         *)
NoRow == [symbol |-> "none", net |-> 0, cpu |-> 0, ram_bytes |-> 0]

NoRefund == [pending |-> FALSE, net |-> 0, cpu |-> 0, age |-> 0]

\* Mutant: the token lets a balance be overdrawn.
CanOverdraw(from, amount) == amount > 0

(* A transfer of the token.                                                *)
CanPay(from, amount) == amount > 0 /\ balance[from] >= amount
Paid(b, from, to, amount) == [b EXCEPT ![from] = @ - amount, ![to] = @ + amount]

OldestNeeded == CHOOSE n \in Windows : \A w \in Windows : w <= n
Aged(age) == IF age <= OldestNeeded THEN age + 1 ELSE age

-----------------------------------------------------------------------------
Init ==
    /\ voters = [u \in Users |-> [exists |-> FALSE, staked |-> 0]]
    /\ resources = [u \in Users |-> NoRow]
    /\ refunds = [u \in Users |-> NoRefund]
    /\ pool = [unlent |-> 0, lendable |-> 0, rex |-> 0]
    /\ rexbalance = [u \in Users |-> [vote_stake |-> 0, rex |-> 0]]
    /\ market = [supply |-> Relay, base |-> Bytes, quote |-> Quote]
    /\ balance = [a \in Accounts |->
          IF a \in Users THEN Wealth[a] ELSE IF a = "eosio" THEN Escrow ELSE 0]
    /\ escrow = Escrow
    /\ window \in Windows
    /\ uncounted = 0 /\ savings = 0 /\ unqueued = 0 /\ foreign = 0
    /\ rested = [u \in Users |-> 0]

Tick ==
    /\ refunds' = [u \in Users |->
          IF refunds[u].pending THEN [refunds[u] EXCEPT !.age = Aged(@)] ELSE refunds[u]]
    /\ rested' = [u \in Users |-> IF refunds[u].pending THEN Aged(rested[u]) ELSE rested[u]]
    /\ UNCHANGED <<voters, resources, pool, rexbalance, market, balance, escrow, window,
                   uncounted, savings, unqueued, foreign>>

(* voteproducer and regproxy open a voter row, as far as stake goes.       *)
OpenVoter(u) ==
    /\ voters' = [voters EXCEPT ![u].exists = TRUE]
    /\ UNCHANGED <<resources, refunds, pool, rexbalance, market, balance, escrow, window, histories>>

-----------------------------------------------------------------------------
(* Staking for bandwidth.                                                  *)
Lost(delta) == IF delta < 0 THEN -delta ELSE 0

\* Mutant: amounts join a refund that is already cooling down.
QueuedBehind(row, net, cpu) ==
    [pending |-> TRUE, net |-> row.net + net, cpu |-> row.cpu + cpu, age |-> row.age]

(* One row per account: what is added makes all of it wait again.          *)
Queued(row, net, cpu) ==
    [pending |-> TRUE, net |-> row.net + net, cpu |-> row.cpu + cpu, age |-> 0]

(* stake_owner: whose stake delegatebw and undelegatebw change.            *)
StakeOwner(from, receiver, transfer) == IF transfer THEN receiver ELSE from

(* change_resource_limits.  The refund goes by the signs of the two parts, *)
(* and SIKA unstaked from somebody else's resources is not queued at all.  *)
(* Amounts must be of the row's token.  Staking pays in that token, whose  *)
(* balances other than of SIKA are not kept; the refund is always of SIKA. *)
ChangeResourceLimits(from, receiver, net, cpu, symbol, transfer) ==
    LET total == net + cpu
        owner == StakeOwner(from, receiver, transfer)
        queues == total < 0 /\ owner = receiver
        pays == total > 0 /\ symbol = SIKA
    IN  /\ net # 0 \/ cpu # 0
        /\ resources[receiver].symbol \in {NoRow.symbol, symbol}
        /\ resources[receiver].net + net >= 0
        /\ resources[receiver].cpu + cpu >= 0
        /\ voters[owner].exists => voters[owner].staked + total >= 0
        /\ pays => CanPay(from, total)
        /\ resources' = [resources EXCEPT ![receiver] =
              [symbol |-> symbol, net |-> @.net + net, cpu |-> @.cpu + cpu, ram_bytes |-> @.ram_bytes]]
        /\ voters' = [voters EXCEPT ![owner] = [exists |-> TRUE, staked |-> @.staked + total]]
        /\ balance' = IF pays THEN Paid(balance, from, "eosio", total) ELSE balance
        /\ foreign' = IF total > 0 /\ ~pays THEN foreign + total ELSE foreign
        /\ refunds' = IF queues
                      THEN [refunds EXCEPT ![owner] = Queued(@, Lost(net), Lost(cpu))] ELSE refunds
        /\ rested' = IF queues THEN [rested EXCEPT ![owner] = 0] ELSE rested
        /\ unqueued' = unqueued + Lost(total) - (IF queues THEN Lost(net) + Lost(cpu) ELSE 0)
        /\ UNCHANGED <<pool, rexbalance, market, escrow, window, uncounted, savings>>

DelegateBw(from, receiver, stake, transfer) ==
    ChangeResourceLimits(from, receiver, stake[1], stake[2], SIKA, transfer)

(* undelegatebw checks neither the signs nor the symbol of its amounts.    *)
UndelegateBw(from, receiver, unstake) ==
    ChangeResourceLimits(from, receiver, -unstake[1], -unstake[2], unstake[3], FALSE)

(* refund: the transfer of an empty refund fails.                          *)
Refund(u) ==
    LET amount == refunds[u].net + refunds[u].cpu
    IN  /\ refunds[u].pending /\ refunds[u].age > window
        /\ CanPay("eosio", amount)
        /\ balance' = Paid(balance, "eosio", u, amount)
        /\ refunds' = [refunds EXCEPT ![u] = NoRefund]
        /\ rested' = [rested EXCEPT ![u] = 0]
        /\ UNCHANGED <<voters, resources, pool, rexbalance, market, escrow, window,
                       uncounted, savings, unqueued, foreign>>

SetRexCfg(seconds) ==
    /\ window' = seconds
    /\ UNCHANGED <<voters, resources, refunds, pool, rexbalance, market, balance, escrow, histories>>

-----------------------------------------------------------------------------
(* The REX pool.                                                           *)
Deposit(u, amount) ==
    /\ CanPay(u, amount)
    /\ balance' = Paid(balance, u, "sika.rex", amount)
    /\ savings' = savings + amount
    /\ UNCHANGED <<voters, resources, refunds, pool, rexbalance, market, escrow, window,
                   uncounted, unqueued, foreign, rested>>

(* withdraw: nothing records whose deposit it was.                         *)
Withdraw(u, amount) ==
    /\ CanPay("sika.rex", amount)
    /\ balance' = Paid(balance, "sika.rex", u, amount)
    /\ savings' = savings - amount
    /\ UNCHANGED <<voters, resources, refunds, pool, rexbalance, market, escrow, window,
                   uncounted, unqueued, foreign, rested>>

\* Mutant: the buyer's share is rounded up.
GenerousShares(amount) ==
    IF pool.lendable = 0 \/ pool.rex = 0 THEN amount
    ELSE (amount * pool.rex) \div pool.lendable + 1

Shares(amount) ==
    IF pool.lendable = 0 \/ pool.rex = 0 THEN amount ELSE (amount * pool.rex) \div pool.lendable

(* A change of the stake that REX gives a user: only an existing voter row *)
(* follows it, and nothing checks the sign.                                *)
Recount(u, delta) ==
    IF voters[u].exists
    THEN voters' = [voters EXCEPT ![u].staked = @ + delta] /\ uncounted' = uncounted
    ELSE voters' = voters /\ uncounted' = uncounted + delta

(* apply_rex_stake.                                                        *)
ApplyRexStake(u, amount) ==
    /\ pool' = [unlent |-> pool.unlent + amount, lendable |-> pool.lendable + amount,
                rex |-> pool.rex + Shares(amount)]
    /\ rexbalance' = [rexbalance EXCEPT ![u] =
          [vote_stake |-> @.vote_stake + amount, rex |-> @.rex + Shares(amount)]]
    /\ Recount(u, amount)

BuyRex(u, amount) ==
    /\ CanPay(u, amount)
    /\ balance' = Paid(balance, u, "sika.rex", amount)
    /\ ApplyRexStake(u, amount)
    /\ UNCHANGED <<resources, refunds, market, escrow, window, savings, unqueued, foreign, rested>>

(* claimvest, which ends in credit_rex_from_escrow.                        *)
ClaimVest(u, amount) ==
    /\ amount <= escrow /\ CanPay("eosio", amount)
    /\ escrow' = escrow - amount
    /\ balance' = Paid(balance, "eosio", "sika.rex", amount)
    /\ ApplyRexStake(u, amount)
    /\ UNCHANGED <<resources, refunds, market, window, savings, unqueued, foreign, rested>>

\* Mutant: the stake that voting counts is not taken back.
SellKeepsVotes(u, rex) ==
    LET owed == (rex * pool.lendable) \div pool.rex
    IN  /\ rex > 0 /\ rexbalance[u].rex >= rex
        /\ pool' = [unlent |-> pool.unlent - owed, lendable |-> pool.lendable - owed,
                    rex |-> pool.rex - rex]
        /\ rexbalance' = [rexbalance EXCEPT ![u] =
              [vote_stake |-> @.vote_stake - owed, rex |-> @.rex - rex]]
        /\ refunds' = [refunds EXCEPT ![u] = Queued(@, 0, owed)]
        /\ rested' = [rested EXCEPT ![u] = 0]
        /\ UNCHANGED <<voters, uncounted, resources, market, balance, escrow, window, savings, unqueued, foreign>>

(* sellrex: the SIKA is queued for a refund by eosio, and no transfer      *)
(* moves it there from sika.rex.                                           *)
SellRex(u, rex) ==
    LET owed == (rex * pool.lendable) \div pool.rex
    IN  /\ rex > 0 /\ rexbalance[u].rex >= rex
        /\ pool' = [unlent |-> pool.unlent - owed, lendable |-> pool.lendable - owed,
                    rex |-> pool.rex - rex]
        /\ rexbalance' = [rexbalance EXCEPT ![u] =
              [vote_stake |-> @.vote_stake - owed, rex |-> @.rex - rex]]
        /\ Recount(u, -owed)
        /\ refunds' = [refunds EXCEPT ![u] = Queued(@, 0, owed)]
        /\ rested' = [rested EXCEPT ![u] = 0]
        /\ UNCHANGED <<resources, market, balance, escrow, window, savings, unqueued, foreign>>

-----------------------------------------------------------------------------
(* The RAM market.                                                         *)
ToRex(fee) == (fee * 5000) \div 10000

\* Mutant: the half of the fee that is burned is compounded as well.
CompoundsWholeFee(b, fee) ==
    /\ balance' = Paid(Paid(b, "eosio", "sika.rex", ToRex(fee)),
                       "eosio", "sika.burn", fee - ToRex(fee))
    /\ pool' = [pool EXCEPT !.unlent = @ + fee, !.lendable = @ + fee]

(* route_ram_fee: half of it raises the value of the REX shares            *)
(* (compound_rex_sika), the rest is burned.                                *)
RouteRamFee(b, fee) ==
    /\ balance' = Paid(Paid(b, "eosio", "sika.rex", ToRex(fee)),
                       "eosio", "sika.burn", fee - ToRex(fee))
    /\ pool' = [pool EXCEPT !.unlent = @ + ToRex(fee), !.lendable = @ + ToRex(fee)]

(* buy_ram.                                                                *)
BuyRam(u, receiver, payment) ==
    LET fee == Fee(payment, RamFeeBps)
        bytes == BytesFor(market, payment - fee)
    IN  /\ CanPay(u, payment)
        /\ bytes > 0
        /\ market' = [market EXCEPT !.base = @ - bytes, !.quote = @ + payment - fee]
        /\ resources' = [resources EXCEPT ![receiver].ram_bytes = @ + bytes,
                                          ![receiver].symbol = IF @ = NoRow.symbol THEN SIKA ELSE @]
        /\ RouteRamFee(Paid(balance, u, "eosio", payment), fee)
        /\ UNCHANGED <<voters, refunds, rexbalance, escrow, window, histories>>

(* buyrambytes: the payment is what selling as many bytes would return,    *)
(* with the fee put on top.                                                *)
PriceOfBytes(bytes) == (SikaFor(market, bytes) * 10000) \div (10000 - RamFeeBps)

BuyRamBytes(u, receiver, bytes) == bytes > 0 /\ BuyRam(u, receiver, PriceOfBytes(bytes))

(* sellram: the net proceeds are transferred, and a transfer of nothing    *)
(* fails.                                                                  *)
SellRam(u, bytes) ==
    LET proceeds == SikaFor(market, bytes)
        fee == Fee(proceeds, RamFeeBps)
    IN  /\ bytes > 0 /\ resources[u].ram_bytes >= bytes
        /\ proceeds > 0
        /\ balance["eosio"] >= proceeds /\ proceeds > fee
        /\ market' = [market EXCEPT !.base = @ + bytes, !.quote = @ - proceeds]
        /\ resources' = [resources EXCEPT ![u].ram_bytes = @ - bytes]
        /\ RouteRamFee(Paid(balance, "eosio", u, proceeds - fee), fee)
        /\ UNCHANGED <<voters, refunds, rexbalance, escrow, window, histories>>

-----------------------------------------------------------------------------
InBandwidth == [u \in Users |-> resources[u].net + resources[u].cpu]
InQueue == [u \in Users |-> refunds[u].net + refunds[u].cpu]
Staked == [u \in Users |-> voters[u].staked]
VoteStake == [u \in Users |-> rexbalance[u].vote_stake]
RexShares == [u \in Users |-> rexbalance[u].rex]
RamBytes == [u \in Users |-> resources[u].ram_bytes]
Total(amounts) == SumFunctionOnSet(amounts, Users)

Next ==
    \/ Tick
    \/ \E seconds \in Windows : SetRexCfg(seconds)
    \/ \E u \in Stakers :
          \/ OpenVoter(u)
          \/ Refund(u)
          \/ /\ Total(InBandwidth) < MaxBandwidth
             /\ \E receiver \in Stakers, stake \in Stakes, transfer \in BOOLEAN :
                   DelegateBw(u, receiver, stake, transfer)
          \/ \E receiver \in Stakers, unstake \in Unstakes[u] :
                /\ UndelegateBw(u, receiver, unstake)
                /\ Total(InBandwidth) - unstake[1] - unstake[2] <= MaxBandwidth
                /\ unstake[3] # SIKA => foreign - unstake[1] - unstake[2] <= MaxForeign
          \/ \E amount \in Amounts :
                \/ savings + amount \in Savings /\ Deposit(u, amount)
                \/ savings - amount \in Savings /\ Withdraw(u, amount)
                \/ pool.lendable < MaxPool /\ BuyRex(u, amount)
                \/ ClaimVest(u, amount)
                \/ SellRex(u, amount)
    \/ \E u \in Traders :
          \/ \E receiver \in Traders :
                \/ \E payment \in Payments : BuyRam(u, receiver, payment)
                \/ \E bytes \in ByteCounts : BuyRamBytes(u, receiver, bytes)
          \/ \E bytes \in ByteCounts : SellRam(u, bytes)

Spec == Init /\ [][Next]_vars

-----------------------------------------------------------------------------
ResourceRow ==
    [symbol : Symbols \cup {NoRow.symbol}, net : Nat, cpu : Nat, ram_bytes : Nat]

(* Types of the tables.  No table checks that a pool or a reserve stays    *)
(* non-negative: stakes may go below zero, and see SharesAddUp.            *)
TypeOK ==
    /\ voters \in [Users -> [exists : BOOLEAN, staked : Int]]
    /\ resources \in [Users -> ResourceRow]
    /\ refunds \in [Users -> [pending : BOOLEAN, net : Nat, cpu : Nat, age : Nat]]
    /\ pool \in [unlent : Nat, lendable : Nat, rex : Nat]
    /\ rexbalance \in [Users -> [vote_stake : Int, rex : Nat]]
    /\ market \in [supply : {Relay}, base : 1..Bytes, quote : Nat \ {0}]
    /\ balance \in [Accounts -> Nat]
    /\ escrow \in Nat /\ window \in Windows
    /\ uncounted \in Int /\ savings \in Int /\ unqueued \in Int /\ foreign \in Nat
    /\ rested \in [Users -> Nat]

(* The stake that voting counts is the stake there is: bandwidth of        *)
(* everybody and REX of everybody, less the REX stake taken while its      *)
(* owner had no voter row; delegation, transfers, undelegation from others,*)
(* purchases and sales never create or lose voting stake otherwise.  A     *)
(* stake counts whatever token it was paid in.                             *)
VotingStakeAddsUp == Total(Staked) + uncounted = Total(InBandwidth) + Total(VoteStake)

(* The shares of the pool are the shares of its users, and none is worth   *)
(* less than the SIKA it first cost: sellrex never divides by an empty     *)
(* pool and never takes more out than is there.                            *)
SharesAddUp ==
    /\ pool.rex = Total(RexShares)
    /\ pool.rex <= pool.lendable
    /\ pool.unlent = pool.lendable

(* Neither a purchase nor a sale of somebody else, at whatever rounding,   *)
(* nor a RAM fee makes an outstanding share worth less.                    *)
SharePriceNeverFalls ==
    [][pool.rex > 0 => pool.lendable' * pool.rex >= pool.lendable * pool.rex']_vars

(* What eosio and sika.rex hold together falls short of what the tables    *)
(* owe (staked bandwidth, the pool, the refund queues, the RAM reserve     *)
(* above its seed, vesting, deposits, and stake that no queue took back)   *)
(* by exactly the stake that was paid in other tokens and is owed in SIKA. *)
CustodyAddsUp ==
    balance["eosio"] + balance["sika.rex"] + foreign =
       Total(InBandwidth) + pool.lendable + Total(InQueue) + (market.quote - Quote)
          + escrow + savings + unqueued

(* A refund is paid only when the last SIKA that joined it, from whichever *)
(* of the two stakes, has waited out the window.                           *)
RefundsCooledDown ==
    [][\A u \in Users : refunds[u].pending /\ ~refunds'[u].pending => rested[u] > window]_vars

(* Buying and selling RAM never drains the curve: bytes times SIKA does    *)
(* not fall, the bytes sold are those that users have, and the market pays *)
(* out no SIKA of its seed, which nobody paid in.                          *)
RamPaysItself ==
    /\ market.base * market.quote >= Bytes * Quote
    /\ market.base + Total(RamBytes) = Bytes
    /\ market.quote >= Quote
=============================================================================
