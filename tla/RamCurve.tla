------------------------------ MODULE RamCurve ------------------------------
(***************************************************************************)
(* The RAM market of sika.system as a calculation (exchange_state.cpp): a  *)
(* market is a record of the relay token's supply and of the two reserves, *)
(* bytes of RAM (base) and SIKA (quote), both of weight one half.  Doubles *)
(* are taken to be exact; what is stored is truncated to integers.         *)
(***************************************************************************)
EXTENDS Integers

(* The largest integer whose square is at most m.                          *)
Root(m) == CHOOSE r \in 0..m : r * r <= m /\ m < (r + 1) * (r + 1)

(* convert_to_exchange: the supply grows with the square root of the       *)
(* reserve, S * sqrt((R + payment) / R) - S.                               *)
Minted(supply, reserve, payment) ==
    Root((supply * supply * (reserve + payment)) \div reserve) - supply

\* Mutant: the payout is rounded up.
RoundedUpPayout(supply, reserve, tokens) ==
    LET rest == supply - tokens
    IN  reserve - (reserve * rest * rest) \div (supply * supply)

(* convert_from_exchange: the reserve shrinks with the square of the       *)
(* supply, R * (1 - (1 - tokens / S)^2).                                   *)
Payout(supply, reserve, tokens) ==
    LET rest == supply - tokens
    IN  (reserve * (supply * supply - rest * rest)) \div (supply * supply)

(* convert, by way of the relay token: its supply is afterwards what it    *)
(* was.                                                                    *)
BytesFor(market, sika) ==
    LET tokens == Minted(market.supply, market.quote, sika)
    IN  Payout(market.supply + tokens, market.base, tokens)

SikaFor(market, bytes) ==
    LET tokens == Minted(market.supply, market.base, bytes)
    IN  Payout(market.supply + tokens, market.quote, tokens)

(* compute_fee, rounded up.                                                *)
Fee(amount, bps) ==
    (amount * bps) \div 10000 + (IF (amount * bps) % 10000 = 0 THEN 0 ELSE 1)
=============================================================================
