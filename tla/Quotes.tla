------------------------------- MODULE Quotes -------------------------------
(***************************************************************************)
(* The arithmetic of amounts: rates and quotes of the ASB (asb/rate.rs,    *)
(* make_quote, beldex.rs), what the CLI can give (bitcoin/wallet.rs), and  *)
(* the fees of the transactions of a swap.  Amounts are naturals below a   *)
(* bound that stands for the width of u64; decimals are exact and          *)
(* truncated where the code converts them to integers.                     *)
(***************************************************************************)
EXTENDS Integers

CONSTANTS
    U64,           \* amounts are less than this
    OneBdx,        \* atomic units of one BDX
    BeldexFee,     \* BELDEX_FEE
    Reserve,       \* what make_quote sets aside for fees
    DustAmount,    \* an amount has to be greater
    MaxAbsoluteFee,
    MinRelayFee    \* of the Electrum server, 0 included

ASSUME QuotesAssumption ==
    /\ {U64, OneBdx, DustAmount} \subseteq Nat \ {0}
    /\ {BeldexFee, Reserve, MaxAbsoluteFee, MinRelayFee} \subseteq Nat
    /\ Reserve + BeldexFee < U64

Failure == -1
Amount == 0..(U64 - 1)
Fits(n) == IF n \in Amount THEN n ELSE Failure
SaturatingSub(a, b) == IF a < b THEN 0 ELSE a - b
AtMost(a, b) == IF a < b THEN a ELSE b

\* Mutant: rounded up.
AskRounded(rate, spread) == Fits(rate + (rate * spread) \div 100 + 1)

\* Rate::ask: the spread, in percent, is truncated to whole satoshis.
Ask(rate, spread) == Fits(rate + (rate * spread) \div 100)

\* Rate::quote: the BDX for an amount of BTC.
SellQuote(ask, btc) ==
    IF ask = 0 THEN Failure ELSE Fits((btc * OneBdx) \div ask)

\* Mutant: the fee of the lock transaction is left out.
MaxBitcoinForPriceFeeless(bdx, ask) == Fits((bdx * ask) \div OneBdx)

\* Amount::max_bitcoin_for_price.
MaxBitcoinForPrice(bdx, ask) == Fits((SaturatingSub(bdx, BeldexFee) * ask) \div OneBdx)

BidQuote(price, least, most) ==
    [price |-> price, min_quantity |-> least, max_quantity |-> most]
NoQuote == BidQuote(Failure, 0, 0)

\* make_quote, of the market rate, the unlocked balance and the limits of the config.
MakeQuote(rate, spread, unlocked, minBuy, maxBuy) ==
    LET ask == Ask(rate, spread)
        most == MaxBitcoinForPrice(SaturatingSub(unlocked, Reserve), ask)
    IN  IF ask = Failure \/ most = Failure THEN NoQuote
        ELSE IF minBuy > most THEN BidQuote(ask, 0, 0)
        ELSE BidQuote(ask, minBuy, AtMost(maxBuy, most))

\* Mutant: a balance that does not cover the fee is not looked for.
MaxGiveableUnchecked(balance, fee) == IF balance < DustAmount THEN 0 ELSE balance - fee

\* max_giveable: the wallet drained into one output, for a fee that depends on the rate.
MaxGiveable(balance, fee) ==
    IF balance < DustAmount \/ balance < MinRelayFee \/ balance < fee + DustAmount THEN 0
    ELSE balance - fee

\* The server may ask for nothing; one satoshi is taken then.
RelayFee == IF MinRelayFee = 0 THEN 1 ELSE MinRelayFee
RelativeBound(amount) == (amount * 3) \div 100

\* Mutant: the relative bound is left out.
EstimateFeeUnbounded(amount, recommended) ==
    IF amount <= DustAmount THEN Failure
    ELSE IF recommended < RelayFee THEN RelayFee
    ELSE IF recommended > RelativeBound(amount) /\ recommended > MaxAbsoluteFee
         THEN MaxAbsoluteFee
    ELSE recommended

\* estimate_fee, of an amount and the fee that the rate and the weight come to.
EstimateFee(amount, recommended) ==
    IF amount <= DustAmount THEN Failure
    ELSE IF recommended < RelayFee THEN RelayFee
    ELSE IF recommended <= RelativeBound(amount) THEN recommended
    ELSE IF recommended > MaxAbsoluteFee THEN MaxAbsoluteFee
    ELSE RelativeBound(amount)
=============================================================================
