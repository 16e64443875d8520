------------------------------ MODULE BuyAmount ------------------------------
(***************************************************************************)
(* How much a buyer swaps: the ASB's price feed (coingecko.rs) and quote   *)
(* (make_quote), the CLI's determine_btc_to_swap with its wait for a       *)
(* deposit, and the ASB's check of the request.  Meanwhile other requests  *)
(* of the same application sync and empty the same wallet, the price moves *)
(* and other swaps take the ASB's balance.                                 *)
(***************************************************************************)
EXTENDS Quotes

CONSTANTS
    Price,        \* market prices, in satoshis for one BDX
    Spread,       \* in percent
    BdxBalance,   \* unlocked balances of the ASB
    MinBuy, MaxBuy,
    Preferred,    \* amounts that the user prefers
    AnyAmount,    \* no such preference
    Recommended,  \* what fee estimates come to
    Deposit,      \* what the user may deposit at a time
    MaxCoins      \* bound on the coins of the CLI's wallet

ASSUME BuyAssumption ==
    /\ Price \cup BdxBalance \cup Preferred \cup Recommended \cup Deposit \subseteq Amount
    /\ MinBuy \in Amount /\ MaxBuy \in Amount /\ MinBuy <= MaxBuy /\ MaxCoins \in Amount
    /\ Spread \in 0..100 /\ AnyAmount \notin Preferred

VARIABLES
    market,     \* the price out there
    feed,       \* the latest update of the feed, Failure before the first one
    unlocked,   \* the ASB's balance
    coins,      \* the CLI's bitcoin, as the chain has them
    known,      \* as its wallet knows them since the last sync
    fee,        \* what fee estimates come to
    wish,       \* preferred_amount
    quote,      \* the quote that was received
    give,       \* max_giveable
    amount,     \* btc_swap_amount
    at,         \* where the request is
    disturbed   \* history: another request changed the wallet, a later update or
                \* another swap changed what the quote was made of

asbVars == <<market, feed, unlocked>>
cliVars == <<known, fee, wish, quote, give, amount, at>>
buyVars == <<asbVars, cliVars, coins, disturbed>>

Ended == {"zero", "dust", "panic", "no quote", "accepted", "declined", "failed"}

BuyTypeOK ==
    /\ market \in Price /\ feed \in Price \cup {Failure} /\ unlocked \in BdxBalance
    /\ coins \in Amount /\ known \in Amount /\ fee \in Recommended
    /\ wish \in Preferred \cup {AnyAmount}
    /\ quote \in [price : Failure..(U64 - 1), min_quantity : Amount, max_quantity : Amount]
    /\ give \in Amount /\ amount \in Amount
    /\ at \in {"start", "quoted", "give", "deposit", "sync", "regive", "balance", "request"}
              \cup Ended
    /\ disturbed \subseteq {"wallet", "seller"}

BuyInit ==
    /\ market \in Price /\ feed = Failure /\ unlocked \in BdxBalance
    /\ coins \in Deposit \cup {0} /\ known = 0 /\ fee \in Recommended
    /\ wish \in Preferred \cup {AnyAmount}
    /\ quote = NoQuote /\ give = 0 /\ amount = 0
    /\ at = "start"
    /\ disturbed = {}

-----------------------------------------------------------------------------
(* The price feed                                                          *)

PriceMoves ==
    /\ at = "start"
    /\ \E p \in Price : market' = p
    /\ UNCHANGED <<feed, unlocked, cliVars, coins, disturbed>>

\* A fetch that fails is tried again; the last update stays, however old it is.
FetchPrice ==
    /\ feed' = market
    /\ disturbed' = disturbed \cup {"seller"}
    /\ UNCHANGED <<market, unlocked, cliVars, coins>>

\* Another swap takes from the balance, or it is topped up.
SellerBalanceChanges ==
    /\ at = "request"
    /\ \E b \in BdxBalance : unlocked' = b
    /\ disturbed' = disturbed \cup {"seller"}
    /\ UNCHANGED <<market, feed, cliVars, coins>>

-----------------------------------------------------------------------------
(* determine_btc_to_swap                                                   *)

\* Mutant: the lock transaction's fee and the reserve are not kept back.
QuoteOfAll ==
    LET ask == Ask(feed, Spread)
        most == MaxBitcoinForPriceFeeless(unlocked, ask)
    IN  IF ask = Failure \/ most = Failure THEN NoQuote
        ELSE IF MinBuy > most THEN BidQuote(ask, 0, 0)
        ELSE BidQuote(ask, MinBuy, AtMost(MaxBuy, most))

\* What the ASB answers: nothing, when there is no rate or a product overflows.
SellersQuote ==
    IF feed = Failure THEN NoQuote ELSE MakeQuote(feed, Spread, unlocked, MinBuy, MaxBuy)

\* A quote of nothing is an error.
RequestQuote ==
    /\ at = "start"
    /\ quote' = SellersQuote
    /\ at' = CASE quote'.price = Failure   -> "no quote"
               [] quote'.max_quantity = 0  -> "zero"
               [] OTHER                    -> "quoted"
    /\ disturbed' = disturbed \ {"seller"}
    /\ UNCHANGED <<asbVars, known, fee, wish, give, amount, coins>>

Sync ==
    /\ at \in {"quoted", "sync"}
    /\ known' = coins
    /\ at' = IF at = "quoted" THEN "give" ELSE "regive"
    /\ disturbed' = disturbed \ {"wallet"}
    /\ UNCHANGED <<asbVars, fee, wish, quote, give, amount, coins>>

TooLittle(g) == g < quote.min_quantity

GiveFirst ==
    /\ at = "give"
    /\ give' = MaxGiveable(known, fee)
    /\ at' = IF give' = 0 \/ TooLittle(give') THEN "deposit" ELSE "balance"
    /\ UNCHANGED <<asbVars, known, fee, wish, quote, amount, coins, disturbed>>

\* The user is told what to deposit, with the fee for what is missing: an estimate for
\* an amount that counts as dust is an error.
AskForDeposit ==
    /\ at = "deposit"
    /\ at' = IF EstimateFee(SaturatingSub(quote.min_quantity, give), fee) = Failure
             THEN "dust" ELSE "sync"
    /\ UNCHANGED <<asbVars, known, fee, wish, quote, give, amount, coins, disturbed>>

\* Mutant: any deposit is enough.
GiveAgainAtOnce ==
    /\ at = "regive"
    /\ LET g == MaxGiveable(known, fee) IN
         IF g > give THEN give' = g /\ at' = "balance"
                     ELSE UNCHANGED give /\ at' = "sync"
    /\ UNCHANGED <<asbVars, known, fee, wish, quote, amount, coins, disturbed>>

\* Mutant: the wait goes on although there is enough.
GiveAgainUnbroken ==
    /\ at = "regive"
    /\ LET g == MaxGiveable(known, fee) IN
         IF g > give THEN give' = g /\ at' = IF TooLittle(g) THEN "deposit" ELSE "sync"
                     ELSE UNCHANGED give /\ at' = "sync"
    /\ UNCHANGED <<asbVars, known, fee, wish, quote, amount, coins, disturbed>>

\* Waiting ends when there is more than before, and starts again if it is not enough.
GiveAgain ==
    /\ at = "regive"
    /\ LET g == MaxGiveable(known, fee) IN
         IF g > give THEN give' = g /\ at' = IF TooLittle(g) THEN "deposit" ELSE "balance"
                     ELSE UNCHANGED give /\ at' = "sync"
    /\ UNCHANGED <<asbVars, known, fee, wish, quote, amount, coins, disturbed>>

\* Mutant: the wallet is synced once more.
DetermineAmountSynced ==
    /\ at = "balance"
    /\ known' = coins
    /\ IF coins < give THEN at' = "panic" /\ UNCHANGED amount
       ELSE /\ at' = "request"
            /\ amount' = AtMost(give, IF wish = AnyAmount THEN quote.max_quantity
                                      ELSE AtMost(wish, quote.max_quantity))
    /\ UNCHANGED <<asbVars, fee, wish, quote, give, coins, disturbed>>

\* The balance is read once more, for the fees: what is given may by now exceed it.
DetermineAmount ==
    /\ at = "balance"
    /\ IF known < give THEN at' = "panic" /\ UNCHANGED amount
       ELSE /\ at' = "request"
            /\ amount' = AtMost(give, IF wish = AnyAmount THEN quote.max_quantity
                                      ELSE AtMost(wish, quote.max_quantity))
    /\ UNCHANGED <<asbVars, known, fee, wish, quote, give, coins, disturbed>>

\* The ASB's checks of a request, with the rate and the balance of the moment.
Acceptable ==
    /\ feed # Failure
    /\ amount \in MinBuy..MaxBuy
    /\ LET ask == Ask(feed, Spread)
           bdx == SellQuote(ask, amount)
       IN  ask # Failure /\ bdx # Failure /\ unlocked >= bdx + BeldexFee

\* The fees of TxCancel and TxRefund are estimated before the request is sent; an amount
\* that counts as dust is an error.
RequestSwap ==
    /\ at = "request"
    /\ at' = IF EstimateFee(amount, fee) = Failure THEN "failed"
             ELSE IF Acceptable THEN "accepted" ELSE "declined"
    /\ UNCHANGED <<asbVars, known, fee, wish, quote, give, amount, coins, disturbed>>

-----------------------------------------------------------------------------
(* The user and other requests                                             *)

Pay ==
    /\ at \notin Ended
    /\ \E d \in Deposit : coins + d <= MaxCoins /\ coins' = coins + d
    /\ UNCHANGED <<asbVars, cliVars, disturbed>>

\* withdraw_btc takes everything, or an amount that leaves some.
Withdraw ==
    /\ at \notin Ended
    /\ \E d \in Deposit \cup {0} : d < coins /\ coins' = d
    /\ UNCHANGED <<asbVars, cliVars, disturbed>>

\* get_balance with force_refresh.
OtherSync ==
    /\ at \notin Ended /\ known # coins
    /\ known' = coins
    /\ disturbed' = disturbed \cup {"wallet"}
    /\ UNCHANGED <<asbVars, fee, wish, quote, give, amount, at, coins>>

BuyStep ==
    \/ RequestQuote \/ Sync \/ GiveFirst \/ AskForDeposit \/ GiveAgain \/ DetermineAmount
    \/ RequestSwap

BuyNext ==
    \/ BuyStep
    \/ PriceMoves \/ FetchPrice \/ SellerBalanceChanges
    \/ Pay \/ Withdraw \/ OtherSync

BuySpec == BuyInit /\ [][BuyNext]_buyVars /\ WF_buyVars(BuyStep)

-----------------------------------------------------------------------------

\* A price that is quoted is the market's with its spread, to the satoshi below: a
\* spread that comes to less than a satoshi is lost.
SpreadApplied ==
    quote.price # Failure =>
        \E p \in Price : /\ quote.price * 100 <= p * (100 + Spread)
                         /\ p * (100 + Spread) < (quote.price + 1) * 100

\* A quote is honoured: while the ASB's rate and balance are those of the quote, no
\* request within it is declined, whatever was rounded on the way.
QuoteHonoured ==
    at = "declined" /\ "seller" \notin disturbed
        => amount \notin quote.min_quantity..quote.max_quantity

\* The amount that is asked for is within the quote and no more than the wallet could
\* give; only the user's own preference puts it below the minimum.
AmountWithinQuote ==
    at \in {"request", "accepted"} =>
        /\ amount <= quote.max_quantity
        /\ amount <= give
        /\ amount < quote.min_quantity => wish # AnyAmount /\ wish < quote.min_quantity

\* Subtracting what can be given from the balance does not underflow unless another
\* request synced the wallet in between.
PanicsOnlyIfDisturbed == at = "panic" => "wallet" \in disturbed

\* Of what was accepted the fees of TxCancel and TxRefund leave something, so that both
\* can be built, unless fees are beyond the absolute bound or the ASB's minimum is no
\* more than two relay fees.
FeesLeaveRefund ==
    at = "accepted" /\ fee <= MaxAbsoluteFee /\ MinBuy > 2 * RelayFee
        => amount > 2 * EstimateFee(amount, fee)

\* The wait ends when the coins suffice and nobody else touches the wallet; a wallet
\* that is short of the minimum by dust ends the request with an error.
WaitEnds ==
    (at \in {"give", "sync", "regive"} /\ [](MaxGiveable(coins, fee) >= MinBuy))
        ~> (at \in {"request"} \cup Ended)

\* A quote is sound: its price is the market's with the spread, the arithmetic stays
\* within 64 bits, and the seller takes every amount within it while nothing changes.
QuoteSound == BuyTypeOK /\ SpreadApplied /\ QuoteHonoured

\* The amount is sound: it lies within the quote and can be given, and no subtraction
\* of amounts fails unless another request changed the wallet in between.
AmountSound == AmountWithinQuote /\ PanicsOnlyIfDisturbed

-----------------------------------------------------------------------------
(* The inductive invariant behind the three of them                        *)

\* The quote of a request is the one the ASB would still make, until something of what
\* it was made of changes, and a request that is declined was not acceptable by then.
QuoteCurrent ==
    at # "start" /\ "seller" \notin disturbed =>
        /\ quote = SellersQuote
        /\ at = "declined" => ~Acceptable

\* A request goes on only with a quote of something, whose limits are in order.
QuoteUsable ==
    /\ at \notin {"start", "no quote", "zero"} => quote.price # Failure /\ quote.max_quantity > 0
    /\ quote.min_quantity <= quote.max_quantity

\* What is to be given covers the minimum, and is there unless the wallet was synced by
\* another request since.
GiveCovered ==
    /\ at \in {"balance", "request", "accepted"} => give >= quote.min_quantity
    /\ at = "balance" /\ "wallet" \notin disturbed => give <= known

\* What the ASB has accepted is neither below its minimum nor dust.
AcceptedCovered == at = "accepted" => amount >= MinBuy /\ amount > DustAmount

\* What every step of the request, the ASB, the user and other requests keeps.
BuyInv ==
    /\ BuyTypeOK /\ SpreadApplied /\ AmountSound
    /\ QuoteCurrent /\ QuoteUsable /\ GiveCovered /\ AcceptedCovered
==============================================================================
