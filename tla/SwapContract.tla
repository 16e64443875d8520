---------------------------- MODULE SwapContract ----------------------------
(***************************************************************************)
(* What an atomic swap promises, without protocol: the bitcoin leave Bob's *)
(* hands into a shared output and end with Alice or with Bob, the BDX leave*)
(* Alice's hands into a shared output, and who gets the BDX depends on     *)
(* where the bitcoin went.                                                 *)
(***************************************************************************)
VARIABLES
    btc,   \* where the bitcoin are
    coin   \* where the BDX are

contractVars == <<btc, coin>>

BtcPlace == {"bob", "locked", "cancelled", "redeemed", "refunded", "punished"}
BdxPlace == {"alice", "locked", "returned", "bought"}

ContractInit == btc = "bob" /\ coin = "alice"

LockBtc == btc = "bob" /\ btc' = "locked" /\ UNCHANGED coin

\* Alice locks after Bob and never after she could have been paid.
LockBdx ==
    /\ btc \in {"locked", "cancelled", "refunded", "punished"}
    /\ coin = "alice"
    /\ coin' = "locked"
    /\ UNCHANGED btc

\* Alice is paid only against locked BDX.
Redeem == btc = "locked" /\ coin = "locked" /\ btc' = "redeemed" /\ UNCHANGED coin

Cancel == btc = "locked" /\ btc' = "cancelled" /\ UNCHANGED coin

Refund == btc = "cancelled" /\ btc' = "refunded" /\ UNCHANGED coin

Punish == btc = "cancelled" /\ btc' = "punished" /\ UNCHANGED coin

\* Alice gets her BDX back only if Bob got his bitcoin back.
ReturnBdx == btc = "refunded" /\ coin = "locked" /\ coin' = "returned" /\ UNCHANGED btc

\* Bob gets the BDX only if Alice got the bitcoin.
BuyBdx ==
    /\ btc \in {"redeemed", "punished"}
    /\ coin = "locked"
    /\ coin' = "bought"
    /\ UNCHANGED btc

ContractNext ==
    \/ LockBtc \/ LockBdx \/ Redeem \/ Cancel \/ Refund \/ Punish
    \/ ReturnBdx \/ BuyBdx

ContractSpec == ContractInit /\ [][ContractNext]_contractVars
=============================================================================
