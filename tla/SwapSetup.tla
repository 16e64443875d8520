------------------------------ MODULE SwapSetup ------------------------------
(***************************************************************************)
(* The swap setup protocol between one Alice and several Bobs              *)
(* (network/swap_setup, protocol/alice/state.rs, protocol/bob/state.rs):   *)
(* Bob asks for a price, then Message0 to Message4 exchange keys, the PSBT *)
(* of TxLock and the signatures, all over one substream with a timeout at  *)
(* each end.  It ends with the states from which the two swaps start, and  *)
(* the model goes on to the two lock transactions, for which they are made.*)
(*                                                                         *)
(* A Bob may be another release or another implementation: his timelocks   *)
(* or network may differ from Alice's, and one message may be off.  What   *)
(* libp2p, the wallets and the scheduler do is external.                   *)
(***************************************************************************)
EXTENDS SwapTransactions

CONSTANTS
    Session,      \* swap setups, each of its own Bob
    NoMessage,
    Btc,          \* amounts that Bobs ask for
    Rate,         \* BDX per BTC of the latest rate
    MinBuy, MaxBuy,
    Unlocked,     \* Alice's unlocked balance when she starts
    LockFee       \* BELDEX_FEE

\* Of every transaction; an amount that two fees use up is not asked for, as estimate_fee
\* fails for it.
Fee == 1

ASSUME SetupAssumption ==
    /\ Btc \subseteq Nat \ 0..(2 * Fee) /\ Rate \subseteq Nat \ {0}
    /\ MinBuy \in Nat /\ MaxBuy \in Nat /\ Unlocked \in Nat /\ LockFee \in Nat

AliceEnv == [network |-> "main", cancel_timelock |-> 2, punish_timelock |-> 3]
BobEnv == {AliceEnv, [AliceEnv EXCEPT !.network = "test"],
           [AliceEnv EXCEPT !.cancel_timelock = 1], [AliceEnv EXCEPT !.punish_timelock = 4]}
Defect == {"none", "dleq_a", "dleq_b", "psbt"}

VARIABLES
    config,     \* per session: what Bob asks for, his environment, a defect
    resumeOnly, \* Alice accepts no new swaps
    a,          \* per session: where Alice's protocol is
    b,          \* per session: where Bob's protocol is
    handle,     \* per session: what setup_swap has returned to Bob's swap
    wire,       \* per session: the message that is written and not read
    gotA, gotB, \* per session: the messages received, in their order
    psbt,       \* per session: the outputs of the TxLock that Bob has built
    snapshot,   \* per session: the unlocked balance of the wallet snapshot
    promise,    \* per session: the BDX that Alice has offered
    unlocked,   \* Alice's unlocked balance
    overtaken,  \* history: sessions with a transfer of another after their snapshot
    btcLocked,  \* sessions whose TxLock Bob has published
    bdxLocked   \* sessions whose BDX Alice has locked

setupVars == <<config, resumeOnly, a, b, handle, wire, gotA, gotB, psbt, snapshot,
               promise, unlocked, overtaken, btcLocked, bdxLocked>>
balanceUnchanged == UNCHANGED <<snapshot, promise, unlocked, overtaken, bdxLocked>>
aliceUnchanged == UNCHANGED <<a, gotA>> /\ balanceUnchanged
bobUnchanged == UNCHANGED <<b, handle, gotB, psbt, btcLocked>>
configUnchanged == UNCHANGED <<config, resumeOnly>>

APhase == {"idle", "asked", "snapshot", "state0", "state1", "state2", "state3",
           "started", "failed"}
BPhase == {"idle", "opening", "lost", "asked", "state0", "state1", "state2", "done", "failed"}

SetupTypeOK ==
    /\ config \in [Session -> [btc : Btc, env : BobEnv, defect : Defect]]
    /\ resumeOnly \in BOOLEAN
    /\ a \in [Session -> APhase]
    /\ b \in [Session -> BPhase]
    /\ handle \in [Session -> {"idle", "waiting", "ok", "failed"}]
    /\ DOMAIN wire = Session /\ DOMAIN psbt = Session
    /\ DOMAIN gotA = Session /\ DOMAIN gotB = Session
    /\ snapshot \in [Session -> Nat] /\ promise \in [Session -> Nat] /\ unlocked \in Nat
    /\ overtaken \subseteq Session
    /\ btcLocked \subseteq Session /\ bdxLocked \subseteq btcLocked

SetupInit ==
    /\ config \in [Session -> [btc : Btc, env : BobEnv, defect : Defect]]
    /\ \A s \in Session : config[s].env = AliceEnv \/ config[s].defect = "none"
    /\ resumeOnly \in BOOLEAN
    /\ a = [s \in Session |-> "idle"]
    /\ b = [s \in Session |-> "idle"]
    /\ handle = [s \in Session |-> "idle"]
    /\ wire = [s \in Session |-> NoMessage]
    /\ gotA = [s \in Session |-> <<>>] /\ gotB = [s \in Session |-> <<>>]
    /\ psbt = [s \in Session |-> <<>>]
    /\ snapshot = [s \in Session |-> 0] /\ promise = [s \in Session |-> 0]
    /\ unlocked = Unlocked
    /\ overtaken = {} /\ btcLocked = {} /\ bdxLocked = {}

Key(name, s) == <<name, s>>

\* What each side has received.
Request(got) == got[1]
M0(got) == got[2]
M2(got) == got[3]
M4(got) == got[4]
Price(got) == got[1]
M1(got) == got[2]
M3(got) == got[3]

\* What it will have received with the message it reads now.
ReadA(s) == Append(gotA[s], wire[s])
ReadB(s) == Append(gotB[s], wire[s])

Incoming(s, type) == wire[s] # NoMessage /\ wire[s].type = type

-----------------------------------------------------------------------------
(* The price and the keys                                                  *)

SpotPriceRequest(s) ==
    [type |-> "request", btc |-> config[s].btc, network |-> config[s].env.network]

\* The DLEQ proof shows that the two public keys have one scalar.
DleqVerifies(S_bitcoin, S_beldex) == S_bitcoin = S_beldex
Scalar(name, s, defect) ==
    IF config[s].defect = defect THEN Key("other", s) ELSE Key(name, s)

Message0(s) ==
    [type |-> "message0", B |-> Key("b", s),
     S_b_bitcoin |-> Scalar("s_b", s, "dleq_b"), S_b_beldex |-> Key("s_b", s),
     v_b |-> Key("v_b", s), refund_address |-> Key("refund", s),
     tx_refund_fee |-> Fee, tx_cancel_fee |-> Fee]

Message1(s) ==
    [type |-> "message1", A |-> Key("a", s),
     S_a_bitcoin |-> Scalar("s_a", s, "dleq_a"), S_a_beldex |-> Key("s_a", s),
     v_a |-> Key("v_a", s), redeem_address |-> Key("redeem", s),
     punish_address |-> Key("punish", s), tx_redeem_fee |-> Fee, tx_punish_fee |-> Fee]

-----------------------------------------------------------------------------
(* Alice's transactions, from her keys and the messages she has received    *)

ALock(s, got) == TxLock(M2(got).psbt, Key("a", s), M0(got).B)
ACancel(s, got) ==
    TxCancel(ALock(s, got), AliceEnv.cancel_timelock, Key("a", s), M0(got).B, M0(got).tx_cancel_fee)
ARefund(s, got) == TxRefund(ACancel(s, got), M0(got).refund_address, M0(got).tx_refund_fee)
APunish(s, got) == TxPunish(ACancel(s, got), Key("punish", s), AliceEnv.punish_timelock, Fee)
ARedeem(s, got) == TxRedeem(ALock(s, got), Key("redeem", s), Fee)

ACancelDigest(s, got) == LockDigest(ALock(s, got), ACancel(s, got))
ARefundDigest(s, got) == CancelDigest(ACancel(s, got), ARefund(s, got))
APunishDigest(s, got) == CancelDigest(ACancel(s, got), APunish(s, got))
ARedeemDigest(s, got) == LockDigest(ALock(s, got), ARedeem(s, got))

\* State2::next_message
Message3(s, got) ==
    [type |-> "message3",
     tx_cancel_sig |-> Sig(Key("a", s), ACancelDigest(s, got)),
     tx_refund_encsig |-> EncSig(Key("a", s), M0(got).S_b_bitcoin, ARefundDigest(s, got))]

\* State3: what her swap does with the result.
signed_cancel_transaction(s, got) ==
    Signed(ACancel(s, got), {Sig(Key("a", s), ACancelDigest(s, got)), M4(got).tx_cancel_sig})
signed_punish_transaction(s, got) ==
    Signed(APunish(s, got), {Sig(Key("a", s), APunishDigest(s, got)), M4(got).tx_punish_sig})

\* TxRedeem::complete accepts an encrypted signature, and what comes of it.
AcceptsEncSig(s, got, encsig) ==
    verify_encsig(M0(got).B, Key("s_a", s), ARedeemDigest(s, got), encsig)
signed_redeem_transaction(s, got, encsig) ==
    Signed(ARedeem(s, got), {Sig(Key("a", s), ARedeemDigest(s, got)),
                             decrypt_signature(Key("s_a", s), encsig)})

\* The keys of the address that she locks her BDX to, and the spend key that she
\* gets from a published refund transaction.
lock_bdx_transfer_request(s, got) ==
    [spend |-> {Key("s_a", s), M0(got).S_b_beldex}, view |-> {Key("v_a", s), M0(got).v_b}]
extract_beldex_private_key(s, got, published) ==
    {Key("s_a", s),
     recover(M0(got).S_b_bitcoin,
             extract_signature_by_key(published, Key("a", s), ARefundDigest(s, got)),
             EncSig(Key("a", s), M0(got).S_b_bitcoin, ARefundDigest(s, got)))}

-----------------------------------------------------------------------------
(* Bob's transactions, likewise                                            *)

\* tx_builder.finish: the lock output, and the change if there is any, in an order
\* of its own.  The change may happen to be of the same amount.
BuiltOutputs(s, script) ==
    LET lock == Output(config[s].btc, script)
        change(value) == Output(value, script_pubkey(Key("wallet", s)))
    IN  {<<lock>>} \cup UNION {{<<lock, change(c)>>, <<change(c), lock>>} :
                                 c \in {config[s].btc, config[s].btc + 1}}

\* Mutant: the outputs keep the order of the builder.
ArrangedAsBuilt(out, script, change) ==
    IF Len(out) = 1 THEN out
    ELSE [i \in 1..2 |-> IF out[i].script = script THEN out[i]
                         ELSE Output(out[i].value, script_pubkey(change))]

\* send_to_address: the lock output comes first, the change goes to the given address.
Arranged(out, script, change) ==
    IF Len(out) = 1 THEN out
    ELSE LET i == IF out[2].script = script THEN 2 ELSE 1
         IN  <<out[i], Output(out[3 - i].value, script_pubkey(change))>>

\* A Bob with this defect pays less than he has asked for.
Sent(s, out) ==
    IF config[s].defect = "psbt" THEN [out EXCEPT ![1].value = @ - 1] ELSE out

Psbt(s) == [coin |-> Key("coin", s), out |-> psbt[s]]
Message2(s, out) == [type |-> "message2", psbt |-> [coin |-> Key("coin", s), out |-> out]]

BLock(s) == TxLock(Psbt(s), M1(gotB[s]).A, Key("b", s))
BCancel(s) ==
    TxCancel(BLock(s), config[s].env.cancel_timelock, M1(gotB[s]).A, Key("b", s), Fee)
BRefund(s) == TxRefund(BCancel(s), Key("refund", s), Fee)
BPunish(s) == TxPunish(BCancel(s), M1(gotB[s]).punish_address, config[s].env.punish_timelock,
                       M1(gotB[s]).tx_punish_fee)
BRedeem(s) == TxRedeem(BLock(s), M1(gotB[s]).redeem_address, M1(gotB[s]).tx_redeem_fee)

BCancelDigest(s) == LockDigest(BLock(s), BCancel(s))
BRefundDigest(s) == CancelDigest(BCancel(s), BRefund(s))
BRedeemDigest(s) == LockDigest(BLock(s), BRedeem(s))

\* State2::next_message
Message4(s) ==
    [type |-> "message4",
     tx_cancel_sig |-> Sig(Key("b", s), BCancelDigest(s)),
     tx_punish_sig |-> Sig(Key("b", s), CancelDigest(BCancel(s), BPunish(s)))]

\* State6: his cancel and refund transactions.
submit_tx_cancel(s) ==
    Signed(BCancel(s), {M3(gotB[s]).tx_cancel_sig, Sig(Key("b", s), BCancelDigest(s))})
signed_refund_transaction(s) ==
    Signed(BRefund(s), {decrypt_signature(Key("s_b", s), M3(gotB[s]).tx_refund_encsig),
                        Sig(Key("b", s), BRefundDigest(s))})

\* State4: his encrypted signature, and the spend key from a redeem transaction.
tx_redeem_encsig(s) == EncSig(Key("b", s), M1(gotB[s]).S_a_bitcoin, BRedeemDigest(s))
watch_for_redeem_btc(s, published) ==
    {recover(M1(gotB[s]).S_a_bitcoin,
             extract_signature_by_key(published, Key("b", s), BRedeemDigest(s)),
             tx_redeem_encsig(s)),
     Key("s_b", s)}
lock_bdx_watch_request(s) ==
    [spend |-> {M1(gotB[s]).S_a_beldex, Key("s_b", s)}, view |-> {M1(gotB[s]).v_a, Key("v_b", s)}]

-----------------------------------------------------------------------------
(* Alice                                                                   *)

\* The protocol ends here: the other side finds out when it reads or writes.
AliceFails(s) ==
    /\ a[s] \in {"asked", "snapshot", "state0", "state1", "state2", "state3"}
    /\ a' = [a EXCEPT ![s] = "failed"]
    /\ UNCHANGED <<wire, gotA>> /\ balanceUnchanged
    /\ bobUnchanged /\ configUnchanged

\* A message that is not accepted ends the protocol.
AliceRejects(s) ==
    /\ a' = [a EXCEPT ![s] = "failed"]
    /\ wire' = [wire EXCEPT ![s] = NoMessage]
    /\ UNCHANGED gotA

AliceAccepts(s, phase, answer) ==
    /\ a' = [a EXCEPT ![s] = phase]
    /\ gotA' = [gotA EXCEPT ![s] = ReadA(s)]
    /\ wire' = [wire EXCEPT ![s] = answer]

\* The request is read and the event loop is asked for a snapshot of the wallets.
AliceReadRequest(s) ==
    /\ a[s] = "idle"
    /\ Incoming(s, "request")
    /\ AliceAccepts(s, "asked", NoMessage)
    /\ balanceUnchanged
    /\ bobUnchanged /\ configUnchanged

\* WalletSnapshot::capture; when it fails, or takes longer than the five seconds
\* of the channel, the protocol ends (AliceFails).
AliceSnapshot(s) ==
    /\ a[s] = "asked"
    /\ a' = [a EXCEPT ![s] = "snapshot"]
    /\ snapshot' = [snapshot EXCEPT ![s] = unlocked]
    /\ overtaken' = overtaken \ {s}
    /\ UNCHANGED <<wire, gotA, promise, unlocked, bdxLocked>>
    /\ bobUnchanged /\ configUnchanged

\* Mutant: the fee of the lock transaction is forgotten.
ValidateFeeless(s, rate) ==
    LET btc == Request(gotA[s]).btc IN
    IF      resumeOnly THEN "NoSwapsAccepted"
    ELSE IF Request(gotA[s]).network # AliceEnv.network THEN "BlockchainNetworkMismatch"
    ELSE IF btc < MinBuy THEN "AmountBelowMinimum"
    ELSE IF btc > MaxBuy THEN "AmountAboveMaximum"
    ELSE IF rate = 0 THEN "Other"
    ELSE IF snapshot[s] < rate * btc THEN "BalanceTooLow"
    ELSE "Beldex"

\* What is wrong with a request, in the order of the checks.  A rate that cannot be
\* had, or gives no quote, is written 0.
Validate(s, rate) ==
    LET btc == Request(gotA[s]).btc IN
    IF      resumeOnly THEN "NoSwapsAccepted"
    ELSE IF Request(gotA[s]).network # AliceEnv.network THEN "BlockchainNetworkMismatch"
    ELSE IF btc < MinBuy THEN "AmountBelowMinimum"
    ELSE IF btc > MaxBuy THEN "AmountAboveMaximum"
    ELSE IF rate = 0 THEN "Other"
    ELSE IF snapshot[s] < rate * btc + LockFee THEN "BalanceTooLow"
    ELSE "Beldex"

\* The response is written, with the price or the error; an error ends the protocol.
AliceAnswerPrice(s) ==
    /\ a[s] = "snapshot"
    /\ \E rate \in Rate \cup {0} :
        LET result == Validate(s, rate)
            bdx == IF result = "Beldex" THEN rate * Request(gotA[s]).btc ELSE 0
        IN  /\ wire' = [wire EXCEPT ![s] = [type |-> "price", result |-> result, bdx |-> bdx]]
            /\ a' = [a EXCEPT ![s] = IF result = "Beldex" THEN "state0" ELSE "failed"]
            /\ promise' = [promise EXCEPT ![s] = bdx]
    /\ UNCHANGED <<gotA, snapshot, unlocked, overtaken, bdxLocked>>
    /\ bobUnchanged /\ configUnchanged

\* State0::receive
AliceReceive0(s) ==
    /\ a[s] = "state0"
    /\ Incoming(s, "message0")
    /\ IF DleqVerifies(wire[s].S_b_bitcoin, wire[s].S_b_beldex)
       THEN AliceAccepts(s, "state1", Message1(s))
       ELSE AliceRejects(s)
    /\ balanceUnchanged /\ bobUnchanged /\ configUnchanged

\* Mutant: any PSBT is good.
AliceReceive2Unchecked(s) ==
    /\ a[s] = "state1"
    /\ Incoming(s, "message2")
    /\ AliceAccepts(s, "state2", Message3(s, ReadA(s)))
    /\ balanceUnchanged /\ bobUnchanged /\ configUnchanged

\* State1::receive, with TxLock::from_psbt
AliceReceive2(s) ==
    /\ a[s] = "state1"
    /\ Incoming(s, "message2")
    /\ IF PaysShared(wire[s].psbt, Key("a", s), M0(gotA[s]).B, Request(gotA[s]).btc)
       THEN AliceAccepts(s, "state2", Message3(s, ReadA(s)))
       ELSE AliceRejects(s)
    /\ balanceUnchanged /\ bobUnchanged /\ configUnchanged

\* Mutant: Bob's signature on the punish transaction is not verified.
AliceReceive4NoPunish(s) ==
    /\ a[s] = "state2"
    /\ Incoming(s, "message4")
    /\ IF verify_sig(M0(gotA[s]).B, ACancelDigest(s, gotA[s]), wire[s].tx_cancel_sig)
       THEN AliceAccepts(s, "state3", NoMessage)
       ELSE AliceRejects(s)
    /\ balanceUnchanged /\ bobUnchanged /\ configUnchanged

\* State2::receive
AliceReceive4(s) ==
    /\ a[s] = "state2"
    /\ Incoming(s, "message4")
    /\ IF /\ verify_sig(M0(gotA[s]).B, ACancelDigest(s, gotA[s]), wire[s].tx_cancel_sig)
          /\ verify_sig(M0(gotA[s]).B, APunishDigest(s, gotA[s]), wire[s].tx_punish_sig)
       THEN AliceAccepts(s, "state3", NoMessage)
       ELSE AliceRejects(s)
    /\ balanceUnchanged /\ bobUnchanged /\ configUnchanged

\* The substream is flushed and closed; handle_execution_setup_done stores the peer
\* and starts the swap, or gives it up when that fails (AliceFails).
AliceStarts(s) ==
    /\ a[s] = "state3"
    /\ a' = [a EXCEPT ![s] = "started"]
    /\ UNCHANGED <<wire, gotA>> /\ balanceUnchanged
    /\ bobUnchanged /\ configUnchanged

\* Mutant: the BDX are locked as soon as the swap starts.
AliceLocksBdxEarly(s) ==
    /\ a[s] = "started"
    /\ s \notin bdxLocked
    /\ \E fee \in {0, LockFee} :
        /\ promise[s] + fee =< unlocked
        /\ unlocked' = unlocked - (promise[s] + fee)
    /\ bdxLocked' = bdxLocked \cup {s}
    /\ overtaken' = overtaken \cup (Session \ {s})
    /\ UNCHANGED <<a, wire, gotA, snapshot, promise>>
    /\ bobUnchanged /\ configUnchanged

\* Her swap locks the BDX when Bob's bitcoin are; the network's fee is at most
\* the one that was allowed for.  Without the balance the transfer fails.
AliceLocksBdx(s) ==
    /\ a[s] = "started"
    /\ s \in btcLocked \ bdxLocked
    /\ \E fee \in {0, LockFee} :
        /\ promise[s] + fee =< unlocked
        /\ unlocked' = unlocked - (promise[s] + fee)
    /\ bdxLocked' = bdxLocked \cup {s}
    /\ overtaken' = overtaken \cup (Session \ {s})
    /\ UNCHANGED <<a, wire, gotA, snapshot, promise>>
    /\ bobUnchanged /\ configUnchanged

-----------------------------------------------------------------------------
(* Bob                                                                     *)

\* setup_swap: the event loop starts the behaviour, which opens a substream.
BobSetup(s) ==
    /\ b[s] = "idle"
    /\ b' = [b EXCEPT ![s] = "opening"]
    /\ handle' = [handle EXCEPT ![s] = "waiting"]
    /\ UNCHANGED <<wire, gotB, psbt, btcLocked>>
    /\ aliceUnchanged /\ configUnchanged

\* The substream is negotiated and the request written.
BobRequest(s) ==
    /\ b[s] = "opening"
    /\ b' = [b EXCEPT ![s] = "asked"]
    /\ wire' = [wire EXCEPT ![s] = SpotPriceRequest(s)]
    /\ UNCHANGED <<handle, gotB, psbt, btcLocked>>
    /\ aliceUnchanged /\ configUnchanged

\* inject_dial_upgrade_error says nothing to anybody.
BobNotNegotiated(s) ==
    /\ b[s] = "opening"
    /\ b' = [b EXCEPT ![s] = "lost"]
    /\ UNCHANGED <<wire, handle, gotB, psbt, btcLocked>>
    /\ aliceUnchanged /\ configUnchanged

\* Completed(Err) is answered to the swap, if it still waits.
Completed(s, result) ==
    handle' = [handle EXCEPT ![s] = IF @ = "waiting" THEN result ELSE @]

BobFails(s) ==
    /\ b[s] \in {"asked", "state0", "state1", "state2"}
    /\ b' = [b EXCEPT ![s] = "failed"]
    /\ Completed(s, "failed")
    /\ UNCHANGED <<wire, gotB, psbt, btcLocked>>
    /\ aliceUnchanged /\ configUnchanged

\* The sixty seconds of the channel are over; the protocol goes on.
BobHandleTimeout(s) ==
    /\ handle[s] = "waiting"
    /\ handle' = [handle EXCEPT ![s] = "failed"]
    /\ UNCHANGED <<b, wire, gotB, psbt, btcLocked>>
    /\ aliceUnchanged /\ configUnchanged

BobRejects(s) ==
    /\ b' = [b EXCEPT ![s] = "failed"]
    /\ wire' = [wire EXCEPT ![s] = NoMessage]
    /\ Completed(s, "failed")
    /\ UNCHANGED gotB

BobAccepts(s, phase, answer) ==
    /\ b' = [b EXCEPT ![s] = phase]
    /\ gotB' = [gotB EXCEPT ![s] = ReadB(s)]
    /\ wire' = [wire EXCEPT ![s] = answer]
    /\ UNCHANGED handle

BobReceivePrice(s) ==
    /\ b[s] = "asked"
    /\ Incoming(s, "price")
    /\ IF wire[s].result = "Beldex" THEN BobAccepts(s, "state0", Message0(s)) ELSE BobRejects(s)
    /\ UNCHANGED <<psbt, btcLocked>>
    /\ aliceUnchanged /\ configUnchanged

\* Mutant: Alice's keys are taken without their proof.
BobReceive1Unproven(s) ==
    /\ b[s] = "state0"
    /\ Incoming(s, "message1")
    /\ LET script == build_shared_output_descriptor(wire[s].A, Key("b", s)) IN
       \E out \in BuiltOutputs(s, script) :
            LET sent == Sent(s, Arranged(out, script, Key("refund", s))) IN
            /\ BobAccepts(s, "state1", Message2(s, sent))
            /\ psbt' = [psbt EXCEPT ![s] = sent]
    /\ UNCHANGED btcLocked
    /\ aliceUnchanged /\ configUnchanged

\* State0::receive, with TxLock::new; a wallet without the funds ends it (BobFails).
BobReceive1(s) ==
    /\ b[s] = "state0"
    /\ Incoming(s, "message1")
    /\ IF DleqVerifies(wire[s].S_a_bitcoin, wire[s].S_a_beldex)
       THEN LET script == build_shared_output_descriptor(wire[s].A, Key("b", s)) IN
            \E out \in BuiltOutputs(s, script) :
                LET sent == Sent(s, Arranged(out, script, Key("refund", s))) IN
                /\ BobAccepts(s, "state1", Message2(s, sent))
                /\ psbt' = [psbt EXCEPT ![s] = sent]
       ELSE BobRejects(s) /\ UNCHANGED psbt
    /\ UNCHANGED btcLocked
    /\ aliceUnchanged /\ configUnchanged

\* Mutant: Alice's signatures are taken as they come.
BobReceive3Unverified(s) ==
    /\ b[s] = "state1"
    /\ Incoming(s, "message3")
    /\ BobAccepts(s, "state2", Message4(s))
    /\ UNCHANGED <<psbt, btcLocked>>
    /\ aliceUnchanged /\ configUnchanged

\* State1::receive
BobReceive3(s) ==
    /\ b[s] = "state1"
    /\ Incoming(s, "message3")
    /\ IF /\ verify_sig(M1(gotB[s]).A, BCancelDigest(s), wire[s].tx_cancel_sig)
          /\ verify_encsig(M1(gotB[s]).A, Key("s_b", s), BRefundDigest(s), wire[s].tx_refund_encsig)
       THEN BobAccepts(s, "state2", Message4(s))
       ELSE BobRejects(s)
    /\ UNCHANGED <<psbt, btcLocked>>
    /\ aliceUnchanged /\ configUnchanged

\* Flushed and closed: the state is given to the swap.
BobCompletes(s) ==
    /\ b[s] = "state2"
    /\ b' = [b EXCEPT ![s] = "done"]
    /\ Completed(s, "ok")
    /\ UNCHANGED <<wire, gotB, psbt, btcLocked>>
    /\ aliceUnchanged /\ configUnchanged

\* SwapSetupCompleted: TxLock is signed and published.
BobLocksBtc(s) ==
    /\ handle[s] = "ok"
    /\ s \notin btcLocked
    /\ btcLocked' = btcLocked \cup {s}
    /\ UNCHANGED <<b, handle, wire, gotB, psbt>>
    /\ aliceUnchanged /\ configUnchanged

-----------------------------------------------------------------------------

AliceStep(s) ==
    \/ AliceReadRequest(s) \/ AliceSnapshot(s) \/ AliceAnswerPrice(s)
    \/ AliceReceive0(s) \/ AliceReceive2(s) \/ AliceReceive4(s)
    \/ AliceStarts(s) \/ AliceLocksBdx(s) \/ AliceFails(s)

BobStep(s) ==
    \/ BobSetup(s) \/ BobRequest(s) \/ BobNotNegotiated(s) \/ BobReceivePrice(s)
    \/ BobReceive1(s) \/ BobReceive3(s) \/ BobCompletes(s) \/ BobLocksBtc(s)
    \/ BobHandleTimeout(s) \/ BobFails(s)

SetupNext == \E s \in Session : AliceStep(s) \/ BobStep(s)

SetupSpec == SetupInit /\ [][SetupNext]_setupVars

-----------------------------------------------------------------------------

\* A Bob who has locked his bitcoin can take them back: the network accepts his
\* cancel transaction and, on top of it, his refund, whatever has become of Alice's
\* side of the setup and whatever environment she runs in.
BobCanRefund ==
    \A s \in btcLocked :
        /\ Valid(submit_tx_cancel(s))
        /\ Valid(signed_refund_transaction(s))
        /\ signed_refund_transaction(s).tx.input.tx = submit_tx_cancel(s).tx

\* An Alice whose swap has started can cancel and punish, with what she holds alone.
AliceCanPunish ==
    \A s \in Session : a[s] = "started" =>
        /\ Valid(signed_cancel_transaction(s, gotA[s]))
        /\ Valid(signed_punish_transaction(s, gotA[s]))

Both(s) == a[s] = "started" /\ s \in btcLocked

\* The two sides of a swap mean the same transactions, the amounts that were asked
\* for and offered, and the same Beldex address.
SetupAgreement ==
    \A s \in Session : Both(s) =>
        /\ ALock(s, gotA[s]) = BLock(s)
        /\ lock_amount(BLock(s)) = Request(gotA[s]).btc
        /\ ACancel(s, gotA[s]) = BCancel(s)
        /\ ARefund(s, gotA[s]) = BRefund(s)
        /\ APunish(s, gotA[s]) = BPunish(s)
        /\ ARedeem(s, gotA[s]) = BRedeem(s)
        /\ promise[s] = Price(gotB[s]).bdx
        /\ lock_bdx_transfer_request(s, gotA[s]) = lock_bdx_watch_request(s)

\* The swap is atomic by its signatures: a refund by Bob gives Alice the spend key
\* of the BDX that she has locked, and a redeem by Alice, with the signature that
\* Bob sends her, gives it to Bob.
SpendKeyRevealed ==
    \A s \in Session : Both(s) =>
        LET redeem == signed_redeem_transaction(s, gotA[s], tx_redeem_encsig(s))
            spend == lock_bdx_transfer_request(s, gotA[s]).spend
        IN  /\ extract_beldex_private_key(s, gotA[s], signed_refund_transaction(s)) = spend
            /\ AcceptsEncSig(s, gotA[s], tx_redeem_encsig(s))
            /\ Valid(redeem)
            /\ watch_for_redeem_btc(s, redeem) = spend

\* Alice refuses a TxLock only if it does not pay what was asked: the change output
\* never gets in its way.
HonestPsbtAccepted ==
    \A s \in Session : a[s] = "state1" /\ Incoming(s, "message2") /\ config[s].defect # "psbt" =>
        PaysShared(wire[s].psbt, Key("a", s), M0(gotA[s]).B, Request(gotA[s]).btc)

\* The balance is checked once, against a snapshot: an accepted swap that it does
\* not cover any more was overtaken by the transfer of another swap.
UncoveredOnlyIfOvertaken ==
    \A s \in Session : a[s] = "started" /\ s \notin bdxLocked /\ unlocked < promise[s] + LockFee =>
        s \in overtaken

\* Whoever has locked money can get it out without the other's help: the handshake has
\* given Bob a valid refund, and Alice a valid cancellation and punishment.
EitherGetsOut == SetupTypeOK /\ BobCanRefund /\ AliceCanPunish

-----------------------------------------------------------------------------
(* The inductive invariant behind all of these, session by session         *)

PriceOf(s) == [type |-> "price", result |-> "Beldex", bdx |-> promise[s]]

\* Bob's TxLock pays to the shared output first, and the change, if any, to Bob; the
\* amount is the one he has asked for, unless he pays less.
PsbtShape(s, out) ==
    LET shared == Output(out[1].value, build_shared_output_descriptor(Key("a", s), Key("b", s)))
        change == Output(out[2].value, script_pubkey(Key("refund", s)))
    IN  /\ out = <<shared>> \/ out = <<shared, change>>
        /\ config[s].defect # "psbt" => out[1].value = config[s].btc

PsbtPays(s) == PsbtShape(s, psbt[s]) /\ psbt[s][1].value = config[s].btc

BeforePrice == {"idle", "asked", "snapshot"}
BeforePsbt == {"idle", "opening", "lost", "asked", "state0"}

\* What Alice has received by each of her states, and what she has verified of it.
AliceHas(s) ==
    /\ a[s] = "idle" => gotA[s] = <<>>
    /\ a[s] \in {"asked", "snapshot", "state0"} => gotA[s] = <<SpotPriceRequest(s)>>
    /\ a[s] = "state1" => gotA[s] = <<SpotPriceRequest(s), Message0(s)>>
    /\ a[s] = "state2" => gotA[s] = <<SpotPriceRequest(s), Message0(s), Message2(s, psbt[s])>>
    /\ a[s] \in {"state3", "started"} =>
         /\ gotA[s] = <<SpotPriceRequest(s), Message0(s), Message2(s, psbt[s]), Message4(s)>>
         /\ verify_sig(M0(gotA[s]).B, ACancelDigest(s, gotA[s]), M4(gotA[s]).tx_cancel_sig)
         /\ verify_sig(M0(gotA[s]).B, APunishDigest(s, gotA[s]), M4(gotA[s]).tx_punish_sig)
         /\ b[s] # "state1"
    /\ a[s] \in {"state1", "state2", "state3", "started"} =>
         DleqVerifies(Message0(s).S_b_bitcoin, Message0(s).S_b_beldex)
    /\ a[s] \in {"state2", "state3", "started"} => PsbtPays(s) /\ b[s] \notin BeforePsbt

\* What Bob has received by each of his, likewise.
BobHas(s) ==
    /\ b[s] \in {"idle", "opening", "lost", "asked"} => gotB[s] = <<>>
    /\ b[s] = "state0" => gotB[s] = <<PriceOf(s)>>
    /\ b[s] = "state1" => gotB[s] = <<PriceOf(s), Message1(s)>> /\ PsbtShape(s, psbt[s])
    /\ b[s] \in {"state2", "done"} =>
         /\ gotB[s] = <<PriceOf(s), Message1(s), M3(gotB[s])>>
         /\ verify_sig(M1(gotB[s]).A, BCancelDigest(s), M3(gotB[s]).tx_cancel_sig)
         /\ verify_encsig(M1(gotB[s]).A, Key("s_b", s), BRefundDigest(s),
                          M3(gotB[s]).tx_refund_encsig)
         /\ PsbtPays(s)
    /\ b[s] \in {"state1", "state2", "done"} =>
         DleqVerifies(Message1(s).S_a_bitcoin, Message1(s).S_a_beldex)
    /\ b[s] \in {"state0", "state1", "state2", "done"} => a[s] \notin BeforePrice
    /\ handle[s] = "ok" => b[s] = "done"
    /\ s \in btcLocked => b[s] = "done"

\* What is on its way is what its sender's state has it send.
WireHas(s) ==
    /\ Incoming(s, "request") => wire[s] = SpotPriceRequest(s)
    /\ Incoming(s, "price") =>
         /\ wire[s].result = "Beldex" => wire[s] = PriceOf(s)
         /\ a[s] \notin BeforePrice
    /\ Incoming(s, "message0") => wire[s] = Message0(s)
    /\ Incoming(s, "message1") => wire[s] = Message1(s)
    /\ Incoming(s, "message2") =>
         wire[s] = Message2(s, psbt[s]) /\ PsbtShape(s, psbt[s]) /\ b[s] \notin BeforePsbt
    /\ Incoming(s, "message3") => PsbtPays(s)
    /\ Incoming(s, "message4") =>
         wire[s] = Message4(s) /\ b[s] \notin BeforePsbt \cup {"state1"}

\* The snapshot covers what is promised and is the balance until a transfer.
Covered(s) ==
    /\ a[s] \notin {"idle", "asked", "failed"} /\ s \notin overtaken \cup bdxLocked =>
         snapshot[s] = unlocked
    /\ a[s] \notin BeforePrice \cup {"failed"} => promise[s] + LockFee <= snapshot[s]
    /\ s \in bdxLocked => a[s] = "started"

\* What every step of either side keeps.
SetupInv ==
    /\ SetupTypeOK
    /\ \A s \in Session : AliceHas(s) /\ BobHas(s) /\ WireHas(s) /\ Covered(s)
=============================================================================
