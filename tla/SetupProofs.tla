----------------------------- MODULE SetupProofs -----------------------------
(***************************************************************************)
(* Proofs about the swap setup handshake (SwapSetup), for any number of    *)
(* sessions, all amounts, rates, limits and balances, any environment and  *)
(* defect of a Bob, and a failure of either side at any point.             *)
(***************************************************************************)
EXTENDS SwapSetup, SequenceTheorems, TLAPS

-----------------------------------------------------------------------------
(* Sequences of messages                                                   *)

\* What a side has received grows by one message.
LEMMA AppendFacts ==
    ASSUME NEW x, NEW y, NEW z
    PROVE  /\ Append(<<>>, x) = <<x>>
           /\ Append(<<x>>, y) = <<x, y>>
           /\ Append(<<x, y>>, z) = <<x, y, z>>
<1> DEFINE S == {x, y, z}
<1>1. Append(<<>>, x) = <<x>>
  OBVIOUS
<1>2. Append(<<x>>, y) = <<x, y>>
  <2>1. Append(<<x>>, y) \in Seq(S) /\ Len(Append(<<x>>, y)) = 2
    OBVIOUS
  <2>2. <<x, y>> \in Seq(S) /\ Len(<<x, y>>) = 2
    OBVIOUS
  <2>3. \A i \in 1..2 : Append(<<x>>, y)[i] = <<x, y>>[i]
    OBVIOUS
  <2> QED BY <2>1, <2>2, <2>3, SeqEqual
<1>3. Append(<<x, y>>, z) = <<x, y, z>>
  <2>1. Append(<<x, y>>, z) \in Seq(S) /\ Len(Append(<<x, y>>, z)) = 3
    OBVIOUS
  <2>2. <<x, y, z>> \in Seq(S) /\ Len(<<x, y, z>>) = 3
    OBVIOUS
  <2>3. \A i \in 1..3 : Append(<<x, y>>, z)[i] = <<x, y, z>>[i]
    OBVIOUS
  <2> QED BY <2>1, <2>2, <2>3, SeqEqual
<1> QED BY <1>1, <1>2, <1>3

\* The third message that a side receives.
LEMMA ReceiveThird ==
    ASSUME NEW got, NEW x, NEW y, NEW z, got = <<x, y>>
    PROVE  Append(got, z) = <<x, y, z>>
BY AppendFacts

\* The fourth message that Alice receives.
LEMMA ReceiveFourth ==
    ASSUME NEW got, NEW x, NEW y, NEW z, NEW w, got = <<x, y, z>>
    PROVE  Append(got, w) = <<x, y, z, w>>
<1> DEFINE S == {x, y, z, w}
<1>1. Append(<<x, y, z>>, w) = <<x, y, z, w>>
  <2>1. Append(<<x, y, z>>, w) \in Seq(S) /\ Len(Append(<<x, y, z>>, w)) = 4
    OBVIOUS
  <2>2. <<x, y, z, w>> \in Seq(S) /\ Len(<<x, y, z, w>>) = 4
    OBVIOUS
  <2>3. \A i \in 1..4 : Append(<<x, y, z>>, w)[i] = <<x, y, z, w>>[i]
    OBVIOUS
  <2> QED BY <2>1, <2>2, <2>3, SeqEqual
<1> QED BY <1>1

\* The messages of the two sides have types of their own.
LEMMA MessageTypes ==
    ASSUME NEW s, NEW out, NEW got
    PROVE  /\ SpotPriceRequest(s).type = "request" /\ PriceOf(s).type = "price"
           /\ Message0(s).type = "message0" /\ Message1(s).type = "message1"
           /\ Message2(s, out).type = "message2" /\ Message3(s, got).type = "message3"
           /\ Message4(s).type = "message4"
BY DEF SpotPriceRequest, PriceOf, Message0, Message1, Message2, Message3, Message4

-----------------------------------------------------------------------------
(* The transactions                                                        *)

\* The shared output and TxLock, of the keys that the two sides have generated.
Shared(s) == build_shared_output_descriptor(Key("a", s), Key("b", s))
Lock(s) == TxLock(Psbt(s), Key("a", s), Key("b", s))

\* The shared output is no output of one key.
LEMMA SharedIsNotSingle ==
    ASSUME NEW s, NEW address
    PROVE  Shared(s) # script_pubkey(address)
<1>1. Shared(s).keys = <<Key("a", s), Key("b", s)>> /\ script_pubkey(address).keys = <<address>>
  BY DEF Shared, build_shared_output_descriptor, script_pubkey
<1>2. Len(<<Key("a", s), Key("b", s)>>) = 2 /\ Len(<<address>>) = 1
  OBVIOUS
<1> QED BY <1>1, <1>2

\* Of Bob's TxLock, exactly the first output is the shared one.
LEMMA ShapeFacts ==
    ASSUME NEW s, PsbtShape(s, psbt[s])
    PROVE  /\ Len(psbt[s]) \in 1..2 /\ DOMAIN psbt[s] = 1..Len(psbt[s])
           /\ psbt[s][1].script = Shared(s)
           /\ \A i \in DOMAIN psbt[s] : psbt[s][i].script = Shared(s) => i = 1
<1> DEFINE shared == Output(psbt[s][1].value, Shared(s))
           change == Output(psbt[s][2].value, script_pubkey(Key("refund", s)))
<1>1. psbt[s] = <<shared>> \/ psbt[s] = <<shared, change>>
  BY DEF PsbtShape, Shared
<1>2. shared.script = Shared(s) /\ change.script # Shared(s)
  BY SharedIsNotSingle DEF Output
<1> HIDE DEF shared, change
<1>3. CASE psbt[s] = <<shared>>
  BY <1>2, <1>3
<1>4. CASE psbt[s] = <<shared, change>>
  BY <1>2, <1>4
<1> QED BY <1>1, <1>3, <1>4

\* lock_output_vout finds that output.
LEMMA LockFacts ==
    ASSUME NEW s, PsbtShape(s, psbt[s])
    PROVE  /\ Lock(s).inner = Psbt(s) /\ Psbt(s).out = psbt[s] /\ Lock(s).descriptor = Shared(s)
           /\ lock_output_vout(Lock(s)) = 1 /\ 1 \in DOMAIN psbt[s]
           /\ lock_amount(Lock(s)) = psbt[s][1].value
<1>1. Lock(s).inner = Psbt(s) /\ Psbt(s).out = psbt[s] /\ Lock(s).descriptor = Shared(s)
  BY DEF Lock, TxLock, Psbt, Shared
<1>2. 1 \in DOMAIN psbt[s]
  BY ShapeFacts
<1>3. lock_output_vout(Lock(s)) = CHOOSE i \in DOMAIN psbt[s] : psbt[s][i].script = Shared(s)
  BY <1>1 DEF lock_output_vout
<1>4. lock_output_vout(Lock(s)) = 1
  BY <1>2, <1>3, ShapeFacts
<1> QED BY <1>1, <1>2, <1>4 DEF lock_amount

\* from_psbt accepts Bob's TxLock exactly when it pays the amount, whatever the change.
LEMMA PaysFacts ==
    ASSUME NEW s, PsbtShape(s, psbt[s]), NEW btc
    PROVE  PaysShared(Psbt(s), Key("a", s), Key("b", s), btc) <=> psbt[s][1].value = btc
<1> DEFINE Fits(i) == psbt[s][i].value = btc /\ \A j \in 1..(i - 1) : psbt[s][j].value # btc
           c == CandidateOutput(Psbt(s), btc)
<1>1. Psbt(s).out = psbt[s]
  BY DEF Psbt
<1>2. c = CHOOSE i \in DOMAIN psbt[s] : Fits(i)
  BY <1>1 DEF CandidateOutput
<1>3. PaysShared(Psbt(s), Key("a", s), Key("b", s), btc) <=>
        (\E i \in DOMAIN psbt[s] : psbt[s][i].value = btc) /\ psbt[s][c].script = Shared(s)
  BY <1>1, ShapeFacts DEF PaysShared, Shared
<1>4. 1 \in DOMAIN psbt[s] /\ DOMAIN psbt[s] \subseteq {1, 2}
  BY ShapeFacts
<1>5. CASE psbt[s][1].value = btc
  <2>1. Fits(1) /\ \A i \in DOMAIN psbt[s] : Fits(i) => i = 1
    BY <1>4, <1>5
  <2>2. c = 1
    BY <1>2, <1>4, <2>1
  <2> QED BY <1>3, <1>4, <1>5, <2>2, ShapeFacts
<1>6. CASE psbt[s][1].value # btc
  <2>1. SUFFICES ASSUME NEW k \in DOMAIN psbt[s], psbt[s][k].value = btc
                 PROVE  psbt[s][c].script # Shared(s)
    BY <1>3, <1>6
  <2>2. k = 2 /\ Fits(2) /\ 2 \in DOMAIN psbt[s]
    BY <1>4, <1>6, <2>1
  <2>3. c \in DOMAIN psbt[s] /\ Fits(c)
    BY <1>2, <2>2
  <2> QED BY <1>6, <2>3, ShapeFacts
<1> QED BY <1>5, <1>6

\* What Bob builds, arranges and sends has that shape, in whichever order the wallet has
\* built the outputs and whatever the change.
LEMMA SentHasShape ==
    ASSUME NEW s, NEW out \in BuiltOutputs(s, Shared(s))
    PROVE  PsbtShape(s, Sent(s, Arranged(out, Shared(s), Key("refund", s))))
<1> DEFINE lock == Output(config[s].btc, Shared(s))
           raw(v) == Output(v, script_pubkey(Key("wallet", s)))
           change(v) == Output(v, script_pubkey(Key("refund", s)))
           arranged == Arranged(out, Shared(s), Key("refund", s))
           sent == Sent(s, arranged)
<1>1. out = <<lock>> \/ \E v : out = <<lock, raw(v)>> \/ out = <<raw(v), lock>>
  BY DEF BuiltOutputs
<1>2. lock.script = Shared(s) /\ \A v : raw(v).script # Shared(s) /\ raw(v).value = v
  BY SharedIsNotSingle DEF Output
<1>3. arranged = <<lock>> \/ \E v : arranged = <<lock, change(v)>>
  <2>1. CASE out = <<lock>>
    BY <2>1 DEF Arranged
  <2>2. ASSUME NEW v, out = <<lock, raw(v)>> PROVE arranged = <<lock, change(v)>>
    <3>1. Len(out) # 1 /\ out[1] = lock /\ out[2] = raw(v)
      BY <2>2
    <3> HIDE DEF lock, raw
    <3>2. out[2].script # Shared(s) /\ out[2].value = v /\ 3 - 1 = 2
      BY <1>2, <3>1
    <3> QED BY <3>1, <3>2 DEF Arranged
  <2>3. ASSUME NEW v, out = <<raw(v), lock>> PROVE arranged = <<lock, change(v)>>
    <3>1. Len(out) # 1 /\ out[1] = raw(v) /\ out[2] = lock
      BY <2>3
    <3> HIDE DEF lock, raw
    <3>2. out[2].script = Shared(s) /\ out[1].value = v /\ 3 - 2 = 1
      BY <1>2, <3>1
    <3> QED BY <3>1, <3>2 DEF Arranged
  <2> QED BY <1>1, <2>1, <2>2, <2>3
<1>4. lock.value = config[s].btc
  BY DEF Output
<1>5. CASE config[s].defect # "psbt"
  <2>1. sent = arranged
    BY <1>5 DEF Sent
  <2>2. sent[1] = lock /\ \A v : arranged = <<lock, change(v)>> => sent[2].value = v
    BY <1>3, <2>1 DEF Output
  <2> QED BY <1>3, <1>4, <2>1, <2>2 DEF PsbtShape, Shared
<1>6. CASE config[s].defect = "psbt"
  <2> DEFINE less == Output(config[s].btc - 1, Shared(s))
  <2>1. sent = [arranged EXCEPT ![1].value = @ - 1]
    BY <1>6 DEF Sent
  <2>2. [lock EXCEPT !.value = @ - 1] = less
    BY DEF Output
  <2>3. sent = <<less>> \/ \E v : sent = <<less, change(v)>>
    <3>1. CASE arranged = <<lock>>
      BY <2>1, <2>2, <3>1
    <3>2. ASSUME NEW v, arranged = <<lock, change(v)>> PROVE sent = <<less, change(v)>>
      BY <2>1, <2>2, <3>2
    <3> QED BY <1>3, <3>1, <3>2
  <2>4. sent[1] = less /\ \A v : sent = <<less, change(v)>> => sent[2].value = v
    BY <2>3 DEF Output
  <2>5. Output(less.value, Shared(s)) = less
    BY DEF Output
  <2> QED BY <1>6, <2>3, <2>4, <2>5 DEF PsbtShape, Shared
<1> QED BY <1>5, <1>6

-----------------------------------------------------------------------------
(* What a step leaves as it is                                             *)

\* The messages that depend on the configuration alone.
LEMMA FrameConfig ==
    ASSUME NEW s, config' = config
    PROVE  /\ SpotPriceRequest(s)' = SpotPriceRequest(s)
           /\ Message0(s)' = Message0(s) /\ Message1(s)' = Message1(s)
BY DEF SpotPriceRequest, Message0, Message1, Scalar

\* Those that depend on Bob's TxLock too.
LEMMA FramePsbt ==
    ASSUME NEW s, config' = config, psbt'[s] = psbt[s]
    PROVE  /\ PsbtShape(s, psbt[s])' <=> PsbtShape(s, psbt[s])
           /\ PsbtPays(s)' <=> PsbtPays(s)
           /\ Message2(s, psbt[s])' = Message2(s, psbt[s])
           /\ Psbt(s)' = Psbt(s)
BY DEF PsbtShape, PsbtPays, Message2, Psbt

\* And those that depend on Alice's keys.
LEMMA FrameBob ==
    ASSUME NEW s, config' = config, psbt'[s] = psbt[s], M1(gotB'[s]) = M1(gotB[s])
    PROVE  /\ BCancelDigest(s)' = BCancelDigest(s)
           /\ BRefundDigest(s)' = BRefundDigest(s)
           /\ Message4(s)' = Message4(s)
<1>1. Psbt(s)' = Psbt(s)
  BY FramePsbt
<1>2. BLock(s)' = BLock(s)
  BY <1>1 DEF BLock
<1>3. BCancel(s)' = BCancel(s)
  BY <1>2 DEF BCancel
<1>4. BRefund(s)' = BRefund(s) /\ BPunish(s)' = BPunish(s)
  BY <1>3 DEF BRefund, BPunish
<1>5. BCancelDigest(s)' = BCancelDigest(s) /\ BRefundDigest(s)' = BRefundDigest(s)
  BY <1>2, <1>3, <1>4 DEF BCancelDigest, BRefundDigest
<1> QED BY <1>3, <1>4, <1>5 DEF Message4

\* The invariant of one session, but for the balance.
SessionInv(s) == AliceHas(s) /\ BobHas(s) /\ WireHas(s)

\* Alice's side, when neither she nor what Bob has sent her changes.
LEMMA AliceKept ==
    ASSUME NEW s, AliceHas(s), config' = config, a'[s] = a[s], gotA'[s] = gotA[s],
           psbt'[s] = psbt[s], gotB'[s] = gotB[s],
           b[s] \notin BeforePsbt => b'[s] \notin BeforePsbt,
           b'[s] = "state1" => b[s] = "state1"
    PROVE  AliceHas(s)'
<1> USE FrameConfig, FramePsbt, FrameBob
<1>1. DleqVerifies(Message0(s).S_b_bitcoin, Message0(s).S_b_beldex)' <=>
      DleqVerifies(Message0(s).S_b_bitcoin, Message0(s).S_b_beldex)
  BY DEF DleqVerifies
<1> QED BY <1>1 DEF AliceHas

\* Bob's side, when neither he nor the price changes.
LEMMA BobKept ==
    ASSUME NEW s, BobHas(s), config' = config, b'[s] = b[s], gotB'[s] = gotB[s],
           psbt'[s] = psbt[s], promise'[s] = promise[s], handle'[s] = handle[s],
           s \in btcLocked' => s \in btcLocked,
           a[s] \notin BeforePrice => a'[s] \notin BeforePrice
    PROVE  BobHas(s)'
<1> USE FrameConfig, FramePsbt, FrameBob
<1>1. DleqVerifies(Message1(s).S_a_bitcoin, Message1(s).S_a_beldex)' <=>
      DleqVerifies(Message1(s).S_a_bitcoin, Message1(s).S_a_beldex)
  BY DEF DleqVerifies
<1>2. PriceOf(s)' = PriceOf(s)
  BY DEF PriceOf
<1> QED BY <1>1, <1>2 DEF BobHas

\* The message on its way, when it stays there.
LEMMA WireKept ==
    ASSUME NEW s, WireHas(s), config' = config, wire'[s] = wire[s], gotB'[s] = gotB[s],
           psbt'[s] = psbt[s], promise'[s] = promise[s],
           a[s] \notin BeforePrice => a'[s] \notin BeforePrice,
           b[s] \notin BeforePsbt => b'[s] \notin BeforePsbt,
           b'[s] = "state1" => b[s] = "state1"
    PROVE  WireHas(s)'
<1> USE FrameConfig, FramePsbt, FrameBob
<1>1. \A type : Incoming(s, type)' <=> Incoming(s, type)
  BY DEF Incoming
<1>2. PriceOf(s)' = PriceOf(s)
  BY DEF PriceOf
<1> QED BY <1>1, <1>2 DEF WireHas

\* Nothing is on its way.
LEMMA WireEmptied ==
    ASSUME NEW s, wire'[s] = NoMessage
    PROVE  WireHas(s)'
BY DEF WireHas, Incoming

\* A session that takes no part in a step.
LEMMA SessionKept ==
    ASSUME NEW s, SessionInv(s), config' = config, a'[s] = a[s], b'[s] = b[s],
           handle'[s] = handle[s], wire'[s] = wire[s], gotA'[s] = gotA[s], gotB'[s] = gotB[s],
           psbt'[s] = psbt[s], promise'[s] = promise[s], s \in btcLocked' => s \in btcLocked
    PROVE  SessionInv(s)'
BY AliceKept, BobKept, WireKept DEF SessionInv

-----------------------------------------------------------------------------
(* Alice's steps, in their own session                                     *)

\* What the invariant says of one session.
LEMMA InvOf ==
    ASSUME SetupInv, NEW s \in Session
    PROVE  /\ SetupTypeOK /\ SessionInv(s)
           /\ AliceHas(s) /\ BobHas(s) /\ WireHas(s) /\ Covered(s)
BY DEF SetupInv, SessionInv

\* The DLEQ proofs are over the configuration alone.
LEMMA FrameDleq ==
    ASSUME NEW s, config' = config
    PROVE  /\ DleqVerifies(Message0(s).S_b_bitcoin, Message0(s).S_b_beldex)' <=>
              DleqVerifies(Message0(s).S_b_bitcoin, Message0(s).S_b_beldex)
           /\ DleqVerifies(Message1(s).S_a_bitcoin, Message1(s).S_a_beldex)' <=>
              DleqVerifies(Message1(s).S_a_bitcoin, Message1(s).S_a_beldex)
BY FrameConfig DEF DleqVerifies

\* She leaves Bob's side as it is.
AliceLeaves(s) ==
    /\ config' = config /\ b'[s] = b[s] /\ gotB'[s] = gotB[s] /\ psbt'[s] = psbt[s]
    /\ handle'[s] = handle[s] /\ btcLocked' = btcLocked

\* A step of hers that ends her protocol keeps the invariant.
LEMMA AliceFailed ==
    ASSUME SetupInv, NEW s \in Session, AliceLeaves(s), promise'[s] = promise[s],
           a'[s] = "failed", gotA'[s] = gotA[s],
           wire'[s] = NoMessage \/ wire'[s] = wire[s]
    PROVE  SessionInv(s)'
<1>1. AliceHas(s)'
  BY DEF AliceHas
<1>2. "failed" \notin BeforePrice
  BY DEF BeforePrice
<1>3. BobHas(s)'
  BY <1>2, InvOf, BobKept DEF AliceLeaves
<1>4. WireHas(s)'
  BY <1>2, InvOf, WireKept, WireEmptied DEF AliceLeaves
<1> QED BY <1>1, <1>3, <1>4 DEF SessionInv

\* The request that she reads is the one that Bob has written.
LEMMA ReadRequestKeeps ==
    ASSUME SetupInv, NEW s \in Session, AliceReadRequest(s)
    PROVE  SessionInv(s)'
<1>1. /\ AliceLeaves(s) /\ promise'[s] = promise[s] /\ a[s] = "idle" /\ a'[s] = "asked"
      /\ gotA'[s] = Append(gotA[s], wire[s]) /\ wire'[s] = NoMessage /\ Incoming(s, "request")
  BY InvOf DEF SetupTypeOK, AliceReadRequest, AliceAccepts, ReadA, AliceLeaves, bobUnchanged,
       configUnchanged, balanceUnchanged
<1>2. gotA[s] = <<>> /\ wire[s] = SpotPriceRequest(s)
  BY <1>1, InvOf DEF AliceHas, WireHas
<1>3. AliceHas(s)'
  BY <1>1, <1>2, AppendFacts, FrameConfig DEF AliceHas, AliceLeaves
<1>4. BobHas(s)'
  BY <1>1, InvOf, BobKept DEF AliceLeaves, BeforePrice
<1> QED BY <1>1, <1>3, <1>4, WireEmptied DEF SessionInv

\* The snapshot of the wallets has no part in the messages.
LEMMA SnapshotKeeps ==
    ASSUME SetupInv, NEW s \in Session, AliceSnapshot(s)
    PROVE  SessionInv(s)'
<1>1. /\ AliceLeaves(s) /\ promise'[s] = promise[s] /\ a[s] = "asked" /\ a'[s] = "snapshot"
      /\ gotA'[s] = gotA[s] /\ wire'[s] = wire[s]
  BY InvOf DEF SetupTypeOK, AliceSnapshot, AliceLeaves, bobUnchanged, configUnchanged
<1>2. AliceHas(s)'
  BY <1>1, InvOf, FrameConfig DEF AliceHas, AliceLeaves
<1>3. BobHas(s)'
  BY <1>1, InvOf, BobKept DEF AliceLeaves, BeforePrice
<1>4. WireHas(s)'
  BY <1>1, InvOf, WireKept DEF AliceLeaves, BeforePrice
<1> QED BY <1>2, <1>3, <1>4 DEF SessionInv

\* The price is set here: Bob has none before.
LEMMA AnswerPriceKeeps ==
    ASSUME SetupInv, NEW s \in Session, AliceAnswerPrice(s)
    PROVE  SessionInv(s)'
<1>1. /\ AliceLeaves(s) /\ a[s] = "snapshot" /\ gotA'[s] = gotA[s]
  BY InvOf DEF SetupTypeOK, AliceAnswerPrice, AliceLeaves, bobUnchanged, configUnchanged
<1>2. PICK rate \in Rate \cup {0} :
        LET result == Validate(s, rate)
            bdx == IF result = "Beldex" THEN rate * Request(gotA[s]).btc ELSE 0
        IN  /\ wire' = [wire EXCEPT ![s] = [type |-> "price", result |-> result, bdx |-> bdx]]
            /\ a' = [a EXCEPT ![s] = IF result = "Beldex" THEN "state0" ELSE "failed"]
            /\ promise' = [promise EXCEPT ![s] = bdx]
  BY DEF AliceAnswerPrice
<1> DEFINE result == Validate(s, rate)
           bdx == IF result = "Beldex" THEN rate * Request(gotA[s]).btc ELSE 0
<1>3. /\ wire'[s] = [type |-> "price", result |-> result, bdx |-> bdx]
      /\ a'[s] = (IF result = "Beldex" THEN "state0" ELSE "failed") /\ promise'[s] = bdx
  BY <1>2, InvOf DEF SetupTypeOK
<1> HIDE DEF result, bdx
<1>4. AliceHas(s)'
  BY <1>1, <1>3, InvOf, FrameConfig DEF AliceHas, AliceLeaves
<1>5. b[s] \notin {"state0", "state1", "state2", "done"}
  BY <1>1, InvOf DEF BobHas, BeforePrice
<1>6. BobHas(s)'
  BY <1>1, <1>5, InvOf DEF BobHas, AliceLeaves
<1>7. a'[s] \notin BeforePrice
  BY <1>3 DEF BeforePrice
<1>8. PriceOf(s)' = [type |-> "price", result |-> "Beldex", bdx |-> bdx]
  BY <1>3 DEF PriceOf
<1>9. WireHas(s)'
  BY <1>3, <1>7, <1>8 DEF WireHas, Incoming
<1> QED BY <1>4, <1>6, <1>9 DEF SessionInv

\* She goes on with Bob's keys only if their proof verifies.
LEMMA AliceReceive0Keeps ==
    ASSUME SetupInv, NEW s \in Session, AliceReceive0(s)
    PROVE  SessionInv(s)'
<1>1. /\ AliceLeaves(s) /\ promise'[s] = promise[s] /\ a[s] = "state0" /\ Incoming(s, "message0")
  BY InvOf DEF SetupTypeOK, AliceReceive0, AliceLeaves, bobUnchanged, configUnchanged, balanceUnchanged
<1>2. gotA[s] = <<SpotPriceRequest(s)>> /\ wire[s] = Message0(s)
  BY <1>1, InvOf DEF AliceHas, WireHas
<1>3. CASE DleqVerifies(wire[s].S_b_bitcoin, wire[s].S_b_beldex)
  <2>1. /\ a'[s] = "state1" /\ gotA'[s] = Append(gotA[s], wire[s]) /\ wire'[s] = Message1(s)
    BY <1>3, InvOf DEF SetupTypeOK, AliceReceive0, AliceAccepts, ReadA
  <2>2. gotA'[s] = <<SpotPriceRequest(s), Message0(s)>>
    BY <1>2, <2>1, AppendFacts
  <2>3. AliceHas(s)'
    BY <1>1, <1>2, <1>3, <2>1, <2>2, FrameConfig, FrameDleq DEF AliceHas, AliceLeaves
  <2>4. BobHas(s)'
    BY <1>1, <2>1, InvOf, BobKept DEF AliceLeaves, BeforePrice
  <2>5. WireHas(s)'
    BY <1>1, <2>1, FrameConfig, MessageTypes DEF WireHas, Incoming, AliceLeaves
  <2> QED BY <2>3, <2>4, <2>5 DEF SessionInv
<1>4. CASE ~DleqVerifies(wire[s].S_b_bitcoin, wire[s].S_b_beldex)
  <2>1. a'[s] = "failed" /\ gotA'[s] = gotA[s] /\ wire'[s] = NoMessage
    BY <1>4, InvOf DEF SetupTypeOK, AliceReceive0, AliceRejects
  <2> QED BY <1>1, <2>1, AliceFailed
<1> QED BY <1>3, <1>4

\* The PSBT that she accepts pays the amount to the shared output.
LEMMA AliceReceive2Keeps ==
    ASSUME SetupInv, NEW s \in Session, AliceReceive2(s)
    PROVE  SessionInv(s)'
<1> DEFINE Pays == PaysShared(wire[s].psbt, Key("a", s), M0(gotA[s]).B, Request(gotA[s]).btc)
<1>1. /\ AliceLeaves(s) /\ promise'[s] = promise[s] /\ a[s] = "state1" /\ Incoming(s, "message2")
  BY InvOf DEF SetupTypeOK, AliceReceive2, AliceLeaves, bobUnchanged, configUnchanged, balanceUnchanged
<1>2. /\ gotA[s] = <<SpotPriceRequest(s), Message0(s)>> /\ wire[s] = Message2(s, psbt[s])
      /\ PsbtShape(s, psbt[s]) /\ b[s] \notin BeforePsbt
      /\ DleqVerifies(Message0(s).S_b_bitcoin, Message0(s).S_b_beldex)
  BY <1>1, InvOf DEF AliceHas, WireHas
<1>3. CASE Pays
  <2>1. a'[s] = "state2" /\ gotA'[s] = Append(gotA[s], wire[s]) /\ wire'[s] = Message3(s, ReadA(s))
    BY <1>3, InvOf DEF SetupTypeOK, AliceReceive2, AliceAccepts, ReadA
  <2>2. gotA'[s] = <<SpotPriceRequest(s), Message0(s), Message2(s, psbt[s])>>
    BY <1>2, <2>1, ReceiveThird
  <2>3. wire[s].psbt = Psbt(s) /\ M0(gotA[s]).B = Key("b", s) /\ Request(gotA[s]).btc = config[s].btc
    BY <1>2 DEF Message2, Psbt, M0, Request, Message0, SpotPriceRequest
  <2>4. PsbtPays(s)
    BY <1>2, <1>3, <2>3, PaysFacts DEF PsbtPays
  <2>5. AliceHas(s)'
    BY <1>1, <1>2, <2>1, <2>2, <2>4, FrameConfig, FrameDleq, FramePsbt DEF AliceHas, AliceLeaves
  <2>6. BobHas(s)'
    BY <1>1, <2>1, InvOf, BobKept DEF AliceLeaves, BeforePrice
  <2>7. WireHas(s)'
    BY <1>1, <2>1, <2>4, FramePsbt, MessageTypes DEF WireHas, Incoming, AliceLeaves
  <2> QED BY <2>5, <2>6, <2>7 DEF SessionInv
<1>4. CASE ~Pays
  <2>1. a'[s] = "failed" /\ gotA'[s] = gotA[s] /\ wire'[s] = NoMessage
    BY <1>4, InvOf DEF SetupTypeOK, AliceReceive2, AliceRejects
  <2> QED BY <1>1, <2>1, AliceFailed
<1> QED BY <1>3, <1>4

\* The digests are over the transactions of the first three messages: the last one
\* does not change them.
LEMMA AliceReceive4Keeps ==
    ASSUME SetupInv, NEW s \in Session, AliceReceive4(s)
    PROVE  SessionInv(s)'
<1> DEFINE Signs == /\ verify_sig(M0(gotA[s]).B, ACancelDigest(s, gotA[s]), wire[s].tx_cancel_sig)
                    /\ verify_sig(M0(gotA[s]).B, APunishDigest(s, gotA[s]), wire[s].tx_punish_sig)
<1>1. /\ AliceLeaves(s) /\ promise'[s] = promise[s] /\ a[s] = "state2" /\ Incoming(s, "message4")
  BY InvOf DEF SetupTypeOK, AliceReceive4, AliceLeaves, bobUnchanged, configUnchanged, balanceUnchanged
<1>2. /\ gotA[s] = <<SpotPriceRequest(s), Message0(s), Message2(s, psbt[s])>>
      /\ wire[s] = Message4(s) /\ b[s] \notin BeforePsbt \cup {"state1"} /\ PsbtPays(s)
      /\ DleqVerifies(Message0(s).S_b_bitcoin, Message0(s).S_b_beldex)
  BY <1>1, InvOf DEF AliceHas, WireHas
<1>3. CASE Signs
  <2>1. a'[s] = "state3" /\ gotA'[s] = Append(gotA[s], wire[s]) /\ wire'[s] = NoMessage
    BY <1>3, InvOf DEF SetupTypeOK, AliceReceive4, AliceAccepts, ReadA
  <2>2. gotA'[s] = <<SpotPriceRequest(s), Message0(s), Message2(s, psbt[s]), Message4(s)>>
    BY <1>2, <2>1, ReceiveFourth
  <2>3. /\ M0(gotA'[s]) = M0(gotA[s]) /\ M2(gotA'[s]) = M2(gotA[s]) /\ M4(gotA'[s]) = wire[s]
    BY <1>2, <2>2 DEF M0, M2, M4
  <2>4. ALock(s, gotA'[s]) = ALock(s, gotA[s])
    BY <2>3 DEF ALock
  <2>5. ACancel(s, gotA'[s]) = ACancel(s, gotA[s])
    BY <2>3, <2>4 DEF ACancel
  <2>6. /\ ACancelDigest(s, gotA'[s]) = ACancelDigest(s, gotA[s])
        /\ APunishDigest(s, gotA'[s]) = APunishDigest(s, gotA[s])
    BY <2>4, <2>5 DEF ACancelDigest, APunishDigest, APunish
  <2>7. /\ verify_sig(M0(gotA'[s]).B, ACancelDigest(s, gotA'[s]), M4(gotA'[s]).tx_cancel_sig)
        /\ verify_sig(M0(gotA'[s]).B, APunishDigest(s, gotA'[s]), M4(gotA'[s]).tx_punish_sig)
    BY <1>3, <2>3, <2>6
  <2>8. AliceHas(s)'
    BY <1>1, <1>2, <2>1, <2>2, <2>7, FrameConfig, FrameDleq, FramePsbt, FrameBob
       DEF AliceHas, AliceLeaves
  <2>9. BobHas(s)'
    BY <1>1, <2>1, InvOf, BobKept DEF AliceLeaves, BeforePrice
  <2> QED BY <2>1, <2>8, <2>9, WireEmptied DEF SessionInv
<1>4. CASE ~Signs
  <2>1. a'[s] = "failed" /\ gotA'[s] = gotA[s] /\ wire'[s] = NoMessage
    BY <1>4, InvOf DEF SetupTypeOK, AliceReceive4, AliceRejects
  <2> QED BY <1>1, <2>1, AliceFailed
<1> QED BY <1>3, <1>4

\* The swap starts with what the handshake has left.
LEMMA AliceStartsKeeps ==
    ASSUME SetupInv, NEW s \in Session, AliceStarts(s)
    PROVE  SessionInv(s)'
<1>1. /\ AliceLeaves(s) /\ promise'[s] = promise[s] /\ a[s] = "state3" /\ a'[s] = "started"
      /\ gotA'[s] = gotA[s] /\ wire'[s] = wire[s]
  BY InvOf DEF SetupTypeOK, AliceStarts, AliceLeaves, bobUnchanged, configUnchanged, balanceUnchanged
<1>2. AliceHas(s)'
  BY <1>1, InvOf, FrameConfig, FrameDleq, FramePsbt, FrameBob DEF AliceHas, AliceLeaves
<1>3. BobHas(s)'
  BY <1>1, InvOf, BobKept DEF AliceLeaves, BeforePrice
<1>4. WireHas(s)'
  BY <1>1, InvOf, WireKept DEF AliceLeaves, BeforePrice
<1> QED BY <1>2, <1>3, <1>4 DEF SessionInv

\* A failure at any point is one that Bob does not see yet.
LEMMA AliceFailsKeeps ==
    ASSUME SetupInv, NEW s \in Session, AliceFails(s)
    PROVE  SessionInv(s)'
<1>1. /\ AliceLeaves(s) /\ promise'[s] = promise[s] /\ a'[s] = "failed"
      /\ gotA'[s] = gotA[s] /\ wire'[s] = wire[s]
  BY InvOf DEF SetupTypeOK, AliceFails, AliceLeaves, bobUnchanged, configUnchanged, balanceUnchanged
<1> QED BY <1>1, AliceFailed

-----------------------------------------------------------------------------
(* Bob's steps, in their own session                                       *)

\* He leaves Alice's side as it is.
BobLeaves(s) ==
    config' = config /\ a'[s] = a[s] /\ gotA'[s] = gotA[s] /\ promise'[s] = promise[s]

\* A step of his that ends his protocol keeps the invariant.
LEMMA BobFailed ==
    ASSUME SetupInv, NEW s \in Session, BobLeaves(s), btcLocked' = btcLocked,
           b[s] \in {"asked", "state0", "state1", "state2"}, b'[s] = "failed",
           gotB'[s] = gotB[s], psbt'[s] = psbt[s], handle'[s] = "ok" => handle[s] = "ok",
           wire'[s] = NoMessage \/ wire'[s] = wire[s]
    PROVE  SessionInv(s)'
<1>1. "failed" \notin BeforePsbt
  BY DEF BeforePsbt
<1>2. AliceHas(s)'
  BY <1>1, InvOf, AliceKept DEF BobLeaves
<1>3. BobHas(s)'
  BY InvOf DEF BobHas, BobLeaves
<1>4. WireHas(s)'
  BY <1>1, InvOf, WireKept, WireEmptied DEF BobLeaves
<1> QED BY <1>2, <1>3, <1>4 DEF SessionInv

\* The first steps of his come before every message.
LEMMA BobSetupKeeps ==
    ASSUME SetupInv, NEW s \in Session, BobSetup(s)
    PROVE  SessionInv(s)'
<1>1. /\ BobLeaves(s) /\ b[s] = "idle" /\ b'[s] = "opening" /\ handle'[s] = "waiting"
      /\ wire'[s] = wire[s] /\ gotB'[s] = gotB[s] /\ psbt'[s] = psbt[s] /\ btcLocked' = btcLocked
  BY InvOf DEF SetupTypeOK, BobSetup, BobLeaves, aliceUnchanged, balanceUnchanged, configUnchanged
<1>2. b[s] \in BeforePsbt /\ b'[s] # "state1"
  BY <1>1 DEF BeforePsbt
<1>3. AliceHas(s)' /\ WireHas(s)'
  BY <1>1, <1>2, InvOf, AliceKept, WireKept DEF BobLeaves
<1>4. BobHas(s)'
  BY <1>1, InvOf DEF BobHas, BobLeaves
<1> QED BY <1>3, <1>4 DEF SessionInv

\* His request is the first message on the substream.
LEMMA BobRequestKeeps ==
    ASSUME SetupInv, NEW s \in Session, BobRequest(s)
    PROVE  SessionInv(s)'
<1>1. /\ BobLeaves(s) /\ b[s] = "opening" /\ b'[s] = "asked" /\ handle'[s] = handle[s]
      /\ wire'[s] = SpotPriceRequest(s) /\ gotB'[s] = gotB[s] /\ psbt'[s] = psbt[s]
      /\ btcLocked' = btcLocked
  BY InvOf DEF SetupTypeOK, BobRequest, BobLeaves, aliceUnchanged, balanceUnchanged, configUnchanged
<1>2. b[s] \in BeforePsbt /\ b'[s] # "state1"
  BY <1>1 DEF BeforePsbt
<1>3. AliceHas(s)'
  BY <1>1, <1>2, InvOf, AliceKept DEF BobLeaves
<1>4. BobHas(s)'
  BY <1>1, InvOf DEF BobHas, BobLeaves
<1>5. WireHas(s)'
  BY <1>1, FrameConfig, MessageTypes DEF WireHas, Incoming, BobLeaves
<1> QED BY <1>3, <1>4, <1>5 DEF SessionInv

\* A substream that is not negotiated carries nothing.
LEMMA BobNotNegotiatedKeeps ==
    ASSUME SetupInv, NEW s \in Session, BobNotNegotiated(s)
    PROVE  SessionInv(s)'
<1>1. /\ BobLeaves(s) /\ b[s] = "opening" /\ b'[s] = "lost" /\ handle'[s] = handle[s]
      /\ wire'[s] = wire[s] /\ gotB'[s] = gotB[s] /\ psbt'[s] = psbt[s] /\ btcLocked' = btcLocked
  BY InvOf DEF SetupTypeOK, BobNotNegotiated, BobLeaves, aliceUnchanged, balanceUnchanged,
       configUnchanged
<1>2. b[s] \in BeforePsbt /\ b'[s] # "state1"
  BY <1>1 DEF BeforePsbt
<1>3. AliceHas(s)' /\ WireHas(s)'
  BY <1>1, <1>2, InvOf, AliceKept, WireKept DEF BobLeaves
<1>4. BobHas(s)'
  BY <1>1, InvOf DEF BobHas, BobLeaves
<1> QED BY <1>3, <1>4 DEF SessionInv

\* The price that he reads is the one that Alice has promised.
LEMMA BobReceivePriceKeeps ==
    ASSUME SetupInv, NEW s \in Session, BobReceivePrice(s)
    PROVE  SessionInv(s)'
<1>1. /\ BobLeaves(s) /\ b[s] = "asked" /\ Incoming(s, "price")
      /\ psbt'[s] = psbt[s] /\ btcLocked' = btcLocked
  BY InvOf DEF SetupTypeOK, BobReceivePrice, BobLeaves, aliceUnchanged, balanceUnchanged,
       configUnchanged
<1>2. CASE wire[s].result = "Beldex"
  <2>1. /\ b'[s] = "state0" /\ gotB'[s] = Append(gotB[s], wire[s]) /\ wire'[s] = Message0(s)
        /\ handle'[s] = handle[s]
    BY <1>2, InvOf DEF SetupTypeOK, BobReceivePrice, BobAccepts, ReadB
  <2>2. gotB[s] = <<>> /\ wire[s] = PriceOf(s) /\ a[s] \notin BeforePrice
    BY <1>1, <1>2, InvOf DEF BobHas, WireHas
  <2>3. gotB'[s] = <<PriceOf(s)>> /\ PriceOf(s)' = PriceOf(s)
    BY <1>1, <2>1, <2>2, AppendFacts DEF PriceOf, BobLeaves
  <2>4. a[s] \notin {"state2", "state3", "started"}
    BY <1>1, InvOf DEF AliceHas, BeforePsbt
  <2>5. AliceHas(s)'
    BY <1>1, <2>4, InvOf, FrameConfig, FrameDleq DEF AliceHas, BobLeaves
  <2>6. BobHas(s)'
    BY <1>1, <2>1, <2>2, <2>3, InvOf DEF BobHas, BobLeaves
  <2>7. WireHas(s)'
    BY <1>1, <2>1, FrameConfig, MessageTypes DEF WireHas, Incoming, BobLeaves
  <2> QED BY <2>5, <2>6, <2>7 DEF SessionInv
<1>3. CASE wire[s].result # "Beldex"
  <2>1. /\ b'[s] = "failed" /\ gotB'[s] = gotB[s] /\ wire'[s] = NoMessage
        /\ handle'[s] = "ok" => handle[s] = "ok"
    BY <1>3, InvOf DEF SetupTypeOK, BobReceivePrice, BobRejects, Completed
  <2> QED BY <1>1, <2>1, BobFailed
<1> QED BY <1>2, <1>3

\* His TxLock is made here: Alice has none before.
LEMMA BobReceive1Keeps ==
    ASSUME SetupInv, NEW s \in Session, BobReceive1(s)
    PROVE  SessionInv(s)'
<1>1. /\ BobLeaves(s) /\ b[s] = "state0" /\ Incoming(s, "message1") /\ btcLocked' = btcLocked
  BY InvOf DEF SetupTypeOK, BobReceive1, BobLeaves, aliceUnchanged, balanceUnchanged,
       configUnchanged
<1>2. gotB[s] = <<PriceOf(s)>> /\ wire[s] = Message1(s) /\ a[s] \notin BeforePrice
  BY <1>1, InvOf DEF BobHas, WireHas
<1>3. CASE DleqVerifies(wire[s].S_a_bitcoin, wire[s].S_a_beldex)
  <2>1. build_shared_output_descriptor(wire[s].A, Key("b", s)) = Shared(s)
    BY <1>2 DEF Message1, Shared
  <2>2. PICK out \in BuiltOutputs(s, Shared(s)) :
            /\ BobAccepts(s, "state1", Message2(s, Sent(s, Arranged(out, Shared(s), Key("refund", s)))))
            /\ psbt' = [psbt EXCEPT ![s] = Sent(s, Arranged(out, Shared(s), Key("refund", s)))]
    BY <1>3, <2>1 DEF BobReceive1
  <2> DEFINE sent == Sent(s, Arranged(out, Shared(s), Key("refund", s)))
  <2>3. PsbtShape(s, sent)
    BY SentHasShape
  <2>4. /\ b'[s] = "state1" /\ gotB'[s] = Append(gotB[s], wire[s]) /\ wire'[s] = Message2(s, sent)
        /\ handle'[s] = handle[s] /\ psbt'[s] = sent
    BY <2>2, InvOf DEF SetupTypeOK, BobAccepts, ReadB
  <2> HIDE DEF sent
  <2>5. gotB'[s] = <<PriceOf(s), Message1(s)>>
    BY <1>2, <2>4, AppendFacts
  <2>6. PriceOf(s)' = PriceOf(s)
    BY <1>1 DEF PriceOf, BobLeaves
  <2>7. PsbtShape(s, psbt[s])' /\ wire'[s] = Message2(s, psbt[s])'
    BY <1>1, <2>3, <2>4 DEF PsbtShape, BobLeaves, Message2
  <2>8. a[s] \notin {"state2", "state3", "started"}
    BY <1>1, InvOf DEF AliceHas, BeforePsbt
  <2>9. AliceHas(s)'
    BY <1>1, <2>8, InvOf, FrameConfig, FrameDleq DEF AliceHas, BobLeaves
  <2>10. BobHas(s)'
    <3>1. DleqVerifies(Message1(s).S_a_bitcoin, Message1(s).S_a_beldex)'
      BY <1>1, <1>2, <1>3, FrameDleq DEF BobLeaves
    <3>2. gotB'[s] = <<PriceOf(s)', Message1(s)'>>
      BY <1>1, <2>5, <2>6, FrameConfig DEF BobLeaves
    <3> QED BY <1>1, <1>2, <2>4, <2>7, <3>1, <3>2, InvOf DEF BobHas, BobLeaves
  <2>11. "state1" \notin BeforePsbt
    BY DEF BeforePsbt
  <2>12. WireHas(s)'
    BY <2>4, <2>7, <2>11, MessageTypes DEF WireHas, Incoming
  <2> QED BY <2>9, <2>10, <2>12 DEF SessionInv
<1>4. CASE ~DleqVerifies(wire[s].S_a_bitcoin, wire[s].S_a_beldex)
  <2>1. /\ b'[s] = "failed" /\ gotB'[s] = gotB[s] /\ wire'[s] = NoMessage /\ psbt'[s] = psbt[s]
        /\ handle'[s] = "ok" => handle[s] = "ok"
    BY <1>4, InvOf DEF SetupTypeOK, BobReceive1, BobRejects, Completed
  <2> QED BY <1>1, <2>1, BobFailed
<1> QED BY <1>3, <1>4

\* He has verified the signatures that he goes on with.
LEMMA BobReceive3Keeps ==
    ASSUME SetupInv, NEW s \in Session, BobReceive3(s)
    PROVE  SessionInv(s)'
<1> DEFINE Signs == /\ verify_sig(M1(gotB[s]).A, BCancelDigest(s), wire[s].tx_cancel_sig)
                    /\ verify_encsig(M1(gotB[s]).A, Key("s_b", s), BRefundDigest(s),
                                     wire[s].tx_refund_encsig)
<1>1. /\ BobLeaves(s) /\ b[s] = "state1" /\ Incoming(s, "message3")
      /\ psbt'[s] = psbt[s] /\ btcLocked' = btcLocked
  BY InvOf DEF SetupTypeOK, BobReceive3, BobLeaves, aliceUnchanged, balanceUnchanged,
       configUnchanged
<1>2. /\ gotB[s] = <<PriceOf(s), Message1(s)>> /\ PsbtPays(s) /\ a[s] \notin BeforePrice
      /\ DleqVerifies(Message1(s).S_a_bitcoin, Message1(s).S_a_beldex)
  BY <1>1, InvOf DEF BobHas, WireHas
<1>3. CASE Signs
  <2>1. /\ b'[s] = "state2" /\ gotB'[s] = Append(gotB[s], wire[s]) /\ wire'[s] = Message4(s)
        /\ handle'[s] = handle[s]
    BY <1>3, InvOf DEF SetupTypeOK, BobReceive3, BobAccepts, ReadB
  <2>2. gotB'[s] = <<PriceOf(s), Message1(s), wire[s]>>
    BY <1>2, <2>1, ReceiveThird
  <2>3. M1(gotB'[s]) = M1(gotB[s]) /\ M3(gotB'[s]) = wire[s]
    BY <1>2, <2>2 DEF M1, M3
  <2>4. /\ BCancelDigest(s)' = BCancelDigest(s) /\ BRefundDigest(s)' = BRefundDigest(s)
        /\ Message4(s)' = Message4(s)
    BY <1>1, <2>3, FrameBob DEF BobLeaves
  <2>5. PriceOf(s)' = PriceOf(s)
    BY <1>1 DEF PriceOf, BobLeaves
  <2>6. PsbtPays(s)'
    BY <1>1, <1>2, FramePsbt DEF BobLeaves
  <2>7. a[s] \notin {"state3", "started"}
    BY <1>1, InvOf DEF AliceHas
  <2>8. b'[s] \notin BeforePsbt \cup {"state1"}
    BY <2>1 DEF BeforePsbt
  <2>9. AliceHas(s)'
    BY <1>1, <2>7, <2>8, InvOf, FrameConfig, FrameDleq, FramePsbt DEF AliceHas, BobLeaves
  <2>10. BobHas(s)'
    <3>1. DleqVerifies(Message1(s).S_a_bitcoin, Message1(s).S_a_beldex)'
      BY <1>1, <1>2, FrameDleq DEF BobLeaves
    <3>2. gotB'[s] = <<PriceOf(s)', Message1(s)', M3(gotB'[s])>>
      BY <1>1, <2>2, <2>3, <2>5, FrameConfig DEF BobLeaves
    <3>3. /\ verify_sig(M1(gotB'[s]).A, BCancelDigest(s)', M3(gotB'[s]).tx_cancel_sig)
          /\ verify_encsig(M1(gotB'[s]).A, Key("s_b", s), BRefundDigest(s)',
                           M3(gotB'[s]).tx_refund_encsig)
      BY <1>3, <2>3, <2>4
    <3> QED BY <1>1, <1>2, <2>1, <2>6, <3>1, <3>2, <3>3, InvOf DEF BobHas, BobLeaves
  <2>11. WireHas(s)'
    BY <2>1, <2>4, <2>8, MessageTypes DEF WireHas, Incoming
  <2> QED BY <2>9, <2>10, <2>11 DEF SessionInv
<1>4. CASE ~Signs
  <2>1. /\ b'[s] = "failed" /\ gotB'[s] = gotB[s] /\ wire'[s] = NoMessage
        /\ handle'[s] = "ok" => handle[s] = "ok"
    BY <1>4, InvOf DEF SetupTypeOK, BobReceive3, BobRejects, Completed
  <2> QED BY <1>1, <2>1, BobFailed
<1> QED BY <1>3, <1>4

\* The state that is given to the swap is the one he has verified.
LEMMA BobCompletesKeeps ==
    ASSUME SetupInv, NEW s \in Session, BobCompletes(s)
    PROVE  SessionInv(s)'
<1>1. /\ BobLeaves(s) /\ b[s] = "state2" /\ b'[s] = "done"
      /\ wire'[s] = wire[s] /\ gotB'[s] = gotB[s] /\ psbt'[s] = psbt[s] /\ btcLocked' = btcLocked
  BY InvOf DEF SetupTypeOK, BobCompletes, BobLeaves, aliceUnchanged, balanceUnchanged,
       configUnchanged
<1>2. b'[s] \notin BeforePsbt /\ b'[s] # "state1"
  BY <1>1 DEF BeforePsbt
<1>3. AliceHas(s)' /\ WireHas(s)'
  BY <1>1, <1>2, InvOf, AliceKept, WireKept DEF BobLeaves
<1>4. PriceOf(s)' = PriceOf(s)
  BY <1>1 DEF PriceOf, BobLeaves
<1>5. BobHas(s)'
  BY <1>1, <1>4, InvOf, FrameConfig, FrameDleq, FramePsbt, FrameBob DEF BobHas, BobLeaves
<1> QED BY <1>3, <1>5 DEF SessionInv

\* A failure of his leaves what Alice has received as it is.
LEMMA BobFailsKeeps ==
    ASSUME SetupInv, NEW s \in Session, BobFails(s)
    PROVE  SessionInv(s)'
<1>1. /\ BobLeaves(s) /\ b'[s] = "failed" /\ btcLocked' = btcLocked
      /\ b[s] \in {"asked", "state0", "state1", "state2"}
      /\ gotB'[s] = gotB[s] /\ wire'[s] = wire[s] /\ psbt'[s] = psbt[s]
      /\ handle'[s] = "ok" => handle[s] = "ok"
  BY InvOf DEF SetupTypeOK, BobFails, Completed, BobLeaves, aliceUnchanged, balanceUnchanged,
       configUnchanged
<1> QED BY <1>1, BobFailed

\* A swap that has been given its state locks; one that has timed out has not been given it.
LEMMA BobHandleKeeps ==
    ASSUME SetupInv, NEW s \in Session, BobLocksBtc(s) \/ BobHandleTimeout(s)
    PROVE  SessionInv(s)'
<1>1. /\ BobLeaves(s) /\ b'[s] = b[s] /\ wire'[s] = wire[s] /\ gotB'[s] = gotB[s]
      /\ psbt'[s] = psbt[s]
      /\ handle'[s] = "ok" => handle[s] = "ok"
      /\ s \in btcLocked' => s \in btcLocked \/ handle[s] = "ok"
  BY InvOf DEF SetupTypeOK, BobLocksBtc, BobHandleTimeout, BobLeaves, aliceUnchanged,
       balanceUnchanged, configUnchanged
<1>2. AliceHas(s)' /\ WireHas(s)'
  BY <1>1, InvOf, AliceKept, WireKept DEF BobLeaves
<1>3. PriceOf(s)' = PriceOf(s)
  BY <1>1 DEF PriceOf, BobLeaves
<1>4. BobHas(s)'
  BY <1>1, <1>3, InvOf, FrameConfig, FrameDleq, FramePsbt, FrameBob DEF BobHas, BobLeaves
<1> QED BY <1>2, <1>4 DEF SessionInv

-----------------------------------------------------------------------------
(* The other sessions, the balance and the types                           *)

\* A step of one session touches no other, but for the balance and the transfers.
LEMMA StepFrame ==
    ASSUME SetupTypeOK, NEW s \in Session, AliceStep(s) \/ BobStep(s), NEW t \in Session, t # s
    PROVE  /\ config' = config /\ a'[t] = a[t] /\ b'[t] = b[t] /\ handle'[t] = handle[t]
           /\ wire'[t] = wire[t] /\ gotA'[t] = gotA[t] /\ gotB'[t] = gotB[t]
           /\ psbt'[t] = psbt[t] /\ promise'[t] = promise[t] /\ snapshot'[t] = snapshot[t]
           /\ t \in btcLocked' => t \in btcLocked
           /\ t \in bdxLocked' => t \in bdxLocked
<1> USE DEF SetupTypeOK, bobUnchanged, aliceUnchanged, balanceUnchanged, configUnchanged
<1>1. CASE AliceReadRequest(s)
  BY <1>1 DEF AliceReadRequest, AliceAccepts
<1>2. CASE AliceSnapshot(s)
  BY <1>2 DEF AliceSnapshot
<1>3. CASE AliceAnswerPrice(s)
  BY <1>3 DEF AliceAnswerPrice
<1>4. CASE AliceReceive0(s)
  BY <1>4 DEF AliceReceive0, AliceAccepts, AliceRejects
<1>5. CASE AliceReceive2(s)
  BY <1>5 DEF AliceReceive2, AliceAccepts, AliceRejects
<1>6. CASE AliceReceive4(s)
  BY <1>6 DEF AliceReceive4, AliceAccepts, AliceRejects
<1>7. CASE AliceStarts(s) \/ AliceFails(s)
  BY <1>7 DEF AliceStarts, AliceFails
<1>8. CASE AliceLocksBdx(s)
  BY <1>8 DEF AliceLocksBdx
<1>9. CASE BobSetup(s) \/ BobRequest(s) \/ BobNotNegotiated(s)
  BY <1>9 DEF BobSetup, BobRequest, BobNotNegotiated
<1>10. CASE BobReceivePrice(s)
  BY <1>10 DEF BobReceivePrice, BobAccepts, BobRejects, Completed
<1>11. CASE BobReceive1(s)
  BY <1>11 DEF BobReceive1, BobAccepts, BobRejects, Completed
<1>12. CASE BobReceive3(s)
  BY <1>12 DEF BobReceive3, BobAccepts, BobRejects, Completed
<1>13. CASE BobCompletes(s) \/ BobLocksBtc(s) \/ BobHandleTimeout(s) \/ BobFails(s)
  BY <1>13 DEF BobCompletes, BobLocksBtc, BobHandleTimeout, BobFails, Completed
<1> QED BY <1>1, <1>2, <1>3, <1>4, <1>5, <1>6, <1>7, <1>8, <1>9, <1>10, <1>11, <1>12, <1>13
     DEF AliceStep, BobStep

\* Every step keeps the invariant of every session.
LEMMA SessionsKeep ==
    ASSUME SetupInv, NEW s \in Session, AliceStep(s) \/ BobStep(s), NEW t \in Session
    PROVE  SessionInv(t)'
<1>1. CASE t # s
  BY <1>1, InvOf, StepFrame, SessionKept
<1>2. CASE t = s
  <2>1. CASE AliceLocksBdx(s)
    <3>1. /\ config' = config /\ a'[s] = a[s] /\ b'[s] = b[s] /\ handle'[s] = handle[s]
          /\ wire'[s] = wire[s] /\ gotA'[s] = gotA[s] /\ gotB'[s] = gotB[s]
          /\ psbt'[s] = psbt[s] /\ promise'[s] = promise[s] /\ btcLocked' = btcLocked
      BY <2>1 DEF AliceLocksBdx, bobUnchanged, configUnchanged
    <3> QED BY <1>2, <3>1, InvOf, SessionKept
  <2> QED BY <1>2, <2>1, ReadRequestKeeps, SnapshotKeeps, AnswerPriceKeeps, AliceReceive0Keeps,
       AliceReceive2Keeps, AliceReceive4Keeps, AliceStartsKeeps, AliceFailsKeeps, BobSetupKeeps,
       BobRequestKeeps, BobNotNegotiatedKeeps, BobReceivePriceKeeps, BobReceive1Keeps,
       BobReceive3Keeps, BobCompletesKeeps, BobFailsKeeps, BobHandleKeeps DEF AliceStep, BobStep
<1> QED BY <1>1, <1>2

\* The balance is left alone.
LEMMA CoveredMoves ==
    ASSUME NEW t, Covered(t), snapshot'[t] = snapshot[t], promise'[t] = promise[t],
           unlocked' = unlocked, overtaken' = overtaken, bdxLocked' = bdxLocked,
           \/ a'[t] = a[t]
           \/ a[t] # "started" /\ a'[t] \in {"asked", "failed"}
           \/ a[t] \notin BeforePrice \cup {"failed", "started"}
           \/ a[t] = "started" /\ a'[t] = "started"
    PROVE  Covered(t)'
BY DEF Covered, BeforePrice

\* The amount in Bob's request.
LEMMA RequestedAmount ==
    ASSUME SetupInv, NEW s \in Session, a[s] \in {"asked", "snapshot", "state0"}
    PROVE  Request(gotA[s]).btc = config[s].btc /\ config[s].btc \in Nat
<1>1. gotA[s] = <<SpotPriceRequest(s)>>
  BY InvOf DEF AliceHas
<1>2. config[s].btc \in Btc
  BY InvOf DEF SetupTypeOK
<1>3. config[s].btc \in Nat
  BY <1>2, SetupAssumption
<1> QED BY <1>1, <1>3 DEF Request, SpotPriceRequest

\* What is promised is a number, and the snapshot covers it.
LEMMA AnsweredPrice ==
    ASSUME SetupInv, NEW s \in Session, AliceAnswerPrice(s)
    PROVE  /\ promise'[s] \in Nat /\ a'[s] \in {"state0", "failed"}
           /\ a'[s] = "state0" => promise'[s] + LockFee <= snapshot[s]
<1>1. PICK rate \in Rate \cup {0} :
        LET result == Validate(s, rate)
            bdx == IF result = "Beldex" THEN rate * Request(gotA[s]).btc ELSE 0
        IN  /\ a' = [a EXCEPT ![s] = IF result = "Beldex" THEN "state0" ELSE "failed"]
            /\ promise' = [promise EXCEPT ![s] = bdx]
  BY DEF AliceAnswerPrice
<1> DEFINE price == rate * Request(gotA[s]).btc
<1>2. /\ a'[s] = IF Validate(s, rate) = "Beldex" THEN "state0" ELSE "failed"
      /\ promise'[s] = IF Validate(s, rate) = "Beldex" THEN price ELSE 0
  BY <1>1, InvOf DEF SetupTypeOK
<1>3. rate \in Nat /\ Request(gotA[s]).btc \in Nat /\ LockFee \in Nat /\ snapshot[s] \in Nat
  BY InvOf, RequestedAmount, SetupAssumption DEF SetupTypeOK, AliceAnswerPrice
<1>4. price \in Nat
  BY <1>3
<1>5. Validate(s, rate) = "Beldex" => ~(snapshot[s] < price + LockFee)
  BY DEF Validate
<1> HIDE DEF price
<1> QED BY <1>2, <1>3, <1>4, <1>5

\* Every step keeps what the balance covers: one transfer overtakes the others.
LEMMA CoveredKept ==
    ASSUME SetupInv, NEW s \in Session, AliceStep(s) \/ BobStep(s), NEW t \in Session
    PROVE  Covered(t)'
<1> USE DEF balanceUnchanged, aliceUnchanged
<1>0. Covered(t) /\ Covered(s) /\ SetupTypeOK
  BY InvOf
<1>1. t # s => a'[t] = a[t] /\ snapshot'[t] = snapshot[t] /\ promise'[t] = promise[t]
  BY <1>0, StepFrame
<1>2. CASE AliceSnapshot(s)
  <2>1. /\ a[s] = "asked" /\ a'[s] = "snapshot" /\ snapshot'[s] = unlocked /\ unlocked' = unlocked
        /\ overtaken' = overtaken \ {s} /\ bdxLocked' = bdxLocked
    BY <1>0, <1>2 DEF AliceSnapshot, SetupTypeOK
  <2>2. CASE t = s
    BY <1>0, <2>1, <2>2 DEF Covered, BeforePrice
  <2>3. CASE t # s
    BY <1>0, <1>1, <2>1, <2>3 DEF Covered
  <2> QED BY <2>2, <2>3
<1>3. CASE AliceAnswerPrice(s)
  <2>1. /\ a[s] = "snapshot" /\ snapshot' = snapshot /\ unlocked' = unlocked
        /\ overtaken' = overtaken /\ bdxLocked' = bdxLocked
    BY <1>3 DEF AliceAnswerPrice
  <2>2. CASE t = s
    BY <1>0, <1>3, <2>1, <2>2, AnsweredPrice DEF Covered, BeforePrice
  <2>3. CASE t # s
    BY <1>0, <1>1, <2>1, <2>3 DEF Covered
  <2> QED BY <2>2, <2>3
<1>4. CASE AliceLocksBdx(s)
  <2>1. /\ a[s] = "started" /\ a' = a /\ snapshot' = snapshot /\ promise' = promise
        /\ bdxLocked' = bdxLocked \cup {s} /\ overtaken' = overtaken \cup (Session \ {s})
    BY <1>4 DEF AliceLocksBdx
  <2> QED BY <1>0, <2>1 DEF Covered
<1>5. CASE /\ balanceUnchanged
           /\ \/ a'[s] = a[s]
              \/ a[s] # "started" /\ a'[s] \in {"asked", "failed"}
              \/ a[s] \notin BeforePrice \cup {"failed", "started"}
  BY <1>0, <1>1, <1>5, CoveredMoves
<1>6. CASE AliceReadRequest(s)
  BY <1>0, <1>5, <1>6 DEF AliceReadRequest, AliceAccepts, SetupTypeOK
<1>7. CASE AliceReceive0(s) \/ AliceReceive2(s) \/ AliceReceive4(s) \/ AliceStarts(s)
  BY <1>5, <1>7 DEF AliceReceive0, AliceReceive2, AliceReceive4, AliceStarts, BeforePrice
<1>8. CASE AliceFails(s)
  BY <1>0, <1>5, <1>8 DEF AliceFails, SetupTypeOK
<1>9. CASE BobStep(s)
  <2>1. a' = a /\ balanceUnchanged
    BY <1>9 DEF BobStep, BobSetup, BobRequest, BobNotNegotiated, BobReceivePrice, BobReceive1,
         BobReceive3, BobCompletes, BobLocksBtc, BobHandleTimeout, BobFails
  <2> QED BY <1>5, <2>1
<1> QED BY <1>2, <1>3, <1>4, <1>6, <1>7, <1>8, <1>9 DEF AliceStep

\* Her steps keep the types.
LEMMA AliceTypes ==
    ASSUME SetupInv, NEW s \in Session, AliceStep(s)
    PROVE  SetupTypeOK'
<1> USE DEF SetupTypeOK, bobUnchanged, balanceUnchanged, configUnchanged, APhase
<1>0. SetupTypeOK
  BY InvOf
<1>1. CASE AliceReadRequest(s)
  BY <1>0, <1>1 DEF AliceReadRequest, AliceAccepts
<1>2. CASE AliceSnapshot(s)
  BY <1>0, <1>2 DEF AliceSnapshot
<1>3. CASE AliceAnswerPrice(s)
  <2>1. promise'[s] \in Nat /\ a'[s] \in {"state0", "failed"}
    BY <1>3, AnsweredPrice
  <2>2. /\ \E x : promise' = [promise EXCEPT ![s] = x]
        /\ \E x : a' = [a EXCEPT ![s] = x]
        /\ \E x : wire' = [wire EXCEPT ![s] = x]
        /\ UNCHANGED <<gotA, snapshot, unlocked, overtaken, bdxLocked>>
        /\ bobUnchanged /\ configUnchanged
    BY <1>3 DEF AliceAnswerPrice
  <2>3. promise' \in [Session -> Nat] /\ a' \in [Session -> APhase] /\ DOMAIN wire' = Session
    BY <1>0, <2>1, <2>2
  <2> QED BY <1>0, <2>2, <2>3
<1>4. CASE AliceReceive0(s)
  BY <1>0, <1>4 DEF AliceReceive0, AliceAccepts, AliceRejects
<1>5. CASE AliceReceive2(s)
  BY <1>0, <1>5 DEF AliceReceive2, AliceAccepts, AliceRejects
<1>6. CASE AliceReceive4(s)
  BY <1>0, <1>6 DEF AliceReceive4, AliceAccepts, AliceRejects
<1>7. CASE AliceStarts(s) \/ AliceFails(s)
  BY <1>0, <1>7 DEF AliceStarts, AliceFails
<1>8. CASE AliceLocksBdx(s)
  <2>1. unlocked' \in Nat
    <3>1. PICK fee \in {0, LockFee} :
            promise[s] + fee =< unlocked /\ unlocked' = unlocked - (promise[s] + fee)
      BY <1>8 DEF AliceLocksBdx
    <3>2. fee \in Nat /\ promise[s] \in Nat /\ unlocked \in Nat
      BY <1>0, SetupAssumption
    <3> QED BY <3>1, <3>2
  <2> QED BY <1>0, <1>8, <2>1 DEF AliceLocksBdx
<1> QED BY <1>1, <1>2, <1>3, <1>4, <1>5, <1>6, <1>7, <1>8 DEF AliceStep

\* His steps keep the types.
LEMMA BobTypes ==
    ASSUME SetupInv, NEW s \in Session, BobStep(s)
    PROVE  SetupTypeOK'
<1> USE DEF SetupTypeOK, aliceUnchanged, balanceUnchanged, configUnchanged, BPhase
<1>0. SetupTypeOK
  BY InvOf
<1>1. CASE BobSetup(s) \/ BobRequest(s) \/ BobNotNegotiated(s)
  BY <1>0, <1>1 DEF BobSetup, BobRequest, BobNotNegotiated
<1>2. CASE BobReceivePrice(s)
  BY <1>0, <1>2 DEF BobReceivePrice, BobAccepts, BobRejects, Completed
<1>3. CASE BobReceive1(s)
  <2>1. /\ b' = [b EXCEPT ![s] = "state1"] \/ b' = [b EXCEPT ![s] = "failed"]
        /\ DOMAIN gotB' = Session /\ DOMAIN wire' = Session /\ DOMAIN psbt' = Session
        /\ handle' \in [Session -> {"idle", "waiting", "ok", "failed"}]
    BY <1>0, <1>3 DEF BobReceive1, BobAccepts, BobRejects, Completed
  <2>2. b' \in [Session -> BPhase]
    BY <1>0, <2>1
  <2>3. /\ config' = config /\ resumeOnly' = resumeOnly /\ a' = a /\ gotA' = gotA
        /\ snapshot' = snapshot /\ promise' = promise /\ unlocked' = unlocked
        /\ overtaken' = overtaken /\ btcLocked' = btcLocked /\ bdxLocked' = bdxLocked
    BY <1>3 DEF BobReceive1
  <2> QED BY <1>0, <2>1, <2>2, <2>3
<1>4. CASE BobReceive3(s)
  BY <1>0, <1>4 DEF BobReceive3, BobAccepts, BobRejects, Completed
<1>5. CASE BobCompletes(s) \/ BobLocksBtc(s) \/ BobHandleTimeout(s) \/ BobFails(s)
  BY <1>0, <1>5 DEF BobCompletes, BobLocksBtc, BobHandleTimeout, BobFails, Completed
<1> QED BY <1>1, <1>2, <1>3, <1>4, <1>5 DEF BobStep

\* The handshake keeps its invariant: what each side has received is what the other has
\* sent at that point, and what it has verified stays verified.
THEOREM SetupInvariance == SetupSpec => []SetupInv
<1>1. SetupInit => SetupInv
  <2> SUFFICES ASSUME SetupInit PROVE SetupInv
    OBVIOUS
  <2>1. SetupTypeOK
    BY SetupAssumption DEF SetupInit, SetupTypeOK, APhase, BPhase
  <2>2. ASSUME NEW s \in Session PROVE AliceHas(s) /\ BobHas(s) /\ WireHas(s) /\ Covered(s)
    <3>1. AliceHas(s)
      BY DEF SetupInit, AliceHas
    <3>2. BobHas(s)
      BY DEF SetupInit, BobHas
    <3>3. WireHas(s)
      BY DEF SetupInit, WireHas, Incoming
    <3>4. Covered(s)
      BY DEF SetupInit, Covered, BeforePrice
    <3> QED BY <3>1, <3>2, <3>3, <3>4
  <2> QED BY <2>1, <2>2 DEF SetupInv
<1>2. SetupInv /\ [SetupNext]_setupVars => SetupInv'
  <2> SUFFICES ASSUME SetupInv, [SetupNext]_setupVars PROVE SetupInv'
    OBVIOUS
  <2>1. ASSUME NEW s \in Session, AliceStep(s) \/ BobStep(s) PROVE SetupInv'
    BY <2>1, SessionsKeep, CoveredKept, AliceTypes, BobTypes DEF SetupInv, SessionInv
  <2>2. CASE UNCHANGED setupVars
    <3>1. SetupTypeOK'
      BY <2>2 DEF setupVars, SetupInv, SetupTypeOK
    <3>2. ASSUME NEW s \in Session PROVE SessionInv(s)' /\ Covered(s)'
      <4>1. /\ config' = config /\ a' = a /\ b' = b /\ handle' = handle /\ wire' = wire
            /\ gotA' = gotA /\ gotB' = gotB /\ psbt' = psbt /\ promise' = promise
            /\ snapshot' = snapshot /\ unlocked' = unlocked /\ overtaken' = overtaken
            /\ btcLocked' = btcLocked /\ bdxLocked' = bdxLocked
        BY <2>2 DEF setupVars
      <4> QED BY <4>1, InvOf, SessionKept, CoveredMoves
    <3> QED BY <3>1, <3>2 DEF SetupInv, SessionInv
  <2> QED BY <2>1, <2>2 DEF SetupNext
<1> QED BY <1>1, <1>2, PTL DEF SetupSpec

-----------------------------------------------------------------------------
(* What the network accepts                                                *)

\* TxCancel of those keys.
Cancel(s, timelock) == SpendLock(Lock(s), timelock, Shared(s), Fee)

\* Two signatures over the right digest spend the shared output.
LEMMA TwoSignatures ==
    ASSUME NEW s, NEW tx, NEW sigs, NEW value,
           tx.input.vout \in DOMAIN tx.input.tx.out,
           SpentOutput(tx).script = Shared(s), SpentOutput(tx).value = value,
           Sig(Key("a", s), Digest(tx, Shared(s), value)) \in sigs,
           Sig(Key("b", s), Digest(tx, Shared(s), value)) \in sigs,
           tx.out[1].value \in 0..value
    PROVE  Valid(Signed(tx, sigs))
<1>1. Signed(tx, sigs).tx = tx /\ Signed(tx, sigs).sigs = sigs
  BY DEF Signed
<1>2. Shared(s).keys = <<Key("a", s), Key("b", s)>>
  BY DEF Shared, build_shared_output_descriptor
<1>3. \A i \in DOMAIN Shared(s).keys : Shared(s).keys[i] \in {Key("a", s), Key("b", s)}
  BY <1>2
<1>4. \A i \in DOMAIN Shared(s).keys :
        Sig(Shared(s).keys[i], Digest(tx, Shared(s), value)) \in sigs
  BY <1>3
<1> QED BY <1>1, <1>4 DEF Valid

\* A transaction that spends TxLock.
LEMMA LockSpent ==
    ASSUME NEW s, PsbtPays(s), NEW sequence, NEW script
    PROVE  LET tx == SpendLock(Lock(s), sequence, script, Fee) IN
           /\ tx.input.tx = Psbt(s) /\ tx.input.vout = 1 /\ 1 \in DOMAIN tx.input.tx.out
           /\ SpentOutput(tx).script = Shared(s) /\ SpentOutput(tx).value = config[s].btc
           /\ tx.out[1] = Output(config[s].btc - Fee, script)
           /\ tx.out[1].value = config[s].btc - Fee
           /\ LockDigest(Lock(s), tx) = Digest(tx, Shared(s), config[s].btc)
<1> DEFINE tx == SpendLock(Lock(s), sequence, script, Fee)
<1>1. PsbtShape(s, psbt[s]) /\ psbt[s][1].value = config[s].btc
  BY DEF PsbtPays
<1>2. /\ Lock(s).inner = Psbt(s) /\ Psbt(s).out = psbt[s] /\ Lock(s).descriptor = Shared(s)
      /\ lock_output_vout(Lock(s)) = 1 /\ 1 \in DOMAIN psbt[s]
      /\ lock_amount(Lock(s)) = config[s].btc /\ psbt[s][1].script = Shared(s)
  BY <1>1, LockFacts, ShapeFacts
<1>3. /\ tx.input.tx = Psbt(s) /\ tx.input.vout = 1
      /\ tx.out = <<Output(config[s].btc - Fee, script)>>
  BY <1>2 DEF SpendLock, Spend, Outpoint
<1>4. SpentOutput(tx) = psbt[s][1]
  BY <1>2, <1>3 DEF SpentOutput
<1>5. LockDigest(Lock(s), tx) = Digest(tx, Shared(s), config[s].btc)
  BY <1>2 DEF LockDigest
<1>6. tx.out[1] = Output(config[s].btc - Fee, script) /\ tx.out[1].value = config[s].btc - Fee
  BY <1>3 DEF Output
<1> QED BY <1>1, <1>2, <1>3, <1>4, <1>5, <1>6

\* A transaction that spends TxCancel.
LEMMA CancelSpent ==
    ASSUME NEW s, PsbtPays(s), NEW timelock, NEW sequence, NEW script
    PROVE  LET cancel == Cancel(s, timelock)
               tx == SpendCancel(cancel, sequence, script, Fee) IN
           /\ tx.input.tx = cancel /\ tx.input.vout = 1 /\ 1 \in DOMAIN tx.input.tx.out
           /\ SpentOutput(tx).script = Shared(s) /\ SpentOutput(tx).value = config[s].btc - Fee
           /\ tx.out[1].value = config[s].btc - Fee - Fee
           /\ CancelDigest(cancel, tx) = Digest(tx, Shared(s), config[s].btc - Fee)
<1> DEFINE cancel == Cancel(s, timelock)
           tx == SpendCancel(cancel, sequence, script, Fee)
<1>1. cancel.out[1] = Output(config[s].btc - Fee, Shared(s))
  BY LockSpent DEF Cancel
<1>2. 1 \in DOMAIN cancel.out
  BY DEF Cancel, SpendLock, Spend
<1> HIDE DEF cancel
<1>3. cancel.out[1].value = config[s].btc - Fee /\ cancel.out[1].script = Shared(s)
  BY <1>1 DEF Output
<1>4. /\ tx.input.tx = cancel /\ tx.input.vout = 1
      /\ tx.out = <<Output(config[s].btc - Fee - Fee, script)>>
  BY <1>3 DEF SpendCancel, Spend, Outpoint
<1>5. tx.out[1].value = config[s].btc - Fee - Fee
  BY <1>4 DEF Output
<1>6. SpentOutput(tx) = cancel.out[1]
  BY <1>4 DEF SpentOutput
<1>7. CancelDigest(cancel, tx) = Digest(tx, Shared(s), config[s].btc - Fee)
  BY <1>3 DEF CancelDigest
<1> QED BY <1>2, <1>3, <1>4, <1>5, <1>6, <1>7 DEF cancel

\* Two fees leave something of the amount.
LEMMA FeesFit ==
    ASSUME SetupInv, NEW s \in Session
    PROVE  /\ config[s].btc \in Nat
           /\ config[s].btc - Fee \in 0..config[s].btc
           /\ config[s].btc - Fee - Fee \in 0..(config[s].btc - Fee)
<1>1. config[s].btc \in Btc
  BY InvOf DEF SetupTypeOK
<1>2. config[s].btc \in Nat /\ config[s].btc \notin 0..2
  BY <1>1, SetupAssumption DEF Fee
<1> QED BY <1>2 DEF Fee

\* What Bob's swap starts with.
LEMMA BobFacts ==
    ASSUME SetupInv, NEW s \in Session, b[s] = "done"
    PROVE  /\ M1(gotB[s]) = Message1(s) /\ Price(gotB[s]) = PriceOf(s) /\ PsbtPays(s)
           /\ BLock(s) = Lock(s)
           /\ BCancel(s) = Cancel(s, config[s].env.cancel_timelock)
           /\ BRefund(s) = SpendCancel(BCancel(s), NoTimelock, script_pubkey(Key("refund", s)), Fee)
           /\ BRedeem(s) = SpendLock(Lock(s), NoTimelock, script_pubkey(Key("redeem", s)), Fee)
           /\ M3(gotB[s]).tx_cancel_sig = Sig(Key("a", s), BCancelDigest(s))
           /\ M3(gotB[s]).tx_refund_encsig = EncSig(Key("a", s), Key("s_b", s), BRefundDigest(s))
           /\ M1(gotB[s]).S_a_bitcoin = Key("s_a", s) /\ M1(gotB[s]).S_a_beldex = Key("s_a", s)
<1>1. /\ gotB[s] = <<PriceOf(s), Message1(s), M3(gotB[s])>> /\ PsbtPays(s)
      /\ verify_sig(M1(gotB[s]).A, BCancelDigest(s), M3(gotB[s]).tx_cancel_sig)
      /\ verify_encsig(M1(gotB[s]).A, Key("s_b", s), BRefundDigest(s),
                       M3(gotB[s]).tx_refund_encsig)
      /\ DleqVerifies(Message1(s).S_a_bitcoin, Message1(s).S_a_beldex)
  BY InvOf DEF BobHas
<1>2. M1(gotB[s]) = Message1(s) /\ Price(gotB[s]) = PriceOf(s)
  BY <1>1 DEF M1, Price
<1>3. /\ Message1(s).A = Key("a", s) /\ Message1(s).redeem_address = Key("redeem", s)
      /\ Message1(s).tx_redeem_fee = Fee /\ Message1(s).S_a_beldex = Key("s_a", s)
  BY DEF Message1
<1>4. BLock(s) = Lock(s)
  BY <1>2, <1>3 DEF BLock, Lock
<1>5. BCancel(s) = Cancel(s, config[s].env.cancel_timelock)
  BY <1>2, <1>3, <1>4 DEF BCancel, TxCancel, Cancel, Shared
<1>6. /\ BRefund(s) = SpendCancel(BCancel(s), NoTimelock, script_pubkey(Key("refund", s)), Fee)
      /\ BRedeem(s) = SpendLock(Lock(s), NoTimelock, script_pubkey(Key("redeem", s)), Fee)
  BY <1>2, <1>3, <1>4 DEF BRefund, TxRefund, BRedeem, TxRedeem
<1> QED BY <1>1, <1>2, <1>3, <1>4, <1>5, <1>6 DEF verify_sig, verify_encsig, DleqVerifies

\* What Alice's swap starts with.
LEMMA AliceFacts ==
    ASSUME SetupInv, NEW s \in Session, a[s] = "started"
    PROVE  /\ Request(gotA[s]).btc = config[s].btc /\ M0(gotA[s]) = Message0(s) /\ PsbtPays(s)
           /\ ALock(s, gotA[s]) = Lock(s)
           /\ ACancel(s, gotA[s]) = Cancel(s, AliceEnv.cancel_timelock)
           /\ APunish(s, gotA[s]) = SpendCancel(ACancel(s, gotA[s]), AliceEnv.punish_timelock,
                                                script_pubkey(Key("punish", s)), Fee)
           /\ M4(gotA[s]) = Message4(s)
           /\ M4(gotA[s]).tx_cancel_sig = Sig(Key("b", s), ACancelDigest(s, gotA[s]))
           /\ M4(gotA[s]).tx_punish_sig = Sig(Key("b", s), APunishDigest(s, gotA[s]))
           /\ M0(gotA[s]).S_b_bitcoin = Key("s_b", s) /\ M0(gotA[s]).S_b_beldex = Key("s_b", s)
<1>1. /\ gotA[s] = <<SpotPriceRequest(s), Message0(s), Message2(s, psbt[s]), Message4(s)>>
      /\ verify_sig(M0(gotA[s]).B, ACancelDigest(s, gotA[s]), M4(gotA[s]).tx_cancel_sig)
      /\ verify_sig(M0(gotA[s]).B, APunishDigest(s, gotA[s]), M4(gotA[s]).tx_punish_sig)
      /\ DleqVerifies(Message0(s).S_b_bitcoin, Message0(s).S_b_beldex)
      /\ PsbtPays(s)
  BY InvOf DEF AliceHas
<1>2. /\ Request(gotA[s]) = SpotPriceRequest(s) /\ M0(gotA[s]) = Message0(s)
      /\ M2(gotA[s]) = Message2(s, psbt[s]) /\ M4(gotA[s]) = Message4(s)
  BY <1>1 DEF Request, M0, M2, M4
<1>3. /\ Message0(s).B = Key("b", s) /\ Message0(s).S_b_beldex = Key("s_b", s)
      /\ Message0(s).tx_cancel_fee = Fee
      /\ Message2(s, psbt[s]).psbt = Psbt(s) /\ SpotPriceRequest(s).btc = config[s].btc
  BY DEF Message0, Message2, Psbt, SpotPriceRequest
<1>4. ALock(s, gotA[s]) = Lock(s)
  BY <1>2, <1>3 DEF ALock, Lock
<1>5. ACancel(s, gotA[s]) = Cancel(s, AliceEnv.cancel_timelock)
  BY <1>2, <1>3, <1>4 DEF ACancel, TxCancel, Cancel, Shared
<1>6. APunish(s, gotA[s]) = SpendCancel(ACancel(s, gotA[s]), AliceEnv.punish_timelock,
                                        script_pubkey(Key("punish", s)), Fee)
  BY DEF APunish, TxPunish
<1> QED BY <1>1, <1>2, <1>3, <1>4, <1>5, <1>6 DEF verify_sig, DleqVerifies

-----------------------------------------------------------------------------
(* The properties                                                          *)

\* Neither side depends on the other to get its money out: Bob's cancel and refund, and
\* Alice's cancel and punish, are valid whenever the money is locked.
LEMMA InvGetsOut ==
    ASSUME SetupInv
    PROVE  EitherGetsOut
<1>1. BobCanRefund
  <2> SUFFICES ASSUME NEW s \in btcLocked
               PROVE  /\ Valid(submit_tx_cancel(s))
                      /\ Valid(signed_refund_transaction(s))
                      /\ signed_refund_transaction(s).tx.input.tx = submit_tx_cancel(s).tx
    BY DEF BobCanRefund
  <2> DEFINE btc == config[s].btc
             cancel == BCancel(s)
             refund == BRefund(s)
             encsig == M3(gotB[s]).tx_refund_encsig
  <2>1. s \in Session
    BY DEF SetupInv, SetupTypeOK
  <2>2. b[s] = "done"
    BY <2>1, InvOf DEF BobHas
  <2>3. /\ cancel.input.tx = Psbt(s) /\ cancel.input.vout = 1 /\ 1 \in DOMAIN cancel.input.tx.out
        /\ SpentOutput(cancel).script = Shared(s) /\ SpentOutput(cancel).value = btc
        /\ cancel.out[1].value = btc - Fee
        /\ BCancelDigest(s) = Digest(cancel, Shared(s), btc)
    BY <2>1, <2>2, BobFacts, LockSpent DEF Cancel, BCancelDigest
  <2>4. /\ refund.input.tx = cancel /\ refund.input.vout = 1 /\ 1 \in DOMAIN refund.input.tx.out
        /\ SpentOutput(refund).script = Shared(s) /\ SpentOutput(refund).value = btc - Fee
        /\ refund.out[1].value = btc - Fee - Fee
        /\ BRefundDigest(s) = Digest(refund, Shared(s), btc - Fee)
    BY <2>1, <2>2, BobFacts, CancelSpent DEF BRefundDigest
  <2>5. decrypt_signature(Key("s_b", s), encsig) = Sig(Key("a", s), BRefundDigest(s))
    <3>1. encsig = EncSig(Key("a", s), Key("s_b", s), BRefundDigest(s))
      BY <2>1, <2>2, BobFacts
    <3> QED BY <3>1 DEF decrypt_signature, EncSig
  <2>6. M3(gotB[s]).tx_cancel_sig = Sig(Key("a", s), BCancelDigest(s))
    BY <2>1, <2>2, BobFacts
  <2>7. btc - Fee \in 0..btc /\ btc - Fee - Fee \in 0..(btc - Fee)
    BY <2>1, FeesFit
  <2> HIDE DEF btc, cancel, refund, encsig
  <2>8. Valid(submit_tx_cancel(s))
    BY <2>3, <2>6, <2>7, TwoSignatures DEF submit_tx_cancel, cancel
  <2>9. Valid(signed_refund_transaction(s))
    BY <2>4, <2>5, <2>7, TwoSignatures DEF signed_refund_transaction, refund, encsig
  <2>10. signed_refund_transaction(s).tx = refund /\ submit_tx_cancel(s).tx = cancel
    BY DEF signed_refund_transaction, submit_tx_cancel, Signed, refund, cancel
  <2> QED BY <2>4, <2>8, <2>9, <2>10
<1>2. AliceCanPunish
  <2> SUFFICES ASSUME NEW s \in Session, a[s] = "started"
               PROVE  /\ Valid(signed_cancel_transaction(s, gotA[s]))
                      /\ Valid(signed_punish_transaction(s, gotA[s]))
    BY DEF AliceCanPunish
  <2> DEFINE btc == config[s].btc
             cancel == ACancel(s, gotA[s])
             punish == APunish(s, gotA[s])
  <2>1. /\ cancel.input.vout = 1 /\ 1 \in DOMAIN cancel.input.tx.out
        /\ SpentOutput(cancel).script = Shared(s) /\ SpentOutput(cancel).value = btc
        /\ cancel.out[1].value = btc - Fee
        /\ ACancelDigest(s, gotA[s]) = Digest(cancel, Shared(s), btc)
    BY AliceFacts, LockSpent DEF Cancel, ACancelDigest
  <2>2. /\ punish.input.vout = 1 /\ 1 \in DOMAIN punish.input.tx.out
        /\ SpentOutput(punish).script = Shared(s) /\ SpentOutput(punish).value = btc - Fee
        /\ punish.out[1].value = btc - Fee - Fee
        /\ APunishDigest(s, gotA[s]) = Digest(punish, Shared(s), btc - Fee)
    BY AliceFacts, CancelSpent DEF APunishDigest
  <2>3. /\ M4(gotA[s]).tx_cancel_sig = Sig(Key("b", s), ACancelDigest(s, gotA[s]))
        /\ M4(gotA[s]).tx_punish_sig = Sig(Key("b", s), APunishDigest(s, gotA[s]))
    BY AliceFacts
  <2>4. btc - Fee \in 0..btc /\ btc - Fee - Fee \in 0..(btc - Fee)
    BY FeesFit
  <2> HIDE DEF btc, cancel, punish
  <2>5. Valid(signed_cancel_transaction(s, gotA[s]))
    BY <2>1, <2>3, <2>4, TwoSignatures DEF signed_cancel_transaction, cancel
  <2>6. Valid(signed_punish_transaction(s, gotA[s]))
    BY <2>2, <2>3, <2>4, TwoSignatures DEF signed_punish_transaction, punish
  <2> QED BY <2>5, <2>6
<1> QED BY <1>1, <1>2 DEF EitherGetsOut, SetupInv

\* A signature is over one transaction: those of Message4 verify only if Bob means the
\* transactions that Alice means.
LEMMA InvAgrees ==
    ASSUME SetupInv, NEW s \in Session, Both(s)
    PROVE  /\ ALock(s, gotA[s]) = BLock(s) /\ lock_amount(BLock(s)) = Request(gotA[s]).btc
           /\ ACancel(s, gotA[s]) = BCancel(s) /\ ARefund(s, gotA[s]) = BRefund(s)
           /\ APunish(s, gotA[s]) = BPunish(s) /\ ARedeem(s, gotA[s]) = BRedeem(s)
           /\ promise[s] = Price(gotB[s]).bdx
           /\ lock_bdx_transfer_request(s, gotA[s]) = lock_bdx_watch_request(s)
<1>1. a[s] = "started" /\ b[s] = "done"
  BY InvOf DEF Both, BobHas
<1>2. ALock(s, gotA[s]) = BLock(s)
  BY <1>1, AliceFacts, BobFacts
<1>3. lock_amount(BLock(s)) = Request(gotA[s]).btc
  <2>1. PsbtPays(s) /\ BLock(s) = Lock(s) /\ Request(gotA[s]).btc = config[s].btc
    BY <1>1, AliceFacts, BobFacts
  <2> QED BY <2>1, LockFacts DEF PsbtPays
<1>4. ACancel(s, gotA[s]) = BCancel(s)
  <2>0. Message4(s).tx_cancel_sig = Sig(Key("b", s), BCancelDigest(s))
    BY DEF Message4
  <2>1. Sig(Key("b", s), BCancelDigest(s)) = Sig(Key("b", s), ACancelDigest(s, gotA[s]))
    BY <1>1, <2>0, AliceFacts
  <2>2. BCancelDigest(s) = ACancelDigest(s, gotA[s])
    BY <2>1 DEF Sig
  <2>3. BCancelDigest(s).tx = BCancel(s) /\ ACancelDigest(s, gotA[s]).tx = ACancel(s, gotA[s])
    BY DEF BCancelDigest, ACancelDigest, LockDigest, Digest
  <2> QED BY <2>2, <2>3
<1>5. APunish(s, gotA[s]) = BPunish(s)
  <2> DEFINE digest == CancelDigest(BCancel(s), BPunish(s))
  <2>0. Message4(s).tx_punish_sig = Sig(Key("b", s), digest)
    BY DEF Message4
  <2>1. Sig(Key("b", s), digest) = Sig(Key("b", s), APunishDigest(s, gotA[s]))
    BY <1>1, <2>0, AliceFacts
  <2>2. digest = APunishDigest(s, gotA[s])
    BY <2>1 DEF Sig
  <2>3. digest.tx = BPunish(s) /\ APunishDigest(s, gotA[s]).tx = APunish(s, gotA[s])
    BY DEF APunishDigest, CancelDigest, Digest
  <2> QED BY <2>2, <2>3
<1>6. ARefund(s, gotA[s]) = BRefund(s)
  <2>1. Message0(s).refund_address = Key("refund", s) /\ Message0(s).tx_refund_fee = Fee
    BY DEF Message0
  <2> QED BY <1>1, <1>4, <2>1, AliceFacts DEF ARefund, BRefund
<1>7. ARedeem(s, gotA[s]) = BRedeem(s)
  BY <1>1, AliceFacts, BobFacts DEF ARedeem, TxRedeem
<1>8. promise[s] = Price(gotB[s]).bdx
  <2>1. Price(gotB[s]) = PriceOf(s)
    BY <1>1, BobFacts
  <2> QED BY <2>1 DEF PriceOf
<1>9. lock_bdx_transfer_request(s, gotA[s]) = lock_bdx_watch_request(s)
  <2>1. /\ Message0(s).v_b = Key("v_b", s) /\ Message1(s).v_a = Key("v_a", s)
    BY DEF Message0, Message1
  <2>2. /\ M0(gotA[s]) = Message0(s) /\ M0(gotA[s]).S_b_beldex = Key("s_b", s)
        /\ M1(gotB[s]) = Message1(s) /\ M1(gotB[s]).S_a_beldex = Key("s_a", s)
    BY <1>1, AliceFacts, BobFacts
  <2> QED BY <2>1, <2>2 DEF lock_bdx_transfer_request, lock_bdx_watch_request
<1> QED BY <1>2, <1>3, <1>4, <1>5, <1>6, <1>7, <1>8, <1>9

\* Each side's published transaction gives the other the key it needs.
LEMMA InvReveals ==
    ASSUME SetupInv
    PROVE  SpendKeyRevealed
<1> SUFFICES ASSUME NEW s \in Session, Both(s)
             PROVE  LET redeem == signed_redeem_transaction(s, gotA[s], tx_redeem_encsig(s))
                        spend == lock_bdx_transfer_request(s, gotA[s]).spend
                    IN  /\ extract_beldex_private_key(s, gotA[s], signed_refund_transaction(s)) = spend
                        /\ AcceptsEncSig(s, gotA[s], tx_redeem_encsig(s))
                        /\ Valid(redeem)
                        /\ watch_for_redeem_btc(s, redeem) = spend
  BY DEF SpendKeyRevealed
<1> DEFINE got == gotA[s]
           encsig == tx_redeem_encsig(s)
           redeem == signed_redeem_transaction(s, got, encsig)
           digest == ARedeemDigest(s, got)
           refundDigest == ARefundDigest(s, got)
           published == signed_refund_transaction(s)
<1>1. a[s] = "started" /\ b[s] = "done"
  BY InvOf DEF Both, BobHas
<1>2. lock_bdx_transfer_request(s, got).spend = {Key("s_a", s), Key("s_b", s)}
  BY <1>1, AliceFacts DEF lock_bdx_transfer_request
<1>3. BRefundDigest(s) = refundDigest /\ BRedeemDigest(s) = digest
  BY InvAgrees DEF BRefundDigest, ARefundDigest, BRedeemDigest, ARedeemDigest
<1>4. M0(got).S_b_bitcoin = Key("s_b", s) /\ M1(gotB[s]).S_a_bitcoin = Key("s_a", s)
  BY <1>1, AliceFacts, BobFacts
<1>5. extract_beldex_private_key(s, got, published) = {Key("s_a", s), Key("s_b", s)}
  <2>1. M3(gotB[s]).tx_refund_encsig = EncSig(Key("a", s), Key("s_b", s), refundDigest)
    BY <1>1, <1>3, BobFacts
  <2>2. decrypt_signature(Key("s_b", s), M3(gotB[s]).tx_refund_encsig) = Sig(Key("a", s), refundDigest)
    BY <2>1 DEF decrypt_signature, EncSig
  <2>3. Sig(Key("a", s), refundDigest) \in published.sigs
    BY <2>2 DEF signed_refund_transaction, Signed
  <2>4. extract_signature_by_key(published, Key("a", s), refundDigest) = Sig(Key("a", s), refundDigest)
    BY <2>3 DEF extract_signature_by_key, verify_sig
  <2>5. recover(Key("s_b", s), Sig(Key("a", s), refundDigest),
                EncSig(Key("a", s), Key("s_b", s), refundDigest)) = Key("s_b", s)
    BY DEF recover, EncSig
  <2> QED BY <1>4, <2>4, <2>5 DEF extract_beldex_private_key
<1>6. encsig = EncSig(Key("b", s), Key("s_a", s), digest)
  BY <1>3, <1>4 DEF tx_redeem_encsig
<1>7. AcceptsEncSig(s, got, encsig)
  <2>1. M0(got).B = Key("b", s)
    <3>1. M0(got) = Message0(s)
      BY <1>1, AliceFacts
    <3> QED BY <3>1 DEF Message0
  <2> QED BY <1>6, <2>1 DEF AcceptsEncSig, verify_encsig
<1>8. decrypt_signature(Key("s_a", s), encsig) = Sig(Key("b", s), digest)
  BY <1>6 DEF decrypt_signature, EncSig
<1>9. Valid(redeem)
  <2> DEFINE tx == ARedeem(s, got)
             btc == config[s].btc
  <2>1. tx = SpendLock(Lock(s), NoTimelock, script_pubkey(Key("redeem", s)), Fee) /\ PsbtPays(s)
    BY <1>1, AliceFacts DEF ARedeem, TxRedeem
  <2>2. /\ tx.input.vout = 1 /\ 1 \in DOMAIN tx.input.tx.out
        /\ SpentOutput(tx).script = Shared(s) /\ SpentOutput(tx).value = btc
        /\ tx.out[1].value = btc - Fee
        /\ LockDigest(Lock(s), tx) = Digest(tx, Shared(s), btc)
    BY <2>1, LockSpent
  <2>3. digest = Digest(tx, Shared(s), btc)
    BY <1>1, <2>2, AliceFacts DEF ARedeemDigest
  <2>4. btc - Fee \in 0..btc
    BY FeesFit
  <2> HIDE DEF tx, btc
  <2> QED BY <1>8, <2>2, <2>3, <2>4, TwoSignatures DEF signed_redeem_transaction, tx
<1>10. watch_for_redeem_btc(s, redeem) = {Key("s_a", s), Key("s_b", s)}
  <2>1. Sig(Key("b", s), digest) \in redeem.sigs
    BY <1>8 DEF signed_redeem_transaction, Signed
  <2>2. extract_signature_by_key(redeem, Key("b", s), digest) = Sig(Key("b", s), digest)
    BY <2>1 DEF extract_signature_by_key, verify_sig
  <2>3. recover(Key("s_a", s), Sig(Key("b", s), digest), EncSig(Key("b", s), Key("s_a", s), digest))
          = Key("s_a", s)
    BY DEF recover, EncSig
  <2> QED BY <1>3, <1>4, <1>6, <2>2, <2>3 DEF watch_for_redeem_btc
<1> QED BY <1>2, <1>5, <1>7, <1>9, <1>10

\* Whoever has locked money gets it out without the other's help, whichever defect or
\* environment Bob has and wherever either side has failed.
THEOREM EitherGetsOutHolds == SetupSpec => []EitherGetsOut
BY SetupInvariance, InvGetsOut, PTL

\* When both sides have gone on to their swaps they mean the same five transactions, the
\* same amounts and the same Beldex address.
THEOREM SetupAgreementHolds == SetupSpec => []SetupAgreement
<1>1. SetupInv => SetupAgreement
  BY InvAgrees DEF SetupAgreement
<1> QED BY <1>1, SetupInvariance, PTL

\* A refund reveals Bob's share of the spend key to Alice, and a redeem hers to Bob.
THEOREM SpendKeyRevealedHolds == SetupSpec => []SpendKeyRevealed
BY SetupInvariance, InvReveals, PTL

\* TxLock::from_psbt never refuses what an honest Bob has built.
THEOREM HonestPsbtAcceptedHolds == SetupSpec => []HonestPsbtAccepted
<1>1. ASSUME SetupInv PROVE HonestPsbtAccepted
  <2> SUFFICES ASSUME NEW s \in Session, a[s] = "state1", Incoming(s, "message2"),
                      config[s].defect # "psbt"
               PROVE  PaysShared(wire[s].psbt, Key("a", s), M0(gotA[s]).B, Request(gotA[s]).btc)
    BY DEF HonestPsbtAccepted
  <2>1. /\ gotA[s] = <<SpotPriceRequest(s), Message0(s)>> /\ wire[s] = Message2(s, psbt[s])
        /\ PsbtShape(s, psbt[s])
    BY <1>1, InvOf DEF AliceHas, WireHas
  <2>2. wire[s].psbt = Psbt(s) /\ M0(gotA[s]).B = Key("b", s) /\ Request(gotA[s]).btc = config[s].btc
    BY <2>1 DEF Message2, Psbt, M0, Request, Message0, SpotPriceRequest
  <2>3. psbt[s][1].value = config[s].btc
    BY <2>1 DEF PsbtShape
  <2> QED BY <2>1, <2>2, <2>3, PaysFacts
<1> QED BY <1>1, SetupInvariance, PTL

\* The balance that validate has seen covers a swap until another one's transfer.
THEOREM UncoveredOnlyIfOvertakenHolds == SetupSpec => []UncoveredOnlyIfOvertaken
<1>1. ASSUME SetupInv PROVE UncoveredOnlyIfOvertaken
  <2> SUFFICES ASSUME NEW s \in Session, a[s] = "started", s \notin bdxLocked,
                      unlocked < promise[s] + LockFee, s \notin overtaken
               PROVE  FALSE
    BY DEF UncoveredOnlyIfOvertaken
  <2>1. snapshot[s] = unlocked /\ promise[s] + LockFee <= snapshot[s]
    BY <1>1, InvOf DEF Covered, BeforePrice
  <2>2. promise[s] \in Nat /\ unlocked \in Nat /\ LockFee \in Nat
    BY <1>1, SetupAssumption DEF SetupInv, SetupTypeOK
  <2> QED BY <2>1, <2>2
<1> QED BY <1>1, SetupInvariance, PTL
=============================================================================
