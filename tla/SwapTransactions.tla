--------------------------- MODULE SwapTransactions ---------------------------
(***************************************************************************)
(* The five transactions of a swap and the signatures on them              *)
(* (bitcoin.rs, bitcoin/lock.rs, cancel.rs, refund.rs, punish.rs and       *)
(* redeem.rs), symbolically: a key is a value, a signature names its key   *)
(* and its digest, a transaction is its own txid.                          *)
(***************************************************************************)
EXTENDS Integers, Sequences

\* What the two-of-two output of A and B pays to.
build_shared_output_descriptor(A, B) == [keys |-> <<A, B>>]
script_pubkey(address) == [keys |-> <<address>>]

Output(value, script) == [value |-> value, script |-> script]
Outpoint(tx, vout) == [tx |-> tx, vout |-> vout]
SpentOutput(tx) == tx.input.tx.out[tx.input.vout]

\* Opt-out of relative timelocks: Sequence 0xFFFF_FFFF.
NoTimelock == -1

\* segwit_signature_hash: the transaction, and the script and the amount of the
\* output that it is believed to spend.
Digest(tx, script, amount) == [tx |-> tx, script |-> script, amount |-> amount]

Sig(k, digest) == [key |-> k, digest |-> digest]
EncSig(k, Y, digest) == [key |-> k, enc |-> Y, digest |-> digest]
verify_sig(K, digest, sig) == sig = Sig(K, digest)
verify_encsig(K, Y, digest, encsig) == encsig = EncSig(K, Y, digest)

\* Decrypting with another key gives something that is no signature of anybody.
Nobody == <<"nobody">>
decrypt_signature(y, encsig) == Sig(IF encsig.enc = y THEN encsig.key ELSE Nobody, encsig.digest)

\* The decryption key, from the signature and its encryption under S.
recover(S, sig, encsig) ==
    IF encsig.enc = S /\ sig = Sig(encsig.key, encsig.digest) THEN S ELSE Nobody

-----------------------------------------------------------------------------
(* TxLock                                                                  *)

TxLock(psbt, A, B) == [inner |-> psbt, descriptor |-> build_shared_output_descriptor(A, B)]

\* from_psbt: the first of at most two outputs that pays the amount has to be the
\* shared output.
CandidateOutput(psbt, btc) ==
    CHOOSE i \in DOMAIN psbt.out :
        psbt.out[i].value = btc /\ \A j \in 1..(i - 1) : psbt.out[j].value # btc

PaysShared(psbt, A, B, btc) ==
    /\ Len(psbt.out) \in 1..2
    /\ \E i \in DOMAIN psbt.out : psbt.out[i].value = btc
    /\ psbt.out[CandidateOutput(psbt, btc)].script = build_shared_output_descriptor(A, B)

lock_output_vout(tx_lock) ==
    CHOOSE i \in DOMAIN tx_lock.inner.out : tx_lock.inner.out[i].script = tx_lock.descriptor

lock_amount(tx_lock) == tx_lock.inner.out[lock_output_vout(tx_lock)].value

-----------------------------------------------------------------------------
(* Transactions with one input and one output                              *)

Spend(outpoint, sequence, value, script) ==
    [input |-> outpoint, sequence |-> sequence, out |-> <<Output(value, script)>>]

SpendLock(tx_lock, sequence, script, fee) ==
    Spend(Outpoint(tx_lock.inner, lock_output_vout(tx_lock)), sequence,
          lock_amount(tx_lock) - fee, script)

\* The sighash is computed from what the party itself holds of the spent output.
LockDigest(tx_lock, tx) == Digest(tx, tx_lock.descriptor, lock_amount(tx_lock))

TxCancel(tx_lock, cancel_timelock, A, B, fee) ==
    SpendLock(tx_lock, cancel_timelock, build_shared_output_descriptor(A, B), fee)

TxRedeem(tx_lock, redeem_address, fee) ==
    SpendLock(tx_lock, NoTimelock, script_pubkey(redeem_address), fee)

SpendCancel(tx_cancel, sequence, script, fee) ==
    Spend(Outpoint(tx_cancel, 1), sequence, tx_cancel.out[1].value - fee, script)

CancelDigest(tx_cancel, tx) == Digest(tx, tx_cancel.out[1].script, tx_cancel.out[1].value)

TxRefund(tx_cancel, refund_address, fee) ==
    SpendCancel(tx_cancel, NoTimelock, script_pubkey(refund_address), fee)

TxPunish(tx_cancel, punish_address, punish_timelock, fee) ==
    SpendCancel(tx_cancel, punish_timelock, script_pubkey(punish_address), fee)

-----------------------------------------------------------------------------
(* Signed transactions                                                     *)

\* add_signatures: nothing is verified here.
Signed(tx, sigs) == [tx |-> tx, sigs |-> sigs]

\* extract_signature_by_key: the signature of the witness that verifies.
extract_signature_by_key(signed, K, digest) ==
    IF \E sig \in signed.sigs : verify_sig(K, digest, sig) THEN Sig(K, digest) ELSE Sig(Nobody, digest)

\* What the Bitcoin network accepts: the spent output exists, each of its keys has
\* signed, and the transaction pays no more than it spends.
Valid(signed) ==
    LET tx == signed.tx
        spent == SpentOutput(tx)
    IN  /\ tx.input.vout \in DOMAIN tx.input.tx.out
        /\ \A i \in DOMAIN spent.script.keys :
              Sig(spent.script.keys[i], Digest(tx, spent.script, spent.value)) \in signed.sigs
        /\ tx.out[1].value \in 0..spent.value
=============================================================================
