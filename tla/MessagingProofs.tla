--------------------------- MODULE MessagingProofs ---------------------------
(***************************************************************************)
(* Proofs about the messages between the two swaps (Messaging), for any    *)
(* number of swaps, event loops of Bob's, and connections lost: what one   *)
(* side acknowledged it keeps, and no proof is left that nobody resends.   *)
(***************************************************************************)
EXTENDS Messaging, TLAPS

-----------------------------------------------------------------------------
(* Facts used throughout                                                   *)

\* The number that stands for no loop is no loop's.
LEMMA NoLoopIsNone == NoLoop \notin Loop
BY DEF NoLoop, Loop

\* What may be said of a proof, by its own state.
ProofFits(p) ==
    /\ p \in [at : ProofState, loop : Loop \cup {NoLoop}]
    /\ p.loop \in Loop <=> p.at \in {"sent", "held", "acked"}

\* The proofs that a step may leave.
LEMMA FittingProofs ==
    /\ ProofFits(NoProof) /\ ProofFits([at |-> "gone", loop |-> NoLoop])
    /\ ProofFits([at |-> "buffered", loop |-> NoLoop])
    /\ \A l \in Loop : \A at \in {"sent", "held", "acked"} : ProofFits([at |-> at, loop |-> l])
BY NoLoopIsNone DEF ProofFits, NoProof, ProofState

\* The types, with the proofs taken one by one.
TypesButProofs ==
    /\ aDb \in [Swap -> {"BeldexLocked", "ProofSent", "EncSigLearned", "Expired"}]
    /\ aTask \in [Swap -> {"off", "start", "acking", "wait", "learned"}]
    /\ sender \subseteq Swap /\ letter \subseteq Swap
    /\ encsig \in [Loop -> EncSigState]
    /\ swapOf \in [Loop -> Swap \cup {NoSwap}]
    /\ conn \in [Loop -> ConnState]
    /\ inbox \subseteq Loop
    /\ bDb \in [Swap -> {"BtcLocked", "ProofReceived", "EncSigSent"}]
    /\ saved \subseteq Swap
    /\ bTask \in [loop : Loop \cup {NoLoop}, at : {"none", "start", "recv", "got", "sending", "sent"}]
    /\ forgotten \subseteq Swap
    /\ faults \in 0..MaxFaults

\* MsgTypeOK says no more than that, of a function on Swap.
LEMMA TypesOf ==
    /\ MsgTypeOK => /\ TypesButProofs /\ DOMAIN proof = Swap
                    /\ proof = [s \in Swap |-> proof[s]]
                    /\ \A s \in Swap : ProofFits(proof[s])
    /\ TypesButProofs /\ proof = [s \in Swap |-> proof[s]] /\ (\A s \in Swap : ProofFits(proof[s]))
         => MsgTypeOK
<1>1. ASSUME MsgTypeOK
      PROVE  /\ TypesButProofs /\ DOMAIN proof = Swap
             /\ proof = [s \in Swap |-> proof[s]]
             /\ \A s \in Swap : ProofFits(proof[s])
  BY <1>1 DEF MsgTypeOK, TypesButProofs, ProofFits
<1>2. ASSUME TypesButProofs, proof = [s \in Swap |-> proof[s]], \A s \in Swap : ProofFits(proof[s])
      PROVE  MsgTypeOK
  <2>1. proof \in [Swap -> [at : ProofState, loop : Loop \cup {NoLoop}]]
    BY <1>2 DEF ProofFits
  <2> QED BY <1>2, <2>1 DEF MsgTypeOK, TypesButProofs, ProofFits
<1> QED BY <1>1, <1>2

\* The same in the next state.
LEMMA TypesOfNext ==
    ASSUME TypesButProofs', proof' = [s \in Swap |-> proof'[s]], \A s \in Swap : ProofFits(proof'[s])
    PROVE  MsgTypeOK'
<1>1. proof' \in [Swap -> [at : ProofState, loop : Loop \cup {NoLoop}]]
  BY DEF ProofFits
<1> QED BY <1>1 DEF MsgTypeOK, TypesButProofs, ProofFits

\* The parts of the invariant.
LEMMA Parts ==
    ASSUME MsgInv
    PROVE  /\ TypesButProofs /\ DOMAIN proof = Swap /\ proof = [s \in Swap |-> proof[s]]
           /\ \A s \in Swap : ProofFits(proof[s]) /\ AliceWorks(s) /\ ProofTravels(s)
           /\ \A l \in Loop : LoopWorks(l)
           /\ RunWorks /\ AckedProofKept /\ AckedSignatureKept
           /\ BufferedOnlyWhileDisconnected /\ SignatureCanArrive
BY TypesOf DEF MsgInv

\* A proof stays kept while Bob's run stays where it is.
LEMMA ProofStays ==
    ASSUME NEW s, ProofKept(s), bDb' = bDb, saved \subseteq saved', forgotten \subseteq forgotten',
           bTask' = bTask, swapOf' = swapOf
    PROVE  ProofKept(s)'
BY DEF ProofKept

\* A signature stays kept while Alice's task stays where it is.
LEMMA SignatureStays ==
    ASSUME NEW s, SignatureKept(s), aDb'[s] = aDb[s], aTask'[s] = aTask[s],
           forgotten \subseteq forgotten'
    PROVE  SignatureKept(s)'
BY DEF SignatureKept

\* Alice's side, when the proofs and the connections stay.
LEMMA AliceStays ==
    ASSUME MsgInv, NEW s \in Swap, aDb' = aDb, aTask' = aTask, conn' = conn,
           aTask[s] = "start" => proof'[s] = proof[s]
    PROVE  AliceWorks(s)'
<1>1. AliceWorks(s)
  BY Parts
<1>2. (AliceRuns' <=> AliceRuns) /\ Up' = Up /\ (Unfinished(s)' <=> Unfinished(s))
  BY DEF AliceRuns, Up, Unfinished
<1> QED BY <1>1, <1>2 DEF AliceWorks

\* A proof that is not touched, when Bob's run and his channels stay.
LEMMA ProofTravelsOn ==
    ASSUME MsgInv, NEW s \in Swap, proof'[s] = proof[s], conn' = conn, swapOf' = swapOf,
           inbox \subseteq inbox', bDb' = bDb, saved \subseteq saved', forgotten \subseteq forgotten',
           bTask' = bTask
    PROVE  ProofTravels(s)'
<1>1. ProofTravels(s)
  BY Parts
<1> QED BY <1>1, ProofStays DEF ProofTravels

\* A loop, when the proof of its own swap and what Alice has read of it stay.
LEMMA LoopStays ==
    ASSUME MsgInv, NEW l \in Loop, conn' = conn, swapOf' = swapOf, encsig'[l] = encsig[l],
           l \in inbox' => l \in inbox,
           swapOf[l] \in Swap /\ proof[swapOf[l]].at = "held" => proof'[swapOf[l]] = proof[swapOf[l]],
           \A s \in Swap : SignatureKept(s) => SignatureKept(s)'
    PROVE  LoopWorks(l)'
<1>1. LoopWorks(l) /\ swapOf[l] \in Swap \cup {NoSwap}
  BY Parts DEF TypesButProofs
<1>2. ASSUME encsig[l] = "acked" PROVE SignatureKept(swapOf[l])'
  <2>1. swapOf[l] \in Swap /\ SignatureKept(swapOf[l])
    BY <1>1, <1>2 DEF LoopWorks
  <2> QED BY <2>1 DEF SignatureKept
<1> QED BY <1>1, <1>2 DEF LoopWorks

\* Bob's run, when it stays where it is.
LEMMA RunStays ==
    ASSUME MsgInv, bTask' = bTask, swapOf' = swapOf,
           \A l \in Loop : conn[l] # "unused" => conn'[l] # "unused",
           bTask.at \in {"start", "recv", "got"} => encsig'[bTask.loop] = encsig[bTask.loop],
           \A s \in Swap : SignatureKept(s) => SignatureKept(s)'
    PROVE  RunWorks'
<1>1. RunWorks /\ TypesButProofs
  BY Parts
<1>2. ASSUME bTask.at = "sent" PROVE SignatureKept(swapOf[bTask.loop])'
  <2>1. bTask.loop \in Loop
    BY <1>1, <1>2 DEF RunWorks, TypesButProofs
  <2>2. LoopWorks(bTask.loop) /\ conn[bTask.loop] # "unused" /\ swapOf[bTask.loop] \in Swap \cup {NoSwap}
    BY <1>1, <2>1, Parts DEF RunWorks, TypesButProofs
  <2>3. swapOf[bTask.loop] \in Swap /\ SignatureKept(swapOf[bTask.loop])
    BY <1>1, <1>2, <2>2 DEF LoopWorks, RunWorks
  <2> QED BY <2>3 DEF SignatureKept
<1> QED BY <1>1, <1>2 DEF RunWorks, TypesButProofs

\* What is acknowledged stays kept, when the stored states stay.
LEMMA AckedStays ==
    ASSUME MsgInv, \A s \in Swap : aDb'[s] \in {"ProofSent", "EncSigLearned"} =>
                       aDb[s] \in {"ProofSent", "EncSigLearned"} \/ ProofKept(s),
           \A s \in Swap : bDb'[s] = "EncSigSent" => bDb[s] = "EncSigSent" \/ SignatureKept(s),
           \A s \in Swap : ProofKept(s) => ProofKept(s)',
           \A s \in Swap : SignatureKept(s) => SignatureKept(s)'
    PROVE  AckedProofKept' /\ AckedSignatureKept'
BY Parts DEF AckedProofKept, AckedSignatureKept

-----------------------------------------------------------------------------
(* Alice's steps                                                           *)

\* A proof is buffered only without a connection.
LEMMA SendProofKeeps ==
    ASSUME MsgInv, NEW s \in Swap, AliceSendProof(s)
    PROVE  MsgInv'
<1>1. /\ aTask[s] = "start" /\ aTask' = [aTask EXCEPT ![s] = "acking"] /\ aDb' = aDb
      /\ sender' = sender /\ letter' = letter /\ encsig' = encsig /\ conn' = conn
      /\ swapOf' = swapOf /\ inbox' = inbox /\ bDb' = bDb /\ saved' = saved /\ bTask' = bTask
      /\ forgotten' = forgotten /\ faults' = faults
  BY DEF AliceSendProof, bobVars
<1>2. TypesButProofs /\ AliceWorks(s) /\ proof[s] = NoProof
  BY <1>1, Parts DEF AliceWorks
<1>3. PICK p : /\ proof' = [proof EXCEPT ![s] = p]
               /\ \/ Up = {} /\ p = [at |-> "buffered", loop |-> NoLoop]
                  \/ \E l \in Up : p = [at |-> "sent", loop |-> l]
  <2>1. CASE Up = {} /\ proof' = [proof EXCEPT ![s].at = "buffered"]
    <3>1. [NoProof EXCEPT !.at = "buffered"] = [at |-> "buffered", loop |-> NoLoop]
      BY DEF NoProof
    <3> QED BY <1>2, <2>1, <3>1, Parts
  <2>2. CASE \E l \in Up : proof' = [proof EXCEPT ![s] = [at |-> "sent", loop |-> l]]
    BY <2>2
  <2> QED BY <2>1, <2>2 DEF AliceSendProof
<1>4. /\ proof'[s] = p /\ \A t \in Swap : t # s => proof'[t] = proof[t]
      /\ aTask'[s] = "acking" /\ \A t \in Swap : t # s => aTask'[t] = aTask[t]
  BY <1>1, <1>2, <1>3, Parts DEF TypesButProofs
<1>5. ProofFits(p) /\ (p.loop \in Loop => conn[p.loop] = "up") /\ p.at \in {"buffered", "sent"}
  <2>1. CASE p = [at |-> "buffered", loop |-> NoLoop]
    BY <2>1, FittingProofs, NoLoopIsNone
  <2>2. ASSUME NEW l \in Up, p = [at |-> "sent", loop |-> l]
        PROVE  ProofFits(p) /\ (p.loop \in Loop => conn[p.loop] = "up") /\ p.at = "sent"
    <3>1. l \in Loop /\ conn[l] = "up"
      BY DEF Up
    <3>2. ProofFits([at |-> "sent", loop |-> l])
      BY <3>1, FittingProofs
    <3> QED BY <2>2, <3>1, <3>2
  <2> QED BY <1>3, <2>1, <2>2
<1>6. MsgTypeOK'
  <2>1. TypesButProofs'
    BY <1>1, <1>2 DEF TypesButProofs
  <2>2. proof' = [t \in Swap |-> proof'[t]]
    BY <1>3, Parts
  <2> QED BY <1>4, <1>5, <2>1, <2>2, Parts, TypesOfNext
<1>7. \A t \in Swap : (ProofKept(t) => ProofKept(t)') /\ (SignatureKept(t) => SignatureKept(t)')
  BY <1>1, <1>4 DEF ProofKept, SignatureKept
<1>8. ASSUME NEW t \in Swap PROVE AliceWorks(t)'
  <2>1. AliceRuns /\ Up' = Up /\ (Unfinished(t)' <=> Unfinished(t)) /\ AliceWorks(t)
    BY <1>1, Parts DEF AliceRuns, Up, Unfinished
  <2> QED BY <1>1, <1>2, <1>4, <2>1 DEF AliceWorks
<1>9. ASSUME NEW t \in Swap PROVE ProofTravels(t)'
  <2>1. CASE t = s
    BY <1>1, <1>4, <1>5, <2>1 DEF ProofTravels
  <2>2. CASE t # s
    BY <1>1, <1>4, <2>2, ProofTravelsOn
  <2> QED BY <2>1, <2>2
<1>10. ASSUME NEW l \in Loop PROVE LoopWorks(l)'
  <2>1. NoProof.at # "held"
    BY DEF NoProof
  <2> QED BY <1>1, <1>2, <1>4, <1>7, <2>1, LoopStays
<1>11. RunWorks'
  BY <1>1, <1>7, RunStays
<1>12. AckedProofKept' /\ AckedSignatureKept'
  BY <1>1, <1>7, AckedStays
<1>13. BufferedOnlyWhileDisconnected'
  <2>1. BufferedOnlyWhileDisconnected /\ Up' = Up
    BY <1>1, Parts DEF Up
  <2>2. p.at = "buffered" => Up = {}
    BY <1>3
  <2> QED BY <1>4, <2>1, <2>2 DEF BufferedOnlyWhileDisconnected
<1>14. SignatureCanArrive'
  BY <1>1, <1>4, Parts DEF SignatureCanArrive
<1> QED BY <1>6, <1>8, <1>9, <1>10, <1>11, <1>12, <1>13, <1>14 DEF MsgInv

\* The proof that is acknowledged is kept.
LEMMA ProofAckedKeeps ==
    ASSUME MsgInv, NEW s \in Swap, AliceProofAcked(s)
    PROVE  MsgInv'
<1> DEFINE p == [at |-> "gone", loop |-> NoLoop]
<1>1. /\ proof[s].at = "acked" /\ proof' = [proof EXCEPT ![s] = p]
      /\ sender' = sender /\ letter' = letter /\ encsig' = encsig /\ conn' = conn
      /\ swapOf' = swapOf /\ inbox' = inbox /\ bDb' = bDb /\ saved' = saved /\ bTask' = bTask
      /\ forgotten' = forgotten /\ faults' = faults
  BY DEF AliceProofAcked, bobVars
<1>2. TypesButProofs /\ AliceWorks(s) /\ ProofKept(s)
  BY <1>1, Parts DEF ProofTravels
<1>3. /\ proof'[s] = p /\ \A t \in Swap : t # s => proof'[t] = proof[t]
      /\ ProofFits(p) /\ p.at = "gone" /\ p.loop \notin Loop
  BY <1>1, NoLoopIsNone, Parts DEF ProofFits, ProofState
<1>4. \/ /\ aTask[s] = "acking" /\ aTask' = [aTask EXCEPT ![s] = "wait"]
         /\ aDb' = [aDb EXCEPT ![s] = "ProofSent"]
      \/ aTask[s] # "acking" /\ aTask' = aTask /\ aDb' = aDb
  BY DEF AliceProofAcked
<1>5. /\ \A t \in Swap : t # s => aTask'[t] = aTask[t] /\ aDb'[t] = aDb[t]
      /\ \/ aTask[s] = "acking" /\ aTask'[s] = "wait" /\ aDb'[s] = "ProofSent"
         \/ aTask'[s] = aTask[s] /\ aDb'[s] = aDb[s] /\ aTask' = aTask
  BY <1>2, <1>4 DEF TypesButProofs
<1> HIDE DEF p
<1>6. MsgTypeOK'
  <2>1. TypesButProofs'
    BY <1>1, <1>2, <1>4 DEF TypesButProofs
  <2>2. proof' = [t \in Swap |-> proof'[t]]
    BY <1>1, Parts
  <2> QED BY <1>3, <2>1, <2>2, Parts, TypesOfNext
<1>7. \A t \in Swap : (ProofKept(t) => ProofKept(t)') /\ (SignatureKept(t) => SignatureKept(t)')
  BY <1>1, <1>2, <1>5 DEF ProofKept, SignatureKept, AliceWorks
<1>8. ASSUME NEW t \in Swap PROVE AliceWorks(t)'
  <2>1. Up' = Up /\ AliceWorks(t) /\ (aTask' # aTask => AliceRuns)
    BY <1>1, <1>4, Parts DEF AliceRuns, Up
  <2>2. proof[s] # NoProof
    BY <1>1 DEF NoProof
  <2>3. AliceRuns' => AliceRuns
    BY <2>1 DEF AliceRuns
  <2> QED BY <1>2, <1>3, <1>5, <2>1, <2>2, <2>3 DEF AliceWorks, Unfinished
<1>9. ASSUME NEW t \in Swap PROVE ProofTravels(t)'
  <2>1. CASE t = s
    BY <1>1, <1>3, <2>1 DEF ProofTravels
  <2>2. CASE t # s
    BY <1>1, <1>3, <2>2, ProofTravelsOn
  <2> QED BY <2>1, <2>2
<1>10. ASSUME NEW l \in Loop PROVE LoopWorks(l)'
  BY <1>1, <1>3, <1>7, LoopStays
<1>11. RunWorks'
  BY <1>1, <1>7, RunStays
<1>12. AckedProofKept' /\ AckedSignatureKept'
  BY <1>1, <1>2, <1>5, <1>7, AckedStays
<1>13. BufferedOnlyWhileDisconnected'
  <2>1. BufferedOnlyWhileDisconnected /\ Up' = Up
    BY <1>1, Parts DEF Up
  <2> QED BY <1>3, <2>1 DEF BufferedOnlyWhileDisconnected
<1>14. SignatureCanArrive'
  BY <1>1, <1>5, Parts DEF SignatureCanArrive
<1> QED BY <1>6, <1>8, <1>9, <1>10, <1>11, <1>12, <1>13, <1>14 DEF MsgInv

\* What the two steps share by which Alice's swap stops waiting for a signature: they
\* leave the proofs, the connections and Bob alone.
AliceReadsOn(s) ==
    /\ proof' = proof /\ sender' = sender /\ conn' = conn /\ swapOf' = swapOf /\ inbox' = inbox
    /\ bDb' = bDb /\ saved' = saved /\ bTask' = bTask /\ forgotten' = forgotten /\ faults' = faults
    /\ \A t \in Swap : t # s => aTask'[t] = aTask[t] /\ aDb'[t] = aDb[t]

\* A step of that kind, of a swap whose signature is kept after it.
LEMMA ReadsOnKeeps ==
    ASSUME MsgInv, NEW s \in Swap, AliceReadsOn(s), SignatureKept(s)', TypesButProofs',
           aTask[s] # "off",
           aDb'[s] \in {"ProofSent", "EncSigLearned"} => aDb[s] \in {"ProofSent", "EncSigLearned"},
           \/ aTask'[s] = "learned" /\ aDb'[s] = "ProofSent"
           \/ aTask'[s] = "off" /\ ~Unfinished(s)',
           letter \ {s} \subseteq letter',
           \A l \in Loop : \/ encsig'[l] = encsig[l]
                           \/ encsig[l] = "relayed" /\ swapOf[l] = s /\ encsig'[l] = "acked"
    PROVE  MsgInv'
<1> USE DEF AliceReadsOn
<1>1. MsgTypeOK'
  <2>1. proof' = [t \in Swap |-> proof'[t]] /\ \A t \in Swap : ProofFits(proof'[t])
    BY Parts
  <2> QED BY <2>1, TypesOfNext
<1>2. \A t \in Swap : (ProofKept(t) => ProofKept(t)') /\ (SignatureKept(t) => SignatureKept(t)')
  BY DEF ProofKept, SignatureKept
<1>3. ASSUME NEW t \in Swap PROVE AliceWorks(t)'
  <2>1. Up' = Up /\ AliceWorks(t) /\ AliceRuns
    BY Parts DEF AliceRuns, Up
  <2>2. CASE t = s
    BY <2>2 DEF AliceWorks
  <2>3. CASE t # s
    BY <2>1, <2>3 DEF AliceWorks, Unfinished
  <2> QED BY <2>2, <2>3
<1>4. ASSUME NEW t \in Swap PROVE ProofTravels(t)'
  BY ProofTravelsOn
<1>5. ASSUME NEW l \in Loop PROVE LoopWorks(l)'
  <2>1. CASE encsig'[l] = encsig[l]
    BY <1>2, <2>1, LoopStays
  <2>2. CASE encsig[l] = "relayed" /\ swapOf[l] = s /\ encsig'[l] = "acked"
    <3>1. LoopWorks(l)
      BY Parts
    <3>2. SignatureKept(swapOf[l])'
      BY <2>2 DEF SignatureKept
    <3> QED BY <2>2, <3>1, <3>2 DEF LoopWorks
  <2> QED BY <2>1, <2>2
<1>6. RunWorks'
  <2>1. bTask.at \in {"start", "recv", "got"} => bTask.loop \in Loop /\ encsig[bTask.loop] = "none"
    BY Parts DEF RunWorks, TypesButProofs
  <2>2. bTask.at \in {"start", "recv", "got"} => encsig'[bTask.loop] = encsig[bTask.loop]
    BY <2>1
  <2> QED BY <1>2, <2>2, RunStays
<1>7. AckedProofKept' /\ AckedSignatureKept'
  BY <1>2, AckedStays
<1>8. BufferedOnlyWhileDisconnected'
  BY Parts DEF BufferedOnlyWhileDisconnected, Up
<1>9. SignatureCanArrive'
  BY Parts DEF SignatureCanArrive
<1> QED BY <1>1, <1>3, <1>4, <1>5, <1>6, <1>7, <1>8, <1>9 DEF MsgInv

\* Its swap reads the signature, or gives it up for good, before the request is answered.
LEMMA ReadOrExpireKeeps ==
    ASSUME MsgInv, NEW s \in Swap, AliceTakeEncSig(s) \/ AliceExpire(s)
    PROVE  MsgInv'
<1>1. TypesButProofs /\ AliceWorks(s)
  BY Parts
<1>2. Resolved(s) /\ letter' = letter \ {s}
  BY DEF AliceTakeEncSig, AliceExpire
<1>3. \A l \in Loop : \/ encsig'[l] = encsig[l]
                      \/ encsig[l] = "relayed" /\ swapOf[l] = s /\ encsig'[l] = "acked"
  BY <1>2 DEF Resolved
<1>4. encsig' \in [Loop -> EncSigState]
  BY <1>1, <1>2 DEF Resolved, TypesButProofs, EncSigState
<1>5. CASE AliceTakeEncSig(s)
  <2>1. /\ aTask[s] = "wait" /\ aTask' = [aTask EXCEPT ![s] = "learned"] /\ aDb' = aDb
        /\ proof' = proof /\ sender' = sender /\ conn' = conn /\ swapOf' = swapOf /\ inbox' = inbox
        /\ bDb' = bDb /\ saved' = saved /\ bTask' = bTask /\ forgotten' = forgotten
        /\ faults' = faults
    BY <1>5 DEF AliceTakeEncSig, bobVars
  <2>2. aTask'[s] = "learned" /\ aDb'[s] = "ProofSent"
    BY <1>1, <2>1 DEF TypesButProofs, AliceWorks
  <2>3. AliceReadsOn(s)
    BY <1>1, <2>1 DEF AliceReadsOn, TypesButProofs
  <2>4. SignatureKept(s)'
    BY <2>2 DEF SignatureKept
  <2>5. TypesButProofs'
    BY <1>1, <1>2, <1>4, <2>1 DEF TypesButProofs
  <2> QED BY <1>2, <1>3, <2>1, <2>2, <2>3, <2>4, <2>5, ReadsOnKeeps
<1>6. CASE AliceExpire(s)
  <2>1. /\ aTask[s] \in {"acking", "wait"} /\ aTask' = [aTask EXCEPT ![s] = "off"]
        /\ aDb' = [aDb EXCEPT ![s] = "Expired"]
        /\ proof' = proof /\ sender' = sender /\ conn' = conn /\ swapOf' = swapOf /\ inbox' = inbox
        /\ bDb' = bDb /\ saved' = saved /\ bTask' = bTask /\ forgotten' = forgotten
        /\ faults' = faults
    BY <1>6 DEF AliceExpire, bobVars
  <2>2. aTask'[s] = "off" /\ aDb'[s] = "Expired"
    BY <1>1, <2>1 DEF TypesButProofs
  <2>3. AliceReadsOn(s)
    BY <1>1, <2>1 DEF AliceReadsOn, TypesButProofs
  <2>4. SignatureKept(s)' /\ ~Unfinished(s)'
    BY <2>2 DEF SignatureKept, Unfinished
  <2>5. TypesButProofs'
    BY <1>1, <1>2, <1>4, <2>1 DEF TypesButProofs
  <2> QED BY <1>2, <1>3, <2>1, <2>2, <2>3, <2>4, <2>5, ReadsOnKeeps
<1> QED BY <1>5, <1>6

\* The signature that was read is stored.
LEMMA SaveEncSigKeeps ==
    ASSUME MsgInv, NEW s \in Swap, AliceSaveEncSig(s)
    PROVE  MsgInv'
<1>1. TypesButProofs /\ AliceWorks(s)
  BY Parts
<1>2. /\ aTask[s] = "learned" /\ aTask' = [aTask EXCEPT ![s] = "off"]
      /\ aDb' = [aDb EXCEPT ![s] = "EncSigLearned"]
      /\ letter' = letter /\ encsig' = encsig
      /\ proof' = proof /\ sender' = sender /\ conn' = conn /\ swapOf' = swapOf /\ inbox' = inbox
      /\ bDb' = bDb /\ saved' = saved /\ bTask' = bTask /\ forgotten' = forgotten
      /\ faults' = faults
  BY DEF AliceSaveEncSig, bobVars
<1>3. aTask'[s] = "off" /\ aDb'[s] = "EncSigLearned" /\ aDb[s] = "ProofSent"
  BY <1>1, <1>2 DEF TypesButProofs, AliceWorks
<1>4. AliceReadsOn(s)
  BY <1>1, <1>2 DEF AliceReadsOn, TypesButProofs
<1>5. SignatureKept(s)' /\ ~Unfinished(s)'
  BY <1>3 DEF SignatureKept, Unfinished
<1>6. TypesButProofs'
  BY <1>1, <1>2 DEF TypesButProofs
<1> QED BY <1>2, <1>3, <1>4, <1>5, <1>6, ReadsOnKeeps

\* The signature goes to the channel of a swap that reads it.
LEMMA EncSigReceivedKeeps ==
    ASSUME MsgInv, NEW l \in Loop, AliceEncSigReceived(l)
    PROVE  MsgInv'
<1>1. /\ encsig[l] = "sent" /\ sender' = sender \ {swapOf[l]}
      /\ letter' = IF Relayed(l) THEN letter \cup {swapOf[l]} ELSE letter
      /\ encsig' = [encsig EXCEPT ![l] = IF Relayed(l) THEN "relayed" ELSE "omitted"]
      /\ aDb' = aDb /\ aTask' = aTask
      /\ proof' = proof /\ conn' = conn /\ swapOf' = swapOf /\ inbox' = inbox
      /\ bDb' = bDb /\ saved' = saved /\ bTask' = bTask /\ forgotten' = forgotten
      /\ faults' = faults
  BY DEF AliceEncSigReceived, bobVars
<1>2. TypesButProofs /\ LoopWorks(l) /\ swapOf[l] \in Swap
  BY <1>1, Parts DEF LoopWorks, TypesButProofs
<1>3. /\ encsig'[l] \in {"relayed", "omitted"}
      /\ \A k \in Loop : k # l => encsig'[k] = encsig[k]
  BY <1>1, <1>2 DEF TypesButProofs
<1>4. MsgTypeOK'
  <2>1. TypesButProofs'
    BY <1>1, <1>2 DEF TypesButProofs, EncSigState
  <2>2. proof' = [t \in Swap |-> proof'[t]] /\ \A t \in Swap : ProofFits(proof'[t])
    BY <1>1, Parts
  <2> QED BY <2>1, <2>2, TypesOfNext
<1>5. \A t \in Swap : (ProofKept(t) => ProofKept(t)') /\ (SignatureKept(t) => SignatureKept(t)')
  BY <1>1 DEF ProofKept, SignatureKept
<1>6. \A t \in Swap : AliceWorks(t)' /\ ProofTravels(t)'
  BY <1>1, AliceStays, ProofTravelsOn
<1>7. ASSUME NEW k \in Loop PROVE LoopWorks(k)'
  <2>1. CASE k = l
    BY <1>1, <1>2, <1>3, <2>1 DEF LoopWorks
  <2>2. CASE k # l
    BY <1>1, <1>3, <1>5, <2>2, LoopStays
  <2> QED BY <2>1, <2>2
<1>8. RunWorks'
  <2>1. bTask.at \in {"start", "recv", "got"} => bTask.loop \in Loop /\ bTask.loop # l
    BY <1>1, Parts DEF RunWorks, TypesButProofs
  <2> QED BY <1>1, <1>3, <1>5, <2>1, RunStays
<1>9. AckedProofKept' /\ AckedSignatureKept'
  BY <1>1, <1>5, AckedStays
<1>10. BufferedOnlyWhileDisconnected'
  BY <1>1, Parts DEF BufferedOnlyWhileDisconnected, Up
<1>11. SignatureCanArrive'
  BY <1>1, Parts DEF SignatureCanArrive, Relayed, Reads
<1> QED BY <1>4, <1>6, <1>7, <1>8, <1>9, <1>10, <1>11 DEF MsgInv

\* The process starts without a connection, with a task and a sender for every swap that
\* it goes on with.
LEMMA AliceStartKeeps ==
    ASSUME MsgInv, AliceStart
    PROVE  MsgInv'
<1>1. /\ ~AliceRuns /\ (\E s \in Swap : Unfinished(s))
      /\ aTask' = [s \in Swap |-> CASE aDb[s] = "BeldexLocked" -> "start"
                                    [] aDb[s] = "ProofSent" -> "wait"
                                    [] OTHER -> "off"]
      /\ sender' = {s \in Swap : Unfinished(s)} /\ proof' = [s \in Swap |-> NoProof]
      /\ aDb' = aDb /\ letter' = letter /\ encsig' = encsig /\ conn' = conn
      /\ swapOf' = swapOf /\ inbox' = inbox /\ bDb' = bDb /\ saved' = saved /\ bTask' = bTask
      /\ forgotten' = forgotten /\ faults' = faults
  BY DEF AliceStart, bobVars
<1>2. TypesButProofs /\ \A s \in Swap : aTask[s] = "off"
  BY <1>1, Parts DEF AliceRuns
<1>3. Up = {}
  BY <1>1, <1>2, Parts DEF AliceWorks
<1>4. \A s \in Swap : /\ aDb[s] = "BeldexLocked" => aTask'[s] = "start"
                      /\ aDb[s] = "ProofSent" => aTask'[s] = "wait"
                      /\ ~Unfinished(s) => aTask'[s] = "off"
                      /\ proof'[s] = NoProof
  BY <1>1 DEF Unfinished
<1>5. NoProof.at = "none" /\ NoProof.loop \notin Loop
  BY NoLoopIsNone DEF NoProof
<1>6. MsgTypeOK'
  <2>1. aTask' \in [Swap -> {"off", "start", "acking", "wait", "learned"}]
    BY <1>1
  <2>2. TypesButProofs'
    BY <1>1, <1>2, <2>1 DEF TypesButProofs
  <2>3. proof' = [t \in Swap |-> proof'[t]]
    BY <1>1
  <2> QED BY <1>4, <2>2, <2>3, FittingProofs, TypesOfNext
<1>7. \A t \in Swap : (ProofKept(t) => ProofKept(t)') /\ (SignatureKept(t) => SignatureKept(t)')
  BY <1>1, <1>2 DEF ProofKept, SignatureKept
<1>8. ASSUME NEW t \in Swap PROVE AliceWorks(t)' /\ ProofTravels(t)'
  <2>1. Unfinished(t)' <=> Unfinished(t)
    BY <1>1 DEF Unfinished
  <2>2. aTask'[t] # "off" => Unfinished(t)
    BY <1>4
  <2>3. AliceWorks(t)'
    BY <1>1, <1>4, <2>1, <2>2 DEF AliceWorks, Unfinished
  <2>4. ProofTravels(t)'
    BY <1>4, <1>5 DEF ProofTravels
  <2> QED BY <2>3, <2>4
<1>9. ASSUME NEW l \in Loop PROVE LoopWorks(l)'
  <2>1. ASSUME swapOf[l] \in Swap PROVE proof[swapOf[l]].at # "held"
    <3>1. ProofFits(proof[swapOf[l]]) /\ ProofTravels(swapOf[l])
      BY <2>1, Parts
    <3> QED BY <1>3, <3>1 DEF ProofFits, ProofTravels, Up
  <2> QED BY <1>1, <1>7, <2>1, LoopStays
<1>10. RunWorks'
  BY <1>1, <1>7, RunStays
<1>11. AckedProofKept' /\ AckedSignatureKept'
  BY <1>1, <1>7, AckedStays
<1>12. BufferedOnlyWhileDisconnected'
  BY <1>4, <1>5 DEF BufferedOnlyWhileDisconnected
<1>13. SignatureCanArrive'
  <2>1. \A t \in Swap : aTask'[t] # "off" => t \in sender'
    BY <1>1, <1>4
  <2> QED BY <2>1 DEF SignatureCanArrive
<1> QED BY <1>6, <1>8, <1>9, <1>10, <1>11, <1>12, <1>13 DEF MsgInv

-----------------------------------------------------------------------------
(* The connections                                                         *)

\* A loss of the connections L takes the proofs on them away and touches no other.
ProofsTaken(L) ==
    \A s \in Swap : \/ proof'[s] = proof[s] /\ proof[s].loop \notin L
                    \/ /\ proof[s].loop \notin Loop \ L
                       /\ proof'[s].loop \notin Loop /\ proof'[s].at \in {"none", "gone"}

\* What is left of a loop: one that has held a proof ends.
LEMMA LossKeepsLoops ==
    ASSUME MsgInv, NEW L, L \subseteq Up, Disconnected(L), ProofsTaken(L), swapOf' = swapOf,
           inbox' = inbox, \A s \in Swap : SignatureKept(s) => SignatureKept(s)'
    PROVE  /\ \A l \in Loop : LoopWorks(l)'
           /\ \A s \in Swap : proof'[s].loop \in Loop => conn'[proof'[s].loop] = "up"
           /\ Up' \subseteq Up
           /\ \A l \in Loop : conn[l] # "unused" => conn'[l] # "unused"
           /\ \A l \in Loop : encsig[l] = "none" => encsig'[l] = "none"
           /\ encsig' \in [Loop -> EncSigState] /\ conn' \in [Loop -> ConnState]
<1>1. \A l \in Loop : /\ conn'[l] = IF l \in L THEN AfterLoss(l) ELSE conn[l]
                      /\ encsig'[l] = IF l \in L /\ encsig[l] \notin {"none", "queued"}
                                      THEN "gone" ELSE encsig[l]
  BY DEF Disconnected
<1>2. \A l \in L : l \in Loop /\ conn[l] = "up"
  BY DEF Up
<1>3. \A l \in Loop : AfterLoss(l) \in {"ended", "down"}
  BY DEF AfterLoss
<1>4. encsig' \in [Loop -> EncSigState] /\ conn' \in [Loop -> ConnState]
  <2>1. TypesButProofs
    BY Parts
  <2>2. /\ encsig' = [l \in Loop |-> encsig'[l]] /\ conn' = [l \in Loop |-> conn'[l]]
    BY DEF Disconnected
  <2>3. \A l \in Loop : encsig'[l] \in EncSigState /\ conn'[l] \in ConnState
    BY <1>1, <1>3, <2>1 DEF TypesButProofs, EncSigState, ConnState
  <2> QED BY <2>2, <2>3
<1>5. Up' \subseteq Up
  BY <1>1, <1>3 DEF Up
<1>6. ASSUME NEW s \in Swap, proof'[s].loop \in Loop PROVE conn'[proof'[s].loop] = "up"
  <2>1. proof'[s] = proof[s] /\ proof[s].loop \notin L
    BY <1>6 DEF ProofsTaken
  <2>2. conn[proof[s].loop] = "up"
    BY <1>6, <2>1, Parts DEF ProofTravels
  <2> QED BY <1>1, <1>6, <2>1, <2>2
<1>7. ASSUME NEW l \in Loop PROVE LoopWorks(l)'
  <2>0. LoopWorks(l) /\ swapOf[l] \in Swap \cup {NoSwap}
    BY Parts DEF TypesButProofs
  <2>1. CASE l \in L
    <3>1. conn[l] = "up" /\ conn'[l] \in {"ended", "down"} /\ encsig'[l] # "acked"
      BY <1>1, <1>2, <1>3, <2>1
    <3>2. l \in inbox => conn'[l] = "ended"
      <4>1. l \in inbox => LoopHolds(l)
        BY <2>0, <3>1 DEF LoopWorks, LoopHolds
      <4> QED BY <1>1, <2>1, <4>1 DEF AfterLoss, InFlight
    <3> QED BY <2>0, <3>1, <3>2 DEF LoopWorks
  <2>2. CASE l \notin L
    <3>1. conn'[l] = conn[l] /\ encsig'[l] = encsig[l]
      BY <1>1, <2>2
    <3>2. ASSUME l \in inbox, conn[l] # "ended"
          PROVE  swapOf[l] \in Swap /\ proof'[swapOf[l]] = [at |-> "held", loop |-> l]
      <4>1. swapOf[l] \in Swap /\ proof[swapOf[l]] = [at |-> "held", loop |-> l]
        BY <2>0, <3>2 DEF LoopWorks
      <4>2. proof[swapOf[l]].loop = l
        BY <4>1
      <4> QED BY <2>2, <4>1, <4>2 DEF ProofsTaken
    <3>3. ASSUME encsig[l] = "acked" PROVE SignatureKept(swapOf[l])'
      <4>1. swapOf[l] \in Swap /\ SignatureKept(swapOf[l])
        BY <2>0, <3>3 DEF LoopWorks
      <4> QED BY <4>1 DEF SignatureKept
    <3> QED BY <2>0, <3>1, <3>2, <3>3 DEF LoopWorks
  <2> QED BY <2>1, <2>2
<1>8. /\ \A l \in Loop : conn[l] # "unused" => conn'[l] # "unused"
      /\ \A l \in Loop : encsig[l] = "none" => encsig'[l] = "none"
  BY <1>1, <1>3
<1> QED BY <1>4, <1>5, <1>6, <1>7, <1>8

\* All of Alice's connections are lost with her process.
LEMMA AliceStopKeeps ==
    ASSUME MsgInv, AliceStop
    PROVE  MsgInv'
<1>1. /\ faults < MaxFaults /\ faults' = faults + 1
      /\ aTask' = [s \in Swap |-> "off"] /\ sender' = {} /\ letter' = {}
      /\ forgotten' = forgotten \cup letter \cup {s \in Swap : aTask[s] = "learned"}
      /\ proof' = [s \in Swap |-> NoProof] /\ Disconnected(Up)
      /\ aDb' = aDb /\ swapOf' = swapOf /\ inbox' = inbox /\ bDb' = bDb /\ saved' = saved
      /\ bTask' = bTask
  BY DEF AliceStop, Fault, bobVars
<1>2. TypesButProofs /\ (\A s \in Swap : aTask'[s] = "off" /\ proof'[s] = NoProof)
  BY <1>1, Parts
<1>3. NoProof.at = "none" /\ NoProof.loop \notin Loop
  BY NoLoopIsNone DEF NoProof
<1>4. ProofsTaken(Up)
  <2>1. ASSUME NEW s \in Swap PROVE proof[s].loop \notin Loop \ Up
    BY Parts DEF ProofTravels, Up
  <2> QED BY <1>2, <1>3, <2>1 DEF ProofsTaken
<1>5. \A t \in Swap : (ProofKept(t) => ProofKept(t)') /\ (SignatureKept(t) => SignatureKept(t)')
  BY <1>1 DEF ProofKept, SignatureKept
<1>6. /\ \A l \in Loop : LoopWorks(l)'
      /\ \A l \in Loop : conn[l] # "unused" => conn'[l] # "unused"
      /\ \A l \in Loop : encsig[l] = "none" => encsig'[l] = "none"
      /\ encsig' \in [Loop -> EncSigState] /\ conn' \in [Loop -> ConnState]
  BY <1>1, <1>4, <1>5, LossKeepsLoops
<1>7. MsgTypeOK'
  <2>1. faults' \in 0..MaxFaults
    BY <1>1, <1>2, MessagingAssumption DEF TypesButProofs
  <2>2. aTask' \in [Swap -> {"off", "start", "acking", "wait", "learned"}]
    BY <1>1
  <2>3. TypesButProofs'
    BY <1>1, <1>2, <1>6, <2>1, <2>2 DEF TypesButProofs
  <2>4. proof' = [t \in Swap |-> proof'[t]]
    BY <1>1
  <2> QED BY <1>2, <2>3, <2>4, FittingProofs, TypesOfNext
<1>8. Up' = {}
  <2>1. \A l \in Loop : conn'[l] = IF l \in Up THEN AfterLoss(l) ELSE conn[l]
    BY <1>1 DEF Disconnected
  <2>2. \A l \in Loop : conn'[l] # "up"
    BY <2>1 DEF AfterLoss, Up
  <2> QED BY <2>2 DEF Up
<1>9. ASSUME NEW t \in Swap PROVE AliceWorks(t)' /\ ProofTravels(t)'
  <2>1. ~AliceRuns'
    BY <1>2 DEF AliceRuns
  <2> QED BY <1>2, <1>3, <1>8, <2>1 DEF AliceWorks, ProofTravels
<1>10. RunWorks'
  <2>1. bTask.at \in {"start", "recv", "got"} => bTask.loop \in Loop /\ encsig[bTask.loop] = "none"
    BY Parts DEF RunWorks, TypesButProofs
  <2>2. bTask.at \in {"start", "recv", "got"} => encsig'[bTask.loop] = encsig[bTask.loop]
    BY <1>6, <2>1
  <2> QED BY <1>1, <1>5, <1>6, <2>2, RunStays
<1>11. AckedProofKept' /\ AckedSignatureKept'
  BY <1>1, <1>5, AckedStays
<1>12. BufferedOnlyWhileDisconnected' /\ SignatureCanArrive'
  BY <1>2, <1>3 DEF BufferedOnlyWhileDisconnected, SignatureCanArrive
<1> QED BY <1>6, <1>7, <1>9, <1>10, <1>11, <1>12 DEF MsgInv

\* One connection is lost, or given up by Bob's event loop.
LEMMA LossKeeps ==
    ASSUME MsgInv, NEW l \in Loop, ConnectionLost(l) \/ RequestFails(l)
    PROVE  MsgInv'
<1>1. /\ conn[l] = "up" /\ Disconnected({l}) /\ proof' = ProofsLost({l})
      /\ aDb' = aDb /\ aTask' = aTask /\ sender' = sender /\ letter' = letter
      /\ swapOf' = swapOf /\ inbox' = inbox /\ bDb' = bDb /\ saved' = saved /\ bTask' = bTask
      /\ forgotten' = forgotten
      /\ \/ faults < MaxFaults /\ faults' = faults + 1
         \/ faults' = faults
  BY DEF ConnectionLost, RequestFails, Fault, aliceVars, bobVars
<1>2. \A s \in Swap : proof'[s] = IF proof[s].loop = l THEN [at |-> "gone", loop |-> NoLoop]
                                  ELSE proof[s]
  BY <1>1 DEF ProofsLost
<1>3. ProofsTaken({l})
  BY <1>2, NoLoopIsNone DEF ProofsTaken
<1>4. \A t \in Swap : (ProofKept(t) => ProofKept(t)') /\ (SignatureKept(t) => SignatureKept(t)')
  BY <1>1 DEF ProofKept, SignatureKept
<1>5. {l} \subseteq Up
  BY <1>1 DEF Up
<1>6. /\ \A k \in Loop : LoopWorks(k)'
      /\ \A s \in Swap : proof'[s].loop \in Loop => conn'[proof'[s].loop] = "up"
      /\ Up' \subseteq Up
      /\ \A k \in Loop : conn[k] # "unused" => conn'[k] # "unused"
      /\ \A k \in Loop : encsig[k] = "none" => encsig'[k] = "none"
      /\ encsig' \in [Loop -> EncSigState] /\ conn' \in [Loop -> ConnState]
  BY <1>1, <1>3, <1>4, <1>5, LossKeepsLoops
<1>7. \A s \in Swap : ProofFits(proof'[s])
  BY <1>2, Parts, FittingProofs
<1>8. MsgTypeOK'
  <2>1. TypesButProofs /\ proof' = [t \in Swap |-> proof'[t]]
    BY <1>1, Parts DEF ProofsLost
  <2>2. faults' \in 0..MaxFaults
    BY <1>1, <2>1, MessagingAssumption DEF TypesButProofs
  <2>3. TypesButProofs'
    BY <1>1, <1>6, <2>1, <2>2 DEF TypesButProofs
  <2> QED BY <1>7, <2>1, <2>3, TypesOfNext
<1>9. ASSUME NEW t \in Swap PROVE AliceWorks(t)' /\ ProofTravels(t)'
  <2>1. AliceWorks(t) /\ ProofTravels(t)
    BY Parts
  <2>2. (AliceRuns' <=> AliceRuns) /\ (Unfinished(t)' <=> Unfinished(t))
    BY <1>1 DEF AliceRuns, Unfinished
  <2>3. aTask[t] = "start" => proof'[t] = NoProof
    BY <1>2, <2>1, NoLoopIsNone DEF AliceWorks, NoProof
  <2>4. AliceWorks(t)'
    BY <1>1, <1>6, <2>1, <2>2, <2>3 DEF AliceWorks
  <2>5. proof'[t].at \in {"held", "acked"} => proof'[t] = proof[t]
    BY <1>2
  <2>6. ProofTravels(t)'
    BY <1>1, <1>4, <1>6, <1>7, <2>1, <2>5 DEF ProofTravels
  <2> QED BY <2>4, <2>6
<1>10. RunWorks'
  <2>1. bTask.at \in {"start", "recv", "got"} => bTask.loop \in Loop /\ encsig[bTask.loop] = "none"
    BY Parts DEF RunWorks, TypesButProofs
  <2>2. bTask.at \in {"start", "recv", "got"} => encsig'[bTask.loop] = encsig[bTask.loop]
    BY <1>6, <2>1
  <2> QED BY <1>1, <1>4, <1>6, <2>2, RunStays
<1>11. AckedProofKept' /\ AckedSignatureKept'
  BY <1>1, <1>4, AckedStays
<1>12. BufferedOnlyWhileDisconnected'
  <2>1. \A t \in Swap : proof'[t].at = "buffered" => proof[t].at = "buffered"
    BY <1>2
  <2> QED BY <1>6, <2>1, Parts DEF BufferedOnlyWhileDisconnected
<1>13. SignatureCanArrive'
  BY <1>1, Parts DEF SignatureCanArrive
<1> QED BY <1>6, <1>8, <1>9, <1>10, <1>11, <1>12, <1>13 DEF MsgInv

\* A connection takes all of the buffered proofs along.
LEMMA ConnectKeeps ==
    ASSUME MsgInv, NEW l \in Loop, Connect(l)
    PROVE  MsgInv'
<1>1. /\ conn[l] \in {"dialling", "down"} /\ AliceRuns /\ conn' = [conn EXCEPT ![l] = "up"]
      /\ aDb' = aDb /\ aTask' = aTask /\ sender' = sender /\ letter' = letter /\ encsig' = encsig
      /\ swapOf' = swapOf /\ inbox' = inbox /\ bDb' = bDb /\ saved' = saved /\ bTask' = bTask
      /\ forgotten' = forgotten /\ faults' = faults
  BY DEF Connect, Established, aliceVars, bobVars
<1>2. PICK via \in [Swap -> Up \cup {l}] :
          proof' = [s \in Swap |-> IF proof[s].at = "buffered"
                                   THEN [at |-> "sent", loop |-> via[s]] ELSE proof[s]]
  BY DEF Connect, Established
<1>3. TypesButProofs /\ conn'[l] = "up" /\ \A k \in Loop : k # l => conn'[k] = conn[k]
  BY <1>1, Parts DEF TypesButProofs
<1>4. \A s \in Swap : via[s] \in Loop /\ conn'[via[s]] = "up"
  BY <1>3 DEF Up
<1>5. \A s \in Swap : /\ proof[s].at = "buffered" =>
                           /\ proof'[s] = [at |-> "sent", loop |-> via[s]]
                           /\ proof'[s].at = "sent" /\ proof'[s].loop = via[s]
                      /\ proof[s].at # "buffered" => proof'[s] = proof[s]
  BY <1>2
<1>6. MsgTypeOK'
  <2>1. TypesButProofs'
    BY <1>1, <1>3 DEF TypesButProofs, ConnState
  <2>2. \A s \in Swap : ProofFits(proof'[s])
    <3>1. \A s \in Swap : ProofFits([at |-> "sent", loop |-> via[s]])
      BY <1>4, FittingProofs
    <3> QED BY <1>5, <3>1, Parts
  <2>3. proof' = [s \in Swap |-> proof'[s]]
    BY <1>2
  <2> QED BY <2>1, <2>2, <2>3, TypesOfNext
<1>7. \A t \in Swap : (ProofKept(t) => ProofKept(t)') /\ (SignatureKept(t) => SignatureKept(t)')
  BY <1>1 DEF ProofKept, SignatureKept
<1>8. ASSUME NEW t \in Swap PROVE AliceWorks(t)' /\ ProofTravels(t)'
  <2>1. AliceWorks(t) /\ ProofTravels(t)
    BY Parts
  <2>2. Unfinished(t)' <=> Unfinished(t)
    BY <1>1 DEF Unfinished
  <2>3. aTask[t] = "start" => proof'[t] = NoProof
    <3>1. NoProof.at # "buffered"
      BY DEF NoProof
    <3> QED BY <1>5, <2>1, <3>1 DEF AliceWorks
  <2>4. AliceWorks(t)'
    BY <1>1, <2>1, <2>2, <2>3 DEF AliceWorks
  <2>5. proof'[t].loop \in Loop => conn'[proof'[t].loop] = "up"
    <3>1. CASE proof[t].at = "buffered"
      <4>1. proof'[t].loop = via[t]
        BY <1>5, <3>1
      <4> QED BY <1>4, <4>1
    <3>2. CASE proof[t].at # "buffered"
      <4>1. proof'[t] = proof[t]
        BY <1>5, <3>2
      <4> QED BY <1>3, <2>1, <4>1 DEF ProofTravels
    <3> QED BY <3>1, <3>2
  <2>6. proof'[t].at \in {"held", "acked"} => proof'[t] = proof[t]
    BY <1>5
  <2>7. ProofTravels(t)'
    BY <1>1, <1>7, <2>1, <2>5, <2>6 DEF ProofTravels
  <2> QED BY <2>4, <2>7
<1>9. ASSUME NEW k \in Loop PROVE LoopWorks(k)'
  <2>1. LoopWorks(k) /\ swapOf[k] \in Swap \cup {NoSwap}
    BY <1>3, Parts DEF TypesButProofs
  <2>2. (conn'[k] = "unused" <=> conn[k] = "unused") /\ (conn'[k] = "ended" <=> conn[k] = "ended")
    BY <1>1, <1>3
  <2>3. ASSUME swapOf[k] \in Swap, proof[swapOf[k]] = [at |-> "held", loop |-> k]
        PROVE  proof'[swapOf[k]] = [at |-> "held", loop |-> k]
    <3>1. proof[swapOf[k]].at # "buffered"
      BY <2>3
    <3> QED BY <1>5, <2>3, <3>1
  <2>4. ASSUME encsig[k] = "acked" PROVE SignatureKept(swapOf[k])'
    <3>1. swapOf[k] \in Swap /\ SignatureKept(swapOf[k])
      BY <2>1, <2>4 DEF LoopWorks
    <3> QED BY <1>7, <1>1, <3>1 DEF SignatureKept
  <2> QED BY <1>1, <2>1, <2>2, <2>3, <2>4 DEF LoopWorks
<1>10. RunWorks'
  BY <1>1, <1>3, <1>7, RunStays
<1>11. AckedProofKept' /\ AckedSignatureKept'
  BY <1>1, <1>7, AckedStays
<1>12. BufferedOnlyWhileDisconnected'
  BY <1>5 DEF BufferedOnlyWhileDisconnected
<1>13. SignatureCanArrive'
  BY <1>1, Parts DEF SignatureCanArrive
<1> QED BY <1>6, <1>8, <1>9, <1>10, <1>11, <1>12, <1>13 DEF MsgInv

\* A loop that is not connected holds nothing that a failed dial could strand.
LEMMA NoConnectionKeeps ==
    ASSUME MsgInv, NEW l \in Loop, DialFails(l) \/ RedialExhausted(l)
    PROVE  MsgInv'
<1>1. /\ conn[l] \in {"dialling", "down"}
      /\ conn' = [conn EXCEPT ![l] = "stuck"] \/ conn' = [conn EXCEPT ![l] = "ended"]
      /\ aDb' = aDb /\ aTask' = aTask /\ sender' = sender /\ letter' = letter /\ encsig' = encsig
      /\ swapOf' = swapOf /\ inbox' = inbox /\ bDb' = bDb /\ saved' = saved /\ bTask' = bTask
      /\ forgotten' = forgotten /\ faults' = faults /\ proof' = proof
  BY DEF DialFails, RedialExhausted, aliceVars, bobVars
<1>2. /\ TypesButProofs /\ conn'[l] \in {"stuck", "ended"}
      /\ \A k \in Loop : k # l => conn'[k] = conn[k]
  BY <1>1, Parts DEF TypesButProofs
<1>3. MsgTypeOK'
  <2>1. TypesButProofs'
    BY <1>1, <1>2 DEF TypesButProofs, ConnState
  <2>2. proof' = [s \in Swap |-> proof'[s]] /\ \A s \in Swap : ProofFits(proof'[s])
    BY <1>1, Parts
  <2> QED BY <2>1, <2>2, TypesOfNext
<1>4. \A t \in Swap : (ProofKept(t) => ProofKept(t)') /\ (SignatureKept(t) => SignatureKept(t)')
  BY <1>1 DEF ProofKept, SignatureKept
<1>5. Up' = Up
  BY <1>1, <1>2 DEF Up
<1>6. ASSUME NEW t \in Swap PROVE AliceWorks(t)' /\ ProofTravels(t)'
  <2>1. AliceWorks(t) /\ ProofTravels(t)
    BY Parts
  <2>2. (AliceRuns' <=> AliceRuns) /\ (Unfinished(t)' <=> Unfinished(t))
    BY <1>1 DEF AliceRuns, Unfinished
  <2>3. AliceWorks(t)'
    BY <1>1, <1>5, <2>1, <2>2 DEF AliceWorks
  <2>4. ProofTravels(t)'
    BY <1>1, <1>2, <1>4, <2>1 DEF ProofTravels
  <2> QED BY <2>3, <2>4
<1>7. ASSUME NEW k \in Loop PROVE LoopWorks(k)'
  <2>1. LoopWorks(k) /\ swapOf[k] \in Swap \cup {NoSwap}
    BY <1>2, Parts DEF TypesButProofs
  <2>2. (conn'[k] = "unused" <=> conn[k] = "unused") /\ (conn[k] = "ended" => conn'[k] = "ended")
    BY <1>1, <1>2
  <2>3. ASSUME encsig[k] = "acked" PROVE SignatureKept(swapOf[k])'
    <3>1. swapOf[k] \in Swap /\ SignatureKept(swapOf[k])
      BY <2>1, <2>3 DEF LoopWorks
    <3> QED BY <1>4, <1>1, <3>1 DEF SignatureKept
  <2> QED BY <1>1, <2>1, <2>2, <2>3 DEF LoopWorks
<1>8. RunWorks'
  BY <1>1, <1>2, <1>4, RunStays
<1>9. AckedProofKept' /\ AckedSignatureKept'
  BY <1>1, <1>4, AckedStays
<1>10. BufferedOnlyWhileDisconnected'
  BY <1>1, <1>5, Parts DEF BufferedOnlyWhileDisconnected
<1>11. SignatureCanArrive'
  BY <1>1, Parts DEF SignatureCanArrive
<1> QED BY <1>3, <1>6, <1>7, <1>8, <1>9, <1>10, <1>11 DEF MsgInv

-----------------------------------------------------------------------------
(* Bob's steps                                                             *)

\* The loop of a run was started for a swap.
LEMMA RunHasSwap ==
    ASSUME MsgInv, bTask.at # "none"
    PROVE  bTask.loop \in Loop /\ conn[bTask.loop] # "unused" /\ swapOf[bTask.loop] \in Swap
<1>1. bTask.loop \in Loop /\ conn[bTask.loop] # "unused"
  BY Parts DEF RunWorks, TypesButProofs
<1>2. LoopWorks(bTask.loop) /\ swapOf[bTask.loop] \in Swap \cup {NoSwap}
  BY <1>1, Parts DEF TypesButProofs
<1> QED BY <1>1, <1>2 DEF LoopWorks

\* A run starts over a loop that nothing has used.
LEMMA BobStartKeeps ==
    ASSUME MsgInv, NEW s \in Swap, NEW l \in Loop, BobStart(s, l)
    PROVE  MsgInv'
<1>1. /\ bTask = NoTask /\ bTask'.loop = l
      /\ conn' = [conn EXCEPT ![l] = "dialling"] /\ swapOf' = [swapOf EXCEPT ![l] = s]
      /\ \/ bTask' = [loop |-> l, at |-> "start"] /\ encsig' = encsig
         \/ bTask' = [loop |-> l, at |-> "sending"] /\ encsig' = [encsig EXCEPT ![l] = "queued"]
      /\ aDb' = aDb /\ aTask' = aTask /\ sender' = sender /\ letter' = letter /\ proof' = proof
      /\ inbox' = inbox /\ bDb' = bDb /\ saved' = saved
      /\ forgotten' = forgotten /\ faults' = faults
  BY DEF BobStart, aliceVars
<1>2. conn[l] = "unused"
  BY DEF BobStart, Loop
<1>3. /\ TypesButProofs /\ LoopWorks(l) /\ bTask.at = "none"
      /\ conn'[l] = "dialling" /\ swapOf'[l] = s /\ encsig'[l] \in {"none", "queued"}
      /\ \A k \in Loop : k # l => /\ conn'[k] = conn[k] /\ swapOf'[k] = swapOf[k]
                                  /\ encsig'[k] = encsig[k]
  <2>1. TypesButProofs /\ LoopWorks(l) /\ bTask.at = "none"
    BY <1>1, Parts DEF NoTask
  <2> QED BY <1>1, <1>2, <2>1 DEF TypesButProofs, LoopWorks
<1>4. MsgTypeOK'
  <2>1. TypesButProofs'
    BY <1>1, <1>3 DEF TypesButProofs, ConnState, EncSigState
  <2>2. proof' = [t \in Swap |-> proof'[t]] /\ \A t \in Swap : ProofFits(proof'[t])
    BY <1>1, Parts
  <2> QED BY <2>1, <2>2, TypesOfNext
<1>5. \A t \in Swap : (ProofKept(t) => ProofKept(t)') /\ (SignatureKept(t) => SignatureKept(t)')
  BY <1>1, <1>3 DEF ProofKept, SignatureKept
<1>6. Up' = Up
  BY <1>2, <1>3 DEF Up
<1>7. ASSUME NEW t \in Swap PROVE AliceWorks(t)' /\ ProofTravels(t)'
  <2>1. AliceWorks(t) /\ ProofTravels(t) /\ ProofFits(proof[t])
    BY Parts
  <2>2. (AliceRuns' <=> AliceRuns) /\ (Unfinished(t)' <=> Unfinished(t))
    BY <1>1 DEF AliceRuns, Unfinished
  <2>3. AliceWorks(t)'
    BY <1>1, <1>6, <2>1, <2>2 DEF AliceWorks
  <2>4. proof[t].loop # l
    BY <1>2, <2>1 DEF ProofTravels
  <2>5. ProofTravels(t)'
    BY <1>1, <1>3, <1>5, <2>1, <2>4 DEF ProofTravels, ProofFits
  <2> QED BY <2>3, <2>5
<1>8. ASSUME NEW k \in Loop PROVE LoopWorks(k)'
  <2>1. LoopWorks(k) /\ swapOf[k] \in Swap \cup {NoSwap}
    BY <1>3, Parts DEF TypesButProofs
  <2>2. CASE k = l
    <3>1. l \notin inbox
      BY <1>2, <1>3, MessagingAssumption DEF LoopWorks
    <3> QED BY <1>1, <1>3, <2>2, <3>1, MessagingAssumption DEF LoopWorks
  <2>3. CASE k # l
    <3>1. ASSUME encsig[k] = "acked" PROVE SignatureKept(swapOf[k])'
      <4>1. swapOf[k] \in Swap /\ SignatureKept(swapOf[k])
        BY <2>1, <3>1 DEF LoopWorks
      <4> QED BY <1>1, <1>3, <2>3, <4>1 DEF SignatureKept
    <3> QED BY <1>1, <1>3, <2>1, <2>3, <3>1 DEF LoopWorks
  <2> QED BY <2>2, <2>3
<1>9. RunWorks'
  BY <1>1, <1>2, <1>3, NoLoopIsNone DEF RunWorks, LoopWorks
<1>10. AckedProofKept' /\ AckedSignatureKept'
  BY <1>1, <1>5, AckedStays
<1>11. BufferedOnlyWhileDisconnected'
  BY <1>1, <1>6, Parts DEF BufferedOnlyWhileDisconnected
<1>12. SignatureCanArrive'
  BY <1>1, Parts DEF SignatureCanArrive
<1> QED BY <1>4, <1>7, <1>8, <1>9, <1>10, <1>11, <1>12 DEF MsgInv

\* What the steps share that only move Bob's run on, his signature and his stored state:
\* Alice, the proofs and the connections are left alone.
BobMovesOn ==
    /\ aDb' = aDb /\ aTask' = aTask /\ sender' = sender /\ letter' = letter /\ proof' = proof
    /\ conn' = conn /\ swapOf' = swapOf /\ inbox' = inbox /\ saved' = saved
    /\ forgotten' = forgotten /\ faults' = faults

\* A step of that kind, after which the proof is kept and every answered signature was.
LEMMA MovesOnKeeps ==
    ASSUME MsgInv, BobMovesOn, RunWorks', TypesButProofs',
           \A t \in Swap : ProofKept(t) => ProofKept(t)',
           \A t \in Swap : bDb'[t] = "EncSigSent" => bDb[t] = "EncSigSent" \/ SignatureKept(t),
           \A l \in Loop : encsig'[l] = "acked" => encsig[l] = "acked",
           \A l \in Loop : conn[l] = "unused" => encsig'[l] = encsig[l]
    PROVE  MsgInv'
<1> USE DEF BobMovesOn
<1>1. MsgTypeOK'
  <2>1. proof' = [t \in Swap |-> proof'[t]] /\ \A t \in Swap : ProofFits(proof'[t])
    BY Parts
  <2> QED BY <2>1, TypesOfNext
<1>2. \A t \in Swap : SignatureKept(t) => SignatureKept(t)'
  BY DEF SignatureKept
<1>3. ASSUME NEW t \in Swap PROVE AliceWorks(t)' /\ ProofTravels(t)'
  <2>1. AliceWorks(t)'
    BY AliceStays
  <2>2. ProofTravels(t)
    BY Parts
  <2> QED BY <2>1, <2>2 DEF ProofTravels
<1>4. ASSUME NEW l \in Loop PROVE LoopWorks(l)'
  <2>1. LoopWorks(l) /\ swapOf[l] \in Swap \cup {NoSwap}
    BY Parts DEF TypesButProofs
  <2>2. ASSUME encsig'[l] = "acked" PROVE SignatureKept(swapOf[l])'
    <3>1. SignatureKept(swapOf[l])
      BY <2>1, <2>2 DEF LoopWorks
    <3> QED BY <3>1 DEF SignatureKept
  <2> QED BY <2>1, <2>2 DEF LoopWorks
<1>5. AckedProofKept' /\ AckedSignatureKept'
  BY <1>2, AckedStays
<1>6. BufferedOnlyWhileDisconnected'
  BY Parts DEF BufferedOnlyWhileDisconnected, Up
<1>7. SignatureCanArrive'
  BY Parts DEF SignatureCanArrive
<1> QED BY <1>1, <1>3, <1>4, <1>5, <1>6, <1>7 DEF MsgInv

\* The swap finds the proof in the database or waits for it.
LEMMA BtcLockedKeeps ==
    ASSUME MsgInv, BobBtcLocked
    PROVE  MsgInv'
<1>1. /\ bTask.at = "start" /\ BobMovesOn /\ encsig' = encsig /\ bDb' = bDb
      /\ bTask' = [bTask EXCEPT !.at = "got"] \/ bTask' = [bTask EXCEPT !.at = "recv"]
  BY DEF BobBtcLocked, BobMovesOn, aliceVars
<1>2. TypesButProofs /\ RunWorks
  BY Parts
<1>3. bTask'.loop = bTask.loop /\ bTask'.at \in {"got", "recv"}
  BY <1>1, <1>2 DEF TypesButProofs
<1>4. TypesButProofs'
  BY <1>1, <1>2 DEF TypesButProofs, BobMovesOn
<1>5. RunWorks'
  BY <1>1, <1>2, <1>3 DEF RunWorks, BobMovesOn
<1>6. \A t \in Swap : ProofKept(t) => ProofKept(t)'
  BY <1>1 DEF ProofKept, BobMovesOn
<1> QED BY <1>1, <1>4, <1>5, <1>6, MovesOnKeeps

\* The proof that was read is stored before anything is sent.
LEMMA SaveProofKeeps ==
    ASSUME MsgInv, BobSaveProof
    PROVE  MsgInv'
<1>1. /\ bTask.at = "got" /\ BobMovesOn
      /\ bDb' = [bDb EXCEPT ![swapOf[bTask.loop]] = "ProofReceived"]
      /\ bTask' = [bTask EXCEPT !.at = "sending"]
      /\ encsig' = [encsig EXCEPT ![bTask.loop] = "queued"]
  BY DEF BobSaveProof, BobMovesOn, aliceVars
<1>2. TypesButProofs /\ RunWorks
  BY Parts
<1>3. bTask.loop \in Loop /\ conn[bTask.loop] # "unused" /\ swapOf[bTask.loop] \in Swap
  BY <1>1, RunHasSwap
<1>4. bTask'.loop = bTask.loop /\ bTask'.at = "sending"
  BY <1>1, <1>2 DEF TypesButProofs
<1>5. /\ bDb'[swapOf[bTask.loop]] = "ProofReceived"
      /\ \A t \in Swap : t # swapOf[bTask.loop] => bDb'[t] = bDb[t]
      /\ encsig'[bTask.loop] = "queued"
      /\ \A l \in Loop : l # bTask.loop => encsig'[l] = encsig[l]
  BY <1>1, <1>2, <1>3 DEF TypesButProofs
<1>6. TypesButProofs'
  BY <1>1, <1>2 DEF TypesButProofs, BobMovesOn, EncSigState
<1>7. RunWorks'
  BY <1>1, <1>2, <1>3, <1>4 DEF RunWorks, BobMovesOn
<1>8. \A t \in Swap : ProofKept(t) => ProofKept(t)'
  BY <1>1, <1>5 DEF ProofKept, BobMovesOn
<1> QED BY <1>1, <1>3, <1>5, <1>6, <1>7, <1>8, MovesOnKeeps

\* The signature goes out over a connection.
LEMMA LoopEncSigKeeps ==
    ASSUME MsgInv, NEW l \in Loop, BobLoopEncSig(l)
    PROVE  MsgInv'
<1>1. /\ encsig[l] = "queued" /\ conn[l] = "up" /\ BobMovesOn /\ bTask' = bTask /\ bDb' = bDb
      /\ encsig' = [encsig EXCEPT ![l] = "sent"]
  BY DEF BobLoopEncSig, BobMovesOn, aliceVars, bobVars
<1>2. TypesButProofs /\ RunWorks
  BY Parts
<1>3. encsig'[l] = "sent" /\ \A k \in Loop : k # l => encsig'[k] = encsig[k]
  BY <1>1, <1>2 DEF TypesButProofs
<1>4. TypesButProofs'
  BY <1>1, <1>2 DEF TypesButProofs, BobMovesOn, EncSigState
<1>5. \A t \in Swap : (ProofKept(t) => ProofKept(t)') /\ (SignatureKept(t) => SignatureKept(t)')
  BY <1>1 DEF ProofKept, SignatureKept, BobMovesOn
<1>6. RunWorks'
  <2>1. bTask.at \in {"start", "recv", "got"} => bTask.loop \in Loop /\ bTask.loop # l
    BY <1>1, <1>2 DEF RunWorks, TypesButProofs
  <2> QED BY <1>1, <1>3, <1>5, <2>1, RunStays DEF BobMovesOn
<1> QED BY <1>1, <1>3, <1>4, <1>5, <1>6, MovesOnKeeps

\* The answer comes after Alice's swap has read the signature.
LEMMA EncSigAckedKeeps ==
    ASSUME MsgInv, NEW l \in Loop, BobEncSigAcked(l)
    PROVE  MsgInv'
<1>1. /\ encsig[l] = "acked" /\ BobMovesOn /\ bDb' = bDb
      /\ encsig' = [encsig EXCEPT ![l] = "none"]
      /\ bTask' = IF bTask.loop = l THEN [bTask EXCEPT !.at = "sent"] ELSE bTask
  BY DEF BobEncSigAcked, BobMovesOn, Live, aliceVars
<1>2. TypesButProofs /\ RunWorks /\ LoopWorks(l)
  BY Parts
<1>3. encsig'[l] = "none" /\ \A k \in Loop : k # l => encsig'[k] = encsig[k]
  BY <1>1, <1>2 DEF TypesButProofs
<1>4. TypesButProofs'
  BY <1>1, <1>2 DEF TypesButProofs, BobMovesOn, EncSigState
<1>5. bTask.loop = l => bTask.at # "got" /\ bTask.at # "none"
  BY <1>1, <1>2, NoLoopIsNone DEF RunWorks
<1>6. \A t \in Swap : (ProofKept(t) => ProofKept(t)') /\ (SignatureKept(t) => SignatureKept(t)')
  BY <1>1, <1>5 DEF ProofKept, SignatureKept, BobMovesOn
<1>7. RunWorks'
  <2>1. CASE bTask.loop = l
    <3>1. bTask'.loop = l /\ bTask'.at = "sent"
      BY <1>1, <1>2, <2>1 DEF TypesButProofs
    <3>2. SignatureKept(swapOf[l])
      BY <1>1, <1>2 DEF LoopWorks
    <3>3. SignatureKept(swapOf[bTask.loop])'
      BY <1>1, <3>1, <3>2 DEF SignatureKept, BobMovesOn
    <3>4. conn[l] # "unused" /\ conn' = conn
      BY <1>1, <1>2 DEF LoopWorks, BobMovesOn
    <3> QED BY <3>1, <3>3, <3>4, NoLoopIsNone DEF RunWorks
  <2>2. CASE bTask.loop # l
    <3>1. bTask.at \in {"start", "recv", "got"} => bTask.loop \in Loop
      BY <1>2 DEF RunWorks, TypesButProofs
    <3> QED BY <1>1, <1>3, <1>6, <2>2, <3>1, RunStays DEF BobMovesOn
  <2> QED BY <2>1, <2>2
<1> QED BY <1>1, <1>2, <1>3, <1>4, <1>6, <1>7, MovesOnKeeps DEF LoopWorks

\* What is stored as sent was read.
LEMMA SaveSentKeeps ==
    ASSUME MsgInv, BobSaveEncSig
    PROVE  MsgInv'
<1>1. /\ bTask.at = "sent" /\ BobMovesOn /\ encsig' = encsig /\ bTask' = NoTask
      /\ bDb' = [bDb EXCEPT ![swapOf[bTask.loop]] = "EncSigSent"]
  BY DEF BobSaveEncSig, BobMovesOn, aliceVars
<1>2. TypesButProofs /\ RunWorks
  BY Parts
<1>3. swapOf[bTask.loop] \in Swap /\ SignatureKept(swapOf[bTask.loop])
  BY <1>1, <1>2, RunHasSwap DEF RunWorks
<1>4. /\ bDb'[swapOf[bTask.loop]] = "EncSigSent"
      /\ \A t \in Swap : t # swapOf[bTask.loop] => bDb'[t] = bDb[t]
  BY <1>1, <1>2, <1>3 DEF TypesButProofs
<1>5. bTask'.loop = NoLoop /\ bTask'.at = "none"
  BY <1>1 DEF NoTask
<1>6. TypesButProofs'
  BY <1>1, <1>2 DEF TypesButProofs, BobMovesOn, NoTask
<1>7. RunWorks'
  BY <1>5, NoLoopIsNone DEF RunWorks
<1>8. \A t \in Swap : ProofKept(t) => ProofKept(t)'
  BY <1>1, <1>4 DEF ProofKept, BobMovesOn
<1> QED BY <1>1, <1>3, <1>4, <1>6, <1>7, <1>8, MovesOnKeeps

\* A proof goes to the channel of its own swap, or is stored before it is answered.
LEMMA ProofReceivedKeeps ==
    ASSUME MsgInv, NEW s \in Swap, BobProofReceived(s)
    PROVE  MsgInv'
<1> DEFINE l == proof[s].loop
           gone == [at |-> "gone", loop |-> NoLoop]
           held == [at |-> "held", loop |-> l]
           acked == [at |-> "acked", loop |-> l]
<1>1. /\ proof[s].at = "sent"
      /\ aDb' = aDb /\ aTask' = aTask /\ sender' = sender /\ letter' = letter /\ encsig' = encsig
      /\ conn' = conn /\ swapOf' = swapOf /\ bDb' = bDb /\ bTask' = bTask
      /\ forgotten' = forgotten /\ faults' = faults
  BY DEF BobProofReceived, aliceVars
<1>2. TypesButProofs /\ ProofFits(proof[s]) /\ l \in Loop /\ conn[l] = "up"
  <2>1. TypesButProofs /\ ProofFits(proof[s]) /\ ProofTravels(s)
    BY Parts
  <2> QED BY <1>1, <2>1 DEF ProofFits, ProofTravels
<1>3. [proof[s] EXCEPT !.at = "held"] = held /\ [proof[s] EXCEPT !.at = "acked"] = acked
  BY <1>2 DEF ProofFits
<1>4. \/ /\ swapOf[l] = s /\ inbox' = inbox \cup {l} /\ saved' = saved
         /\ proof' = [proof EXCEPT ![s] = held]
      \/ inbox' = inbox /\ saved' = saved /\ proof' = [proof EXCEPT ![s] = gone]
      \/ /\ saved' = saved \cup {s} /\ inbox' = inbox
         /\ proof' = [proof EXCEPT ![s] = gone] \/ proof' = [proof EXCEPT ![s] = acked]
  BY <1>3, Parts DEF BobProofReceived
<1>5. /\ \/ swapOf[l] = s /\ inbox' = inbox \cup {l} /\ proof'[s] = held
         \/ inbox' = inbox /\ proof'[s] = gone
         \/ inbox' = inbox /\ proof'[s] = acked /\ s \in saved'
      /\ \A t \in Swap : t # s => proof'[t] = proof[t]
      /\ proof' = [t \in Swap |-> proof'[t]]
      /\ saved \subseteq saved' /\ saved' \subseteq Swap /\ inbox \subseteq inbox'
      /\ inbox' \subseteq inbox \cup {l}
  BY <1>2, <1>4, Parts DEF TypesButProofs
<1>6. ProofFits(gone) /\ ProofFits(held) /\ ProofFits(acked)
  BY <1>2, FittingProofs
<1>7. /\ gone.at = "gone" /\ gone.loop \notin Loop
      /\ held.at = "held" /\ held.loop = l /\ acked.at = "acked" /\ acked.loop = l
  BY NoLoopIsNone
<1> HIDE DEF gone, held, acked
<1>8. MsgTypeOK'
  <2>1. TypesButProofs'
    BY <1>1, <1>2, <1>5 DEF TypesButProofs
  <2> QED BY <1>5, <1>6, <2>1, Parts, TypesOfNext
<1>9. \A t \in Swap : (ProofKept(t) => ProofKept(t)') /\ (SignatureKept(t) => SignatureKept(t)')
  BY <1>1, <1>5 DEF ProofKept, SignatureKept
<1>10. ASSUME NEW t \in Swap PROVE AliceWorks(t)' /\ ProofTravels(t)'
  <2>1. aTask[t] = "start" => t # s
    BY <1>1, Parts DEF AliceWorks, NoProof
  <2>2. AliceWorks(t)'
    BY <1>1, <1>5, <2>1, AliceStays
  <2>3. CASE t # s
    BY <1>1, <1>5, <2>2, <2>3, ProofTravelsOn
  <2>4. CASE t = s
    <3>1. proof'[s].at = "acked" => ProofKept(s)'
      BY <1>5, <1>7 DEF ProofKept
    <3>2. proof'[s].at = "held" => swapOf[l] = s /\ l \in inbox' /\ proof'[s].loop = l
      BY <1>5, <1>7
    <3>3. proof'[s].loop \in Loop => proof'[s].loop = l
      BY <1>5, <1>7
    <3>4. ProofTravels(s)'
      BY <1>1, <1>2, <3>1, <3>2, <3>3 DEF ProofTravels
    <3> QED BY <2>2, <2>4, <3>4
  <2> QED BY <2>3, <2>4
<1>11. ASSUME NEW k \in Loop PROVE LoopWorks(k)'
  <2>1. CASE k \in inbox' => k \in inbox
    <3>1. swapOf[k] \in Swap /\ proof[swapOf[k]].at = "held" => proof'[swapOf[k]] = proof[swapOf[k]]
      BY <1>1, <1>5
    <3> QED BY <1>1, <1>9, <2>1, <3>1, LoopStays
  <2>2. CASE k \in inbox' /\ k \notin inbox
    <3>1. k = l /\ swapOf[l] = s /\ proof'[s] = held
      BY <1>5, <2>2
    <3>2. LoopWorks(k)
      BY Parts
    <3>3. ASSUME encsig[k] = "acked" PROVE SignatureKept(swapOf[k])'
      <4>1. SignatureKept(swapOf[k])
        BY <3>2, <3>3 DEF LoopWorks
      <4> QED BY <1>1, <4>1 DEF SignatureKept
    <3> QED BY <1>1, <3>1, <3>2, <3>3 DEF LoopWorks, held
  <2> QED BY <2>1, <2>2
<1>12. RunWorks'
  BY <1>1, <1>9, RunStays
<1>13. AckedProofKept' /\ AckedSignatureKept'
  BY <1>1, <1>9, AckedStays
<1>14. BufferedOnlyWhileDisconnected'
  <2>1. \A t \in Swap : proof'[t].at = "buffered" => proof[t].at = "buffered"
    BY <1>5, <1>7
  <2> QED BY <1>1, <2>1, Parts DEF BufferedOnlyWhileDisconnected, Up
<1>15. SignatureCanArrive'
  BY <1>1, Parts DEF SignatureCanArrive
<1> QED BY <1>8, <1>10, <1>11, <1>12, <1>13, <1>14, <1>15 DEF MsgInv

\* What the steps share by which Bob's run empties its channel, which answers the proof
\* in it: Alice, the connections, the signatures and the stored states are left alone.
Emptied ==
    /\ bTask.loop \in Loop /\ Answer(bTask.loop) /\ inbox' = inbox \ {bTask.loop}
    /\ aDb' = aDb /\ aTask' = aTask /\ sender' = sender /\ letter' = letter /\ encsig' = encsig
    /\ conn' = conn /\ swapOf' = swapOf /\ bDb' = bDb /\ saved' = saved

\* A step of that kind, after which the proof of the run's swap is kept.
LEMMA EmptiedKeeps ==
    ASSUME MsgInv, Emptied, TypesButProofs', RunWorks', forgotten \subseteq forgotten',
           \A t \in Swap : ProofKept(t) => ProofKept(t)',
           \A t \in Swap : bTask.loop \in inbox /\ swapOf[bTask.loop] = t => ProofKept(t)'
    PROVE  MsgInv'
<1> DEFINE r == bTask.loop
           acked == [at |-> "acked", loop |-> r]
<1> USE DEF Emptied
<1>1. ASSUME NEW t \in Swap
      PROVE  \/ proof[t].loop = r /\ proof[t].at = "held" /\ proof'[t] = acked
             \/ ~(proof[t].loop = r /\ proof[t].at = "held") /\ proof'[t] = proof[t]
  <2>1. proof'[t] = IF proof[t].loop = r /\ proof[t].at = "held"
                    THEN [proof[t] EXCEPT !.at = "acked"] ELSE proof[t]
    BY DEF Answer
  <2>2. ProofFits(proof[t])
    BY Parts
  <2>3. [proof[t] EXCEPT !.at = "acked"] = [at |-> "acked", loop |-> proof[t].loop]
    BY <2>2 DEF ProofFits
  <2> QED BY <2>1, <2>3
<1>2. ProofFits(acked) /\ acked.at = "acked" /\ acked.loop = r
  BY FittingProofs
<1> HIDE DEF acked
<1>3. MsgTypeOK'
  <2>1. proof' = [t \in Swap |-> proof'[t]]
    BY DEF Answer
  <2>2. \A t \in Swap : ProofFits(proof'[t])
    BY <1>1, <1>2, Parts
  <2> QED BY <2>1, <2>2, TypesOfNext
<1>4. \A t \in Swap : SignatureKept(t) => SignatureKept(t)'
  BY DEF SignatureKept
<1>5. ASSUME NEW t \in Swap PROVE AliceWorks(t)' /\ ProofTravels(t)'
  <2>1. AliceWorks(t) /\ ProofTravels(t)
    BY Parts
  <2>2. aTask[t] = "start" => proof'[t] = proof[t]
    <3>1. NoProof.at # "held"
      BY DEF NoProof
    <3> QED BY <1>1, <2>1, <3>1 DEF AliceWorks
  <2>3. AliceWorks(t)'
    BY <2>2, AliceStays
  <2>4. CASE proof[t].loop = r /\ proof[t].at = "held" /\ proof'[t] = acked
    <3>1. ProofKept(t)' /\ conn[r] = "up"
      BY <2>1, <2>4 DEF ProofTravels
    <3> QED BY <1>2, <2>3, <2>4, <3>1 DEF ProofTravels
  <2>5. CASE ~(proof[t].loop = r /\ proof[t].at = "held") /\ proof'[t] = proof[t]
    BY <2>1, <2>3, <2>5 DEF ProofTravels
  <2> QED BY <1>1, <2>4, <2>5
<1>6. ASSUME NEW l \in Loop PROVE LoopWorks(l)'
  <2>1. LoopWorks(l) /\ swapOf[l] \in Swap \cup {NoSwap}
    BY Parts DEF TypesButProofs
  <2>2. ASSUME l \in inbox', conn[l] # "ended"
        PROVE  swapOf[l] \in Swap /\ proof'[swapOf[l]] = [at |-> "held", loop |-> l]
    <3>1. swapOf[l] \in Swap /\ proof[swapOf[l]] = [at |-> "held", loop |-> l] /\ l # r
      BY <2>1, <2>2 DEF LoopWorks
    <3>2. proof[swapOf[l]].loop # r
      BY <3>1
    <3> QED BY <1>1, <3>1, <3>2
  <2>3. ASSUME encsig[l] = "acked" PROVE SignatureKept(swapOf[l])'
    <3>1. SignatureKept(swapOf[l])
      BY <2>1, <2>3 DEF LoopWorks
    <3> QED BY <3>1 DEF SignatureKept
  <2> QED BY <2>1, <2>2, <2>3 DEF LoopWorks
<1>7. AckedProofKept' /\ AckedSignatureKept'
  BY <1>4, AckedStays
<1>8. BufferedOnlyWhileDisconnected'
  <2>1. \A t \in Swap : proof'[t].at = "buffered" => proof[t].at = "buffered"
    BY <1>1, <1>2
  <2> QED BY <2>1, Parts DEF BufferedOnlyWhileDisconnected, Up
<1>9. SignatureCanArrive'
  BY Parts DEF SignatureCanArrive
<1> QED BY <1>3, <1>5, <1>6, <1>7, <1>8, <1>9 DEF MsgInv

\* The swap has the proof when the proof is answered.
LEMMA TakeProofKeeps ==
    ASSUME MsgInv, BobTakeProof
    PROVE  MsgInv'
<1>1. /\ bTask.at = "recv" /\ bTask' = [bTask EXCEPT !.at = "got"]
      /\ forgotten' = forgotten /\ faults' = faults
  BY DEF BobTakeProof
<1>2. TypesButProofs /\ RunWorks /\ bTask.loop \in Loop
  BY <1>1, Parts, RunHasSwap
<1>3. Emptied
  BY <1>2 DEF BobTakeProof, Emptied, aliceVars
<1>4. bTask'.loop = bTask.loop /\ bTask'.at = "got"
  BY <1>1, <1>2 DEF TypesButProofs
<1>5. TypesButProofs'
  BY <1>1, <1>2, <1>3 DEF TypesButProofs, Emptied
<1>6. RunWorks'
  BY <1>1, <1>2, <1>3, <1>4 DEF RunWorks, Emptied
<1>7. \A t \in Swap : ProofKept(t) => ProofKept(t)'
  BY <1>1, <1>3 DEF ProofKept, Emptied
<1>8. \A t \in Swap : bTask.loop \in inbox /\ swapOf[bTask.loop] = t => ProofKept(t)'
  BY <1>3, <1>4 DEF ProofKept, Emptied
<1> QED BY <1>1, <1>3, <1>5, <1>6, <1>7, <1>8, EmptiedKeeps

\* A run that ends before it has stored the proof forgets it, and says so.
LEMMA RunEndsKeeps ==
    ASSUME MsgInv, BobStop \/ BobLoopReturned
    PROVE  MsgInv'
<1>1. /\ bTask # NoTask /\ bTask' = NoTask
      /\ forgotten' = IF bTask.at = "got" \/ bTask.loop \in inbox
                      THEN forgotten \cup {swapOf[bTask.loop]} ELSE forgotten
      /\ \/ faults < MaxFaults /\ faults' = faults + 1
         \/ faults' = faults
  BY DEF BobStop, BobLoopReturned, BobRunEnds, Fault
<1>2. TypesButProofs /\ RunWorks
  BY Parts
<1>3. bTask.at # "none"
  <2>1. bTask = [loop |-> bTask.loop, at |-> bTask.at]
    BY <1>2 DEF TypesButProofs
  <2> QED BY <1>1, <1>2, <2>1 DEF RunWorks, NoTask
<1>4. bTask.loop \in Loop /\ swapOf[bTask.loop] \in Swap
  BY <1>3, RunHasSwap
<1>5. Emptied
  BY <1>4 DEF BobStop, BobLoopReturned, BobRunEnds, Emptied, aliceVars
<1>6. bTask'.loop = NoLoop /\ bTask'.at = "none"
  BY <1>1 DEF NoTask
<1>7. TypesButProofs'
  <2>1. faults' \in 0..MaxFaults
    BY <1>1, <1>2, MessagingAssumption DEF TypesButProofs
  <2>2. forgotten' \subseteq Swap
    BY <1>1, <1>2, <1>4 DEF TypesButProofs
  <2> QED BY <1>1, <1>2, <1>5, <2>1, <2>2 DEF TypesButProofs, Emptied, NoTask
<1>8. RunWorks'
  BY <1>6, NoLoopIsNone DEF RunWorks
<1>9. \A t \in Swap : ProofKept(t) => ProofKept(t)'
  BY <1>1, <1>5 DEF ProofKept, Emptied
<1>10. \A t \in Swap : bTask.loop \in inbox /\ swapOf[bTask.loop] = t => ProofKept(t)'
  BY <1>1, <1>5 DEF ProofKept, Emptied
<1> QED BY <1>1, <1>5, <1>7, <1>8, <1>9, <1>10, EmptiedKeeps

-----------------------------------------------------------------------------
(* The invariant and the properties                                        *)

\* The event loops and the swaps behind them keep their invariant.
THEOREM MessagingInvariance == MsgSpec => []MsgInv
<1>1. MsgInit => MsgInv
  <2> SUFFICES ASSUME MsgInit PROVE MsgInv
    OBVIOUS
  <2>1. NoProof.at = "none" /\ NoProof.loop \notin Loop /\ NoTask.at = "none" /\ NoTask.loop = NoLoop
    BY NoLoopIsNone DEF NoProof, NoTask
  <2>2. MsgTypeOK
    <3>1. TypesButProofs
      BY MessagingAssumption DEF MsgInit, TypesButProofs, EncSigState, ConnState, NoTask
    <3>2. proof = [s \in Swap |-> proof[s]] /\ \A s \in Swap : ProofFits(proof[s])
      BY FittingProofs DEF MsgInit
    <3> QED BY <3>1, <3>2, TypesOf
  <2>3. Up = {} /\ ~AliceRuns
    BY DEF MsgInit, Up, AliceRuns
  <2>4. \A s \in Swap : AliceWorks(s) /\ ProofTravels(s)
    BY <2>1, <2>3 DEF MsgInit, AliceWorks, ProofTravels
  <2>5. \A l \in Loop : LoopWorks(l)
    BY DEF MsgInit, LoopWorks
  <2>6. RunWorks
    BY <2>1, NoLoopIsNone DEF MsgInit, RunWorks
  <2>7. AckedProofKept /\ AckedSignatureKept /\ BufferedOnlyWhileDisconnected /\ SignatureCanArrive
    BY <2>3 DEF MsgInit, AckedProofKept, AckedSignatureKept, BufferedOnlyWhileDisconnected,
         SignatureCanArrive
  <2> QED BY <2>2, <2>4, <2>5, <2>6, <2>7 DEF MsgInv
<1>2. MsgInv /\ [MsgNext]_msgVars => MsgInv'
  <2> SUFFICES ASSUME MsgInv, [MsgNext]_msgVars PROVE MsgInv'
    OBVIOUS
  <2>1. CASE AliceStart \/ AliceStop
    BY <2>1, AliceStartKeeps, AliceStopKeeps
  <2>2. ASSUME NEW s \in Swap, AliceSwapStep(s) \/ BobProofReceived(s) PROVE MsgInv'
    BY <2>2, SendProofKeeps, ProofAckedKeeps, ReadOrExpireKeeps, SaveEncSigKeeps,
       ProofReceivedKeeps DEF AliceSwapStep
  <2>3. ASSUME NEW l \in Loop, LoopStep(l) PROVE MsgInv'
    BY <2>3, EncSigReceivedKeeps, ConnectKeeps, NoConnectionKeeps, LossKeeps, BobStartKeeps,
       LoopEncSigKeeps, EncSigAckedKeeps DEF LoopStep
  <2>4. CASE BobStep
    BY <2>4, BtcLockedKeeps, TakeProofKeeps, SaveProofKeeps, SaveSentKeeps, RunEndsKeeps DEF BobStep
  <2>5. CASE UNCHANGED msgVars
    <3>1. BobMovesOn /\ bTask' = bTask /\ bDb' = bDb /\ encsig' = encsig
      BY <2>5 DEF msgVars, BobMovesOn
    <3>2. \A t \in Swap : (ProofKept(t) => ProofKept(t)') /\ (SignatureKept(t) => SignatureKept(t)')
      BY <3>1 DEF ProofKept, SignatureKept, BobMovesOn
    <3>3. RunWorks'
      BY <3>1, <3>2, RunStays DEF BobMovesOn
    <3>4. TypesButProofs'
      BY <3>1, Parts DEF TypesButProofs, BobMovesOn
    <3> QED BY <3>1, <3>2, <3>3, <3>4, MovesOnKeeps
  <2> QED BY <2>1, <2>2, <2>3, <2>4, <2>5 DEF MsgNext
<1> QED BY <1>1, <1>2, PTL DEF MsgSpec

\* What was acknowledged is kept on the other side, for any number of swaps, event loops
\* and losses: proofs by Bob, signatures by Alice.
THEOREM AckedIsKeptHolds == MsgSpec => []AckedIsKept
<1>1. MsgInv => AckedIsKept
  BY DEF MsgInv, AckedIsKept
<1> QED BY <1>1, MessagingInvariance, PTL

\* No proof stays in a buffer beside a connection, no signature lacks a sender or a channel,
\* and no proof finds its channel full.
THEOREM NothingStrandedHolds == MsgSpec => []NothingStranded
<1>1. ASSUME MsgInv PROVE NothingStranded
  <2>1. ChannelHasRoom
    <3> SUFFICES ASSUME NEW s \in Swap, proof[s].at = "sent", swapOf[proof[s].loop] = s,
                        proof[s].loop \in inbox
                 PROVE  FALSE
      BY DEF ChannelHasRoom
    <3>1. ProofFits(proof[s]) /\ ProofTravels(s)
      BY <1>1, Parts
    <3>2. proof[s].loop \in Loop /\ conn[proof[s].loop] = "up"
      BY <3>1 DEF ProofFits, ProofTravels
    <3>3. proof[s] = [at |-> "held", loop |-> proof[s].loop]
      BY <1>1, <3>2, Parts DEF LoopWorks
    <3>4. proof[s].at = "held"
      BY <3>3
    <3> QED BY <3>4
  <2> QED BY <1>1, <2>1 DEF MsgInv, NothingStranded
<1> QED BY <1>1, MessagingInvariance, PTL
=============================================================================
