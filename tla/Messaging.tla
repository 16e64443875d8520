------------------------------ MODULE Messaging ------------------------------
(***************************************************************************)
(* How a transfer proof travels from Alice's swap to Bob's and the         *)
(* encrypted signature back: the two event loops (asb/event_loop.rs,       *)
(* cli/event_loop.rs), the handles through which the swaps talk to them,   *)
(* and Bob's re-dialling (network/redial.rs).                              *)
(*                                                                         *)
(* Alice's process runs all her swaps over one event loop.  Bob runs one   *)
(* swap at a time, each run over an event loop of its own, which is        *)
(* detached and goes on when the run ends: all of them are the same peer   *)
(* to Alice, so a request of hers may reach any that is connected.         *)
(*                                                                         *)
(* libp2p and the bmrng channels are external.  A request is answered,     *)
(* fails after ten seconds or with its connection; dropping a response     *)
(* channel fails the request.  A response receiver is resolved when the    *)
(* request is answered or dropped.                                         *)
(***************************************************************************)
EXTENDS FiniteSets, Naturals

CONSTANTS
    Swap,        \* swaps of this Alice with this Bob
    NoSwap,
    MaxLoops,    \* bound on the event loops that Bob starts
    MaxFaults    \* bound on connection losses and stops of Alice or of Bob's runs

ASSUME MessagingAssumption ==
    NoSwap \notin Swap /\ MaxLoops \in Nat /\ MaxFaults \in Nat

\* Bob's event loops, numbered in the order in which they are started.
Loop == 1..MaxLoops
NoLoop == 0

VARIABLES
    aDb,       \* Alice's stored state of each swap
    aTask,     \* where Alice's task of each swap is
    sender,    \* swaps with an entry in recv_encrypted_signature
    letter,    \* swaps whose channel holds an unread encrypted signature
    proof,     \* the transfer proof of each swap
    encsig,    \* the encrypted signature of each loop's swap
    swapOf,    \* the swap a loop was started for
    conn,      \* the connection of each loop
    inbox,     \* loops whose channel to the swap holds an unread proof
    bDb,       \* Bob's stored state of each swap
    saved,     \* swaps with a row in buffered_transfer_proofs
    bTask,     \* the run in progress: its loop and where it is
    forgotten, \* history: swaps that lost a message to a stop before it was saved
    faults     \* history: losses and stops so far

aliceVars == <<aDb, aTask, sender, letter>>
bobVars == <<swapOf, inbox, bDb, saved, bTask>>
msgVars == <<aDb, aTask, sender, letter, proof, encsig, swapOf, conn, inbox, bDb, saved,
             bTask, forgotten, faults>>

\* buffered: waiting for a connection; sent; held: passed on to Bob's swap; acked:
\* the answer is on its way.
ProofState == {"none", "buffered", "sent", "held", "acked", "gone"}
\* queued: waiting for a connection; relayed: passed on to Alice's swap; omitted:
\* ignored, so that no answer will come.
EncSigState == {"none", "queued", "sent", "relayed", "omitted", "acked", "gone"}
\* stuck: the first dial failed; down: waiting to dial again.
ConnState == {"unused", "dialling", "stuck", "up", "down", "ended"}

MsgTypeOK ==
    /\ aDb \in [Swap -> {"BeldexLocked", "ProofSent", "EncSigLearned", "Expired"}]
    /\ aTask \in [Swap -> {"off", "start", "acking", "wait", "learned"}]
    /\ sender \subseteq Swap /\ letter \subseteq Swap
    /\ proof \in [Swap -> [at : ProofState, loop : Loop \cup {NoLoop}]]
    /\ \A s \in Swap : proof[s].loop \in Loop <=> proof[s].at \in {"sent", "held", "acked"}
    /\ encsig \in [Loop -> EncSigState]
    /\ swapOf \in [Loop -> Swap \cup {NoSwap}]
    /\ conn \in [Loop -> ConnState]
    /\ inbox \subseteq Loop
    /\ bDb \in [Swap -> {"BtcLocked", "ProofReceived", "EncSigSent"}]
    /\ saved \subseteq Swap
    /\ bTask \in [loop : Loop \cup {NoLoop}, at : {"none", "start", "recv", "got", "sending", "sent"}]
    /\ forgotten \subseteq Swap
    /\ faults \in 0..MaxFaults

NoTask == [loop |-> NoLoop, at |-> "none"]
NoProof == [at |-> "none", loop |-> NoLoop]

\* Alice has transferred her BDX in every swap and Bob has locked his bitcoin.
MsgInit ==
    /\ aDb = [s \in Swap |-> "BeldexLocked"]
    /\ aTask = [s \in Swap |-> "off"]
    /\ sender = {} /\ letter = {}
    /\ proof = [s \in Swap |-> NoProof]
    /\ encsig = [l \in Loop |-> "none"]
    /\ swapOf = [l \in Loop |-> NoSwap]
    /\ conn = [l \in Loop |-> "unused"]
    /\ inbox = {}
    /\ bDb = [s \in Swap |-> "BtcLocked"]
    /\ saved = {}
    /\ bTask = NoTask
    /\ forgotten = {}
    /\ faults = 0

Up == {l \in Loop : conn[l] = "up"}
Unfinished(s) == aDb[s] \in {"BeldexLocked", "ProofSent"}
AliceRuns == \E s \in Swap : aTask[s] # "off"
LoopHolds(l) == \E s \in Swap : proof[s].loop = l /\ proof[s].at = "held"

\* The handle of a loop is alive while the run that it was started for goes on.
Live(l) == bTask.loop = l

Fault == faults < MaxFaults /\ faults' = faults + 1

\* The proofs, after the connections of the loops L are gone.
ProofsLost(L) ==
    [s \in Swap |-> IF proof[s].loop \in L THEN [at |-> "gone", loop |-> NoLoop] ELSE proof[s]]

\* Bob's event loop returns at every failed request, and a connection that is
\* lost fails those in flight; otherwise redial waits to dial again.
InFlight(l) == LoopHolds(l) \/ encsig[l] \in {"sent", "relayed", "omitted", "acked"}

\* Mutant: nothing triggers another dial.
AfterLossNoRedial(l) == IF InFlight(l) THEN "ended" ELSE "stuck"

\* Mutant: a failed request is only logged, as Alice's event loop does.
AfterLossLogged(l) == "down"

AfterLoss(l) == IF InFlight(l) THEN "ended" ELSE "down"

\* The connections of the loops L are lost.
Disconnected(L) ==
    /\ conn' = [l \in Loop |-> IF l \in L THEN AfterLoss(l) ELSE conn[l]]
    /\ encsig' = [l \in Loop |->
                    IF l \in L /\ encsig[l] \notin {"none", "queued"} THEN "gone" ELSE encsig[l]]

-----------------------------------------------------------------------------
(* Alice                                                                   *)

\* run: every unfinished swap gets a handle (new_handle) and is resumed; the
\* swap task handles BeldexLocked or BeldexLockTransferProofSent first.
AliceStart ==
    /\ ~AliceRuns
    /\ \E s \in Swap : Unfinished(s)
    /\ aTask' = [s \in Swap |-> CASE aDb[s] = "BeldexLocked" -> "start"
                                  [] aDb[s] = "ProofSent" -> "wait"
                                  [] OTHER -> "off"]
    /\ sender' = {s \in Swap : Unfinished(s)}
    /\ proof' = [s \in Swap |-> NoProof]
    /\ UNCHANGED <<aDb, letter, encsig, conn, bobVars, forgotten, faults>>

\* The process stops: all its connections are lost.
AliceStop ==
    /\ AliceRuns
    /\ Fault
    /\ aTask' = [s \in Swap |-> "off"]
    /\ sender' = {} /\ letter' = {}
    /\ forgotten' = forgotten \cup letter \cup {s \in Swap : aTask[s] = "learned"}
    /\ proof' = [s \in Swap |-> NoProof]
    /\ Disconnected(Up)
    /\ UNCHANGED <<aDb, bobVars>>

\* send_transfer_proof: the handle gives the proof to the event loop, which sends
\* it over some connection or buffers it; the swap waits for the answer.
AliceSendProof(s) ==
    /\ aTask[s] = "start"
    /\ aTask' = [aTask EXCEPT ![s] = "acking"]
    /\ \/ Up = {} /\ proof' = [proof EXCEPT ![s].at = "buffered"]
       \/ \E l \in Up : proof' = [proof EXCEPT ![s] = [at |-> "sent", loop |-> l]]
    /\ UNCHANGED <<aDb, sender, letter, encsig, conn, bobVars, forgotten, faults>>

\* Mutant: the request stays among those in flight.
AliceProofAckedKept(s) ==
    /\ proof[s].at = "acked"
    /\ proof' = [proof EXCEPT ![s].at = "gone"]
    /\ IF aTask[s] = "acking"
       THEN /\ aTask' = [aTask EXCEPT ![s] = "wait"]
            /\ aDb' = [aDb EXCEPT ![s] = "ProofSent"]
       ELSE UNCHANGED <<aTask, aDb>>
    /\ UNCHANGED <<sender, letter, encsig, conn, bobVars, forgotten, faults>>

\* TransferProofAcknowledged; the swap stores BeldexLockTransferProofSent.
AliceProofAcked(s) ==
    /\ proof[s].at = "acked"
    /\ proof' = [proof EXCEPT ![s] = [at |-> "gone", loop |-> NoLoop]]
    /\ IF aTask[s] = "acking"
       THEN /\ aTask' = [aTask EXCEPT ![s] = "wait"]
            /\ aDb' = [aDb EXCEPT ![s] = "ProofSent"]
       ELSE UNCHANGED <<aTask, aDb>>
    /\ UNCHANGED <<sender, letter, encsig, conn, bobVars, forgotten, faults>>

\* The swap's channel can take the signature while the swap may still read it.
Reads(s) == aTask[s] \in {"start", "acking", "wait"}

Relayed(l) == swapOf[l] \in sender /\ Reads(swapOf[l])

\* Mutant: the sender is taken out of the map and the signature dropped, unless
\* the swap is waiting for it already.
AliceEncSigTooEarly(l) ==
    /\ encsig[l] = "sent"
    /\ sender' = sender \ {swapOf[l]}
    /\ letter' = IF Relayed(l) /\ aTask[swapOf[l]] = "wait" THEN letter \cup {swapOf[l]} ELSE letter
    /\ encsig' = [encsig EXCEPT ![l] = IF Relayed(l) THEN "relayed" ELSE "omitted"]
    /\ UNCHANGED <<aDb, aTask, proof, conn, bobVars, forgotten, faults>>

\* Mutant: the signature is answered as soon as it is in the channel.
AliceEncSigAckedEarly(l) ==
    /\ encsig[l] = "sent"
    /\ sender' = sender \ {swapOf[l]}
    /\ letter' = IF Relayed(l) THEN letter \cup {swapOf[l]} ELSE letter
    /\ encsig' = [encsig EXCEPT ![l] = IF Relayed(l) THEN "acked" ELSE "omitted"]
    /\ UNCHANGED <<aDb, aTask, proof, conn, bobVars, forgotten, faults>>

\* EncryptedSignatureReceived: the sender is used up; without one, or when the
\* swap has dropped its end, the request is ignored.
AliceEncSigReceived(l) ==
    /\ encsig[l] = "sent"
    /\ sender' = sender \ {swapOf[l]}
    /\ letter' = IF Relayed(l) THEN letter \cup {swapOf[l]} ELSE letter
    /\ encsig' = [encsig EXCEPT ![l] = IF Relayed(l) THEN "relayed" ELSE "omitted"]
    /\ UNCHANGED <<aDb, aTask, proof, conn, bobVars, forgotten, faults>>

\* inflight_encrypted_signatures: the receiver of the request that brought the
\* signature of s is resolved, so the event loop answers the request.
Resolved(s) ==
    encsig' = [l \in Loop |-> IF encsig[l] = "relayed" /\ swapOf[l] = s THEN "acked" ELSE encsig[l]]

\* recv_encrypted_signature: the swap reads the signature, answering it.
AliceTakeEncSig(s) ==
    /\ aTask[s] = "wait"
    /\ s \in letter
    /\ letter' = letter \ {s}
    /\ aTask' = [aTask EXCEPT ![s] = "learned"]
    /\ Resolved(s)
    /\ UNCHANGED <<aDb, sender, proof, conn, bobVars, forgotten, faults>>

\* EncSigLearned is stored; the swap needs no more messages.
AliceSaveEncSig(s) ==
    /\ aTask[s] = "learned"
    /\ aDb' = [aDb EXCEPT ![s] = "EncSigLearned"]
    /\ aTask' = [aTask EXCEPT ![s] = "off"]
    /\ UNCHANGED <<sender, letter, proof, encsig, conn, bobVars, forgotten, faults>>

\* The cancel timelock wins the select.  A signature in the channel is dropped,
\* which resolves the receiver that the event loop waits for.
AliceExpire(s) ==
    /\ aTask[s] \in {"acking", "wait"}
    /\ aTask' = [aTask EXCEPT ![s] = "off"]
    /\ aDb' = [aDb EXCEPT ![s] = "Expired"]
    /\ letter' = letter \ {s}
    /\ Resolved(s)
    /\ UNCHANGED <<sender, proof, conn, bobVars, forgotten, faults>>

-----------------------------------------------------------------------------
(* The connection                                                          *)

\* Mutant: buffered proofs wait for a disconnected peer's next proof.
EstablishedIgnored(l) ==
    /\ conn' = [conn EXCEPT ![l] = "up"]
    /\ UNCHANGED proof

\* ConnectionEstablished at Alice: all buffered proofs are sent, each over some
\* connection of the peer.
Established(l) ==
    /\ conn' = [conn EXCEPT ![l] = "up"]
    /\ \E via \in [Swap -> Up \cup {l}] :
          proof' = [s \in Swap |-> IF proof[s].at = "buffered"
                                   THEN [at |-> "sent", loop |-> via[s]] ELSE proof[s]]

Connect(l) ==
    /\ conn[l] \in {"dialling", "down"}
    /\ AliceRuns
    /\ Established(l)
    /\ UNCHANGED <<aliceVars, encsig, bobVars, forgotten, faults>>

\* redial sleeps only after a connection was lost, so a first dial that fails is
\* never repeated.
DialFails(l) ==
    /\ conn[l] = "dialling"
    /\ conn' = [conn EXCEPT ![l] = "stuck"]
    /\ UNCHANGED <<aliceVars, proof, encsig, bobVars, forgotten, faults>>

\* AllRedialAttemptsExhausted: five minutes without a connection.
RedialExhausted(l) ==
    /\ conn[l] = "down"
    /\ conn' = [conn EXCEPT ![l] = "ended"]
    /\ UNCHANGED <<aliceVars, proof, encsig, bobVars, forgotten, faults>>

ConnectionLost(l) ==
    /\ conn[l] = "up"
    /\ Fault
    /\ Disconnected({l})
    /\ proof' = ProofsLost({l})
    /\ UNCHANGED <<aliceVars, bobVars, forgotten>>

\* A request that is not answered in ten seconds, or whose response channel was
\* dropped, is a Failure to Bob's event loop: it returns, closing the connection.
RequestFails(l) ==
    /\ conn[l] = "up"
    /\ LoopHolds(l) \/ encsig[l] \in {"sent", "relayed", "omitted"}
    /\ Disconnected({l})
    /\ proof' = ProofsLost({l})
    /\ UNCHANGED <<aliceVars, bobVars, forgotten, faults>>

-----------------------------------------------------------------------------
(* Bob                                                                     *)

\* resume_swap starts an event loop, which dials Alice, and runs the swap.
BobStart(s, l) ==
    /\ bTask = NoTask
    /\ \A k \in Loop : conn[k] = "unused" <=> k >= l
    /\ bDb[s] # "EncSigSent"
    /\ conn' = [conn EXCEPT ![l] = "dialling"]
    /\ swapOf' = [swapOf EXCEPT ![l] = s]
    /\ IF bDb[s] = "BtcLocked"
       THEN bTask' = [loop |-> l, at |-> "start"] /\ UNCHANGED encsig
       ELSE bTask' = [loop |-> l, at |-> "sending"] /\ encsig' = [encsig EXCEPT ![l] = "queued"]
    /\ UNCHANGED <<aliceVars, proof, inbox, bDb, saved, forgotten, faults>>

\* BtcLocked: a proof in the database is used, otherwise the swap waits for one.
BobBtcLocked ==
    /\ bTask.at = "start"
    /\ bTask' = [bTask EXCEPT !.at = IF swapOf[bTask.loop] \in saved THEN "got" ELSE "recv"]
    /\ UNCHANGED <<aliceVars, proof, encsig, conn, swapOf, inbox, bDb, saved, forgotten, faults>>

\* Mutant: a proof for another swap is acknowledged without storing it.
BobProofReceivedUnsaved(s) ==
    LET l == proof[s].loop IN
    /\ proof[s].at = "sent"
    /\ IF swapOf[l] = s
       THEN /\ inbox' = IF Live(l) THEN inbox \cup {l} ELSE inbox
            /\ proof' = [proof EXCEPT ![s] = IF Live(l) THEN [@ EXCEPT !.at = "held"]
                                             ELSE [at |-> "gone", loop |-> NoLoop]]
       ELSE proof' = [proof EXCEPT ![s].at = "acked"] /\ UNCHANGED inbox
    /\ UNCHANGED <<aliceVars, encsig, conn, swapOf, bDb, bTask, saved, forgotten, faults>>

\* TransferProofReceived.  A proof for the loop's own swap goes to the swap's
\* channel, or is ignored when the handle is gone; a proof for another swap with
\* this Alice is stored in the database and acknowledged.  A second copy is neither:
\* swap_id is the table's primary key.
BobProofReceived(s) ==
    LET l == proof[s].loop IN
    /\ proof[s].at = "sent"
    /\ IF swapOf[l] = s
       THEN /\ inbox' = IF Live(l) THEN inbox \cup {l} ELSE inbox
            /\ proof' = [proof EXCEPT ![s] = IF Live(l) THEN [@ EXCEPT !.at = "held"]
                                             ELSE [at |-> "gone", loop |-> NoLoop]]
            /\ UNCHANGED saved
       ELSE /\ saved' = saved \cup {s}
            /\ proof' = [proof EXCEPT ![s] = IF s \in saved THEN [at |-> "gone", loop |-> NoLoop]
                                             ELSE [@ EXCEPT !.at = "acked"]]
            /\ UNCHANGED inbox
    /\ UNCHANGED <<aliceVars, encsig, conn, swapOf, bDb, bTask, forgotten, faults>>

\* The proof that loop l holds, if any, is answered: pending_transfer_proof.
Answer(l) ==
    proof' = [s \in Swap |-> IF proof[s].loop = l /\ proof[s].at = "held"
                             THEN [proof[s] EXCEPT !.at = "acked"] ELSE proof[s]]

\* recv_transfer_proof: the swap reads the proof, which answers it.
BobTakeProof ==
    /\ bTask.at = "recv"
    /\ bTask.loop \in inbox
    /\ inbox' = inbox \ {bTask.loop}
    /\ bTask' = [bTask EXCEPT !.at = "got"]
    /\ Answer(bTask.loop)
    /\ UNCHANGED <<aliceVars, encsig, conn, swapOf, bDb, saved, forgotten, faults>>

\* BeldexLockProofReceived is stored.  When the BDX are confirmed, the swap calls
\* send_encrypted_signature, which waits for the answer without a timeout.
BobSaveProof ==
    /\ bTask.at = "got"
    /\ bDb' = [bDb EXCEPT ![swapOf[bTask.loop]] = "ProofReceived"]
    /\ bTask' = [bTask EXCEPT !.at = "sending"]
    /\ encsig' = [encsig EXCEPT ![bTask.loop] = "queued"]
    /\ UNCHANGED <<aliceVars, proof, conn, swapOf, inbox, saved, forgotten, faults>>

\* The event loop reads requests of the swap only while it is connected.
BobLoopEncSig(l) ==
    /\ encsig[l] = "queued"
    /\ conn[l] = "up"
    /\ encsig' = [encsig EXCEPT ![l] = "sent"]
    /\ UNCHANGED <<aliceVars, proof, conn, bobVars, forgotten, faults>>

\* EncryptedSignatureAcknowledged; the swap goes on and stores EncSigSent.
BobEncSigAcked(l) ==
    /\ encsig[l] = "acked"
    /\ encsig' = [encsig EXCEPT ![l] = "none"]
    /\ bTask' = IF Live(l) THEN [bTask EXCEPT !.at = "sent"] ELSE bTask
    /\ UNCHANGED <<aliceVars, proof, conn, swapOf, inbox, bDb, saved, forgotten, faults>>

BobSaveEncSig ==
    /\ bTask.at = "sent"
    /\ bDb' = [bDb EXCEPT ![swapOf[bTask.loop]] = "EncSigSent"]
    /\ bTask' = NoTask
    /\ UNCHANGED <<aliceVars, proof, encsig, conn, swapOf, inbox, saved, forgotten, faults>>

\* The run is over and its handle dropped, with a proof that may be unread: the
\* detached event loop answers that proof.
BobRunEnds ==
    /\ bTask' = NoTask
    /\ inbox' = inbox \ {bTask.loop}
    /\ forgotten' = IF bTask.at = "got" \/ bTask.loop \in inbox
                    THEN forgotten \cup {swapOf[bTask.loop]} ELSE forgotten
    /\ Answer(bTask.loop)
    /\ UNCHANGED <<aliceVars, encsig, conn, swapOf, bDb, saved>>

\* The run is suspended or a step of the swap fails.
BobStop ==
    /\ bTask # NoTask
    /\ Fault
    /\ BobRunEnds

\* The select around the run notices that the event loop has returned.
BobLoopReturned ==
    /\ bTask # NoTask
    /\ conn[bTask.loop] = "ended"
    /\ BobRunEnds
    /\ UNCHANGED faults

-----------------------------------------------------------------------------

AliceSwapStep(s) ==
    \/ AliceSendProof(s) \/ AliceProofAcked(s)
    \/ AliceTakeEncSig(s) \/ AliceSaveEncSig(s) \/ AliceExpire(s)

LoopStep(l) ==
    \/ AliceEncSigReceived(l)
    \/ Connect(l) \/ DialFails(l) \/ RedialExhausted(l) \/ ConnectionLost(l)
    \/ RequestFails(l)
    \/ \E s \in Swap : BobStart(s, l)
    \/ BobLoopEncSig(l) \/ BobEncSigAcked(l)

BobStep ==
    \/ BobBtcLocked \/ BobTakeProof \/ BobSaveProof
    \/ BobSaveEncSig
    \/ BobStop \/ BobLoopReturned

MsgNext ==
    \/ AliceStart \/ AliceStop
    \/ \E s \in Swap : AliceSwapStep(s) \/ BobProofReceived(s)
    \/ \E l \in Loop : LoopStep(l)
    \/ BobStep

\* Tasks that are ready run, the backoff of redial ends, and libp2p delivers a
\* request or reports its failure.
MsgFairness ==
    /\ WF_msgVars(BobLoopReturned)
    /\ \A l \in Loop :
        /\ WF_msgVars(Connect(l)) /\ WF_msgVars(RedialExhausted(l))
        /\ WF_msgVars(BobLoopEncSig(l)) /\ WF_msgVars(BobEncSigAcked(l))
        /\ WF_msgVars(AliceEncSigReceived(l))
        /\ WF_msgVars(RequestFails(l))

MsgSpec == MsgInit /\ [][MsgNext]_msgVars
FairMsgSpec == MsgSpec /\ MsgFairness

-----------------------------------------------------------------------------

\* Bob has the proof, stored or in the memory of his running swap; or a stop of his swap
\* between the channel and the database has lost it.
ProofKept(s) ==
    \/ bDb[s] # "BtcLocked"
    \/ s \in saved
    \/ bTask.at = "got" /\ swapOf[bTask.loop] = s
    \/ s \in forgotten

\* Alice's swap has read the signature; or the timelock has ended her wait, or a stop came
\* between the channel and the database.
SignatureKept(s) ==
    \/ aDb[s] \in {"EncSigLearned", "Expired"}
    \/ aTask[s] = "learned"
    \/ s \in forgotten

\* Once Alice has recorded that her proof was acknowledged, Bob has it, whichever of his
\* event loops received it and however connections failed.
AckedProofKept ==
    \A s \in Swap : aDb[s] \in {"ProofSent", "EncSigLearned"} => ProofKept(s)

\* A signature that Bob has recorded as sent was read by Alice's swap.
AckedSignatureKept == \A s \in Swap : bDb[s] = "EncSigSent" => SignatureKept(s)

\* A proof is buffered only while no event loop of Bob is connected: whatever the
\* order of reconnecting and sending, no proof is left behind in the buffer.
BufferedOnlyWhileDisconnected ==
    (\E s \in Swap : proof[s].at = "buffered") => Up = {}

\* While Alice's swap waits for the signature, it can still arrive: its sender is
\* in the map of the event loop or has put the signature into the channel.
SignatureCanArrive ==
    \A s \in Swap : aTask[s] \in {"start", "acking", "wait"} =>
        s \in sender \cup letter

\* The channel of one proof never makes Bob's event loop wait for his swap: when a
\* proof arrives, the channel is empty, even if Alice restarts and sends it again.
ChannelHasRoom ==
    \A s \in Swap : proof[s].at = "sent" /\ swapOf[proof[s].loop] = s /\ Live(proof[s].loop)
        => proof[s].loop \notin inbox

\* Over an event loop that was once connected, a swap that sends the encrypted
\* signature does not wait for ever, though the channel has no timeout: Alice
\* answers, or the loop gives up and ends the run.
SendingConcludes ==
    \A l \in Loop :
        (bTask = [loop |-> l, at |-> "sending"] /\ conn[l] \in {"up", "down", "ended"})
            ~> (bTask # [loop |-> l, at |-> "sending"])

\* What was acknowledged, in either direction, is not lost: Alice never waits for an
\* answer to a proof that Bob does not have, nor Bob for TxRedeem from an Alice who does
\* not have his signature, whatever the connections and the event loops went through.
AckedIsKept == AckedProofKept /\ AckedSignatureKept

\* No message is stranded on the way: a buffered proof goes out with the next
\* connection, a signature finds the sender or the channel of its swap, and a proof
\* the channel of Bob's swap.
NothingStranded ==
    /\ MsgTypeOK
    /\ BufferedOnlyWhileDisconnected
    /\ SignatureCanArrive
    /\ ChannelHasRoom

-----------------------------------------------------------------------------
(* The inductive invariant behind both                                     *)

\* A task of Alice's is where its stored state has it.  Her process runs all of the
\* unfinished swaps or none, and has no connection when it runs none of them.
AliceWorks(s) ==
    /\ aTask[s] \in {"start", "acking"} => aDb[s] = "BeldexLocked"
    /\ aTask[s] \in {"wait", "learned"} => aDb[s] = "ProofSent"
    /\ aTask[s] = "start" => proof[s] = NoProof
    /\ aTask[s] = "off" /\ Unfinished(s) => ~AliceRuns /\ Up = {}

\* A proof is on a connection.  It waits in the channel of its own swap, or is kept
\* before it is answered.
ProofTravels(s) ==
    /\ proof[s].loop \in Loop => conn[proof[s].loop] = "up"
    /\ proof[s].at = "held" => swapOf[proof[s].loop] = s /\ proof[s].loop \in inbox
    /\ proof[s].at = "acked" => ProofKept(s)

\* A channel holds the proof that its loop has not answered, unless the loop has ended; a
\* signature is kept before it is answered.
LoopWorks(l) ==
    /\ conn[l] = "unused" <=> swapOf[l] = NoSwap
    /\ conn[l] = "unused" => encsig[l] = "none"
    /\ l \in inbox /\ conn[l] # "ended" =>
         swapOf[l] \in Swap /\ proof[swapOf[l]] = [at |-> "held", loop |-> l]
    /\ encsig[l] = "acked" => SignatureKept(swapOf[l])

\* Bob's run has a loop of its own and sends nothing before it has the proof.
RunWorks ==
    /\ bTask.loop = NoLoop <=> bTask.at = "none"
    /\ bTask.loop \in Loop => conn[bTask.loop] # "unused"
    /\ bTask.at \in {"start", "recv", "got"} => encsig[bTask.loop] = "none"
    /\ bTask.at = "sent" => SignatureKept(swapOf[bTask.loop])

MsgInv ==
    /\ MsgTypeOK
    /\ \A s \in Swap : AliceWorks(s) /\ ProofTravels(s)
    /\ \A l \in Loop : LoopWorks(l)
    /\ RunWorks
    /\ AckedProofKept /\ AckedSignatureKept
    /\ BufferedOnlyWhileDisconnected /\ SignatureCanArrive
=============================================================================
