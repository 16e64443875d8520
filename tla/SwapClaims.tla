----------------------------- MODULE SwapClaims -----------------------------
(***************************************************************************)
(* What comments, tests and docs of the repository say about a swap and    *)
(* the code does not deliver.  Each property has a run in which TLC finds  *)
(* a behaviour of the code that violates it.                               *)
(***************************************************************************)
EXTENDS SwapProtocol

\* "Only swaps in a state prior to locking XMR can be safely aborted."
\* (CHANGELOG): a safely aborted swap has no locked BDX.
AbortedBeforeLocking == aDb = "SafelyAborted" => bdx = "none"

\* "Alice took too long to lock Beldex, cancelling the swap" (bob/swap.rs):
\* when Alice never locks, the swap is cancelled and Bob gets his bitcoin back.
BobRefundsAfterExpiry ==
    (bDb = "CancelTimelockExpired" /\ bdx = "none") ~> HasBeenSeen("refund")
=============================================================================
