------------------------------- MODULE MCSwap -------------------------------
(***************************************************************************)
(* The instances of SwapProtocol that TLC checks.  The timelocks of two    *)
(* blocks leave room for one block in which TxLock is final and the cancel *)
(* timelock has not expired, and one in which TxCancel is confirmed and the*)
(* punish timelock has not expired.                                        *)
(***************************************************************************)
EXTENDS SwapInvariant

\* Both values of a scenario flag.
Either == {TRUE, FALSE}
Never == {FALSE}
=============================================================================
