---------------------------- MODULE MCAuthRetry -----------------------------
(* Instances of AuthRetry for TLC: two goroutines, in any roles; a pairing  *)
(* goes on beside the goroutine that began it.                              *)
EXTENDS AuthRetry

CONSTANTS p1, p2

TwoProcs == {p1, p2}
=============================================================================
