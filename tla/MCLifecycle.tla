----------------------------- MODULE MCLifecycle -----------------------------
(* Instances of Lifecycle for TLC: two goroutines are enough for a handler *)
(* to meet a refresh loop, a Gaia pairing or another handler.              *)
EXTENDS Lifecycle, TLC

CONSTANTS p1, p2

TwoProcs == {p1, p2}
Symmetry == Permutations(TwoProcs)
=============================================================================
