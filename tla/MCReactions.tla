---------------------------- MODULE MCReactions -----------------------------
(* An instance of Reactions for TLC: two messages and a limit of one, so   *)
(* that the order fills and holds an id twice; two goroutines, so that     *)
(* taps and pages overlap.                                                 *)
EXTENDS Reactions, TLC

CONSTANTS p1, p2, e1, e2

TwoEmojis == {e1, e2}
TwoProcs  == {p1, p2}
Symmetry  == Permutations(TwoProcs) \cup Permutations(TwoEmojis)
=============================================================================
