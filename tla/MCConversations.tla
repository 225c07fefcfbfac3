-------------------------- MODULE MCConversations ---------------------------
(* An instance of Conversations for TLC: two conversations, of which the   *)
(* phone has one at first, and a limit of one, so that one is held and not *)
(* served; two goroutines, so that snapshots and marks overlap.            *)
EXTENDS Conversations, TLC

CONSTANTS p1, p2

TwoConvs == {1, 2}
OneConv  == {1}
TwoProcs == {p1, p2}
Symmetry == Permutations(TwoProcs)
=============================================================================
