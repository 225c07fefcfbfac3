--------------------------- MODULE MCSessionFile ----------------------------
(* An instance of SessionFile for TLC: two writers need an inode each, one *)
(* for the session and one for what is left under the temporary name.      *)
EXTENDS SessionFile

CONSTANTS w1, w2, i1, i2, i3, i4

TwoWriters == {w1, w2}
FourInodes == {i1, i2, i3, i4}
=============================================================================
