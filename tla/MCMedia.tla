------------------------------ MODULE MCMedia -------------------------------
(* Instances of Media for TLC: one media id and one part, so that the      *)
(* secrets and the cache are at their limit of one with the second, and    *)
(* one picture beside them.                                                *)
EXTENDS Media

CONSTANTS r1, r2, full, part, gif

TwoProcs == {r1, r2}
TwoKeys  == {full, part}
FullKeys == {full}
OneGif   == {gif}
=============================================================================
