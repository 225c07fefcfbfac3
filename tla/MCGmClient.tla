----------------------------- MODULE MCGmClient -----------------------------
(* An instance of GmClient for TLC: two threads to switch between, and two *)
(* stops and a failing start, so that the backoff reaches its top.         *)
EXTENDS GmClient

CONSTANTS c1, c2

TwoConvs == {c1, c2}
=============================================================================
