------------------------------ MODULE MCServer ------------------------------
(* Instances of Server for TLC: one connection meets the accept loop, the  *)
(* closer, its pump and two publishers that may overtake each other.       *)
EXTENDS Server

CONSTANTS c1, c2, p1, p2

OneConn  == {c1}
TwoConns == {c1, c2}
OnePublisher  == {p1}
TwoPublishers == {p1, p2}
=============================================================================
