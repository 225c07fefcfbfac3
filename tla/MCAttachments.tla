--------------------------- MODULE MCAttachments ----------------------------
(* An instance of Attachments for TLC: two recordings, so that one may be  *)
(* started before the other has ended, a photo, a picture of the user's    *)
(* and a GIF.                                                              *)
EXTENDS Attachments

CONSTANTS u, g

OneVoice   == {1}
TwoVoices  == {1, 2}
OnePhoto   == {3}
OnePicture == {u}
OneGif     == {g}
=============================================================================
