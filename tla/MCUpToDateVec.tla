--------------------------- MODULE MCUpToDateVec ---------------------------
(* UpToDateVec with two servers and three ids.  Server 2 has the smallest  *)
(* UUID and the spare id the largest, so that cursors are inserted before  *)
(* and after others.                                                       *)
EXTENDS UpToDateVec

TwoFirstIds == <<2, 1>>
=============================================================================
