----------------------------- MODULE MCWinsock -----------------------------
(* Three handles and a counter of four values, so that it wraps both ways.  *)
EXTENDS Winsock

MCSockets == {1, 2, 3}
=============================================================================
