---------------------------- MODULE MCRecordIO ----------------------------
(* Small instances of RecordIO for TLC: a header of two bytes, payloads of  *)
(* at most two and fragments of at most three, lengths on both sides of     *)
(* each limit.                                                              *)
EXTENDS RecordIO

MCLengths == {0, 2, 3}
MCBuffers == {2, 3}
MCGarbage == {0, 3, 4}
Nobody == {}
Server == {"server"}
=============================================================================
