------------------------------- MODULE MCPrf -------------------------------
(* The tables of tls_algorithm.h.  TLS takes 12 bytes (verify_data), 48 (the *)
(* master secret) and up to 128 (key block) from the function.               *)
EXTENDS Prf

MCResultSize ==
  [null |-> 0, md5 |-> 16, sha1 |-> 20, sha224 |-> 28, sha256 |-> 32, sha384 |-> 48, sha512 |-> 64]
MCHashes == DOMAIN MCResultSize
MCLengths == {0, 1, 12, 20, 31, 32, 48, 64, 104, 128}
=============================================================================
