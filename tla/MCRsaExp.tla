------------------------------ MODULE MCRsaExp ------------------------------
(* Keys of one to three bytes of two bits whose highest byte is full, and    *)
(* exponents of one to four bits with runs of zeros and of ones; one modulus *)
(* has a leading byte that is 0.                                             *)
EXTENDS RsaExp

Digits(v, n) == [k \in 0 .. n - 1 |-> (v \div Weight(k)) % Base]

MCModuli == {Digits(3, 1), Digits(9, 3), Digits(9, 2), Digits(11, 2), Digits(15, 2), Digits(35, 3), Digits(63, 3)}
MCMessages == {0, 1, 2, 7, 14}
MCExponents == {1, 3, 5, 9, 11}

ASSUME KeysAreUsual == UsualKeys
=============================================================================
