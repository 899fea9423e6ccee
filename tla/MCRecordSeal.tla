---------------------------- MODULE MCRecordSeal ----------------------------
(* The code's own sizes; data lengths on both sides of its limits and in the *)
(* residues of 32 that the padding tells apart; with 4060 and a MAC of 20     *)
(* bytes the size of the fragment, 4112, has two equal bytes.                 *)
EXTENDS RecordSeal

MCLengths == {0, 11, 12, 16, 28, 31, 1036, 4060, 16380, 16384, 16385, 18430}
MCHmacs == {0, 20, 32}
Sha1 == {20}
=============================================================================
