---------------------------- MODULE MCCertParser ----------------------------
(* A certificate in the format of the parser, what is left of it when its end *)
(* is cut off or one byte is another, the same in the order of DER, and every *)
(* short array of the bytes the parser tells apart.                           *)
EXTENDS CertParser, SequencesExt

Fragment(tag, contents) == <<Len(contents), tag>> \o contents
Name == Fragment(16, <<7>>)

Good ==
  LET tbs == Fragment(160, Fragment(2, <<2>>)) \o Fragment(2, <<5>>)
               \o Name \o FlattenSeq([i \in 1 .. 4 |-> Fragment(16, <<>>)]) \o Fragment(163, <<>>)
  IN  Fragment(16, Fragment(16, tbs) \o Name \o Fragment(3, <<9>>))
Der == <<16, 4, 16, 2, 2, 0>>

\* Short and long lengths, 65535 and what makes the sum wrap to 0 among them; tags.
Alphabet == {0, 1, 2, 16, 31, 128, 130, 131, 159, 163, 255}
MCCerts ==
  {SubSeq(Good, 1, n) : n \in 0 .. Len(Good)}
    \cup {[Good EXCEPT ![j] = b] : j \in DOMAIN Good, b \in {0, 1, 31, 130}}
    \cup {<<130, 255, 255, 16>>, <<130, 255, 252, 16>>, <<130, 255, 251, 16>>, Der}
    \cup UNION {[1 .. n -> Alphabet] : n \in {2}}
MCGarbage == {0, 4}
=============================================================================
