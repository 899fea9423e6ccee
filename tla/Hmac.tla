-------------------------------- MODULE Hmac --------------------------------
(***************************************************************************)
(* Padding and HMAC of algorithm/tls_hash.cpp on arrays of bytes.  A byte  *)
(* is <<kind, origin, place>>: a byte of the key or the data, one of the   *)
(* padding, one added to 0x36 or 0x5C, or one of a digest.  A digest is an *)
(* ideal function of the blocks that are compressed.                       *)
(***************************************************************************)
EXTENDS Integers, Sequences

CONSTANTS
  HashBlockSize,      \* HashBlockSizeTable of the two hashes, 64
  LengthBytes,    \* 8: the message length at the end of the padding
  ResultSize      \* HashResultSizeTable: a function of the hash

ASSUME HashAssumption ==
  /\ HashBlockSize \in Nat \ {0} /\ LengthBytes \in 1 .. HashBlockSize - 1
  /\ \A type \in DOMAIN ResultSize : ResultSize[type] \in 1 .. HashBlockSize
\* The two that are implemented, of 20 and 32 bytes, are shorter than a block.
ASSUME DigestAssumption ==
  \A type \in DOMAIN ResultSize \cap {"sha1", "sha256"} : ResultSize[type] < HashBlockSize

Array(kind, n) == [j \in 1 .. n |-> <<kind, 0, j>>]
Null(n) == [j \in 1 .. n |-> <<"pad", 0, 0>>]
EndMark == <<<<"pad", 128, 0>>>>
LengthField(n) == Append(Null(LengthBytes - 1), <<"pad", n, 0>>)
InBlocks(m) ==
  [i \in 1 .. Len(m) \div HashBlockSize |-> SubSeq(m, (i - 1) * HashBlockSize + 1, i * HashBlockSize)]

\* sha_calculate: the blocks it compresses.  The padding is part of the branch
\* for a last block that is not full.
ShaBlocksEarlySplit(m) ==
  LET rest == Len(m) % HashBlockSize
      room == HashBlockSize - LengthBytes
      filled == rest + 1 + LengthBytes
      zeros == IF filled >= HashBlockSize THEN HashBlockSize - rest - 1 + room ELSE room - rest - 1
  IN  IF rest = 0 THEN InBlocks(m)
      ELSE InBlocks(m \o EndMark \o Null(zeros) \o LengthField(Len(m)))

ShaBlocks(m) ==
  LET rest == Len(m) % HashBlockSize
      room == HashBlockSize - LengthBytes
      filled == rest + 1 + LengthBytes
      zeros == IF filled > HashBlockSize THEN HashBlockSize - rest - 1 + room ELSE room - rest - 1
  IN  IF rest = 0 THEN InBlocks(m)
      ELSE InBlocks(m \o EndMark \o Null(zeros) \o LengthField(Len(m)))

Sha1(m) == [j \in 1 .. ResultSize["sha1"] |-> <<"sha1", ShaBlocks(m), j>>]
Sha256(m) == [j \in 1 .. ResultSize["sha256"] |-> <<"sha256", ShaBlocks(m), j>>]

\* HashFnucTable: the array the result is written to, afterwards.  Four of the
\* types share hash_null_func, which writes nothing.
WriteHash(type, m, array) ==
  LET digest == CASE type = "sha1" -> Sha1(m) [] type = "sha256" -> Sha256(m) [] OTHER -> <<>>
  IN  digest \o SubSeq(array, Len(digest) + 1, Len(array))

\* tls_hmac.  i_buffer is used three times: for the inner key, for the inner
\* digest and for the result.
Hmac(type, key, data) ==
  LET zeros == Null(HashBlockSize)
      keyBuff == IF Len(key) > HashBlockSize THEN WriteHash(type, key, zeros)
                 ELSE key \o SubSeq(zeros, Len(key) + 1, HashBlockSize)
      added(kind) == [j \in 1 .. HashBlockSize |-> <<kind, keyBuff[j], 0>>]
      inner == WriteHash(type, added("0x36") \o data, added("0x36"))
      outer == WriteHash(type, added("0x5C") \o SubSeq(inner, 1, ResultSize[type]), inner)
  IN  SubSeq(outer, 1, ResultSize[type])
=============================================================================
