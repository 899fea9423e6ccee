----------------------------- MODULE RecordSeal -----------------------------
(***************************************************************************)
(* tls_record_send of tls_record.cpp on one context, in the three kinds of *)
(* cipher, with the sizes the code computes: the packing of a block cipher *)
(* record, the two context buffers it swaps, the random bytes it uses up,  *)
(* and the record that goes out.  What is in a buffer is its kind: the     *)
(* caller's data, or a packed fragment.  The sockets take every byte here; *)
(* module RecordIO is about what happens when they do not.                 *)
(***************************************************************************)
EXTENDS Integers, Sequences

CONSTANTS
  Lengths,        \* values of p_header->length
  HmacSizes,      \* sizes of the MAC: HashResultSizeTable
  RandomMax       \* tls_random_max, 128

ASSUME LengthsAssumption == \A n \in Lengths : n \in Nat /\ n < 65536
ASSUME SizesAssumption == HmacSizes \subseteq 0 .. 64 /\ RandomMax \in Nat

VARIABLES
  cipher,       \* ciper_type
  hmac,         \* the size of the MAC the context's hash makes
  buffer1,      \* ctx_buffer1: which of the two arrays it points to
  buffer2,      \* ctx_buffer2
  content,      \* what the arrays hold
  used,         \* tls_random_used
  taken,        \* the ranges of the random bytes that were used
  sent,         \* the record the last call put on the wire
  stopped       \* why the program has stopped: abort() or an assertion

vars == <<cipher, hmac, buffer1, buffer2, content, used, taken, sent, stopped>>

MaxPlain == 2^14
MaxFragment == 2^14 + 2048
BlockSize == 16

Arrays == {"one", "two"}
Contents == [kind : {"nothing", "data", "packed"}, length : Nat]
Ranges == [at : Nat, size : Nat]
Nothing == [kind |-> "nothing", length |-> 0]
NoRecord == [asked |-> 0, lengthBytes |-> <<0, 0>>, count |-> 0, body |-> Nothing,
             cipher |-> "none"]

Init ==
  /\ cipher = "stream"
  /\ hmac \in HmacSizes
  /\ buffer1 = "one"
  /\ buffer2 = "two"
  /\ content = [a \in Arrays |-> Nothing]
  /\ used = 0
  /\ taken = <<>>
  /\ sent = NoRecord
  /\ stopped = "no"

\* The handshake ends: records are to be protected from now on.
ChangeCipher(c) ==
  /\ stopped = "no"
  /\ cipher = "stream"
  /\ cipher' = c
  /\ UNCHANGED <<hmac, buffer1, buffer2, content, used, taken, sent, stopped>>

\* A uint16_t as the two bytes it has in memory (little-endian), and back.
InMemory(n) == <<n % 256, n \div 256>>
FromMemory(bytes) == bytes[1] + 256 * bytes[2]

\* reverse_bytes of a uint16_t, and what write_rvs_bytes makes of its value.
Reversed(bytes) == <<bytes[2], bytes[1]>>
SwapBytes(n) == FromMemory(Reversed(InMemory(n)))

\* tls_record_send_directly: the length in the header, its bytes reversed, and
\* as many bytes of the body as the header says before they are reversed.
SendDirectlyUnreversed(n, header, body) ==
  sent' = [asked |-> n, lengthBytes |-> InMemory(header), count |-> header,
           body |-> body, cipher |-> cipher]

SendDirectly(n, header, body) ==
  sent' = [asked |-> n, lengthBytes |-> Reversed(InMemory(header)), count |-> header,
           body |-> body, cipher |-> cipher]

\* get_random, when there are enough bytes left.
GetRandomAgain(size) ==
  /\ used' = used
  /\ taken' = Append(taken, [at |-> used, size |-> size])

GetRandom(size) ==
  /\ used' = used + size
  /\ taken' = Append(taken, [at |-> used, size |-> size])

----------------------------------------------------------------------------
(* tls_record_pack_block.                                                  *)

FragmentSize(n) == n + hmac + 1

\* (frag_sz + 15) & ~16: what is cleared is bit 4.
PaddedToHalves(frag) == ((frag + (BlockSize - 1)) \div 8) * 8

Padded(frag) ==
  LET x == frag + (BlockSize - 1)
  IN  IF (x \div BlockSize) % 2 = 1 THEN x - BlockSize ELSE x

PaddingValue(frag) == (Padded(frag) - frag) % 256

\* The offset the packing ends at: IV, data, MAC, padding and its length.
PackedSize(n) ==
  BlockSize + n + hmac + PaddingValue(FragmentSize(n)) + 1

IsPacked(n, app) == n > 0 \/ app

\* What makes the packing of n bytes abort, in the order it is met.
TooLong(n) == BlockSize + Padded(FragmentSize(n)) > MaxFragment
OutOfRandomLate == used >= RandomMax + 1

OutOfRandom == used + BlockSize > RandomMax
NotWholeBlocks(n) == Padded(FragmentSize(n)) % BlockSize # 0

PackAborts(n) ==
  /\ cipher = "block"
  /\ \/ TooLong(n) /\ stopped' = "length" /\ UNCHANGED <<used, taken>>
     \/ ~TooLong(n) /\ OutOfRandom /\ stopped' = "random" /\ UNCHANGED <<used, taken>>
     \/ /\ ~TooLong(n) /\ ~OutOfRandom /\ NotWholeBlocks(n)
        /\ stopped' = "blocks"
        /\ GetRandom(BlockSize)
  /\ UNCHANGED <<cipher, hmac, buffer1, buffer2, content, sent>>

\* The fragment is built in ctx_buffer2 from the data in ctx_buffer1, and the
\* buffers are swapped.  Its size, in the order of the network, is the length
\* of the header; as many bytes of ctx_buffer2 are sent.
PackAndSend(n) ==
  /\ cipher = "block"
  /\ ~TooLong(n) /\ ~OutOfRandom /\ ~NotWholeBlocks(n)
  /\ GetRandom(BlockSize)
  /\ content' = [content EXCEPT ![buffer1] = [kind |-> "data", length |-> n],
                                ![buffer2] = [kind |-> "packed", length |-> PackedSize(n)]]
  /\ buffer1' = buffer2
  /\ buffer2' = buffer1
  /\ SendDirectly(n, SwapBytes(PackedSize(n)), content'[buffer2'])
  /\ UNCHANGED <<cipher, hmac, stopped>>

\* No fragment: nothing to pack in a record that is not application data, or
\* an AEAD cipher, whose branch repeats the test for a block cipher.  A header
\* alone goes out.
SendEmpty(n) ==
  /\ cipher # "stream"
  /\ content' = [content EXCEPT ![buffer1] = [kind |-> "data", length |-> n]]
  /\ SendDirectly(n, SwapBytes(0), content'[buffer2])
  /\ UNCHANGED <<cipher, hmac, buffer1, buffer2, used, taken, stopped>>

SendStream(n) ==
  /\ cipher = "stream"
  /\ SendDirectly(n, n, [kind |-> "data", length |-> n])
  /\ UNCHANGED <<cipher, hmac, buffer1, buffer2, content, used, taken, stopped>>

\* tls_record_send; app says whether the record's type is application_data.
\* A result that is too long cannot come about: PackAborts is met before.
RecordSend(n, app) ==
  /\ stopped = "no"
  /\ n <= MaxPlain
  /\ \/ SendStream(n)
     \/ cipher = "block" /\ IsPacked(n, app) /\ (PackAndSend(n) \/ PackAborts(n))
     \/ cipher = "block" /\ ~IsPacked(n, app) /\ SendEmpty(n)
     \/ cipher = "aead" /\ SendEmpty(n)

\* More than 1 << 14 bytes: 0 is returned and nothing sent.
Refuse(n) ==
  /\ stopped = "no"
  /\ n > MaxPlain
  /\ sent' = NoRecord
  /\ UNCHANGED <<cipher, hmac, buffer1, buffer2, content, used, taken, stopped>>

Next ==
  \/ \E c \in {"block", "aead"} : ChangeCipher(c)
  \/ \E n \in Lengths, app \in BOOLEAN : RecordSend(n, app)
  \/ \E n \in Lengths : Refuse(n)

Spec == Init /\ [][Next]_vars

----------------------------------------------------------------------------
(* Properties.                                                             *)

\* Types of the context's fields (tls_record.h:14-33).
TypeOK ==
  /\ cipher \in {"stream", "block", "aead"}
  /\ hmac \in HmacSizes
  /\ buffer1 \in Arrays
  /\ buffer2 \in Arrays
  /\ content \in [Arrays -> Contents]
  /\ used \in 0 .. RandomMax
  /\ taken \in Seq(Ranges)
  /\ sent \in [asked : Nat, lengthBytes : (0 .. 255) \X (0 .. 255), count : Nat,
               body : Contents, cipher : {"none", "stream", "block", "aead"}]
  /\ stopped \in {"no", "length", "random", "blocks"}

\* What a receiver reads in the two bytes on the wire: the order of the network.
Announced == 256 * sent.lengthBytes[1] + sent.lengthBytes[2]

\* The length is turned to the order of the network in tls_record_send_directly,
\* and with a block cipher in tls_record_send as well (tls_record.cpp:312).  In a
\* stream the receiver is told the caller's length, and as many bytes follow.  With
\* a block cipher it is told the size of the fragment in ctx_buffer1, where the
\* packing has left it, and finds the next record, only for sizes of two equal
\* bytes: for the others it is the size with its bytes swapped, and what follows
\* is as long as that.
LengthOnWire ==
  LET fragment == content[buffer1] IN
  /\ sent.cipher = "stream" => Announced = sent.asked /\ sent.count = sent.asked
  /\ sent.cipher = "block" /\ fragment.kind = "packed" =>
       /\ Announced = sent.count
       /\ Announced = fragment.length <=> fragment.length % 256 = fragment.length \div 256

\* No random byte is used for two IVs, and none beyond the ones the context
\* was given (get_random, tls_record.cpp:34-42).
RandomFresh ==
  /\ \A i \in DOMAIN taken : taken[i].at + taken[i].size <= RandomMax
  /\ \A i, j \in DOMAIN taken : i < j => taken[i].at + taken[i].size <= taken[j].at

\* Whatever the data's length, the only records that a block cipher lets out are
\* those whose data and MAC are whole blocks; for all others the padding
\* (tls_record.cpp:141) fails the assertion of the CBC encryption.  The check of
\* the length (142) never fails.
PacksWholeBlocks ==
  /\ sent.cipher = "block" /\ sent.asked > 0 => (sent.asked + hmac) % BlockSize = 0
  /\ stopped # "length"

\* tls_record.cpp:286, "if Cipertype is stream, then send directly": with
\* another cipher it is the packed fragment, all of it, that goes out.
PackedOnWire ==
  sent.cipher \in {"block", "aead"} /\ sent.asked > 0 =>
    sent.body.kind = "packed" /\ sent.count = sent.body.length
=============================================================================
