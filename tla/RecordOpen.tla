----------------------------- MODULE RecordOpen -----------------------------
(***************************************************************************)
(* tls_record_pack_aead at one end and the two unpacking functions of      *)
(* tls_record.cpp at the other, whose keys and IV are those of the first.   *)
(* A packed fragment may be put in front of the receiver any number of      *)
(* times and in any order, under any length, with a byte that is another.   *)
(* The bytes are those of module CipherModes.                               *)
(***************************************************************************)
EXTENDS CipherModes

CONSTANTS
  IvBytes,        \* 4 bytes of the nonce are fixed, the others random
  SeqBytes,       \* 8
  RandomMax,      \* tls_random_max
  RandomValues,   \* values of a byte of tls_inner_system_random
  Lengths,        \* lengths of the data of an AEAD record
  BlockLengths,   \* lengths of a fragment received with a block cipher
  HmacSizes,      \* HashResultSizeTable
  Pads            \* values of the last byte of a decrypted fragment

BufferSize == 2^14 + 2048

ASSUME NonceAssumption ==
  /\ IvBytes \in 1 .. NonceBytes - 1 /\ RandomMax \in Nat
  /\ SeqBytes \in Nat \ {0} /\ SeqBytes + 2 < BlockBytes   \* auth_length is 13
  /\ Lengths \subseteq Nat \ {0}
\* For more blocks CTR writes beyond its buffer (see KeyStream).
ASSUME CounterAssumption == \A n \in Lengths : n \div BlockBytes <= BlockBytes
ASSUME FragmentAssumption ==
  /\ \A n \in BlockLengths : n \in Nat /\ n <= BufferSize    \* tls_record_recv_directly
  /\ HmacSizes \subseteq 0 .. 64 /\ Pads \subseteq 0 .. 255

VARIABLES
  stock,        \* tls_inner_system_random of the sender
  used,         \* tls_random_used of the sender
  packed,       \* the records it has packed
  handed,       \* what the receiver has copied to ctx_buffer2
  mac,          \* where tls_record_unpack_block last took the MAC to be
  receiver      \* "up", "aborted" by an assertion, or "overrun"

vars == <<stock, used, packed, handed, mac, receiver>>

BlockSize == 16
MinBlock == 2^14
NoMac == [at |-> 0, size |-> 0, length |-> 0]
Explicit == NonceBytes - IvBytes
Overhead == Explicit + BlockBytes
WriteIv == Atoms("iv", 0, IvBytes)

Init ==
  /\ stock \in [1 .. RandomMax -> RandomValues]
  /\ used = 0 /\ packed = <<>> /\ handed = {}
  /\ mac = NoMac /\ receiver = "up"

\* aead_get_auth_data: client_seq and server_seq are 0 for ever.  Of the five
\* bytes of the header the type and the length stand for all.
AuthData(type, length) ==
  Atoms("seq", 0, SeqBytes) \o <<{<<"type", type, 0>>}, {<<"length", length, 0>>}>>

\* The fixed bytes in front of those that go out with the record.
NonceSwapped(explicit) == explicit \o WriteIv

Nonce(explicit) == WriteIv \o explicit

\* tls_record_pack_aead, while get_random has bytes left.  Two random bytes may
\* have one value.
PackAead(type, n) ==
  LET data == Atoms("data", Len(packed), n)
      random == [j \in 1 .. Explicit |-> {<<"random", 0, stock[used + j]>>}]
      sealed == GcmEncrypto(Nonce(random), AuthData(type, n), data)
  IN  /\ used + Explicit <= RandomMax
      /\ used' = used + Explicit
      /\ packed' = Append(packed, [type |-> type, data |-> data,
                                   fragment |-> random \o sealed.data \o sealed.tag])
      /\ UNCHANGED <<stock, handed, mac, receiver>>

\* The length that is authenticated is the one of the fragment as it came.
AuthLength(length) == length

\* tls_record_unpack_aead with buffer in ctx_buffer1.
UnpackAead(buffer, type, length) ==
  LET data == SubSeq(buffer, Explicit + 1, length - BlockBytes)
      tag == SubSeq(buffer, length - BlockBytes + 1, length)
      out == GcmDecrypto(Nonce(SubSeq(buffer, 1, Explicit)), AuthData(type, AuthLength(length)),
                         data, tag)
      refused == length <= Overhead \/ out.ret = -1
  IN  /\ handed' = IF refused THEN handed ELSE handed \cup {out.data}
      /\ UNCHANGED <<stock, used, packed, mac, receiver>>

\* A fragment that was packed, followed by what was in the buffer before, in
\* which at most one byte is not what was sent.
Arrivals(fragment) ==
  LET buffer == fragment \o Atoms("before", 0, BlockBytes)
  IN  {buffer} \cup {[buffer EXCEPT ![j] = {<<"other", 0, 0>>}] : j \in DOMAIN fragment}

ReceiveAead ==
  /\ receiver = "up"
  /\ \E r \in Range(packed) : \E buffer \in Arrivals(r.fragment) :
       \E length \in 0 .. Len(buffer) : UnpackAead(buffer, r.type, length)

----------------------------------------------------------------------------
(* tls_record_unpack_block, whose fragment is not one that was packed: the *)
(* packing aborts or the length on the wire is another (module RecordSeal).*)

\* The length that stands in t_header: the distance from the MAC back to the
\* data, in 16 bits.
DataLength(at) == (BlockSize - at) % 2^16

TooShortForIv(length) == length <= BlockSize

TooShort(length) == length < MinBlock

WholeBlocks(length) == (length - BlockSize) % BlockSize = 0

\* padding_value + 1 - hmac_size wraps round when it is negative.
BadFormat(length, pad, hmac) == pad + 1 < hmac \/ length <= pad + 1 - hmac

\* The MAC is found; tls_record_hmac copies the data in front of it.  What it
\* computes is compared and not looked at, and the test of the padding, which only
\* counts the first byte of it, may fail.
MacFound(length, pad, hmac) ==
  LET at == length - (pad + 1) - hmac
      overrun == BlockSize + DataLength(at) > BufferSize
  IN  /\ mac' = [at |-> at, size |-> hmac, length |-> length]
      /\ receiver' = IF overrun THEN "overrun" ELSE receiver
      /\ handed' \in IF overrun THEN {handed}
                     ELSE {handed, handed \cup {Atoms("decipher", 0, DataLength(at))}}

\* 0, an assertion of the CBC decryption, -1, or the MAC.
UnpackBlock(length, pad, hmac) ==
  \/ /\ TooShort(length)
     /\ UNCHANGED <<handed, mac, receiver>>
  \/ /\ ~TooShort(length) /\ ~WholeBlocks(length)
     /\ receiver' = "aborted"
     /\ UNCHANGED <<handed, mac>>
  \/ /\ ~TooShort(length) /\ WholeBlocks(length) /\ BadFormat(length, pad, hmac)
     /\ UNCHANGED <<handed, mac, receiver>>
  \/ /\ ~TooShort(length) /\ WholeBlocks(length) /\ ~BadFormat(length, pad, hmac)
     /\ MacFound(length, pad, hmac)

ReceiveBlock ==
  /\ receiver = "up"
  /\ \E length \in BlockLengths, pad \in Pads, hmac \in HmacSizes :
       UnpackBlock(length, pad, hmac)
  /\ UNCHANGED <<stock, used, packed>>

Next ==
  \/ \E type \in 22 .. 23, n \in Lengths : PackAead(type, n)
  \/ ReceiveAead
  \/ ReceiveBlock

Spec == Init /\ [][Next]_vars
----------------------------------------------------------------------------
\* No fragment that tls_record_pack_aead made is opened at the other end, in
\* whatever order, under whatever length, as it was or not: what is authenticated
\* (tls_record.cpp:218-226) holds the length of the data at one end and that of
\* the fragment at the other.  Nor is a fragment of a block cipher: the length of
\* its data (:194) is more than a buffer holds.
NothingOpens == handed = {}

\* The padding length is a byte of the fragment and is subtracted before anything
\* is known of it: the MAC still lies behind the IV and in front of the padding,
\* whatever that byte is (tls_record.cpp:185-189).
MacInside ==
  mac # NoMac => mac.at > BlockSize /\ mac.at + mac.size < mac.length

\* The bytes that are added to the data of a packed record.
Mask(r) == Sum(r.data, SubSeq(r.fragment, Explicit + 1, Explicit + Len(r.data)))

\* Block b of two records is added to the same bytes, and the bytes of the two
\* nonces that CTR has reached by then are the same.
SameMask(r, s, b) ==
  \A p \in 1 .. BlockBytes : Mask(r)[b * BlockBytes + p] = Mask(s)[b * BlockBytes + p]
SameRandom(r, s, b) ==
  \A p \in 1 .. Explicit : IvBytes + p <= b + 1 => r.fragment[p] = s.fragment[p]
Blocks(r) == Len(r.data) \div BlockBytes

\* Turn b of CTR puts one byte of the nonce into the block (tls_crypto_aes.cpp:242)
\* and the random bytes of it come last (tls_record.cpp:235), so all records have
\* the key stream of their first IvBytes blocks in common, and two of them have
\* that of block b just if the random bytes up to it are equal; as the sequence
\* number never moves (:237), nothing else tells them apart.
MasksShared ==
  \A r, s \in Range(packed) :
    \A b \in (0 .. Blocks(r) - 1) \cap (0 .. Blocks(s) - 1) :
      SameMask(r, s, b) <=> SameRandom(r, s, b)
=============================================================================
