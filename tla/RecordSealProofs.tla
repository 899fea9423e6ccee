-------------------------- MODULE RecordSealProofs --------------------------
(* Theorems about the sending side of record protection: random bytes are    *)
(* never used twice, the padding lets out whole blocks only, and what is told *)
(* of the length of what follows, for every set of lengths, every size of the *)
(* MAC and every stock of random bytes.                                       *)
EXTENDS RecordSeal, TLAPS

\* A data length is a natural number.
LEMMA LengthTypes == ASSUME NEW n \in Lengths PROVE n \in Int
BY LengthsAssumption

----------------------------------------------------------------------------
(* Random bytes.                                                             *)

\* The ranges taken so far lie one behind the other below tls_random_used,
\* which get_random keeps within the stock.
RandomInv ==
  /\ used \in Nat
  /\ used <= RandomMax
  /\ taken \in Seq(Ranges)
  /\ \A i \in DOMAIN taken : taken[i].at + taken[i].size <= used
  /\ \A i, j \in DOMAIN taken : i < j => taken[i].at + taken[i].size <= taken[j].at

\* get_random with enough bytes left keeps them so.
LEMMA GetRandomKeeps ==
  ASSUME RandomInv, ~OutOfRandom, GetRandom(BlockSize)
  PROVE  RandomInv'
<1> DEFINE r == [at |-> used, size |-> BlockSize]
<1>1. /\ used' = used + BlockSize /\ used' \in Nat /\ used' <= RandomMax
      /\ taken' = Append(taken, r)
  BY SizesAssumption DEF RandomInv, GetRandom, OutOfRandom, BlockSize
<1>2. r \in Ranges /\ taken \in Seq(Ranges)
  BY DEF RandomInv, BlockSize, Ranges
<1>3. r.at = used /\ r.at + r.size = used' /\ used <= used'
  BY <1>1 DEF BlockSize, RandomInv
<1> HIDE DEF r
<1>4. /\ taken' \in Seq(Ranges) /\ Len(taken) \in Nat
      /\ DOMAIN taken = 1 .. Len(taken) /\ DOMAIN taken' = 1 .. (Len(taken) + 1)
      /\ \A i \in DOMAIN taken : taken'[i] = taken[i]
      /\ taken'[Len(taken) + 1] = r
  BY <1>1, <1>2
<1>5. \A i \in DOMAIN taken : /\ taken[i].at \in Nat /\ taken[i].size \in Nat
                              /\ taken[i].at + taken[i].size <= used
  <2> SUFFICES ASSUME NEW i \in DOMAIN taken
               PROVE  /\ taken[i].at \in Nat /\ taken[i].size \in Nat
                      /\ taken[i].at + taken[i].size <= used
    OBVIOUS
  <2>1. taken[i] \in Ranges
    BY <1>2
  <2> QED
    BY <2>1 DEF RandomInv, Ranges
<1>6. ASSUME NEW i \in DOMAIN taken'
      PROVE  taken'[i].at + taken'[i].size <= used'
  <2>1. CASE i \in DOMAIN taken
    <3>1. taken'[i] = taken[i] /\ taken[i].at + taken[i].size \in Nat
      BY <1>4, <1>5, <2>1
    <3>2. taken[i].at + taken[i].size <= used
      BY <1>5, <2>1
    <3> QED
      BY <1>1, <1>3, <3>1, <3>2 DEF RandomInv
  <2>2. CASE i = Len(taken) + 1
    <3>1. taken'[i] = r
      BY <1>4, <2>2
    <3> QED
      BY <1>1, <1>3, <3>1
  <2> QED
    BY <1>4, <2>1, <2>2
<1>7. ASSUME NEW i \in DOMAIN taken', NEW j \in DOMAIN taken', i < j
      PROVE  taken'[i].at + taken'[i].size <= taken'[j].at
  <2>1. i \in DOMAIN taken
    BY <1>4, <1>7
  <2>2. CASE j \in DOMAIN taken
    BY <1>4, <1>7, <2>1, <2>2 DEF RandomInv
  <2>3. CASE j = Len(taken) + 1
    BY <1>3, <1>4, <1>5, <2>1, <2>3
  <2> QED
    BY <1>4, <2>2, <2>3
<1> QED
  BY <1>1, <1>4, <1>6, <1>7 DEF RandomInv

\* The ranges lie so at every step.
LEMMA RandomHolds == Spec => []RandomInv
<1>1. Init => RandomInv
  BY SizesAssumption DEF Init, RandomInv
<1>2. RandomInv /\ [Next]_vars => RandomInv'
  <2> SUFFICES ASSUME RandomInv, [Next]_vars
               PROVE  RandomInv'
    OBVIOUS
  <2>1. ASSUME used' = used, taken' = taken
        PROVE  RandomInv'
    BY <2>1 DEF RandomInv
  <2>2. ASSUME NEW n, PackAborts(n)
        PROVE  RandomInv'
    BY <2>1, <2>2, GetRandomKeeps DEF PackAborts
  <2>3. ASSUME NEW n, PackAndSend(n)
        PROVE  RandomInv'
    BY <2>3, GetRandomKeeps DEF PackAndSend
  <2>4. ASSUME NEW n, SendEmpty(n) \/ SendStream(n) \/ Refuse(n) \/ ChangeCipher(n)
        PROVE  RandomInv'
    BY <2>1, <2>4 DEF SendEmpty, SendStream, Refuse, ChangeCipher
  <2>5. ASSUME NEW n \in Lengths, NEW app \in BOOLEAN, RecordSend(n, app)
        PROVE  RandomInv'
    BY <2>2, <2>3, <2>4, <2>5 DEF RecordSend
  <2>6. CASE UNCHANGED vars
    BY <2>1, <2>6 DEF vars
  <2> QED
    BY <2>4, <2>5, <2>6 DEF Next
<1> QED
  BY <1>1, <1>2, PTL DEF Spec

\* No random byte is used for two IVs or beyond the context's stock: the
\* property the run of RecordSeal checks (tls_record.cpp:34-42).
THEOREM FreshRandom == Spec => []RandomFresh
<1>1. RandomInv => RandomFresh
  <2> SUFFICES ASSUME RandomInv, NEW i \in DOMAIN taken
               PROVE  taken[i].at + taken[i].size <= RandomMax
    BY DEF RandomInv, RandomFresh
  <2>1. taken[i] \in Ranges
    BY DEF RandomInv
  <2> QED
    BY <2>1, SizesAssumption DEF RandomInv, Ranges
<1> QED
  BY <1>1, RandomHolds, PTL

----------------------------------------------------------------------------
(* Padding.                                                                  *)

\* Clearing bit 4 leaves whole blocks only where there was nothing to clear but
\* that bit: where the data and the MAC are whole blocks.
LEMMA PaddedWhole ==
  ASSUME NEW n \in Int, hmac \in Int, ~NotWholeBlocks(n)
  PROVE  (n + hmac) % BlockSize = 0
<1> DEFINE k == n + hmac
<1>1. k \in Int /\ FragmentSize(n) + 15 = k + 16
  BY DEF FragmentSize
<1>2. Padded(FragmentSize(n)) \in {k, k + 16}
  BY <1>1 DEF Padded, BlockSize
<1>3. k % 16 = (k + 16) % 16
  BY <1>1
<1> QED
  BY <1>2, <1>3 DEF NotWholeBlocks, BlockSize

\* The limit on the caller's data leaves room for the IV, the largest MAC and
\* the padding.
LEMMA LongEnough ==
  ASSUME NEW n \in Int, n <= MaxPlain, hmac \in HmacSizes
  PROVE  ~TooLong(n)
<1>1. hmac \in 0 .. 64
  BY SizesAssumption
<1>2. FragmentSize(n) \in Int /\ FragmentSize(n) <= 16384 + 65
  BY <1>1 DEF FragmentSize, MaxPlain
<1>3. Padded(FragmentSize(n)) <= FragmentSize(n) + 15
  BY <1>2 DEF Padded, BlockSize
<1>4. Padded(FragmentSize(n)) \in Int
  BY <1>2 DEF Padded, BlockSize
<1> QED
  BY <1>2, <1>3, <1>4 DEF TooLong, BlockSize, MaxFragment

\* With a block cipher only records whose data and MAC are whole blocks get past
\* the padding, and the length is never what stops a record, for every set of
\* lengths and of MAC sizes (tls_record.cpp:139-142).
THEOREM WholeBlocksOnly == Spec => []PacksWholeBlocks
<1> DEFINE Inv == PacksWholeBlocks /\ hmac \in HmacSizes
<1>1. Init => Inv
  BY DEF Init, PacksWholeBlocks, NoRecord
<1>2. Inv /\ [Next]_vars => Inv'
  <2> SUFFICES ASSUME Inv, [Next]_vars
               PROVE  Inv'
    OBVIOUS
  <2>1. ASSUME sent' = sent, stopped' = stopped, hmac' = hmac
        PROVE  Inv'
    BY <2>1 DEF PacksWholeBlocks
  <2>2. ASSUME NEW n \in Lengths, NEW app \in BOOLEAN, RecordSend(n, app)
        PROVE  Inv'
    <3>1. n \in Int /\ n <= MaxPlain /\ hmac \in Int
      BY <2>2, LengthTypes, SizesAssumption DEF RecordSend
    <3>2. CASE SendStream(n)
      <4>1. sent'.cipher = "stream"
        BY <3>2 DEF SendStream, SendDirectly
      <4> QED
        BY <3>2, <4>1 DEF SendStream, PacksWholeBlocks
    <3>3. CASE PackAndSend(n)
      <4>1. sent'.asked = n /\ ~NotWholeBlocks(n) /\ hmac' = hmac /\ stopped' = stopped
        BY <3>3 DEF PackAndSend, SendDirectly
      <4> QED
        BY <3>1, <4>1, PaddedWhole DEF PacksWholeBlocks
    <3>4. CASE PackAborts(n)
      <4>1. ~TooLong(n)
        BY <3>1, LongEnough
      <4>2. sent' = sent /\ hmac' = hmac /\ stopped' \in {"random", "blocks"}
        BY <3>4, <4>1 DEF PackAborts
      <4> QED
        BY <4>2 DEF PacksWholeBlocks
    <3>5. CASE cipher = "block" /\ ~IsPacked(n, app) /\ SendEmpty(n)
      <4>1. sent'.asked = n /\ hmac' = hmac /\ stopped' = stopped
        BY <3>5 DEF SendEmpty, SendDirectly
      <4> QED
        BY <3>1, <3>5, <4>1 DEF IsPacked, PacksWholeBlocks
    <3>6. CASE cipher = "aead" /\ SendEmpty(n)
      <4>1. sent'.cipher = "aead" /\ hmac' = hmac /\ stopped' = stopped
        BY <3>6 DEF SendEmpty, SendDirectly
      <4> QED
        BY <4>1 DEF PacksWholeBlocks
    <3> QED
      BY <2>2, <3>2, <3>3, <3>4, <3>5, <3>6 DEF RecordSend
  <2>3. ASSUME NEW n, Refuse(n)
        PROVE  Inv'
    BY <2>3 DEF Refuse, PacksWholeBlocks, NoRecord
  <2>4. ASSUME NEW c, ChangeCipher(c)
        PROVE  Inv'
    BY <2>1, <2>4 DEF ChangeCipher
  <2>5. CASE UNCHANGED vars
    BY <2>1, <2>5 DEF vars
  <2> QED
    BY <2>2, <2>3, <2>4, <2>5 DEF Next
<1>3. Inv => PacksWholeBlocks
  OBVIOUS
<1> QED
  BY <1>1, <1>2, <1>3, PTL DEF Spec
----------------------------------------------------------------------------
(* Types.                                                                    *)

\* The two bytes of a uint16_t are bytes; a record has the fields of one.
Bytes == 0 .. 255

SentRecords ==
  [asked : Nat, lengthBytes : Bytes \X Bytes, count : Nat,
   body : Contents, cipher : {"none", "stream", "block", "aead"}]

\* The types that do not follow from RandomInv.
FieldTypes ==
  /\ cipher \in {"stream", "block", "aead"}
  /\ hmac \in HmacSizes
  /\ buffer1 \in Arrays /\ buffer2 \in Arrays
  /\ content \in [Arrays -> Contents]
  /\ sent \in SentRecords
  /\ stopped \in {"no", "length", "random", "blocks"}

\* A refused call is no record, but has the type of one.
LEMMA NoRecordType == NoRecord \in SentRecords
<1>1. Nothing \in Contents
  BY DEF Nothing, Contents
<1>2. <<0, 0>> \in Bytes \X Bytes
  BY DEF Bytes
<1> QED
  BY <1>1, <1>2 DEF NoRecord, SentRecords

\* A uint16_t has two bytes, also when they have been swapped.
LEMMA TwoBytes ==
  ASSUME NEW n \in Nat, n < 65536
  PROVE  /\ InMemory(n) \in Bytes \X Bytes
         /\ Reversed(InMemory(n)) \in Bytes \X Bytes
         /\ SwapBytes(n) \in Nat /\ SwapBytes(n) < 65536
<1>1. n % 256 \in Bytes /\ n \div 256 \in Bytes
  BY DEF Bytes
<1>2. /\ InMemory(n) \in Bytes \X Bytes
      /\ Reversed(InMemory(n)) \in Bytes \X Bytes
  BY <1>1 DEF InMemory, Reversed
<1>3. SwapBytes(n) \in Nat /\ SwapBytes(n) < 65536
  BY <1>1 DEF InMemory, SwapBytes, FromMemory, Reversed, Bytes
<1> QED
  BY <1>2, <1>3

\* A record with a header of two bytes has the type of one.
LEMMA SentTypes ==
  ASSUME FieldTypes, NEW n \in Nat, NEW header \in Nat, header < 65536,
         NEW body \in Contents, SendDirectly(n, header, body)
  PROVE  sent' \in SentRecords
<1>1. Reversed(InMemory(header)) \in Bytes \X Bytes
  BY TwoBytes
<1> QED
  BY <1>1 DEF SendDirectly, SentRecords, FieldTypes

\* What is packed fits the 16 bits of its length.
LEMMA PackedFits ==
  ASSUME hmac \in HmacSizes, NEW n \in Nat, n <= MaxPlain
  PROVE  PackedSize(n) \in Nat /\ PackedSize(n) < 65536
<1>1. hmac \in 0 .. 64
  BY SizesAssumption
<1>2. Padded(FragmentSize(n)) - FragmentSize(n) \in Int
  BY <1>1 DEF Padded, FragmentSize, BlockSize
<1>3. PaddingValue(FragmentSize(n)) \in 0 .. 255
  BY <1>2 DEF PaddingValue
<1> QED
  BY <1>1, <1>3 DEF PackedSize, BlockSize, MaxPlain

\* The types of the context's fields and of what was sent, for every set of
\* lengths, MAC sizes and stock of random bytes (tls_record.h:14-33).
THEOREM TypeCorrect == Spec => []TypeOK
<1>0. Nothing \in Contents
  BY DEF Nothing, Contents
<1>1. Init => FieldTypes
  BY <1>0, NoRecordType DEF Init, FieldTypes, Arrays
<1>2. FieldTypes /\ [Next]_vars => FieldTypes'
  <2> SUFFICES ASSUME FieldTypes, [Next]_vars
               PROVE  FieldTypes'
    OBVIOUS
  <2>1. ASSUME NEW n \in Lengths, NEW app \in BOOLEAN, RecordSend(n, app)
        PROVE  FieldTypes'
    <3>1. n \in Nat /\ n < 65536 /\ n <= MaxPlain
      BY <2>1, LengthsAssumption DEF RecordSend
    <3>p. PackedSize(n) \in Nat /\ PackedSize(n) < 65536
      BY <3>1, PackedFits DEF FieldTypes
    <3>2. /\ [kind |-> "data", length |-> n] \in Contents
          /\ [kind |-> "packed", length |-> PackedSize(n)] \in Contents
      <4>1. [kind |-> "data", length |-> n] \in Contents
        BY <3>1, SMT DEF Contents
      <4>2. [kind |-> "packed", length |-> PackedSize(n)] \in Contents
        BY <3>p, SMT DEF Contents
      <4> QED
        BY <4>1, <4>2, Zenon
    <3>3. CASE SendStream(n)
      <4>1. PICK d \in Contents : SendDirectly(n, n, d)
        BY <3>2, <3>3 DEF SendStream
      <4>2. sent' \in SentRecords
        BY <3>1, <4>1, SentTypes
      <4> QED
        BY <3>3, <4>2 DEF SendStream, FieldTypes
    <3>4. CASE PackAndSend(n)
      <4>1. PICK d \in Contents, p \in Contents :
              content' = [content EXCEPT ![buffer1] = d, ![buffer2] = p]
        BY <3>2, <3>4, Zenon DEF PackAndSend
      <4>2. content' \in [Arrays -> Contents] /\ buffer1' \in Arrays /\ buffer2' \in Arrays
        BY <3>4, <4>1 DEF PackAndSend, FieldTypes
      <4>3. /\ SwapBytes(PackedSize(n)) \in Nat /\ SwapBytes(PackedSize(n)) < 65536
            /\ content'[buffer2'] \in Contents
        BY <3>p, <4>2, TwoBytes
      <4>4. sent' \in SentRecords
        BY <3>1, <3>4, <4>3, SentTypes DEF PackAndSend
      <4> QED
        BY <3>4, <4>2, <4>4 DEF PackAndSend, FieldTypes
    <3>5. CASE PackAborts(n)
      BY <3>5 DEF PackAborts, FieldTypes
    <3>6. CASE SendEmpty(n)
      <4>1. PICK d \in Contents : content' = [content EXCEPT ![buffer1] = d]
        BY <3>2, <3>6, Zenon DEF SendEmpty
      <4>2. content' \in [Arrays -> Contents] /\ content[buffer2] \in Contents
        BY <4>1 DEF FieldTypes
      <4>3. SwapBytes(0) \in Nat /\ SwapBytes(0) < 65536
        BY TwoBytes
      <4>4. sent' \in SentRecords
        BY <3>1, <3>6, <4>2, <4>3, SentTypes DEF SendEmpty
      <4> QED
        BY <3>6, <4>2, <4>4 DEF SendEmpty, FieldTypes
    <3> QED
      BY <2>1, <3>3, <3>4, <3>5, <3>6 DEF RecordSend
  <2>2. ASSUME NEW n, Refuse(n)
        PROVE  FieldTypes'
    BY <2>2, NoRecordType DEF Refuse, FieldTypes
  <2>3. ASSUME NEW c \in {"block", "aead"}, ChangeCipher(c)
        PROVE  FieldTypes'
    BY <2>3 DEF ChangeCipher, FieldTypes
  <2>4. CASE UNCHANGED vars
    BY <2>4 DEF vars, FieldTypes
  <2> QED
    BY <2>1, <2>2, <2>3, <2>4 DEF Next
<1>3. FieldTypes /\ RandomInv => TypeOK
  BY SizesAssumption DEF FieldTypes, RandomInv, SentRecords, Bytes, TypeOK
<1> QED
  BY <1>1, <1>2, <1>3, RandomHolds, PTL DEF Spec
----------------------------------------------------------------------------
(* The length on the wire.                                                   *)

\* A length whose bytes are reversed once is on the wire in network order.
LEMMA ToldAsSent ==
  ASSUME NEW n, NEW header \in Int, NEW body, SendDirectly(n, header, body)
  PROVE  /\ Announced' = header /\ sent'.count = header
         /\ sent'.asked = n /\ sent'.cipher = cipher
<1>1. 256 * (header \div 256) + (header % 256) = header
  OBVIOUS
<1>2. /\ sent'.lengthBytes[1] = header \div 256
      /\ sent'.lengthBytes[2] = header % 256
      /\ sent'.count = header /\ sent'.asked = n /\ sent'.cipher = cipher
  BY DEF SendDirectly, Reversed, InMemory
<1> QED
  BY <1>1, <1>2 DEF Announced

\* The two bytes of a number change places unless they are equal.
LEMMA SwappedIfUnequal ==
  ASSUME NEW n \in Nat, n < 65536
  PROVE  SwapBytes(n) = n <=> n % 256 = n \div 256
<1>1. SwapBytes(n) = (n \div 256) + 256 * (n % 256)
  BY DEF SwapBytes, FromMemory, Reversed, InMemory
<1>2. PICK low, high : low = n % 256 /\ high = n \div 256
  OBVIOUS
<1>3. low \in 0 .. 255 /\ high \in 0 .. 255 /\ n = 256 * high + low
  BY <1>2
<1>4. high + 256 * low = 256 * high + low <=> low = high
  BY <1>3
<1> QED
  BY <1>1, <1>2, <1>3, <1>4

\* In a stream the receiver is told the caller's length; with a block cipher it is
\* told the size of the fragment only where the two bytes of that are equal, for
\* every set of lengths, MAC sizes and stock of random bytes (tls_record.cpp:48-67,
\* 309-313).
THEOREM LengthTold == Spec => []LengthOnWire
<1>1. Init => LengthOnWire
  BY DEF Init, LengthOnWire, NoRecord
<1>2. LengthOnWire /\ TypeOK /\ [Next]_vars => LengthOnWire'
  <2> SUFFICES ASSUME LengthOnWire, TypeOK, [Next]_vars
               PROVE  LengthOnWire'
    OBVIOUS
  <2>0. hmac \in HmacSizes /\ buffer1 \in Arrays /\ buffer2 \in Arrays /\ content \in [Arrays -> Contents]
    BY DEF TypeOK
  <2>1. ASSUME sent' = sent, content' = content, buffer1' = buffer1
        PROVE  LengthOnWire'
    BY <2>1 DEF LengthOnWire, Announced
  <2>2. ASSUME NEW n \in Lengths, NEW app \in BOOLEAN, RecordSend(n, app)
        PROVE  LengthOnWire'
    <3>1. n \in Nat /\ n \in Int /\ n <= MaxPlain
      BY <2>2, LengthsAssumption DEF RecordSend
    <3>2. CASE SendStream(n)
      <4>1. Announced' = n /\ sent'.count = n /\ sent'.asked = n /\ sent'.cipher = "stream"
        BY <3>1, <3>2, ToldAsSent DEF SendStream
      <4> QED
        BY <4>1 DEF LengthOnWire
    <3>3. CASE PackAndSend(n)
      <4>1. PICK size : size = PackedSize(n)
        OBVIOUS
      <4>2. size \in Nat /\ size < 65536 /\ SwapBytes(size) \in Int
        BY <2>0, <3>1, <4>1, PackedFits, TwoBytes
      <4>3. content'[buffer1'].length = size
        BY <2>0, <3>3, <4>1 DEF PackAndSend
      <4>4. PICK body : SendDirectly(n, SwapBytes(size), body)
        BY <3>3, <4>1 DEF PackAndSend
      <4>5. Announced' = SwapBytes(size) /\ sent'.count = SwapBytes(size) /\ sent'.cipher = "block"
        BY <3>3, <4>2, <4>4, ToldAsSent DEF PackAndSend
      <4>6. SwapBytes(size) = size <=> size % 256 = size \div 256
        BY <4>2, SwappedIfUnequal
      <4> QED
        BY <4>3, <4>5, <4>6 DEF LengthOnWire
    <3>4. CASE PackAborts(n)
      BY <2>1, <3>4 DEF PackAborts
    <3>5. CASE SendEmpty(n)
      <4>1. content'[buffer1'].kind = "data"
        BY <2>0, <3>5 DEF SendEmpty
      <4>2. sent'.cipher # "stream"
        BY <3>5 DEF SendEmpty, SendDirectly
      <4> QED
        BY <4>1, <4>2 DEF LengthOnWire
    <3> QED
      BY <2>2, <3>2, <3>3, <3>4, <3>5 DEF RecordSend
  <2>3. ASSUME NEW n, Refuse(n)
        PROVE  LengthOnWire'
    BY <2>3 DEF Refuse, LengthOnWire, NoRecord
  <2>4. ASSUME NEW c, ChangeCipher(c)
        PROVE  LengthOnWire'
    BY <2>1, <2>4 DEF ChangeCipher
  <2>5. CASE UNCHANGED vars
    BY <2>1, <2>5 DEF vars
  <2> QED
    BY <2>2, <2>3, <2>4, <2>5 DEF Next
<1> QED
  BY <1>1, <1>2, TypeCorrect, PTL DEF Spec
=============================================================================
