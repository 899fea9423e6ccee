-------------------------- MODULE ProtectionProofs --------------------------
(***************************************************************************)
(* Proofs about the receiving side of record protection (module RecordOpen) *)
(* and about AES, its modes, GHASH and HMAC (module MCPrimitives), for every *)
(* set of lengths, stock of random bytes, field, number of rounds, and sizes *)
(* of block, nonce, MAC and digest.  They share the facts about words, about *)
(* the key stream and about recursive functions.                            *)
(***************************************************************************)
EXTENDS RecordOpen, MCPrimitives, SequenceTheorems, FiniteSetTheorems, WellFoundedInduction,
        TLAPS

----------------------------------------------------------------------------
(* A fragment received with a block cipher.                                *)

\* What the branch for a block cipher leaves of the state: the MAC is found in
\* place, and its data is longer than the buffer.
BlockStep ==
  /\ handed' = handed
  /\ mac' = mac \/ (mac'.at > BlockSize /\ mac'.at + mac'.size < mac'.length)

\* The MAC of a fragment that is not too short lies behind the IV and in front of
\* the padding; the length of its data is negative, in 16 bits.
LEMMA MacBounds ==
  ASSUME NEW length \in BlockLengths, NEW pad \in Pads, NEW hmac \in HmacSizes,
         ~TooShort(length), ~BadFormat(length, pad, hmac)
  PROVE  LET at == length - (pad + 1) - hmac
         IN  /\ at > BlockSize /\ at + hmac < length
             /\ BlockSize + DataLength(at) > BufferSize
<1> DEFINE at == length - (pad + 1) - hmac
<1>1. /\ length \in Nat /\ length >= 16384 /\ length <= 18432
      /\ pad \in Nat /\ pad <= 255
      /\ hmac \in Nat /\ hmac <= 64
  <2>1. length \in Nat /\ length >= 16384 /\ length <= 18432
    BY FragmentAssumption DEF TooShort, MinBlock, BufferSize
  <2>2. pad \in Nat /\ pad <= 255
    BY FragmentAssumption
  <2>3. hmac \in Nat /\ hmac <= 64
    BY FragmentAssumption
  <2> QED
    BY <2>1, <2>2, <2>3
<1>2. at \in Int /\ at > 16 /\ at <= 18432 /\ at + hmac < length
  BY <1>1
<1> HIDE DEF at
<1>3. (16 - at) % 65536 = 65536 + 16 - at
  BY <1>2
<1>4. BlockSize + DataLength(at) > BufferSize
  BY <1>2, <1>3 DEF BlockSize, DataLength, BufferSize
<1> QED
  BY <1>2, <1>4 DEF at, BlockSize

\* Whatever a fragment's length, padding and MAC are, nothing is handed over.
LEMMA BlockKeeps == ReceiveBlock => BlockStep
<1> SUFFICES ASSUME NEW length \in BlockLengths, NEW pad \in Pads, NEW hmac \in HmacSizes,
                    UnpackBlock(length, pad, hmac)
             PROVE  BlockStep
  BY DEF ReceiveBlock
<1>1. CASE /\ ~TooShort(length) /\ ~BadFormat(length, pad, hmac)
           /\ MacFound(length, pad, hmac)
  <2> DEFINE at == length - (pad + 1) - hmac
  <2>1. at > BlockSize /\ at + hmac < length /\ BlockSize + DataLength(at) > BufferSize
    BY <1>1, MacBounds
  <2>2. mac' = [at |-> at, size |-> hmac, length |-> length] /\ handed' = handed
    BY <1>1, <2>1 DEF MacFound
  <2> QED
    BY <2>1, <2>2 DEF BlockStep
<1>2. CASE UNCHANGED <<handed, mac>>
  BY <1>2 DEF BlockStep
<1> QED
  BY <1>1, <1>2 DEF UnpackBlock

\* The MAC is in place, whatever the padding length is (tls_record.cpp:185-189).
THEOREM MacInPlace == Spec => []MacInside
<1>1. Init => MacInside
  BY DEF Init, MacInside
<1>2. MacInside /\ [Next]_vars => MacInside'
  <2> SUFFICES ASSUME MacInside, [Next]_vars PROVE MacInside'
    OBVIOUS
  <2>1. CASE \E type \in 22 .. 23, n \in Lengths : PackAead(type, n)
    BY <2>1 DEF PackAead, MacInside
  <2>2. CASE ReceiveAead
    BY <2>2 DEF ReceiveAead, UnpackAead, MacInside
  <2>3. CASE ReceiveBlock
    BY <2>3, BlockKeeps DEF BlockStep, MacInside
  <2>4. CASE UNCHANGED vars
    BY <2>4 DEF vars, MacInside
  <2> QED
    BY <2>1, <2>2, <2>3, <2>4 DEF Next
<1> QED
  BY <1>1, <1>2, PTL DEF Spec

----------------------------------------------------------------------------
(* The key stream of CTR.                                                  *)

\* A set of natural numbers has a least element.
LEMMA Least ==
  ASSUME NEW T, T \subseteq Nat, T # {}
  PROVE  \E m \in T : \A k \in T : m <= k
<1>1. PICK m \in T : \A k \in T : <<k, m>> \notin OpToRel(<, Nat)
  BY WFMin, NatLessThanWellFounded, Zenon
<1>2. \A k \in T : ~(k < m)
  BY <1>1, Zenon DEF OpToRel
<1> QED
  BY <1>2

\* The buffer of turn i, where those of the turns before are g, and g as the
\* recursive function of KeyStream.
Turn(nonce, i, g) ==
  [j \in 1 .. BlockBytes |->
     IF j > NonceBytes THEN {<<"counter", i + 1, j>>}
     ELSE IF j = i + 1 THEN nonce[j]
     ELSE IF i = 0 THEN {} ELSE g[i - 1][j]]
Streams(nonce, n, g) == g = [i \in 0 .. n - 1 |-> Cipher(Turn(nonce, i, g))]

\* The key stream is defined for every number of blocks.
LEMMA StreamsExist ==
  ASSUME NEW nonce, NEW n \in Nat
  PROVE  \E g : Streams(nonce, n, g)
<1> DEFINE Without == {m \in Nat : ~\E g : Streams(nonce, m, g)}
<1>1. SUFFICES ASSUME Without # {} PROVE FALSE
  OBVIOUS
<1>2. PICK m \in Without : \A k \in Without : m <= k
  <2>1. Without \subseteq Nat
    OBVIOUS
  <2> HIDE DEF Without
  <2> QED
    BY <1>1, <2>1, Least
<1>3. CASE m = 0
  <2> DEFINE none == [i \in 0 .. 0 - 1 |-> 0]
  <2>1. none = [i \in 0 .. 0 - 1 |-> Cipher(Turn(nonce, i, none))]
    OBVIOUS
  <2>2. Streams(nonce, 0, none)
    BY <2>1 DEF Streams
  <2> QED
    BY <1>2, <1>3, <2>2
<1>4. CASE m # 0
  <2>1. m - 1 \in Nat /\ m - 1 \notin Without
    BY <1>2, <1>4
  <2>2. PICK g : Streams(nonce, m - 1, g)
    BY <2>1
  <2> DEFINE h == [i \in 0 .. m - 1 |-> Cipher(Turn(nonce, i, g))]
  <2>3. \A i \in 0 .. m - 1 : i # 0 => h[i - 1] = g[i - 1]
    <3> SUFFICES ASSUME NEW i \in 0 .. m - 1, i # 0 PROVE h[i - 1] = g[i - 1]
      OBVIOUS
    <3>1. i - 1 \in 0 .. m - 1 - 1 /\ i - 1 \in 0 .. m - 1
      BY <2>1
    <3>2. g[i - 1] = Cipher(Turn(nonce, i - 1, g))
      BY <2>2, <3>1, Zenon DEF Streams
    <3>3. h[i - 1] = Cipher(Turn(nonce, i - 1, g))
      BY <3>1
    <3> QED
      BY <3>2, <3>3
  <2>4. \A i \in 0 .. m - 1 : Turn(nonce, i, h) = Turn(nonce, i, g)
    <3> HIDE DEF h
    <3> QED
      BY <2>3 DEF Turn
  <2>5. h = [i \in 0 .. m - 1 |-> Cipher(Turn(nonce, i, h))]
    BY <2>4, ZenonT(40)
  <2>6. Streams(nonce, m, h)
    BY <2>5, ZenonT(40) DEF Streams
  <2> QED
    BY <1>2, <2>6
<1> QED
  BY <1>3, <1>4

\* It is what KeyStream defines.
LEMMA StreamIs ==
  ASSUME NEW nonce, NEW n \in Nat
  PROVE  \E g : Streams(nonce, n, g) /\ KeyStream(nonce, n) = g
<1>1. PICK h : Streams(nonce, n, h)
  BY StreamsExist
<1> QED
  BY <1>1, ZenonT(40) DEF Streams, Turn, KeyStream

\* Every block of the key stream is made by the cipher.
LEMMA StreamOfCipher ==
  ASSUME NEW nonce, NEW n \in Nat, NEW i \in 0 .. n - 1
  PROVE  \E x : KeyStream(nonce, n)[i] = Cipher(x)
<1>2. PICK g : Streams(nonce, n, g) /\ KeyStream(nonce, n) = g
  BY StreamIs
<1>3. g[i] = Cipher(Turn(nonce, i, g))
  BY <1>2, Zenon DEF Streams
<1> QED
  BY <1>2, <1>3

----------------------------------------------------------------------------
(* The bytes of a packed fragment.                                         *)

\* A byte that is no byte of a hash.
NoHash(b) == \A x, q : b # {<<"ghash", x, q>>}

\* An atom of another kind is none of a hash.
LEMMA OtherKind ==
  ASSUME NEW kind, kind # "ghash", NEW origin, NEW place
  PROVE  NoHash({<<kind, origin, place>>})
<1>1. \A x, q : <<kind, origin, place>> # <<"ghash", x, q>>
  OBVIOUS
<1> QED
  BY <1>1 DEF NoHash

\* The length and the bytes of Atoms.
LEMMA AtomsFacts ==
  ASSUME NEW kind, NEW origin, NEW n \in Nat
  PROVE  /\ DOMAIN Atoms(kind, origin, n) = 1 .. n
         /\ Len(Atoms(kind, origin, n)) = n
         /\ \A j \in 1 .. n : Atoms(kind, origin, n)[j] = {<<kind, origin, j>>}
<1> DEFINE S == {{<<kind, origin, j>>} : j \in 1 .. n}
<1>1. Atoms(kind, origin, n) \in [1 .. n -> S]
  BY DEF Atoms
<1> HIDE DEF S
<1>2. Atoms(kind, origin, n) \in Seq(S)
  BY <1>1, SeqDef
<1>3. DOMAIN Atoms(kind, origin, n) = 1 .. n
  BY DEF Atoms
<1>4. Len(Atoms(kind, origin, n)) = n
  BY <1>2, <1>3, LenProperties
<1> QED
  BY <1>3, <1>4 DEF Atoms

\* The quotient and the remainder of natural numbers.
LEMMA Division ==
  ASSUME NEW m \in Nat, m > 0, NEW n \in Nat
  PROVE  n \div m \in Nat /\ n % m \in 0 .. m - 1
<1>1. n \div m \in Int /\ n % m \in 0 .. m - 1 /\ n = m * (n \div m) + (n % m)
  OBVIOUS
<1> DEFINE q == n \div m
           product == m * q
<1>2. q \in Int /\ product \in Int /\ n = product + (n % m)
  BY <1>1
<1> HIDE DEF q
<1>3. q <= -1 => product <= -m
  BY <1>2
<1> HIDE DEF product
<1>4. ~(q <= -1)
  BY <1>1, <1>2, <1>3
<1> QED
  BY <1>1, <1>2, <1>4 DEF q

\* An encrypted byte of data is none of a hash.
LEMMA EncryptedBytes ==
  ASSUME NEW nonce, NEW origin, NEW n \in Nat
  PROVE  LET out == CtrEncrypto(nonce, Atoms("data", origin, n))
         IN  DOMAIN out = 1 .. n /\ \A j \in 1 .. n : NoHash(out[j])
<1> DEFINE data == Atoms("data", origin, n)
           blocks == Len(data) \div BlockBytes
           stream == KeyStream(nonce, blocks)
           out == CtrEncrypto(nonce, data)
<1>1. DOMAIN data = 1 .. n /\ Len(data) = n /\ \A j \in 1 .. n : data[j] = {<<"data", origin, j>>}
  BY AtomsFacts
<1>2. out = [j \in DOMAIN data |->
               IF RowOf(j) < blocks THEN SymDiff(data[j], stream[RowOf(j)][Place(j)]) ELSE data[j]]
  BY DEF CtrEncrypto
<1> HIDE DEF data, out, stream
<1>3. BlockBytes \in Nat /\ BlockBytes > 0
  BY BlockAssumption
<1>4. blocks \in Nat
  BY <1>1, <1>3, Division
<1>5. ASSUME NEW j \in 1 .. n PROVE NoHash(out[j])
  <2>1. CASE ~(RowOf(j) < blocks)
    <3>1. out[j] = {<<"data", origin, j>>}
      BY <1>1, <1>2, <2>1
    <3>2. "data" # "ghash"
      OBVIOUS
    <3> QED
      BY <3>1, <3>2, OtherKind
  <2>2. CASE RowOf(j) < blocks
    <3>1. RowOf(j) \in 0 .. blocks - 1 /\ Place(j) \in 1 .. BlockBytes
      <4>1. (j - 1) \div BlockBytes \in Nat /\ (j - 1) % BlockBytes \in 0 .. BlockBytes - 1
        BY <1>3, Division
      <4> QED
        BY <1>3, <1>4, <2>2, <4>1 DEF RowOf, Place
    <3>2. PICK x : stream[RowOf(j)] = Cipher(x)
      BY <1>4, <3>1, StreamOfCipher DEF stream
    <3>3. stream[RowOf(j)][Place(j)] = {<<"cipher", x, Place(j)>>}
      BY <1>3, <3>1, <3>2, AtomsFacts DEF Cipher
    <3>4. out[j] = SymDiff({<<"data", origin, j>>}, {<<"cipher", x, Place(j)>>})
      BY <1>1, <1>2, <2>2, <3>3
    <3>5. <<"data", origin, j>> # <<"cipher", x, Place(j)>>
      OBVIOUS
    <3>6. <<"data", origin, j>> \in out[j]
      BY <3>4, <3>5 DEF SymDiff
    <3> QED
      BY <3>6 DEF NoHash
  <2> QED
    BY <2>1, <2>2
<1> QED
  BY <1>1, <1>2, <1>5 DEF out, data

----------------------------------------------------------------------------
(* Sequences whose members have no type in common.                         *)

Word(s, n) == n \in Nat /\ s = [j \in 1 .. n |-> s[j]]

\* A word is a sequence.
LEMMA WordIsSeq ==
  ASSUME NEW s, NEW n, Word(s, n), NEW S, \A j \in 1 .. n : s[j] \in S
  PROVE  s \in Seq(S) /\ Len(s) = n /\ DOMAIN s = 1 .. n
<1>1. n \in Nat /\ s \in [1 .. n -> S]
  BY DEF Word
<1>2. s \in Seq(S)
  BY <1>1, SeqDef
<1> QED
  BY <1>1, <1>2, LenProperties

\* A sequence is a word.
LEMMA SeqIsWord ==
  ASSUME NEW S, NEW s \in Seq(S)
  PROVE  Word(s, Len(s))
BY LenProperties DEF Word

\* c is the word a and then the word b; s and then e; the part of s from a to b.
IsJoined(c, a, m, b, n) ==
  /\ Word(c, m + n)
  /\ \A i \in 1 .. m + n : c[i] = IF i <= m THEN a[i] ELSE b[i - m]
IsAppended(c, s, n, e) ==
  /\ Word(c, n + 1)
  /\ \A i \in 1 .. n + 1 : c[i] = IF i <= n THEN s[i] ELSE e
IsCut(c, s, a, b) ==
  /\ Word(c, b - a + 1)
  /\ \A i \in 1 .. b - a + 1 : c[i] = s[a + i - 1]

\* Two words, one after the other.
LEMMA Joined ==
  ASSUME NEW a, NEW m, Word(a, m), NEW b, NEW n, Word(b, n)
  PROVE  IsJoined(a \o b, a, m, b, n)
<1> DEFINE S == {a[j] : j \in 1 .. m} \cup {b[j] : j \in 1 .. n}
<1>1. (\A j \in 1 .. m : a[j] \in S) /\ (\A j \in 1 .. n : b[j] \in S)
  OBVIOUS
<1> HIDE DEF S
<1>2. a \in Seq(S) /\ Len(a) = m /\ b \in Seq(S) /\ Len(b) = n
  BY <1>1, WordIsSeq
<1>3. /\ a \o b \in Seq(S) /\ Len(a \o b) = m + n
      /\ \A i \in 1 .. m + n : (a \o b)[i] = IF i <= m THEN a[i] ELSE b[i - m]
  BY <1>2, ConcatProperties
<1>4. Word(a \o b, m + n)
  BY <1>3, SeqIsWord
<1> QED
  BY <1>3, <1>4 DEF IsJoined

\* A part of a word.
LEMMA Cut ==
  ASSUME NEW s, NEW n, Word(s, n), NEW a \in 1 .. n + 1, NEW b \in a - 1 .. n
  PROVE  IsCut(SubSeq(s, a, b), s, a, b)
<1> DEFINE S == {s[j] : j \in 1 .. n}
<1>1. \A j \in 1 .. n : s[j] \in S
  OBVIOUS
<1> HIDE DEF S
<1>2. s \in Seq(S) /\ Len(s) = n
  BY <1>1, WordIsSeq
<1>3. /\ SubSeq(s, a, b) \in Seq(S) /\ Len(SubSeq(s, a, b)) = b - a + 1
      /\ \A i \in 1 .. b - a + 1 : SubSeq(s, a, b)[i] = s[a + i - 1]
  BY <1>2, SubSeqProperties
<1>4. Word(SubSeq(s, a, b), b - a + 1)
  BY <1>3, SeqIsWord
<1> QED
  BY <1>3, <1>4 DEF IsCut

\* A word with one more member.
LEMMA Appended ==
  ASSUME NEW s, NEW n, Word(s, n), NEW e
  PROVE  IsAppended(Append(s, e), s, n, e)
<1> DEFINE S == {s[j] : j \in 1 .. n} \cup {e}
<1>1. e \in S /\ \A j \in 1 .. n : s[j] \in S
  OBVIOUS
<1> HIDE DEF S
<1>2. s \in Seq(S) /\ Len(s) = n /\ n \in Nat
  BY <1>1, WordIsSeq DEF Word
<1>3. /\ Append(s, e) \in Seq(S) /\ Len(Append(s, e)) = n + 1
      /\ \A i \in 1 .. n : Append(s, e)[i] = s[i]
      /\ Append(s, e)[n + 1] = e
  BY <1>1, <1>2, AppendProperties
<1>4. Word(Append(s, e), n + 1)
  BY <1>3, SeqIsWord
<1> QED
  BY <1>2, <1>3, <1>4 DEF IsAppended

\* Atoms are a word.
LEMMA AtomsWord ==
  ASSUME NEW kind, NEW origin, NEW n \in Nat
  PROVE  /\ Word(Atoms(kind, origin, n), n)
         /\ \A j \in 1 .. n : Atoms(kind, origin, n)[j] = {<<kind, origin, j>>}
BY DEF Word, Atoms

----------------------------------------------------------------------------
(* The authenticated data.                                                 *)

\* A number of bytes above that of a block, and below that of two, has one block.
LEMMA OneBlock ==
  ASSUME NEW m \in Nat, m > 0, NEW n \in Nat, n >= m, n < m + m
  PROVE  n \div m = 1
<1> DEFINE q == n \div m
           product == m * q
<1>1. n % m \in 0 .. m - 1 /\ q \in Int /\ product \in Int /\ n = product + (n % m)
  OBVIOUS
<1> HIDE DEF q
<1>2. (q <= 0 => product <= 0) /\ (q >= 2 => product >= m + m)
  BY <1>1
<1> HIDE DEF product
<1>3. ~(q <= 0) /\ ~(q >= 2)
  BY <1>1, <1>2
<1> QED
  BY <1>1, <1>3 DEF q

\* A small number is its own remainder.
LEMMA SmallRemainder ==
  ASSUME NEW m \in Nat, NEW n \in Nat, n < m
  PROVE  n % m = n
<1> DEFINE q == n \div m
           product == m * q
<1>1. n % m \in 0 .. m - 1 /\ q \in Int /\ product \in Int /\ n = product + (n % m)
  OBVIOUS
<1> HIDE DEF q
<1>2. (q <= -1 => product <= -m) /\ (q >= 1 => product >= m) /\ (q = 0 => product = 0)
  BY <1>1
<1> HIDE DEF product
<1>3. ~(q <= -1) /\ ~(q >= 1)
  BY <1>1, <1>2
<1> QED
  BY <1>1, <1>2, <1>3

AuthBytes == SeqBytes + 2

\* The length is the last byte of what is authenticated.
LEMMA AuthDataFacts ==
  ASSUME NEW type, NEW length
  PROVE  /\ Word(AuthData(type, length), AuthBytes)
         /\ AuthData(type, length)[AuthBytes] = {<<"length", length, 0>>}
         /\ Len(AuthData(type, length)) = AuthBytes
<1> DEFINE seq == Atoms("seq", 0, SeqBytes)
           fields == <<{<<"type", type, 0>>}, {<<"length", length, 0>>}>>
           auth == AuthData(type, length)
<1>1. SeqBytes \in Nat /\ Word(seq, SeqBytes)
  BY NonceAssumption, AtomsWord
<1>2. Word(fields, 2) /\ fields[2] = {<<"length", length, 0>>}
  BY DEF Word
<1>3. auth = seq \o fields
  BY DEF AuthData
<1> HIDE DEF seq, fields, auth
<1>4. IsJoined(auth, seq, SeqBytes, fields, 2)
  BY <1>1, <1>2, <1>3, Joined, Zenon
<1>5. Word(auth, AuthBytes) /\ auth[AuthBytes] = fields[2]
  BY <1>1, <1>4 DEF IsJoined, AuthBytes
<1>6. Len(auth) = AuthBytes
  <2> DEFINE S == {auth[j] : j \in 1 .. AuthBytes}
  <2>1. \A j \in 1 .. AuthBytes : auth[j] \in S
    OBVIOUS
  <2> HIDE DEF S
  <2> QED
    BY <1>5, <2>1, WordIsSeq
<1> QED
  BY <1>2, <1>5, <1>6 DEF auth

\* The first block absorbed of less than a block of bytes holds them all, so the
\* length is part of the hash.
LEMMA LengthAbsorbed ==
  ASSUME NEW type, NEW length
  PROVE  Absorbed(AuthData(type, length))[1][AuthBytes] = {<<"length", length, 0>>}
<1> DEFINE auth == AuthData(type, length)
           looped == (Len(auth) + BlockBytes - 1) \div BlockBytes - 1
           rest == Len(auth) % BlockBytes
           tail == SubSeq(auth, Len(auth) - rest + 1, Len(auth))
           blocks == [i \in 1 .. looped |-> BlockOf(auth, i - 1)]
           padding == SubSeq(Zeros, rest + 1, BlockBytes)
           block == tail \o padding
           one == <<block>>
           all == blocks \o one
<1>1. Absorbed(auth) = IF rest = 0 THEN blocks \o <<>> ELSE all
  BY DEF Absorbed
<1>2. /\ Word(auth, AuthBytes) /\ auth[AuthBytes] = {<<"length", length, 0>>}
      /\ Len(auth) = AuthBytes
  BY AuthDataFacts
<1> HIDE DEF auth
<1>3. AuthBytes \in Nat /\ AuthBytes > 0 /\ AuthBytes < BlockBytes /\ BlockBytes \in Nat
  BY NonceAssumption, BlockAssumption DEF AuthBytes
<1>4. looped = 0
  <2>1. (AuthBytes + BlockBytes - 1) \div BlockBytes = 1
    BY <1>3, OneBlock
  <2> QED
    BY <1>2, <2>1
<1>5. rest = AuthBytes
  BY <1>2, <1>3, SmallRemainder
<1> HIDE DEF looped, rest
<1>6. Word(tail, AuthBytes) /\ tail[AuthBytes] = auth[AuthBytes]
  <2>1. tail = SubSeq(auth, 1, AuthBytes)
    BY <1>2, <1>3, <1>5
  <2>2. AuthBytes \in 1 - 1 .. AuthBytes /\ 1 \in 1 .. AuthBytes + 1
    BY <1>3
  <2> HIDE DEF tail
  <2>3. IsCut(tail, auth, 1, AuthBytes)
    BY <1>2, <2>1, <2>2, Cut, Zenon
  <2> QED
    BY <1>3, <2>3 DEF IsCut
<1>7. Word(padding, BlockBytes - AuthBytes)
  <2>1. Word(Zeros, BlockBytes)
    BY <1>3 DEF Zeros, Word
  <2> DEFINE first == AuthBytes + 1
  <2>2. first \in 1 .. BlockBytes + 1 /\ BlockBytes \in first - 1 .. BlockBytes
    BY <1>3
  <2>3. padding = SubSeq(Zeros, first, BlockBytes) /\ first = AuthBytes + 1
    BY <1>5
  <2> HIDE DEF first, padding
  <2>4. IsCut(padding, Zeros, first, BlockBytes)
    BY <2>1, <2>2, <2>3, Cut, Zenon
  <2> QED
    BY <1>3, <2>3, <2>4 DEF IsCut
<1> HIDE DEF tail, padding
<1>8. block[AuthBytes] = auth[AuthBytes]
  <2>1. IsJoined(block, tail, AuthBytes, padding, BlockBytes - AuthBytes)
    BY <1>6, <1>7, Joined, Zenon
  <2> HIDE DEF block
  <2> QED
    BY <1>3, <1>6, <2>1 DEF IsJoined
<1> HIDE DEF block
<1>9. Word(blocks, 0) /\ Word(one, 1) /\ one[1] = block
  BY <1>4 DEF Word
<1> HIDE DEF blocks, one
<1>10. IsJoined(all, blocks, 0, one, 1)
  BY <1>9, Joined, Zenon
<1>11. Absorbed(auth) = all
  BY <1>1, <1>3, <1>5
<1> HIDE DEF all
<1>12. all[1] = block
  BY <1>9, <1>10 DEF IsJoined
<1> QED
  BY <1>2, <1>8, <1>11, <1>12 DEF auth

----------------------------------------------------------------------------
(* Records between the two ends.                                           *)

TagAt(n) == Explicit + n

\* A packed fragment: bytes that are none of a hash, and a hash of data that
\* names the record's own length.
IsPacked(r, n, x) ==
  /\ n \in Nat
  /\ Word(r.fragment, TagAt(n) + BlockBytes)
  /\ \A j \in 1 .. TagAt(n) : NoHash(r.fragment[j])
  /\ \A j \in 1 .. BlockBytes : r.fragment[TagAt(n) + j] = {<<"ghash", x, j>>}
  /\ x[1][1][AuthBytes] = {<<"length", n, 0>>}
WellPacked(r) == \E n, x : IsPacked(r, n, x)

PackedInv ==
  \E m : Word(packed, m) /\ \A i \in 1 .. m : WellPacked(packed[i])

\* The explicit part of the nonce has some bytes.
LEMMA Sizes ==
  /\ Explicit \in Nat /\ BlockBytes \in Nat /\ BlockBytes > 0
  /\ Overhead = Explicit + BlockBytes
BY BlockAssumption, NonceAssumption DEF Explicit, Overhead

\* tls_record_pack_aead makes such a fragment (tls_record.cpp:228-255).
LEMMA PackKeeps ==
  ASSUME NEW type, NEW n \in Lengths, PackAead(type, n), PackedInv
  PROVE  PackedInv'
<1> DEFINE data == Atoms("data", Len(packed), n)
           random == [j \in 1 .. Explicit |-> {<<"random", 0, stock[used + j]>>}]
           nonce == Nonce(random)
           auth == AuthData(type, n)
           enc == CtrEncrypto(nonce, data)
           tag == Ghash(auth, enc)
           front == random \o enc
           fragment == front \o tag
           r == [type |-> type, data |-> data, fragment |-> fragment]
<1>1. packed' = Append(packed, r)
  BY DEF PackAead, GcmEncrypto
<1>2. n \in Nat
  BY NonceAssumption
<1>3. Word(random, Explicit) /\ \A j \in 1 .. Explicit : NoHash(random[j])
  <2>1. Word(random, Explicit)
    BY Sizes DEF Word
  <2>2. \A j \in 1 .. Explicit : NoHash({<<"random", 0, stock[used + j]>>})
    <3>1. "random" # "ghash"
      OBVIOUS
    <3> QED
      BY <3>1, OtherKind
  <2> QED
    BY <2>1, <2>2
<1> HIDE DEF random, nonce
<1>4. Word(enc, n) /\ \A j \in 1 .. n : NoHash(enc[j])
  <2>1. DOMAIN enc = 1 .. n /\ \A j \in 1 .. n : NoHash(enc[j])
    BY <1>2, EncryptedBytes
  <2>2. enc = [j \in DOMAIN enc |-> enc[j]]
    BY DEF CtrEncrypto
  <2> HIDE DEF enc
  <2> QED
    BY <1>2, <2>1, <2>2 DEF Word
<1> HIDE DEF enc
<1> DEFINE x == <<Absorbed(auth), Absorbed(enc), Len(auth), Len(enc)>>
<1>5. Word(tag, BlockBytes) /\ \A j \in 1 .. BlockBytes : tag[j] = {<<"ghash", x, j>>}
  <2>1. tag = Atoms("ghash", x, BlockBytes)
    BY DEF Ghash
  <2> HIDE DEF tag, x
  <2> QED
    BY <2>1, Sizes, AtomsWord
<1>6. x[1][1][AuthBytes] = {<<"length", n, 0>>}
  BY LengthAbsorbed
<1> HIDE DEF tag, x
<1>7. IsJoined(front, random, Explicit, enc, n)
  BY <1>3, <1>4, Joined, Zenon
<1> HIDE DEF front
<1>8. Word(front, TagAt(n)) /\ \A j \in 1 .. TagAt(n) : NoHash(front[j])
  BY <1>2, <1>3, <1>4, <1>7, Sizes DEF IsJoined, TagAt
<1>9. IsJoined(fragment, front, TagAt(n), tag, BlockBytes)
  BY <1>5, <1>8, Joined, Zenon
<1>10. r.fragment = fragment
  OBVIOUS
<1> HIDE DEF fragment, r
<1>11. TagAt(n) \in Nat
  BY <1>2, Sizes DEF TagAt
<1>12. IsPacked(r, n, x)
  <2>1. \A j \in 1 .. TagAt(n) : fragment[j] = front[j]
    BY <1>9, <1>11, Sizes DEF IsJoined
  <2>2. \A j \in 1 .. BlockBytes : fragment[TagAt(n) + j] = tag[j]
    BY <1>9, <1>11, Sizes DEF IsJoined
  <2>3. Word(fragment, TagAt(n) + BlockBytes)
    BY <1>9 DEF IsJoined
  <2> QED
    BY <1>2, <1>5, <1>6, <1>8, <1>10, <2>1, <2>2, <2>3 DEF IsPacked
<1>13. WellPacked(r)
  BY <1>12 DEF WellPacked
<1>14. PICK m : Word(packed, m) /\ \A i \in 1 .. m : WellPacked(packed[i])
  BY DEF PackedInv
<1>15. IsAppended(packed', packed, m, r)
  BY <1>1, <1>14, Appended, Zenon
<1>16. \A i \in 1 .. m + 1 : WellPacked(packed'[i])
  BY <1>13, <1>14, <1>15 DEF IsAppended, Word
<1> QED
  BY <1>15, <1>16 DEF IsAppended, PackedInv

\* What arrives of a packed fragment: its own bytes, and others, which are none
\* of a hash.
LEMMA ArrivalBytes ==
  ASSUME NEW fragment, NEW size, Word(fragment, size), NEW buffer \in Arrivals(fragment)
  PROVE  /\ Word(buffer, size + BlockBytes)
         /\ \A i \in 1 .. size + BlockBytes :
              NoHash(buffer[i]) \/ (i <= size /\ buffer[i] = fragment[i])
<1> DEFINE before == Atoms("before", 0, BlockBytes)
           whole == fragment \o before
<1>1. Word(before, BlockBytes) /\ \A j \in 1 .. BlockBytes : NoHash(before[j])
  <2>1. /\ Word(before, BlockBytes)
        /\ \A j \in 1 .. BlockBytes : before[j] = {<<"before", 0, j>>}
    BY Sizes, AtomsWord
  <2>2. "before" # "ghash"
    OBVIOUS
  <2> HIDE DEF before
  <2> SUFFICES ASSUME NEW j \in 1 .. BlockBytes PROVE NoHash(before[j])
    BY <2>1
  <2>3. NoHash({<<"before", 0, j>>})
    BY <2>2, OtherKind
  <2> QED
    BY <2>1, <2>3
<1>3. \/ buffer = whole
      \/ \E j \in DOMAIN fragment : buffer = [whole EXCEPT ![j] = {<<"other", 0, 0>>}]
  <2>1. buffer \in {whole} \cup {[whole EXCEPT ![j] = {<<"other", 0, 0>>}] : j \in DOMAIN fragment}
    BY Zenon DEF Arrivals
  <2> HIDE DEF whole
  <2> QED
    BY <2>1
<1> HIDE DEF before
<1>2. IsJoined(whole, fragment, size, before, BlockBytes)
  BY <1>1, Joined, Zenon
<1> HIDE DEF whole
<1>4. \A i \in 1 .. size + BlockBytes :
        NoHash(whole[i]) \/ (i <= size /\ whole[i] = fragment[i])
  <2>1. size \in Nat
    BY DEF Word
  <2> SUFFICES ASSUME NEW i \in 1 .. size + BlockBytes
               PROVE  NoHash(whole[i]) \/ (i <= size /\ whole[i] = fragment[i])
    OBVIOUS
  <2>2. CASE i <= size
    <3>1. i \in 1 .. size
      BY <2>1, <2>2, Sizes
    <3> QED
      BY <1>2, <2>2, <3>1 DEF IsJoined
  <2>3. CASE ~(i <= size)
    <3>1. i - size \in 1 .. BlockBytes
      BY <2>1, <2>3, Sizes
    <3>2. whole[i] = before[i - size]
      BY <1>2, <2>3 DEF IsJoined
    <3> QED
      BY <1>1, <3>1, <3>2
  <2> QED
    BY <2>2, <2>3
<1>5. Word(whole, size + BlockBytes)
  BY <1>2 DEF IsJoined
<1>6. NoHash({<<"other", 0, 0>>})
  <2>1. "other" # "ghash"
    OBVIOUS
  <2> QED
    BY <2>1, OtherKind
<1>7. CASE buffer = whole
  BY <1>4, <1>5, <1>7
<1>8. ASSUME NEW j, buffer = [whole EXCEPT ![j] = {<<"other", 0, 0>>}]
      PROVE  /\ Word(buffer, size + BlockBytes)
             /\ \A i \in 1 .. size + BlockBytes :
                  buffer[i] = whole[i] \/ buffer[i] = {<<"other", 0, 0>>}
  BY <1>5, <1>8 DEF Word
<1> QED
  BY <1>3, <1>4, <1>6, <1>7, <1>8

\* No tag is accepted: it would have to be the one that was packed, for a fragment
\* as long as its own data (tls_record.cpp:257-284).
LEMMA TagRefused ==
  ASSUME NEW r, WellPacked(r), NEW buffer \in Arrivals(r.fragment),
         NEW length \in 0 .. Len(buffer), length > Overhead, NEW data
  PROVE  Ghash(AuthData(r.type, AuthLength(length)), data)
           # SubSeq(buffer, length - BlockBytes + 1, length)
<1> DEFINE auth == AuthData(r.type, AuthLength(length))
           hash == Ghash(auth, data)
           at == length - BlockBytes + 1
           tag == SubSeq(buffer, at, length)
           y == <<Absorbed(auth), Absorbed(data), Len(auth), Len(data)>>
<1>1. PICK n, x : IsPacked(r, n, x)
  BY DEF WellPacked
<1> DEFINE size == TagAt(n) + BlockBytes
<1>2. n \in Nat /\ TagAt(n) \in Nat /\ TagAt(n) = Explicit + n
  BY <1>1, Sizes DEF IsPacked, TagAt
<1>3. /\ Word(buffer, size + BlockBytes)
      /\ \A i \in 1 .. size + BlockBytes :
           NoHash(buffer[i]) \/ (i <= size /\ buffer[i] = r.fragment[i])
  BY <1>1, ArrivalBytes DEF IsPacked
<1>4. Len(buffer) = size + BlockBytes
  <2> DEFINE S == {buffer[j] : j \in 1 .. size + BlockBytes}
  <2>1. \A j \in 1 .. size + BlockBytes : buffer[j] \in S
    OBVIOUS
  <2> HIDE DEF S
  <2> QED
    BY <1>3, <2>1, WordIsSeq
<1> HIDE DEF hash, tag, y, auth
<1>5. /\ length \in Nat /\ length > Explicit + BlockBytes /\ length <= size + BlockBytes
      /\ at \in 1 .. size + BlockBytes /\ at \in 1 .. size + BlockBytes + 1
      /\ length \in at - 1 .. size + BlockBytes
  <2>1. /\ size \in Nat /\ Explicit \in Nat
        /\ BlockBytes \in Nat /\ BlockBytes > 0 /\ Overhead = Explicit + BlockBytes
    BY <1>2, Sizes
  <2>2. length \in Nat /\ length <= size + BlockBytes /\ length > Explicit + BlockBytes
    BY <1>4, <2>1
  <2> HIDE DEF size
  <2> QED
    BY <2>1, <2>2
<1>6. SUFFICES ASSUME hash = tag PROVE FALSE
  BY DEF hash, tag, auth
<1>7. tag[1] = buffer[at]
  <2>1. at = length - BlockBytes + 1
    OBVIOUS
  <2> HIDE DEF at, tag
  <2>2. IsCut(SubSeq(buffer, at, length), buffer, at, length)
    BY <1>3, <1>5, Cut, Zenon
  <2>3. tag = SubSeq(buffer, at, length)
    BY DEF tag
  <2>4. \A i \in 1 .. length - at + 1 : tag[i] = buffer[at + i - 1]
    BY <2>2, <2>3, Zenon DEF IsCut
  <2>5. 1 \in 1 .. length - at + 1 /\ at + 1 - 1 = at
    BY <1>5, <2>1, Sizes
  <2>6. tag[1] = buffer[at + 1 - 1]
    BY <2>4, <2>5, Zenon
  <2> QED
    BY <2>5, <2>6
<1>8. hash[1] = {<<"ghash", y, 1>>}
  <2>1. hash = Atoms("ghash", y, BlockBytes)
    BY DEF Ghash, hash, y
  <2> QED
    BY <2>1, Sizes, AtomsWord
<1>9. buffer[at] = {<<"ghash", y, 1>>}
  BY <1>6, <1>7, <1>8
<1>10. y[1][1][AuthBytes] = {<<"length", length, 0>>}
  BY LengthAbsorbed DEF AuthLength, y, auth
<1>11. ~NoHash(buffer[at])
  BY <1>9 DEF NoHash
<1>12. /\ at \in Nat \ {0} /\ at <= size
       /\ r.fragment[at] = {<<"ghash", y, 1>>} /\ ~NoHash(r.fragment[at])
  <2>1. at \in 1 .. size + BlockBytes
    BY <1>5
  <2>2. NoHash(buffer[at]) \/ (at <= size /\ buffer[at] = r.fragment[at])
    BY <1>3, <2>1
  <2>3. at \in Nat \ {0}
    BY <1>2, <1>5, Sizes
  <2> HIDE DEF at, size
  <2> QED
    BY <1>9, <1>11, <2>2, <2>3
<1>13. ~(at \in 1 .. TagAt(n))
  BY <1>1, <1>12 DEF IsPacked
<1> DEFINE j == at - TagAt(n)
<1>14. j \in 1 .. BlockBytes /\ TagAt(n) + j = at
  BY <1>2, <1>12, <1>13, Sizes
<1>15. r.fragment[at] = {<<"ghash", x, j>>}
  BY <1>1, <1>14 DEF IsPacked
<1>16. <<"ghash", x, j>> = <<"ghash", y, 1>>
  BY <1>12, <1>15
<1>17. x = y /\ j = 1
  BY <1>16
<1>18. {<<"length", n, 0>>} = {<<"length", length, 0>>}
  BY <1>1, <1>10, <1>17 DEF IsPacked
<1>19. n = length
  <2>1. <<"length", n, 0>> = <<"length", length, 0>>
    BY <1>18
  <2> QED
    BY <2>1
<1> QED
  BY <1>2, <1>14, <1>17, <1>19, Sizes

\* The receiver hands nothing over.
LEMMA ReceiveKeeps ==
  ASSUME ReceiveAead, PackedInv
  PROVE  handed' = handed
<1>1. PICK r \in Range(packed) : \E buffer \in Arrivals(r.fragment) :
        \E length \in 0 .. Len(buffer) : UnpackAead(buffer, r.type, length)
  BY DEF ReceiveAead
<1>b. PICK buffer \in Arrivals(r.fragment) :
        \E length \in 0 .. Len(buffer) : UnpackAead(buffer, r.type, length)
  BY <1>1
<1>l. PICK length \in 0 .. Len(buffer) : UnpackAead(buffer, r.type, length)
  BY <1>b
<1>2. WellPacked(r)
  BY DEF Range, PackedInv, Word
<1>3. CASE length <= Overhead
  BY <1>l, <1>3 DEF UnpackAead
<1>4. CASE ~(length <= Overhead)
  <2>1. length > Overhead
    BY <1>4, Sizes
  <2> DEFINE data == SubSeq(buffer, Explicit + 1, length - BlockBytes)
             tag == SubSeq(buffer, length - BlockBytes + 1, length)
             auth == AuthData(r.type, AuthLength(length))
  <2>2. Ghash(auth, data) # tag
    BY <1>2, <2>1, TagRefused
  <2>3. GcmDecrypto(Nonce(SubSeq(buffer, 1, Explicit)), auth, data, tag).ret = -1
    BY <2>2 DEF GcmDecrypto
  <2> QED
    BY <1>l, <2>3 DEF UnpackAead
<1> QED
  BY <1>3, <1>4

\* No fragment that was packed is ever opened, and no fragment of a block cipher
\* either, for every length and stock of random bytes (tls_record.cpp:194, 218-226,
\* 257-284).
THEOREM NothingOpened == Spec => []NothingOpens
<1> DEFINE Inv == PackedInv /\ handed = {}
<1>1. Init => Inv
  <2> SUFFICES ASSUME Init PROVE Inv
    OBVIOUS
  <2>1. Word(packed, 0)
    BY DEF Init, Word
  <2> QED
    BY <2>1 DEF Init, PackedInv
<1>2. Inv /\ [Next]_vars => Inv'
  <2> SUFFICES ASSUME PackedInv, handed = {}, [Next]_vars PROVE PackedInv' /\ handed' = {}
    OBVIOUS
  <2>1. CASE \E type \in 22 .. 23, n \in Lengths : PackAead(type, n)
    BY <2>1, PackKeeps DEF PackAead
  <2>2. CASE ReceiveAead
    <3>1. packed' = packed
      BY <2>2 DEF ReceiveAead, UnpackAead
    <3> QED
      BY <2>2, <3>1, ReceiveKeeps DEF PackedInv
  <2>3. CASE ReceiveBlock
    <3>1. packed' = packed
      BY <2>3 DEF ReceiveBlock
    <3> QED
      BY <2>3, <3>1, BlockKeeps DEF BlockStep, PackedInv
  <2>4. CASE UNCHANGED vars
    BY <2>4 DEF vars, PackedInv
  <2> QED
    BY <2>1, <2>2, <2>3, <2>4 DEF Next
<1>3. Inv => NothingOpens
  BY DEF NothingOpens
<1> QED
  BY <1>1, <1>2, <1>3, PTL DEF Spec
----------------------------------------------------------------------------
(* The key streams of two records.                                         *)

\* The quotient and the remainder are the only ones.
LEMMA DivisionUnique ==
  ASSUME NEW m \in Nat, m > 0, NEW q \in Nat, NEW r \in 0 .. m - 1, NEW n, n = m * q + r
  PROVE  n \div m = q /\ n % m = r
<1>0. PICK product : product = m * q
  OBVIOUS
<1>1. product \in Nat /\ n = product + r /\ n \in Nat
  BY <1>0
<1>2. PICK p, s : p = n \div m /\ s = n % m
  OBVIOUS
<1>3. p \in Nat /\ s \in 0 .. m - 1 /\ n = m * p + s
  BY <1>1, <1>2, Division
<1>4. PICK other : other = m * p
  OBVIOUS
<1>5. other \in Nat /\ other + s = product + r
  BY <1>1, <1>3, <1>4
<1>6. ~(p < q)
  <2> SUFFICES ASSUME p < q PROVE FALSE
    OBVIOUS
  <2>1. PICK d : d = q - p - 1
    OBVIOUS
  <2>2. d \in Nat /\ q = p + 1 + d
    BY <1>3, <2>1
  <2>3. product = other + m + m * d /\ m * d \in Nat
    BY <1>0, <1>3, <1>4, <2>2
  <2>4. PICK u : u = m * d
    OBVIOUS
  <2> QED
    BY <1>3, <1>5, <2>3, <2>4
<1>7. ~(q < p)
  <2> SUFFICES ASSUME q < p PROVE FALSE
    OBVIOUS
  <2>1. PICK d : d = p - q - 1
    OBVIOUS
  <2>2. d \in Nat /\ p = q + 1 + d
    BY <1>3, <2>1
  <2>3. other = product + m + m * d /\ m * d \in Nat
    BY <1>0, <1>3, <1>4, <2>2
  <2>4. PICK u : u = m * d
    OBVIOUS
  <2> QED
    BY <1>1, <1>3, <1>5, <2>3, <2>4
<1>8. p = q
  BY <1>3, <1>6, <1>7
<1> QED
  BY <1>0, <1>2, <1>3, <1>4, <1>5, <1>8

\* The block and the place of byte p of block k.
LEMMA InBlock ==
  ASSUME NEW k \in Nat, NEW p \in 1 .. BlockBytes
  PROVE  RowOf(k * BlockBytes + p) = k /\ Place(k * BlockBytes + p) = p
<1>1. PICK j, r : j = k * BlockBytes + p - 1 /\ r = p - 1
  OBVIOUS
<1>2. r \in 0 .. BlockBytes - 1 /\ j = BlockBytes * k + r
  BY <1>1, Sizes
<1>3. j \div BlockBytes = k /\ j % BlockBytes = r
  BY <1>2, Sizes, DivisionUnique
<1>4. (k * BlockBytes + p) - 1 = j
  BY <1>1, Sizes
<1> QED
  BY <1>1, <1>3, <1>4 DEF RowOf, Place

\* count blocks have len bytes.
AreBlocks(count, len) == count \in Nat /\ len \in Nat /\ len = count * BlockBytes

\* A block lies within the array.
LEMMA BlockInside ==
  ASSUME NEW count, NEW len, AreBlocks(count, len), NEW k \in 0 .. count - 1
  PROVE  \E first \in Nat :
           /\ first = k * BlockBytes /\ first + BlockBytes <= len
           /\ (k + 1) * BlockBytes = first + BlockBytes
<1>1. PICK first, d : first = k * BlockBytes /\ d = count - k - 1
  OBVIOUS
<1>2. d \in Nat /\ count = k + 1 + d /\ k \in Nat
  BY <1>1 DEF AreBlocks
<1>3. len = first + BlockBytes + d * BlockBytes /\ d * BlockBytes \in Nat /\ first \in Nat
  BY <1>1, <1>2, Sizes DEF AreBlocks
<1>4. PICK u : u = d * BlockBytes
  OBVIOUS
<1>5. first + BlockBytes <= len
  BY <1>3, <1>4, Sizes
<1>6. (k + 1) * BlockBytes = first + BlockBytes
  BY <1>1, <1>2, Sizes
<1> QED
  BY <1>1, <1>3, <1>5, <1>6

\* The byte at j of an array whose whole blocks reach that far is in one of them.
LEMMA WholeRows ==
  ASSUME NEW n \in Nat, NEW j \in Nat \ {0}, j <= n - (n % BlockBytes)
  PROVE  /\ RowOf(j) \in Nat /\ RowOf(j) < n \div BlockBytes /\ n \div BlockBytes \in Nat
         /\ Place(j) \in 1 .. BlockBytes /\ j <= n
<1>1. PICK b, q, rest, row, place :
        /\ b = BlockBytes /\ q = n \div b /\ rest = n % b
        /\ row = (j - 1) \div b /\ place = (j - 1) % b
  OBVIOUS
<1>2. b \in Nat /\ b > 0 /\ j - 1 \in Nat
  BY <1>1, Sizes
<1>3. q \in Nat /\ rest \in 0 .. b - 1 /\ row \in Nat /\ place \in 0 .. b - 1
  BY <1>1, <1>2, Division
<1>4. n = b * q + rest /\ j - 1 = b * row + place
  BY <1>1, <1>2
<1>5. row < q
  <2>1. PICK u, v, w : u = b * q /\ v = b * row /\ w = b * (row - q)
    OBVIOUS
  <2>2. u \in Int /\ v \in Int /\ w \in Int
    BY <1>2, <1>3, <2>1
  <2>3. v = u + w
    <3>1. row = q + (row - q) /\ row - q \in Int
      BY <1>3
    <3>2. b * (q + (row - q)) = b * q + b * (row - q)
      BY <1>2, <1>3, <3>1
    <3> QED
      BY <2>1, <3>1, <3>2
  <2>5. row >= q => w >= 0
    <3>1. PICK d : d = row - q
      OBVIOUS
    <3>2. d \in Nat => b * d \in Nat
      BY <1>2
    <3> QED
      BY <1>3, <2>1, <3>1, <3>2
  <2>4. j <= u /\ j - 1 = v + place
    <3>1. n = u + rest /\ j - 1 = v + place
      BY <1>4, <2>1
    <3>2. j <= n - rest
      BY <1>1
    <3> QED
      BY <1>3, <2>2, <3>1, <3>2
  <2> QED
    BY <1>3, <2>2, <2>3, <2>4, <2>5
<1> QED
  BY <1>1, <1>2, <1>3, <1>5 DEF RowOf, Place

\* The cipher never makes one byte of two blocks.
LEMMA CipherInjective ==
  ASSUME NEW a, NEW b, NEW p \in 1 .. BlockBytes, Cipher(a)[p] = Cipher(b)[p]
  PROVE  a = b
<1>1. Cipher(a)[p] = {<<"cipher", a, p>>} /\ Cipher(b)[p] = {<<"cipher", b, p>>}
  BY AtomsWord, Sizes DEF Cipher
<1>2. <<"cipher", a, p>> = <<"cipher", b, p>>
  BY <1>1
<1> QED
  BY <1>2

\* The first k blocks of two key streams are the same; none is from block k on.
AgreeTo(k, m, g, n, h) == \A i \in Nat : i < k /\ i < m /\ i < n => g[i] = h[i]
DifferFrom(k, m, g, n, h) == \A i \in Nat : k <= i /\ i < m /\ i < n => g[i] # h[i]

\* As far as two nonces have their bytes in common, so have their key streams their
\* blocks, whatever the numbers of blocks are.
LEMMA StreamsAgree ==
  ASSUME NEW x, NEW m \in Nat, NEW g, Streams(x, m, g),
         NEW y, NEW n \in Nat, NEW h, Streams(y, n, h),
         NEW k \in Nat, \A j \in 1 .. k : x[j] = y[j]
  PROVE  AgreeTo(k, m, g, n, h)
<1> USE DEF AgreeTo
<1> DEFINE T == {i \in Nat : i < k /\ i < m /\ i < n /\ g[i] # h[i]}
<1>1. SUFFICES ASSUME T # {} PROVE FALSE
  OBVIOUS
<1>2. PICK i \in T : \A l \in T : i <= l
  <2>1. T \subseteq Nat
    OBVIOUS
  <2> HIDE DEF T
  <2> QED
    BY <1>1, <2>1, Least
<1>3. i \in Nat /\ i < k /\ i < m /\ i < n /\ g[i] # h[i]
  OBVIOUS
<1>4. i # 0 => g[i - 1] = h[i - 1]
  <2> SUFFICES ASSUME i # 0 PROVE g[i - 1] = h[i - 1]
    OBVIOUS
  <2>1. i - 1 \in Nat /\ i - 1 \notin T
    BY <1>2, <1>3
  <2> QED
    BY <1>3, <2>1
<1>5. x[i + 1] = y[i + 1]
  BY <1>3
<1>6. Turn(x, i, g) = Turn(y, i, h)
  BY <1>4, <1>5 DEF Turn
<1>7. g[i] = Cipher(Turn(x, i, g)) /\ h[i] = Cipher(Turn(y, i, h))
  <2>1. i \in 0 .. m - 1 /\ i \in 0 .. n - 1
    BY <1>3
  <2> QED
    BY <2>1, Zenon DEF Streams
<1> QED
  BY <1>3, <1>6, <1>7

\* From a byte on in which two nonces differ, all blocks of their key streams do: a
\* block that is made of another one is another.
LEMMA StreamsPart ==
  ASSUME NEW x, NEW m \in Nat, NEW g, Streams(x, m, g),
         NEW y, NEW n \in Nat, NEW h, Streams(y, n, h),
         NEW k \in 0 .. NonceBytes - 1, x[k + 1] # y[k + 1]
  PROVE  DifferFrom(k, m, g, n, h)
<1> USE DEF DifferFrom
<1> DEFINE T == {i \in Nat : k <= i /\ i < m /\ i < n /\ g[i] = h[i]}
<1>1. SUFFICES ASSUME T # {} PROVE FALSE
  OBVIOUS
<1>2. PICK i \in T : \A l \in T : i <= l
  <2>1. T \subseteq Nat
    OBVIOUS
  <2> HIDE DEF T
  <2> QED
    BY <1>1, <2>1, Least
<1>3. i \in Nat /\ k <= i /\ i < m /\ i < n /\ g[i] = h[i]
  OBVIOUS
<1>4. /\ NonceBytes \in Nat /\ NonceBytes < BlockBytes /\ BlockBytes \in Nat
      /\ k \in Nat /\ k + 1 <= NonceBytes
  BY BlockAssumption
<1>5. \A l \in Nat : l < m /\ l < n =>
        g[l] = Cipher(Turn(x, l, g)) /\ h[l] = Cipher(Turn(y, l, h))
  <2> SUFFICES ASSUME NEW l \in Nat, l < m, l < n
               PROVE  g[l] = Cipher(Turn(x, l, g)) /\ h[l] = Cipher(Turn(y, l, h))
    OBVIOUS
  <2>1. l \in 0 .. m - 1 /\ l \in 0 .. n - 1
    OBVIOUS
  <2> QED
    BY <2>1, Zenon DEF Streams
<1>6. Turn(x, i, g) = Turn(y, i, h)
  <2>1. 1 \in 1 .. BlockBytes
    BY <1>4
  <2>2. Cipher(Turn(x, i, g))[1] = Cipher(Turn(y, i, h))[1]
    BY <1>3, <1>5
  <2> QED
    BY <2>1, <2>2, CipherInjective
<1>7. CASE i = k
  <2>1. Turn(x, i, g)[k + 1] = x[k + 1] /\ Turn(y, i, h)[k + 1] = y[k + 1]
    BY <1>4, <1>7 DEF Turn
  <2> QED
    BY <1>6, <2>1
<1>8. CASE i # k
  <2>1. i - 1 \in Nat /\ k <= i - 1 /\ i - 1 < m /\ i - 1 < n /\ i - 1 \notin T
    BY <1>2, <1>3, <1>4, <1>8
  <2>2. Turn(x, i, g)[1] = g[i - 1][1] /\ Turn(y, i, h)[1] = h[i - 1][1]
    BY <1>3, <1>4, <1>8 DEF Turn
  <2>3. g[i - 1][1] = h[i - 1][1]
    BY <1>6, <2>2
  <2>4. Turn(x, i - 1, g) = Turn(y, i - 1, h)
    <3>1. 1 \in 1 .. BlockBytes
      BY <1>4
    <3>2. Cipher(Turn(x, i - 1, g))[1] = Cipher(Turn(y, i - 1, h))[1]
      BY <1>5, <2>1, <2>3
    <3> QED
      BY <3>1, <3>2, CipherInjective
  <2>5. g[i - 1] = h[i - 1]
    BY <1>5, <2>1, <2>4
  <2> QED
    BY <2>1, <2>5
<1> QED
  BY <1>7, <1>8

\* The mask of a record of n bytes is the key stream of the nonce with the explicit
\* part random, with which its fragment begins.
IsMasked(r, n, random) ==
  /\ n \in Nat /\ Len(r.data) = n
  /\ Word(random, Explicit) /\ \A p \in 1 .. Explicit : r.fragment[p] = random[p]
  /\ \A j \in 1 .. n :
       RowOf(j) < n \div BlockBytes =>
         Mask(r)[j] = KeyStream(Nonce(random), n \div BlockBytes)[RowOf(j)][Place(j)]
Masked(r) == \E n, random : IsMasked(r, n, random)

\* Every record is masked.
MaskedInv == \E m : Word(packed, m) /\ \A i \in 1 .. m : Masked(packed[i])

\* Adding a byte twice takes it off.
LEMMA AddedTwice ==
  ASSUME NEW s, NEW t
  PROVE  SymDiff(s, SymDiff(s, t)) = t
BY DEF SymDiff

\* tls_record_pack_aead masks the data with the key stream of its random bytes.
LEMMA SealMasks ==
  ASSUME NEW type, NEW origin, NEW n \in Nat, NEW random, Word(random, Explicit),
         NEW data, data = Atoms("data", origin, n),
         NEW sealed, sealed = GcmEncrypto(Nonce(random), AuthData(type, n), data),
         NEW r, r = [type |-> type, data |-> data, fragment |-> random \o sealed.data \o sealed.tag]
  PROVE  IsMasked(r, n, random)
<1> DEFINE blocks == n \div BlockBytes
           stream == KeyStream(Nonce(random), blocks)
           enc == sealed.data
           tag == sealed.tag
           front == random \o enc
           fragment == front \o tag
<1>1. Word(data, n) /\ DOMAIN data = 1 .. n /\ Len(data) = n
  BY AtomsWord, AtomsFacts
<1>2. /\ enc = CtrEncrypto(Nonce(random), data)
      /\ tag = Ghash(AuthData(type, n), enc)
  BY DEF GcmEncrypto
<1>3. enc = [j \in 1 .. n |-> IF RowOf(j) < blocks
                              THEN SymDiff(data[j], stream[RowOf(j)][Place(j)]) ELSE data[j]]
  BY <1>1, <1>2 DEF CtrEncrypto
<1> HIDE DEF stream, enc, tag, blocks
<1>4. Word(enc, n)
  BY <1>3 DEF Word
<1>5. Word(tag, BlockBytes)
  <2>1. PICK y : tag = Atoms("ghash", y, BlockBytes)
    BY <1>2 DEF Ghash
  <2> QED
    BY <2>1, Sizes, AtomsWord
<1>6. IsJoined(front, random, Explicit, enc, n)
  BY <1>4, Joined, Zenon
<1> HIDE DEF front
<1>7. Word(front, Explicit + n)
  BY <1>6 DEF IsJoined
<1>8. IsJoined(fragment, front, Explicit + n, tag, BlockBytes)
  BY <1>5, <1>7, Joined, Zenon
<1>9. r.fragment = fragment /\ r.data = data
  BY DEF fragment, front, enc, tag
<1> HIDE DEF fragment
<1>10. Explicit \in Nat /\ Explicit >= 1 /\ BlockBytes \in Nat
  BY BlockAssumption, NonceAssumption DEF Explicit
<1>11. /\ \A p \in 1 .. Explicit : fragment[p] = random[p]
       /\ \A j \in 1 .. n : fragment[Explicit + j] = enc[j]
  <2>1. \A j \in 1 .. Explicit + n : fragment[j] = front[j]
    BY <1>8, <1>10 DEF IsJoined
  <2>2. ASSUME NEW p \in 1 .. Explicit PROVE p \in 1 .. Explicit + n /\ front[p] = random[p]
    <3>1. p \in 1 .. Explicit + n /\ p <= Explicit
      BY <1>10
    <3> QED
      BY <1>6, <3>1 DEF IsJoined
  <2>3. \A j \in 1 .. n : front[Explicit + j] = enc[j]
    <3> SUFFICES ASSUME NEW j \in 1 .. n PROVE front[Explicit + j] = enc[j]
      OBVIOUS
    <3>1. Explicit + j \in 1 .. Explicit + n /\ ~(Explicit + j <= Explicit) /\ (Explicit + j) - Explicit = j
      BY <1>10
    <3> QED
      BY <1>6, <3>1 DEF IsJoined
  <2>4. \A j \in 1 .. n : Explicit + j \in 1 .. Explicit + n
    BY <1>10
  <2> QED
    BY <2>1, <2>2, <2>3, <2>4
<1>12. \A j \in 1 .. n : SubSeq(fragment, Explicit + 1, Explicit + n)[j] = enc[j]
  <2>1. PICK size, a, b : size = Explicit + n + BlockBytes /\ a = Explicit + 1 /\ b = Explicit + n
    OBVIOUS
  <2>2. Word(fragment, size) /\ a \in 1 .. size + 1 /\ b \in a - 1 .. size
    BY <1>8, <1>10, <2>1 DEF IsJoined
  <2>3. IsCut(SubSeq(fragment, a, b), fragment, a, b)
    BY <2>2, Cut, Zenon
  <2>4. \A j \in 1 .. n : SubSeq(fragment, a, b)[j] = fragment[a + j - 1]
    BY <1>10, <2>1, <2>3 DEF IsCut
  <2>5. \A j \in 1 .. n : a + j - 1 = Explicit + j
    BY <1>10, <2>1
  <2> QED
    BY <1>11, <2>1, <2>4, <2>5
<1>13. ASSUME NEW j \in 1 .. n, RowOf(j) < blocks
       PROVE  Mask(r)[j] = stream[RowOf(j)][Place(j)]
  <2>1. Mask(r) = Sum(data, SubSeq(fragment, Explicit + 1, Explicit + n))
    BY <1>1, <1>9 DEF Mask
  <2>2. Mask(r)[j] = SymDiff(data[j], enc[j])
    BY <1>1, <1>12, <2>1 DEF Sum
  <2>3. enc[j] = SymDiff(data[j], stream[RowOf(j)][Place(j)])
    BY <1>3, <1>13
  <2> QED
    BY <2>2, <2>3, AddedTwice
<1> QED
  BY <1>1, <1>9, <1>11, <1>13 DEF IsMasked, stream, blocks

\* A new record is masked, with whatever random bytes are next.
LEMMA MaskedKeeps ==
  ASSUME NEW type, NEW n \in Lengths, PackAead(type, n), MaskedInv
  PROVE  MaskedInv'
<1> DEFINE data == Atoms("data", Len(packed), n)
           random == [j \in 1 .. Explicit |-> {<<"random", 0, stock[used + j]>>}]
           sealed == GcmEncrypto(Nonce(random), AuthData(type, n), data)
           r == [type |-> type, data |-> data, fragment |-> random \o sealed.data \o sealed.tag]
<1>1. packed' = Append(packed, r)
  BY DEF PackAead
<1>2. n \in Nat
  BY NonceAssumption
<1>3. Word(random, Explicit)
  BY Sizes DEF Word
<1> HIDE DEF random
<1>4. IsMasked(r, n, random)
  BY <1>2, <1>3, SealMasks
<1> HIDE DEF r
<1>5. Masked(r)
  BY <1>4 DEF Masked
<1>6. PICK m : Word(packed, m) /\ \A i \in 1 .. m : Masked(packed[i])
  BY DEF MaskedInv
<1>7. IsAppended(packed', packed, m, r)
  BY <1>1, <1>6, Appended, Zenon
<1>8. /\ m \in Nat /\ Word(packed', m + 1) /\ packed'[m + 1] = r
      /\ \A i \in 1 .. m : packed'[i] = packed[i]
  BY <1>6, <1>7 DEF IsAppended, Word
<1>9. \A i \in 1 .. m + 1 : i \in 1 .. m \/ i = m + 1
  BY <1>8
<1>10. \A i \in 1 .. m + 1 : Masked(packed'[i])
  BY <1>5, <1>6, <1>8, <1>9
<1> QED
  BY <1>8, <1>10 DEF MaskedInv

\* The nonce holds the fixed bytes and then the random ones.
LEMMA NonceBytesOf ==
  ASSUME NEW x, Word(x, Explicit)
  PROVE  /\ \A l \in 1 .. IvBytes : Nonce(x)[l] = WriteIv[l]
         /\ \A p \in 1 .. Explicit : Nonce(x)[IvBytes + p] = x[p]
<1>1. IvBytes \in Nat /\ Explicit \in Nat
  BY BlockAssumption, NonceAssumption DEF Explicit
<1>2. Word(WriteIv, IvBytes)
  BY <1>1, AtomsWord DEF WriteIv
<1>3. IsJoined(Nonce(x), WriteIv, IvBytes, x, Explicit)
  BY <1>2, Joined, Zenon DEF Nonce
<1>4. \A l \in 1 .. IvBytes : l \in 1 .. IvBytes + Explicit /\ l <= IvBytes
  BY <1>1
<1>5. \A p \in 1 .. Explicit : /\ IvBytes + p \in 1 .. IvBytes + Explicit
                               /\ ~(IvBytes + p <= IvBytes) /\ (IvBytes + p) - IvBytes = p
  BY <1>1
<1> QED
  BY <1>3, <1>4, <1>5 DEF IsJoined

\* As far as the random bytes reach into the first k bytes of two nonces.
Alike(x, y, k) == \A p \in 1 .. Explicit : IvBytes + p <= k => x[p] = y[p]

\* Two nonces agree as far as their random bytes do.
LEMMA NoncesAgree ==
  ASSUME NEW x, Word(x, Explicit), NEW y, Word(y, Explicit), NEW k \in Nat, Alike(x, y, k)
  PROVE  \A l \in 1 .. k : Nonce(x)[l] = Nonce(y)[l]
<1>1. IvBytes \in Nat /\ NonceBytes \in Nat /\ Explicit \in Nat /\ Explicit = NonceBytes - IvBytes
  BY BlockAssumption, NonceAssumption DEF Explicit
<1>2. CASE k <= NonceBytes
  <2> SUFFICES ASSUME NEW l \in 1 .. k PROVE Nonce(x)[l] = Nonce(y)[l]
    OBVIOUS
  <2>1. CASE l <= IvBytes
    <3>1. l \in 1 .. IvBytes
      BY <1>1, <2>1
    <3> QED
      BY <3>1, NonceBytesOf
  <2>2. CASE ~(l <= IvBytes)
    <3>1. PICK p : p = l - IvBytes
      OBVIOUS
    <3>2. p \in 1 .. Explicit /\ IvBytes + p = l /\ IvBytes + p <= k
      BY <1>1, <1>2, <2>2, <3>1
    <3>3. x[p] = y[p]
      BY <3>2 DEF Alike
    <3>4. Nonce(x)[IvBytes + p] = x[p] /\ Nonce(y)[IvBytes + p] = y[p]
      BY <3>2, NonceBytesOf
    <3> QED
      BY <3>2, <3>3, <3>4
  <2> QED
    BY <2>1, <2>2
<1>3. CASE ~(k <= NonceBytes)
  <2>1. \A p \in 1 .. Explicit : IvBytes + p <= k
    BY <1>1, <1>3
  <2>2. \A p \in 1 .. Explicit : x[p] = y[p]
    BY <2>1 DEF Alike
  <2>3. x = y
    BY <2>2 DEF Word
  <2> QED
    BY <2>3
<1> QED
  BY <1>2, <1>3

\* Block b of the key streams of two nonces is the same just if the random bytes
\* that have gone into it are.
LEMMA BlocksAlike ==
  ASSUME NEW x, Word(x, Explicit), NEW m \in Nat, NEW g, Streams(Nonce(x), m, g),
         NEW y, Word(y, Explicit), NEW n \in Nat, NEW h, Streams(Nonce(y), n, h),
         NEW b \in Nat, b < m, b < n
  PROVE  g[b] = h[b] <=> Alike(x, y, b + 1)
<1>1. PICK u, v : u = Nonce(x) /\ v = Nonce(y)
  OBVIOUS
<1>2. Streams(u, m, g) /\ Streams(v, n, h)
  BY <1>1
<1>3. ASSUME Alike(x, y, b + 1) PROVE g[b] = h[b]
  <2>1. PICK k : k = b + 1
    OBVIOUS
  <2>2. k \in Nat /\ b < k
    BY <2>1
  <2>3. \A l \in 1 .. k : Nonce(x)[l] = Nonce(y)[l]
    BY <1>3, <2>1, <2>2, NoncesAgree
  <2>4. \A l \in 1 .. k : u[l] = v[l]
    BY <1>1, <2>3
  <2>5. AgreeTo(k, m, g, n, h)
    BY <1>2, <2>2, <2>4, StreamsAgree
  <2> QED
    BY <2>2, <2>5 DEF AgreeTo
<1>4. ASSUME ~Alike(x, y, b + 1) PROVE g[b] # h[b]
  <2>1. PICK p \in 1 .. Explicit : IvBytes + p <= b + 1 /\ x[p] # y[p]
    BY <1>4 DEF Alike
  <2>2. PICK k : k = IvBytes + p - 1
    OBVIOUS
  <2>3. k \in 0 .. NonceBytes - 1 /\ k + 1 = IvBytes + p /\ k <= b
    BY <2>1, <2>2, BlockAssumption, NonceAssumption DEF Explicit
  <2>4. Nonce(x)[IvBytes + p] = x[p] /\ Nonce(y)[IvBytes + p] = y[p]
    BY NonceBytesOf
  <2>5. u[k + 1] # v[k + 1]
    BY <1>1, <2>1, <2>3, <2>4
  <2>6. DifferFrom(k, m, g, n, h)
    BY <1>2, <2>3, <2>5, StreamsPart
  <2> QED
    BY <2>3, <2>6 DEF DifferFrom
<1> QED
  BY <1>3, <1>4

\* Block b of n bytes is added to what the key stream is there.
LEMMA BlockMasked ==
  ASSUME NEW r, NEW n, NEW x, IsMasked(r, n, x),
         NEW g, KeyStream(Nonce(x), n \div BlockBytes) = g,
         NEW b \in Nat, b < n \div BlockBytes, NEW p \in 1 .. BlockBytes
  PROVE  Mask(r)[b * BlockBytes + p] = g[b][p]
<1>1. PICK rows, size, len : rows = n \div BlockBytes /\ size = n % BlockBytes /\ len = rows * BlockBytes
  OBVIOUS
<1>2. n \in Nat
  BY DEF IsMasked
<1>3. rows \in Nat /\ size \in Nat /\ n = BlockBytes * rows + size
  BY <1>1, <1>2, Sizes, Division
<1>4. BlockBytes * rows = rows * BlockBytes /\ rows * BlockBytes \in Nat
  BY <1>3, Sizes
<1>5. AreBlocks(rows, len) /\ len <= n
  BY <1>1, <1>3, <1>4 DEF AreBlocks
<1>6. b \in 0 .. rows - 1
  BY <1>1, <1>3
<1>7. PICK first \in Nat : first = b * BlockBytes /\ first + BlockBytes <= len
  BY <1>5, <1>6, BlockInside
<1>8. PICK j : j = b * BlockBytes + p
  OBVIOUS
<1>9. j \in 1 .. n
  BY <1>2, <1>5, <1>7, <1>8, Sizes DEF AreBlocks
<1>10. RowOf(j) = b /\ Place(j) = p
  BY <1>8, InBlock
<1>11. Mask(r)[j] = KeyStream(Nonce(x), n \div BlockBytes)[RowOf(j)][Place(j)]
  BY <1>9, <1>10 DEF IsMasked
<1> QED
  BY <1>8, <1>10, <1>11

\* Two masked records share block b of their masks just if their random bytes up to
\* it are equal.
LEMMA MaskedShared == MaskedInv => MasksShared
<1> SUFFICES ASSUME MaskedInv,
                    NEW r \in Range(packed), NEW s \in Range(packed),
                    NEW b \in (0 .. Blocks(r) - 1) \cap (0 .. Blocks(s) - 1)
             PROVE  SameMask(r, s, b) <=> SameRandom(r, s, b)
  BY DEF MasksShared
<1>1. Masked(r) /\ Masked(s)
  <2>1. PICK m : Word(packed, m) /\ \A i \in 1 .. m : Masked(packed[i])
    BY DEF MaskedInv
  <2>2. DOMAIN packed = 1 .. m
    BY <2>1 DEF Word
  <2> QED
    BY <2>1, <2>2 DEF Range
<1>2. PICK n, x : IsMasked(r, n, x)
  BY <1>1 DEF Masked
<1>3. PICK o, y : IsMasked(s, o, y)
  BY <1>1 DEF Masked
<1>4. PICK rows, others : rows = n \div BlockBytes /\ others = o \div BlockBytes
  OBVIOUS
<1>5. /\ n \in Nat /\ Blocks(r) = rows /\ rows \in Nat
      /\ o \in Nat /\ Blocks(s) = others /\ others \in Nat
  BY <1>2, <1>3, <1>4, Sizes, Division DEF IsMasked, Blocks
<1>6. b \in Nat /\ b < rows /\ b < others
  BY <1>5
<1>7. PICK g : Streams(Nonce(x), rows, g) /\ KeyStream(Nonce(x), rows) = g
  BY <1>5, StreamIs
<1>8. PICK h : Streams(Nonce(y), others, h) /\ KeyStream(Nonce(y), others) = h
  BY <1>5, StreamIs
<1>9. \A p \in 1 .. BlockBytes : /\ Mask(r)[b * BlockBytes + p] = g[b][p]
                                 /\ Mask(s)[b * BlockBytes + p] = h[b][p]
  BY <1>2, <1>3, <1>4, <1>6, <1>7, <1>8, BlockMasked
<1>10. g[b] = h[b] <=> Alike(x, y, b + 1)
  <2>1. Word(x, Explicit) /\ Word(y, Explicit)
    BY <1>2, <1>3 DEF IsMasked
  <2> QED
    BY <1>5, <1>6, <1>7, <1>8, <2>1, BlocksAlike
<1>11. SameMask(r, s, b) <=> g[b] = h[b]
  <2>1. PICK u, v : g[b] = Cipher(u) /\ h[b] = Cipher(v)
    <3>1. b \in 0 .. rows - 1 /\ b \in 0 .. others - 1
      BY <1>5, <1>6
    <3>2. g[b] = Cipher(Turn(Nonce(x), b, g)) /\ h[b] = Cipher(Turn(Nonce(y), b, h))
      BY <1>7, <1>8, <3>1, Zenon DEF Streams
    <3> QED
      BY <3>2
  <2>2. 1 \in 1 .. BlockBytes
    BY Sizes
  <2>3. g[b][1] = h[b][1] => g[b] = h[b]
    BY <2>1, <2>2, CipherInjective
  <2>4. SameMask(r, s, b) <=> \A p \in 1 .. BlockBytes : g[b][p] = h[b][p]
    BY <1>9 DEF SameMask
  <2> QED
    BY <2>2, <2>3, <2>4
<1>12. SameRandom(r, s, b) <=> Alike(x, y, b + 1)
  BY <1>2, <1>3 DEF SameRandom, Alike, IsMasked
<1> QED
  BY <1>10, <1>11, <1>12

\* Two packed records have block b of the key stream in common just if their random
\* bytes up to it are equal, whatever those are, for every size of block and nonce and
\* lengths of data that CTR does not write beyond its buffer for (tls_record.cpp:235,
\* tls_crypto_aes.cpp:242).
THEOREM StreamsShared == Spec => []MasksShared
<1>1. Init => MaskedInv
  <2> SUFFICES ASSUME Init PROVE MaskedInv
    OBVIOUS
  <2>1. Word(packed, 0)
    BY DEF Init, Word
  <2> QED
    BY <2>1 DEF MaskedInv
<1>2. MaskedInv /\ [Next]_vars => MaskedInv'
  <2> SUFFICES ASSUME MaskedInv, [Next]_vars PROVE MaskedInv'
    OBVIOUS
  <2>1. CASE \E type \in 22 .. 23, n \in Lengths : PackAead(type, n)
    BY <2>1, MaskedKeeps
  <2>2. CASE ReceiveAead \/ ReceiveBlock \/ UNCHANGED vars
    <3>1. packed' = packed
      BY <2>2 DEF ReceiveAead, UnpackAead, ReceiveBlock, vars
    <3> QED
      BY <3>1 DEF MaskedInv
  <2> QED
    BY <2>1, <2>2 DEF Next
<1> QED
  BY <1>1, <1>2, MaskedShared, PTL DEF Spec

----------------------------------------------------------------------------
(* The modes, one call at a time, and what CTR masks.                      *)

\* What a call leaves; the inputs are those of the function.
CallsInv ==
  /\ \/ callee = "aes" /\ in \in AesInputs
     \/ callee = "ghash" /\ in \in GhashInputs
     \/ callee = "hmac" /\ in \in HmacInputs
     \/ callee = "cbc" /\ in \in CbcInputs
     \/ callee = "ctr" /\ in \in CtrInputs
     \/ callee = "gcm" /\ in \in {x \in GcmInputs : x.place <= PartLength(x)}
  /\ done => result = Computed(callee, in)

\* The arguments stay, and what is returned is the function's result.
LEMMA CallsInductive == PrimitivesSpec => []CallsInv
<1>1. PrimitivesInit => CallsInv
  BY Zenon DEF PrimitivesInit, CallsInv
<1>2. CallsInv /\ [Call]_callVars => CallsInv'
  BY DEF CallsInv, Call, callVars
<1> QED
  BY <1>1, <1>2, PTL DEF PrimitivesSpec

\* A byte is in a whole block just if it is in front of the rest.
LEMMA WholeOrRest ==
  ASSUME NEW n \in Nat, NEW j \in 1 .. n
  PROVE  RowOf(j) < n \div BlockBytes <=> j <= n - (n % BlockBytes)
<1>1. PICK b, q, rest, row, place :
        /\ b = BlockBytes /\ q = n \div b /\ rest = n % b
        /\ row = (j - 1) \div b /\ place = (j - 1) % b
  OBVIOUS
<1>2. b \in Nat /\ b > 0 /\ j - 1 \in Nat
  BY <1>1, Sizes
<1>3. q \in Nat /\ rest \in 0 .. b - 1 /\ row \in Nat /\ place \in 0 .. b - 1
  BY <1>1, <1>2, Division
<1>4. n = b * q + rest /\ j - 1 = b * row + place
  BY <1>1, <1>2
<1>5. row < q => j <= n - rest
  <2> SUFFICES ASSUME row < q PROVE j <= n - rest
    OBVIOUS
  <2>1. PICK d : d = q - row - 1
    OBVIOUS
  <2>2. d \in Nat /\ q = row + 1 + d
    BY <1>3, <2>1
  <2>3. b * q = b * row + b + b * d /\ b * d \in Nat /\ b * row \in Nat
    BY <1>2, <1>3, <2>2
  <2>4. PICK u, v : u = b * row /\ v = b * d
    OBVIOUS
  <2>5. u \in Nat /\ v \in Nat /\ n = u + b + v + rest /\ j - 1 = u + place
    BY <1>4, <2>3, <2>4
  <2> QED
    BY <1>2, <1>3, <2>5
<1>6. j <= n - (n % BlockBytes) => RowOf(j) < n \div BlockBytes
  BY WholeRows
<1> QED
  BY <1>1, <1>5, <1>6 DEF RowOf

\* The byte of the key stream that is added to byte j of n.
Added(nonce, n, j) ==
  KeyStream(nonce, n \div BlockBytes)[RowOf(j)][Place(j)]

\* c is the word d with the key stream added to its whole blocks.
IsMasking(c, d, n, nonce) ==
  /\ Word(c, n)
  /\ \A j \in 1 .. n : j <= n - (n % BlockBytes) => c[j] = SymDiff(d[j], Added(nonce, n, j))
  /\ \A j \in 1 .. n : ~(j <= n - (n % BlockBytes)) => c[j] = d[j]

\* The length of a word.
LEMMA WordLength ==
  ASSUME NEW s, NEW n, Word(s, n)
  PROVE  Len(s) = n /\ DOMAIN s = 1 .. n /\ n \in Nat
<1> DEFINE S == {s[j] : j \in 1 .. n}
<1>1. \A j \in 1 .. n : s[j] \in S
  OBVIOUS
<1> HIDE DEF S
<1> QED
  BY <1>1, WordIsSeq DEF Word

\* tls_aes_128_CTR_encrypto adds the key stream (tls_crypto_aes.cpp:228-253).
LEMMA CtrAdds ==
  ASSUME NEW nonce, NEW d, NEW n, Word(d, n)
  PROVE  IsMasking(CtrEncrypto(nonce, d), d, n, nonce)
<1>1. Len(d) = n /\ DOMAIN d = 1 .. n /\ n \in Nat
  BY WordLength
<1>2. PICK c : c = CtrEncrypto(nonce, d)
  OBVIOUS
<1>3. c = [j \in 1 .. n |-> IF RowOf(j) < n \div BlockBytes
                            THEN SymDiff(d[j], Added(nonce, n, j)) ELSE d[j]]
  BY <1>1, <1>2, Zenon DEF CtrEncrypto, Added
<1>4. Word(c, n)
  BY <1>1, <1>3 DEF Word
<1>5. \A j \in 1 .. n : RowOf(j) < n \div BlockBytes <=> j <= n - (n % BlockBytes)
  BY <1>1, WholeOrRest
<1> QED
  BY <1>2, <1>3, <1>4, <1>5 DEF IsMasking

\* Words of one length with the same members are the same.
LEMMA SameWords ==
  ASSUME NEW s, NEW t, NEW n, Word(s, n), Word(t, n), \A j \in 1 .. n : s[j] = t[j]
  PROVE  s = t
<1>1. s = [j \in 1 .. n |-> s[j]] /\ t = [j \in 1 .. n |-> t[j]]
  BY DEF Word
<1> QED
  BY <1>1

\* Adding the key stream twice takes it off.
LEMMA CtrUndoes ==
  ASSUME NEW nonce, NEW d, NEW n, Word(d, n)
  PROVE  CtrEncrypto(nonce, CtrEncrypto(nonce, d)) = d
<1>1. PICK c : c = CtrEncrypto(nonce, d)
  OBVIOUS
<1>2. IsMasking(c, d, n, nonce)
  BY <1>1, CtrAdds
<1>3. Word(c, n)
  BY <1>2 DEF IsMasking
<1>4. PICK e : e = CtrEncrypto(nonce, c)
  OBVIOUS
<1>5. IsMasking(e, c, n, nonce)
  BY <1>3, <1>4, CtrAdds
<1>6. \A s, t : SymDiff(SymDiff(s, t), t) = s
  BY DEF SymDiff
<1>7. \A j \in 1 .. n : e[j] = d[j]
  BY <1>2, <1>5, <1>6 DEF IsMasking
<1>8. Word(e, n)
  BY <1>5 DEF IsMasking
<1> QED
  BY <1>1, <1>4, <1>7, <1>8, SameWords

\* A byte of the key stream is made by the cipher of the block of its turn.
IsStreamByte(b, nonce, n, j) ==
  \E g : /\ Streams(nonce, n \div BlockBytes, g) /\ KeyStream(nonce, n \div BlockBytes) = g
         /\ g[RowOf(j)] = Cipher(Turn(nonce, RowOf(j), g))
         /\ b = {<<"cipher", Turn(nonce, RowOf(j), g), Place(j)>>}

LEMMA StreamByte ==
  ASSUME NEW nonce, NEW n \in Nat, NEW j \in Nat \ {0}, j <= n - (n % BlockBytes)
  PROVE  IsStreamByte(Added(nonce, n, j), nonce, n, j)
<1>1. PICK row, place, rows : row = RowOf(j) /\ place = Place(j) /\ rows = n \div BlockBytes
  OBVIOUS
<1>2. row \in Nat /\ row < rows /\ rows \in Nat /\ place \in 1 .. BlockBytes
  BY <1>1, WholeRows
<1>3. PICK g : Streams(nonce, rows, g) /\ KeyStream(nonce, rows) = g
  BY <1>2, StreamIs
<1>4. row \in 0 .. rows - 1
  BY <1>2
<1>5. g[row] = Cipher(Turn(nonce, row, g))
  BY <1>3, <1>4, Zenon DEF Streams
<1>6. g[row][place] = {<<"cipher", Turn(nonce, row, g), place>>}
  BY <1>2, <1>5, AtomsWord, Sizes DEF Cipher
<1>7. Added(nonce, n, j) = g[row][place]
  BY <1>1, <1>3 DEF Added
<1> QED
  BY <1>1, <1>3, <1>5, <1>6, <1>7 DEF IsStreamByte

\* No byte of the key stream comes twice: the counter is part of its block.
LEMMA StreamBytesDiffer ==
  ASSUME NEW nonce, NEW n \in Nat, NEW j \in Nat \ {0}, j <= n - (n % BlockBytes),
         NEW k \in Nat \ {0}, k <= n - (n % BlockBytes), j # k
  PROVE  Added(nonce, n, j) # Added(nonce, n, k)
<1>1. PICK g : /\ KeyStream(nonce, n \div BlockBytes) = g
               /\ Added(nonce, n, j) = {<<"cipher", Turn(nonce, RowOf(j), g), Place(j)>>}
  BY StreamByte DEF IsStreamByte
<1>2. Added(nonce, n, k) = {<<"cipher", Turn(nonce, RowOf(k), g), Place(k)>>}
  BY <1>1, StreamByte DEF IsStreamByte
<1>3. SUFFICES ASSUME Added(nonce, n, j) = Added(nonce, n, k) PROVE FALSE
  OBVIOUS
<1>4. <<"cipher", Turn(nonce, RowOf(j), g), Place(j)>> = <<"cipher", Turn(nonce, RowOf(k), g), Place(k)>>
  BY <1>1, <1>2, <1>3
<1>5. Turn(nonce, RowOf(j), g) = Turn(nonce, RowOf(k), g) /\ Place(j) = Place(k)
  BY <1>4
<1>6. NonceBytes \in Nat /\ NonceBytes < BlockBytes /\ BlockBytes \in Nat /\ BlockBytes >= 1
  BY BlockAssumption
<1>7. \A i : Turn(nonce, i, g)[BlockBytes] = {<<"counter", i + 1, BlockBytes>>}
  BY <1>6 DEF Turn
<1>8. <<"counter", RowOf(j) + 1, BlockBytes>> = <<"counter", RowOf(k) + 1, BlockBytes>>
  BY <1>5, <1>7
<1>9. RowOf(j) + 1 = RowOf(k) + 1 /\ RowOf(j) \in Nat /\ RowOf(k) \in Nat
  BY <1>8, WholeRows
<1>10. PICK row, place, p, q : row = RowOf(j) /\ place = (j - 1) % BlockBytes /\ p = j - 1 /\ q = k - 1
  OBVIOUS
<1>11. p \in Nat /\ q \in Nat /\ p # q /\ p \div BlockBytes = row /\ q \div BlockBytes = row
  BY <1>9, <1>10 DEF RowOf
<1>12. p % BlockBytes = q % BlockBytes
  <2>1. p % BlockBytes \in 0 .. BlockBytes - 1 /\ q % BlockBytes \in 0 .. BlockBytes - 1
    BY <1>6, <1>11, Division
  <2> QED
    BY <1>5, <1>10, <2>1, <1>6 DEF Place
<1>13. p = BlockBytes * (p \div BlockBytes) + (p % BlockBytes)
  BY <1>6, <1>11
<1>14. q = BlockBytes * (q \div BlockBytes) + (q % BlockBytes)
  BY <1>6, <1>11
<1> QED
  BY <1>11, <1>12, <1>13, <1>14

\* What has been added to a word of n bytes by CTR.
IsAdded(a, n, nonce) ==
  /\ Word(a, n)
  /\ \A j \in 1 .. n : j <= n - (n % BlockBytes) => a[j] = Added(nonce, n, j)
  /\ \A j \in 1 .. n : ~(j <= n - (n % BlockBytes)) => a[j] = {}

\* It is the key stream, on the whole blocks.
LEMMA CtrAdded ==
  ASSUME NEW nonce, NEW d, NEW n, Word(d, n)
  PROVE  IsAdded(Sum(d, CtrEncrypto(nonce, d)), n, nonce)
<1>1. PICK c : c = CtrEncrypto(nonce, d)
  OBVIOUS
<1>2. IsMasking(c, d, n, nonce)
  BY <1>1, CtrAdds
<1>3. DOMAIN d = 1 .. n /\ n \in Nat
  BY WordLength
<1>4. PICK a : a = Sum(d, c)
  OBVIOUS
<1>5. a = [j \in 1 .. n |-> SymDiff(d[j], c[j])]
  BY <1>3, <1>4 DEF Sum
<1>6. Word(a, n)
  BY <1>3, <1>5 DEF Word
<1>7. \A s : SymDiff(s, s) = {}
  BY DEF SymDiff
<1> QED
  BY <1>1, <1>2, <1>4, <1>5, <1>6, <1>7, AddedTwice DEF IsAdded, IsMasking

\* A nonce and one that differs from it at a byte have the key stream in common up to
\* the block that this byte reaches.
LEMMA OtherStream ==
  ASSUME NEW x, NEW y, NEW k \in 0 .. NonceBytes - 1,
         \A l \in 1 .. k : x[l] = y[l], x[k + 1] # y[k + 1],
         NEW n \in Nat, NEW j \in Nat \ {0}, j <= n - (n % BlockBytes)
  PROVE  Added(x, n, j) = Added(y, n, j) <=> RowOf(j) < k
<1>1. PICK row, place, rows : row = RowOf(j) /\ place = Place(j) /\ rows = n \div BlockBytes
  OBVIOUS
<1>2. row \in Nat /\ row < rows /\ rows \in Nat /\ place \in 1 .. BlockBytes
  BY <1>1, WholeRows
<1>3. PICK g : Streams(x, rows, g) /\ KeyStream(x, rows) = g
  BY <1>2, StreamIs
<1>4. PICK h : Streams(y, rows, h) /\ KeyStream(y, rows) = h
  BY <1>2, StreamIs
<1>5. Added(x, n, j) = g[row][place] /\ Added(y, n, j) = h[row][place]
  BY <1>1, <1>3, <1>4 DEF Added
<1>6. g[row][place] = h[row][place] <=> g[row] = h[row]
  <2>1. row \in 0 .. rows - 1
    BY <1>2
  <2>2. g[row] = Cipher(Turn(x, row, g)) /\ h[row] = Cipher(Turn(y, row, h))
    BY <1>3, <1>4, <2>1, Zenon DEF Streams
  <2>3. PICK a, b : g[row] = Cipher(a) /\ h[row] = Cipher(b)
    BY <2>2
  <2>4. Cipher(a)[place] = Cipher(b)[place] => a = b
    BY <1>2, CipherInjective
  <2> QED
    BY <2>3, <2>4
<1>7. AgreeTo(k, rows, g, rows, h)
  <2>1. k \in Nat
    BY BlockAssumption
  <2> QED
    BY <1>2, <1>3, <1>4, <2>1, StreamsAgree
<1>8. DifferFrom(k, rows, g, rows, h)
  BY <1>2, <1>3, <1>4, StreamsPart
<1>9. k \in Nat
  BY BlockAssumption
<1>10. row < k => g[row] = h[row]
  BY <1>2, <1>7 DEF AgreeTo
<1>11. ~(row < k) => g[row] # h[row]
  BY <1>2, <1>8, <1>9 DEF DifferFrom
<1> QED
  BY <1>1, <1>5, <1>6, <1>10, <1>11

\* CTR does what CtrMasks says.
LEMMA CtrCall == CallsInv => CtrMasks
<1> SUFFICES ASSUME CallsInv, Returned("ctr")
             PROVE  LET whole == Len(in.data) - (Len(in.data) % BlockBytes)
                        added == Sum(in.data, result)
                        other == Sum(in.data, CtrEncrypto(Other(GivenNonce, in.place), in.data))
                    IN  /\ \A j \in 1 .. Len(result) : added[j] = {} <=> j > whole
                        /\ \A j, k \in 1 .. whole : j # k => added[j] # added[k]
                        /\ CtrEncrypto(GivenNonce, result) = in.data
                        /\ \A j \in 1 .. whole : added[j] = other[j] <=> RowOf(j) < in.place - 1
  BY Zenon DEF CtrMasks
<1>1. in \in CtrInputs /\ result = CtrEncrypto(GivenNonce, in.data)
  <2>1. callee = "ctr" /\ done
    BY DEF Returned
  <2>2. result = Computed(callee, in) /\ in \in CtrInputs
    BY <2>1 DEF CallsInv
  <2> QED
    BY <2>1, <2>2 DEF Computed
<1>2. PICK d, place : d = in.data /\ place = in.place
  OBVIOUS
<1>3. place \in 1 .. NonceBytes /\ \E n \in UpTo(0) : d = Atoms("data", 0, n)
  BY <1>1, <1>2 DEF CtrInputs
<1>4. PICK n \in UpTo(0) : d = Atoms("data", 0, n)
  BY <1>3
<1>5. n \in Nat
  BY DEF UpTo
<1>6. Word(d, n) /\ Len(d) = n
  BY <1>4, <1>5, AtomsWord, WordLength
<1>7. PICK x, y : x = GivenNonce /\ y = Other(GivenNonce, place)
  OBVIOUS
<1>8. PICK c, added, other : c = CtrEncrypto(x, d) /\ added = Sum(d, c) /\ other = Sum(d, CtrEncrypto(y, d))
  OBVIOUS
<1>9. IsMasking(c, d, n, x) /\ IsAdded(added, n, x) /\ IsAdded(other, n, y) /\ CtrEncrypto(x, c) = d
  BY <1>6, <1>8, CtrAdds, CtrAdded, CtrUndoes
<1>10. PICK whole : whole = n - (n % BlockBytes)
  OBVIOUS
<1>11. whole \in Nat /\ whole <= n
  <2>1. n % BlockBytes \in 0 .. BlockBytes - 1 /\ n \div BlockBytes \in Nat
    BY <1>5, Sizes, Division
  <2>2. n = BlockBytes * (n \div BlockBytes) + (n % BlockBytes)
    BY <1>5, Sizes
  <2>3. PICK q, r : q = n \div BlockBytes /\ r = n % BlockBytes
    OBVIOUS
  <2>4. BlockBytes * q \in Nat
    BY <2>1, <2>3, Sizes
  <2> QED
    BY <1>5, <1>10, <2>1, <2>2, <2>3, <2>4
<1>12. \A j \in 1 .. whole : added[j] = Added(x, n, j) /\ other[j] = Added(y, n, j)
  BY <1>5, <1>9, <1>10, <1>11 DEF IsAdded
<1>13. \A j \in 1 .. n : added[j] = {} <=> j > whole
  <2> SUFFICES ASSUME NEW j \in 1 .. n PROVE added[j] = {} <=> j > whole
    OBVIOUS
  <2>1. CASE j <= whole
    <3>1. IsStreamByte(Added(x, n, j), x, n, j)
      BY <1>5, <1>10, <2>1, StreamByte
    <3>2. Added(x, n, j) # {}
      BY <3>1 DEF IsStreamByte
    <3>3. j \in 1 .. whole
      BY <1>11, <2>1
    <3> QED
      BY <1>11, <1>12, <2>1, <3>2, <3>3
  <2>2. CASE ~(j <= whole)
    BY <1>9, <1>10, <1>11, <2>2 DEF IsAdded
  <2> QED
    BY <2>1, <2>2
<1>14. \A j, k \in 1 .. whole : j # k => added[j] # added[k]
  <2> SUFFICES ASSUME NEW j \in 1 .. whole, NEW k \in 1 .. whole, j # k PROVE added[j] # added[k]
    OBVIOUS
  <2>1. Added(x, n, j) # Added(x, n, k)
    BY <1>5, <1>10, <1>11, StreamBytesDiffer
  <2> QED
    BY <1>12, <2>1
<1>15. \A j \in 1 .. whole : added[j] = other[j] <=> RowOf(j) < place - 1
  <2> SUFFICES ASSUME NEW j \in 1 .. whole PROVE added[j] = other[j] <=> RowOf(j) < place - 1
    OBVIOUS
  <2>1. PICK k : k = place - 1
    OBVIOUS
  <2>2. NonceBytes \in Nat /\ k \in 0 .. NonceBytes - 1 /\ k + 1 = place
    BY <1>3, <2>1, BlockAssumption
  <2>3. \A l \in 1 .. NonceBytes : x[l] = {<<"nonce", 0, l>>}
    BY <1>7, <2>2 DEF GivenNonce, Atoms
  <2>4. \A l \in 1 .. NonceBytes : y[l] = IF l = place THEN {<<"other", 0, 0>>} ELSE x[l]
    BY <1>7 DEF Other, GivenNonce, Atoms
  <2>5. x[k + 1] # y[k + 1]
    <3>1. <<"nonce", 0, place>> # <<"other", 0, 0>>
      OBVIOUS
    <3> QED
      BY <1>3, <2>2, <2>3, <2>4, <3>1
  <2>6. \A l \in 1 .. k : x[l] = y[l]
    BY <2>2, <2>4
  <2>7. Added(x, n, j) = Added(y, n, j) <=> RowOf(j) < k
    BY <1>5, <1>10, <1>11, <2>2, <2>5, <2>6, OtherStream
  <2> QED
    BY <1>12, <2>1, <2>7
<1>16. Len(c) = n
  BY <1>9, WordLength DEF IsMasking
<1>17. result = c /\ CtrEncrypto(Other(GivenNonce, in.place), in.data) = CtrEncrypto(y, d)
  BY <1>1, <1>2, <1>7, <1>8
<1> QED
  BY <1>2, <1>6, <1>7, <1>8, <1>9, <1>10, <1>13, <1>14, <1>15, <1>16, <1>17

\* CTR masks all the whole blocks and nothing else, and two nonces that differ at a byte
\* share the key stream of the blocks in front of that byte's, for every size of block
\* and nonce and every number of blocks that the buffer allows
\* (tls_crypto_aes.cpp:228-253).
THEOREM CtrIsMask == PrimitivesSpec => []CtrMasks
BY CallsInductive, CtrCall, PTL

----------------------------------------------------------------------------
(* The blocks of an array.                                                 *)

\* Every byte is one of a block.
LEMMA ByteAt ==
  ASSUME NEW count, NEW len, AreBlocks(count, len), NEW j \in 1 .. len
  PROVE  /\ RowOf(j) \in 0 .. count - 1 /\ Place(j) \in 1 .. BlockBytes
         /\ j = RowOf(j) * BlockBytes + Place(j)
<1>1. len \in Nat /\ len = BlockBytes * count + 0 /\ count \in Nat /\ 0 \in 0 .. BlockBytes - 1
  BY Sizes DEF AreBlocks
<1>2. len \div BlockBytes = count /\ len % BlockBytes = 0
  BY <1>1, Sizes, DivisionUnique
<1>3. RowOf(j) \in Nat /\ RowOf(j) < count /\ Place(j) \in 1 .. BlockBytes
  BY <1>1, <1>2, WholeRows
<1>4. j - 1 = BlockBytes * ((j - 1) \div BlockBytes) + ((j - 1) % BlockBytes)
  BY <1>1, Sizes
<1>5. j = RowOf(j) * BlockBytes + Place(j)
  <2>1. PICK row, r : row = (j - 1) \div BlockBytes /\ r = (j - 1) % BlockBytes
    OBVIOUS
  <2>2. RowOf(j) = row /\ Place(j) = r + 1 /\ j - 1 = BlockBytes * row + r
    BY <1>4, <2>1 DEF RowOf, Place
  <2>3. row \in Nat /\ r \in Nat
    BY <1>3, <2>1, <2>2, Sizes, Division
  <2> QED
    BY <2>2, <2>3, Sizes
<1> QED
  BY <1>1, <1>3, <1>5

\* The bytes of block k.
IsBlock(b, a, k) ==
  /\ Word(b, BlockBytes)
  /\ \A p \in 1 .. BlockBytes : b[p] = a[k * BlockBytes + p]

\* BlockOf has the bytes of its block, if the blocks lie within the array.
LEMMA FrontBlock ==
  ASSUME NEW a, NEW n, Word(a, n), NEW count, NEW len, AreBlocks(count, len), len <= n,
         NEW k \in 0 .. count - 1
  PROVE  IsBlock(BlockOf(a, k), a, k)
<1>1. PICK first \in Nat : /\ first = k * BlockBytes /\ first + BlockBytes <= len
                           /\ (k + 1) * BlockBytes = first + BlockBytes
  BY BlockInside
<1>2. PICK from, to : from = first + 1 /\ to = first + BlockBytes
  OBVIOUS
<1>3. from \in 1 .. n + 1 /\ to \in from - 1 .. n
  BY <1>1, <1>2, Sizes DEF AreBlocks, Word
<1>4. IsCut(SubSeq(a, from, to), a, from, to)
  BY <1>3, Cut, Zenon
<1>5. BlockOf(a, k) = SubSeq(a, from, to)
  BY <1>1, <1>2 DEF BlockOf
<1>6. to - from + 1 = BlockBytes /\ \A p \in 1 .. BlockBytes : from + p - 1 = k * BlockBytes + p
  BY <1>1, <1>2, Sizes
<1> QED
  BY <1>4, <1>5, <1>6 DEF IsCut, IsBlock

\* Or if they are all of it.
LEMMA BlockBytesOf ==
  ASSUME NEW a, NEW count, NEW len, AreBlocks(count, len), Word(a, len), NEW k \in 0 .. count - 1
  PROVE  IsBlock(BlockOf(a, k), a, k)
<1>1. len \in Nat /\ len <= len
  BY DEF AreBlocks
<1> QED
  BY <1>1, FrontBlock

\* What is written over a block of an array is found in it, and the other blocks as
\* they were.
IsWritten(w, a, count, len, i, b) ==
  /\ Word(w, len)
  /\ \A k \in 0 .. count - 1 : BlockOf(w, k) = IF k = i THEN b ELSE BlockOf(a, k)

\* Overwrite writes so.
LEMMA Overwritten ==
  ASSUME NEW a, NEW count, NEW len, AreBlocks(count, len), Word(a, len),
         NEW i \in 0 .. count - 1, NEW b, Word(b, BlockBytes)
  PROVE  IsWritten(Overwrite(a, i, b), a, count, len, i, b)
<1>1. PICK w : w = Overwrite(a, i, b)
  OBVIOUS
<1>2. DOMAIN a = 1 .. len
  BY WordLength
<1>3. w = [j \in 1 .. len |-> IF RowOf(j) = i THEN b[Place(j)] ELSE a[j]]
  BY <1>1, <1>2 DEF Overwrite
<1>4. Word(w, len)
  BY <1>3 DEF Word, AreBlocks
<1>5. ASSUME NEW k \in 0 .. count - 1
      PROVE  BlockOf(w, k) = IF k = i THEN b ELSE BlockOf(a, k)
  <2>1. PICK x, y : x = BlockOf(w, k) /\ y = BlockOf(a, k)
    OBVIOUS
  <2>2. IsBlock(x, w, k) /\ IsBlock(y, a, k)
    BY <1>4, <2>1, BlockBytesOf
  <2>3. \A p \in 1 .. BlockBytes : x[p] = IF k = i THEN b[p] ELSE y[p]
    <3> SUFFICES ASSUME NEW p \in 1 .. BlockBytes PROVE x[p] = IF k = i THEN b[p] ELSE y[p]
      OBVIOUS
    <3>1. PICK j : j = k * BlockBytes + p
      OBVIOUS
    <3>2. RowOf(j) = k /\ Place(j) = p
      BY <3>1, InBlock
    <3>3. j \in 1 .. len
      <4>1. PICK first \in Nat : first = k * BlockBytes /\ first + BlockBytes <= len
        BY BlockInside
      <4> QED
        BY <3>1, <4>1, Sizes DEF AreBlocks
    <3>4. w[j] = IF k = i THEN b[p] ELSE a[j]
      BY <1>3, <3>2, <3>3
    <3>5. x[p] = w[j] /\ y[p] = a[j]
      BY <2>2, <3>1 DEF IsBlock
    <3> QED
      BY <3>4, <3>5
  <2>4. Word(x, BlockBytes) /\ Word(y, BlockBytes)
    BY <2>2 DEF IsBlock
  <2>5. CASE k = i
    <3>1. x = b
      BY <2>3, <2>4, <2>5, SameWords
    <3> QED
      BY <2>1, <2>5, <3>1
  <2>6. CASE k # i
    <3>1. x = y
      BY <2>3, <2>4, <2>6, SameWords
    <3> QED
      BY <2>1, <2>6, <3>1
  <2> QED
    BY <2>5, <2>6
<1> QED
  BY <1>1, <1>4, <1>5 DEF IsWritten

\* Arrays of the same blocks are the same.
LEMMA SameBlocks ==
  ASSUME NEW a, NEW c, NEW count, NEW len, AreBlocks(count, len), Word(a, len), Word(c, len),
         \A k \in 0 .. count - 1 : BlockOf(a, k) = BlockOf(c, k)
  PROVE  a = c
<1>1. \A j \in 1 .. len : a[j] = c[j]
  <2> SUFFICES ASSUME NEW j \in 1 .. len PROVE a[j] = c[j]
    OBVIOUS
  <2>1. PICK k, p : k = RowOf(j) /\ p = Place(j)
    OBVIOUS
  <2>2. k \in 0 .. count - 1 /\ p \in 1 .. BlockBytes /\ j = k * BlockBytes + p
    BY <2>1, ByteAt
  <2>3. IsBlock(BlockOf(a, k), a, k) /\ IsBlock(BlockOf(c, k), c, k)
    BY <2>2, BlockBytesOf
  <2>4. BlockOf(a, k)[p] = a[j] /\ BlockOf(c, k)[p] = c[j]
    BY <2>2, <2>3 DEF IsBlock
  <2> QED
    BY <2>2, <2>4
<1> QED
  BY <1>1, SameWords

----------------------------------------------------------------------------
(* The loop of CBC.                                                        *)

\* What a turn of CBC writes over block i of the array m, and the arrays that n turns
\* leave, one after the other.
CbcTurn(way, iv, delta, m, i) ==
  IF way = "encrypto" THEN Cipher(Sum(Previous(iv, m, i), BlockOf(m, i)))
  ELSE Sum(Previous(iv, m, i), Decipher(BlockOf(m, i), delta))
Turns(way, iv, delta, data, n, f) ==
  f = [k \in 0 .. n |-> IF k = 0 THEN data
                        ELSE Overwrite(f[k - 1], k - 1, CbcTurn(way, iv, delta, f[k - 1], k - 1))]

\* The loop of CBC is defined for every number of blocks.
LEMMA TurnsExist ==
  ASSUME NEW way, NEW iv, NEW delta, NEW data, NEW n \in Nat
  PROVE  \E f : Turns(way, iv, delta, data, n, f)
<1> DEFINE After(f, k) == Overwrite(f[k - 1], k - 1, CbcTurn(way, iv, delta, f[k - 1], k - 1))
           Without == {m \in Nat : ~\E f : Turns(way, iv, delta, data, m, f)}
<1>1. SUFFICES ASSUME Without # {} PROVE FALSE
  OBVIOUS
<1>2. PICK m \in Without : \A k \in Without : m <= k
  <2>1. Without \subseteq Nat
    OBVIOUS
  <2> HIDE DEF Without
  <2> QED
    BY <1>1, <2>1, Least
<1>3. CASE m = 0
  <2> DEFINE none == [k \in 0 .. 0 |-> data]
  <2>1. none = [k \in 0 .. 0 |-> IF k = 0 THEN data ELSE After(none, k)]
    <3> HIDE DEF After
    <3> QED
      OBVIOUS
  <2> HIDE DEF none
  <2>2. Turns(way, iv, delta, data, 0, none)
    BY <2>1, Zenon DEF Turns
  <2> QED
    BY <1>2, <1>3, <2>2
<1>4. CASE m # 0
  <2>1. m - 1 \in Nat /\ m - 1 \notin Without
    BY <1>2, <1>4
  <2>2. PICK f : Turns(way, iv, delta, data, m - 1, f)
    BY <2>1
  <2> DEFINE h == [k \in 0 .. m |-> IF k = 0 THEN data ELSE After(f, k)]
  <2>3. \A k \in 0 .. m : k # 0 => h[k - 1] = f[k - 1]
    <3> SUFFICES ASSUME NEW k \in 0 .. m, k # 0 PROVE h[k - 1] = f[k - 1]
      OBVIOUS
    <3>1. k - 1 \in 0 .. m - 1 /\ k - 1 \in 0 .. m
      BY <2>1
    <3>2. f = [l \in 0 .. m - 1 |-> IF l = 0 THEN data ELSE After(f, l)]
      BY <2>2, Zenon DEF Turns
    <3>3. f[k - 1] = IF k - 1 = 0 THEN data ELSE After(f, k - 1)
      BY <3>1, <3>2, Zenon
    <3>4. h[k - 1] = IF k - 1 = 0 THEN data ELSE After(f, k - 1)
      BY <3>1, Zenon
    <3> QED
      BY <3>3, <3>4, Zenon
  <2>4. \A k \in 0 .. m : k # 0 => After(h, k) = After(f, k)
    <3> HIDE DEF h
    <3> QED
      BY <2>3, Zenon
  <2>5. h = [k \in 0 .. m |-> IF k = 0 THEN data ELSE After(h, k)]
    <3>1. \A k \in 0 .. m : (IF k = 0 THEN data ELSE After(f, k)) = (IF k = 0 THEN data ELSE After(h, k))
      <4> HIDE DEF h, After
      <4> QED
        BY <2>4
    <3>2. h = [k \in 0 .. m |-> IF k = 0 THEN data ELSE After(f, k)]
      OBVIOUS
    <3> HIDE DEF After, h
    <3> QED
      BY <3>1, <3>2
  <2>6. Turns(way, iv, delta, data, m, h)
    <3> HIDE DEF h
    <3> QED
      BY <2>5, ZenonT(40) DEF Turns
  <2> QED
    BY <1>2, <2>6
<1> QED
  BY <1>3, <1>4

\* The last of its arrays is what CbcEncrypto, and CbcDecrypto, return.
LEMMA EncryptoIs ==
  ASSUME NEW iv, NEW data, NEW delta, NEW n, n = Len(data) \div BlockBytes, n \in Nat
  PROVE  \E f : Turns("encrypto", iv, delta, data, n, f) /\ CbcEncrypto(iv, data) = f[n]
<1>1. PICK h : Turns("encrypto", iv, delta, data, n, h)
  BY TurnsExist
<1> QED
  BY <1>1, ZenonT(40) DEF Turns, CbcTurn, CbcEncrypto, InPlace

LEMMA DecryptoIs ==
  ASSUME NEW iv, NEW data, NEW delta, NEW n, n = Len(data) \div BlockBytes, n \in Nat
  PROVE  \E f : Turns("decrypto", iv, delta, data, n, f) /\ CbcDecrypto(iv, data, delta) = f[n]
<1>1. PICK h : Turns("decrypto", iv, delta, data, n, h)
  BY TurnsExist
<1> QED
  BY <1>1, ZenonT(40) DEF Turns, CbcTurn, CbcDecrypto, InPlace

\* The sum of blocks.
LEMMA SumWord ==
  ASSUME NEW s, NEW t, NEW n, Word(s, n)
  PROVE  Word(Sum(s, t), n) /\ \A j \in 1 .. n : Sum(s, t)[j] = SymDiff(s[j], t[j])
<1>1. DOMAIN s = 1 .. n /\ n \in Nat
  BY WordLength
<1>2. Sum(s, t) = [j \in 1 .. n |-> SymDiff(s[j], t[j])]
  BY <1>1 DEF Sum
<1> QED
  BY <1>1, <1>2 DEF Word

\* What the cipher makes is a block.
LEMMA CipherWord ==
  ASSUME NEW x
  PROVE  Word(Cipher(x), BlockBytes)
BY AtomsWord, Sizes DEF Cipher

\* It comes back with the difference added.
LEMMA CipherBack ==
  ASSUME NEW x, NEW delta
  PROVE  Decipher(Cipher(x), delta) = Sum(x, delta)
<1>1. PICK block, atom : block = Cipher(x) /\ atom = <<"cipher", x, 1>>
  OBVIOUS
<1>2. block[1] = {atom}
  BY <1>1, AtomsWord, Sizes DEF Cipher
<1>3. PICK sources : sources = {a \in block[1] : a[1] = "cipher" /\ block = Cipher(a[2])}
  OBVIOUS
<1>4. sources = {atom}
  <2>1. atom[1] = "cipher" /\ atom[2] = x
    BY <1>1
  <2>2. Cipher(atom[2]) = block
    BY <1>1, <2>1
  <2>3. \A a : a \in sources <=> a = atom
    BY <1>2, <1>3, <2>1, <2>2
  <2> QED
    BY <2>3
<1>5. (CHOOSE a \in sources : TRUE) = atom
  BY <1>4
<1>6. Decipher(block, delta) = Sum((CHOOSE a \in sources : TRUE)[2], delta)
  <2>1. sources # {}
    BY <1>4
  <2> QED
    BY <1>3, <2>1, Zenon DEF Decipher
<1>7. atom[2] = x
  BY <1>1
<1> QED
  BY <1>1, <1>5, <1>6, <1>7

\* After k turns the first k blocks are those that the turns have written.
IsTurned(way, iv, delta, data, count, len, f, k) ==
  /\ Word(f[k], len)
  /\ \A j \in 0 .. count - 1 :
       BlockOf(f[k], j) = IF j < k THEN CbcTurn(way, iv, delta, f[j], j) ELSE BlockOf(data, j)

\* A turn writes a block.
LEMMA TurnWord ==
  ASSUME NEW way, NEW iv, Word(iv, BlockBytes), NEW delta, NEW m, NEW count, NEW len,
         AreBlocks(count, len), Word(m, len), NEW i \in 0 .. count - 1
  PROVE  Word(CbcTurn(way, iv, delta, m, i), BlockBytes)
<1>1. PICK before : before = Previous(iv, m, i)
  OBVIOUS
<1>2. Word(before, BlockBytes)
  <2>1. CASE i = 0
    BY <1>1, <2>1 DEF Previous
  <2>2. CASE i # 0
    <3>1. i - 1 \in 0 .. count - 1
      BY <2>2 DEF AreBlocks
    <3>2. IsBlock(BlockOf(m, i - 1), m, i - 1)
      BY <3>1, BlockBytesOf
    <3> QED
      BY <1>1, <2>2, <3>2 DEF Previous, IsBlock
  <2> QED
    BY <2>1, <2>2
<1>3. Word(Sum(before, Decipher(BlockOf(m, i), delta)), BlockBytes)
  BY <1>2, SumWord
<1>4. Word(Cipher(Sum(before, BlockOf(m, i))), BlockBytes)
  BY CipherWord
<1> QED
  BY <1>1, <1>3, <1>4 DEF CbcTurn

\* The turns leave such arrays.
LEMMA TurnedOf ==
  ASSUME NEW way, NEW iv, Word(iv, BlockBytes), NEW delta, NEW data, NEW count, NEW len,
         AreBlocks(count, len), Word(data, len), NEW f, Turns(way, iv, delta, data, count, f)
  PROVE  \A k \in 0 .. count : IsTurned(way, iv, delta, data, count, len, f, k)
<1> DEFINE P(k) == IsTurned(way, iv, delta, data, count, len, f, k)
           T == {k \in Nat : k <= count /\ ~P(k)}
<1>1. SUFFICES ASSUME T # {} PROVE FALSE
  BY DEF AreBlocks
<1>2. PICK k \in T : \A l \in T : k <= l
  <2>1. T \subseteq Nat
    OBVIOUS
  <2> HIDE DEF T
  <2> QED
    BY <1>1, <2>1, Least
<1>3. k \in Nat /\ k <= count /\ ~P(k) /\ count \in Nat
  BY DEF AreBlocks
<1>4. f = [l \in 0 .. count |->
             IF l = 0 THEN data
             ELSE Overwrite(f[l - 1], l - 1, CbcTurn(way, iv, delta, f[l - 1], l - 1))]
  BY Zenon DEF Turns
<1>5. CASE k = 0
  <2>1. f[0] = data
    BY <1>3, <1>4
  <2>2. \A j \in 0 .. count - 1 : ~(j < 0)
    OBVIOUS
  <2>3. IsTurned(way, iv, delta, data, count, len, f, 0)
    BY <2>1, <2>2, Zenon DEF IsTurned
  <2> QED
    BY <1>3, <1>5, <2>3
<1>6. CASE k # 0
  <2>1. PICK i : i = k - 1
    OBVIOUS
  <2>2. i \in Nat /\ i \in 0 .. count - 1 /\ i <= count /\ i < k /\ i + 1 = k
    BY <1>3, <1>6, <2>1
  <2>3. P(i)
    BY <1>2, <1>3, <2>2
  <2>4. PICK turn : turn = CbcTurn(way, iv, delta, f[i], i)
    OBVIOUS
  <2>5. f[k] = Overwrite(f[i], i, turn)
    <3>1. k \in 0 .. count
      BY <1>3
    <3>2. f[k] = IF k = 0 THEN data ELSE Overwrite(f[k - 1], k - 1, CbcTurn(way, iv, delta, f[k - 1], k - 1))
      BY <1>4, <3>1, Zenon
    <3> QED
      BY <1>6, <2>1, <2>4, <3>2, Zenon
  <2>6. Word(f[i], len) /\ Word(turn, BlockBytes)
    <3>1. Word(f[i], len)
      BY <2>3 DEF IsTurned
    <3> QED
      BY <2>2, <2>4, <3>1, TurnWord
  <2>7. IsWritten(f[k], f[i], count, len, i, turn)
    BY <2>2, <2>5, <2>6, Overwritten
  <2>8. ASSUME NEW j \in 0 .. count - 1
        PROVE  BlockOf(f[k], j) = IF j < k THEN CbcTurn(way, iv, delta, f[j], j) ELSE BlockOf(data, j)
    <3>1. BlockOf(f[k], j) = IF j = i THEN turn ELSE BlockOf(f[i], j)
      BY <2>7 DEF IsWritten
    <3>2. BlockOf(f[i], j) = IF j < i THEN CbcTurn(way, iv, delta, f[j], j) ELSE BlockOf(data, j)
      BY <2>3 DEF IsTurned
    <3>3. CASE j = i
      BY <2>2, <2>4, <3>1, <3>3
    <3>4. CASE j < i
      BY <2>2, <3>1, <3>2, <3>4
    <3>5. CASE j > i
      BY <2>2, <3>1, <3>2, <3>5
    <3> QED
      BY <2>2, <3>3, <3>4, <3>5
  <2>9. P(k)
    BY <2>7, <2>8 DEF IsTurned, IsWritten
  <2> QED
    BY <1>3, <2>9
<1> QED
  BY <1>5, <1>6

\* The sizes of an array of blocks.
LEMMA BlocksOfWord ==
  ASSUME NEW d, NEW count, NEW len, AreBlocks(count, len), Word(d, len)
  PROVE  Len(d) = len /\ Len(d) \div BlockBytes = count /\ count \in Nat
<1>1. len = BlockBytes * count + 0 /\ count \in Nat /\ 0 \in 0 .. BlockBytes - 1
  BY Sizes DEF AreBlocks
<1>2. len \div BlockBytes = count
  BY <1>1, Sizes, DivisionUnique
<1>3. Len(d) = len
  BY WordLength
<1> QED
  BY <1>1, <1>2, <1>3

\* Addition has no order.
LEMMA SumTurned ==
  ASSUME NEW s, NEW t, Word(s, BlockBytes), Word(t, BlockBytes)
  PROVE  Sum(s, t) = Sum(t, s)
<1>1. PICK a, b : a = Sum(s, t) /\ b = Sum(t, s)
  OBVIOUS
<1>2. /\ Word(a, BlockBytes) /\ \A j \in 1 .. BlockBytes : a[j] = SymDiff(s[j], t[j])
      /\ Word(b, BlockBytes) /\ \A j \in 1 .. BlockBytes : b[j] = SymDiff(t[j], s[j])
  BY <1>1, SumWord
<1>3. \A x, y : SymDiff(x, y) = SymDiff(y, x)
  BY DEF SymDiff
<1>4. \A j \in 1 .. BlockBytes : a[j] = b[j]
  BY <1>2, <1>3
<1> QED
  BY <1>1, <1>2, <1>4, SameWords

\* It is undone by another.
LEMMA SumUndone ==
  ASSUME NEW s, NEW t, NEW u, Word(s, BlockBytes), Word(t, BlockBytes)
  PROVE  Sum(t, Sum(Sum(s, t), u)) = Sum(s, u)
<1>1. PICK a, b, c, e : a = Sum(s, t) /\ b = Sum(a, u) /\ c = Sum(t, b) /\ e = Sum(s, u)
  OBVIOUS
<1>2. Word(a, BlockBytes) /\ \A j \in 1 .. BlockBytes : a[j] = SymDiff(s[j], t[j])
  BY <1>1, SumWord
<1>3. Word(b, BlockBytes) /\ \A j \in 1 .. BlockBytes : b[j] = SymDiff(a[j], u[j])
  BY <1>1, <1>2, SumWord
<1>4. Word(c, BlockBytes) /\ \A j \in 1 .. BlockBytes : c[j] = SymDiff(t[j], b[j])
  BY <1>1, SumWord
<1>5. Word(e, BlockBytes) /\ \A j \in 1 .. BlockBytes : e[j] = SymDiff(s[j], u[j])
  BY <1>1, SumWord
<1>6. \A x, y, z : SymDiff(y, SymDiff(SymDiff(x, y), z)) = SymDiff(x, z)
  BY DEF SymDiff
<1>7. \A j \in 1 .. BlockBytes : c[j] = e[j]
  BY <1>2, <1>3, <1>4, <1>5, <1>6
<1> QED
  BY <1>1, <1>4, <1>5, <1>7, SameWords

\* c is the chain of d in the standard.
IsChain(c, d, iv, count, len) ==
  /\ Word(c, len)
  /\ \A i \in 0 .. count - 1 :
       BlockOf(c, i) = Cipher(Sum(BlockOf(d, i), IF i = 0 THEN iv ELSE BlockOf(c, i - 1)))

\* tls_aes_128_CBC_encrypto makes the chain (tls_crypto_aes.cpp:176-195).
LEMMA Chained ==
  ASSUME NEW iv, Word(iv, BlockBytes),
         NEW d, NEW count, NEW len, AreBlocks(count, len), Word(d, len)
  PROVE  IsChain(CbcEncrypto(iv, d), d, iv, count, len)
<1>1. count = Len(d) \div BlockBytes /\ count \in Nat
  BY BlocksOfWord
<1>2. PICK f : Turns("encrypto", iv, Zeros, d, count, f) /\ CbcEncrypto(iv, d) = f[count]
  BY <1>1, EncryptoIs
<1>3. \A k \in 0 .. count : IsTurned("encrypto", iv, Zeros, d, count, len, f, k)
  BY <1>2, TurnedOf
<1>4. PICK c : c = CbcEncrypto(iv, d)
  OBVIOUS
<1>5. /\ Word(c, len)
      /\ \A j \in 0 .. count - 1 : BlockOf(c, j) = CbcTurn("encrypto", iv, Zeros, f[j], j)
  BY <1>1, <1>2, <1>3, <1>4 DEF IsTurned
<1>6. ASSUME NEW i \in 0 .. count - 1
      PROVE  BlockOf(c, i) = Cipher(Sum(BlockOf(d, i), IF i = 0 THEN iv ELSE BlockOf(c, i - 1)))
  <2>1. BlockOf(c, i) = Cipher(Sum(Previous(iv, f[i], i), BlockOf(f[i], i)))
    BY <1>5, Zenon DEF CbcTurn
  <2>2. IsTurned("encrypto", iv, Zeros, d, count, len, f, i) /\ i \in Int /\ ~(i < i)
    BY <1>1, <1>3
  <2>3. BlockOf(f[i], i) = BlockOf(d, i)
    BY <2>2, Zenon DEF IsTurned
  <2>4. PICK before : before = IF i = 0 THEN iv ELSE BlockOf(c, i - 1)
    OBVIOUS
  <2>5. Previous(iv, f[i], i) = before /\ Word(before, BlockBytes)
    <3>1. CASE i = 0
      BY <2>4, <3>1 DEF Previous
    <3>2. CASE i # 0
      <4>1. i - 1 \in 0 .. count - 1 /\ i - 1 < i
        BY <1>1, <3>2
      <4>2. BlockOf(f[i], i - 1) = CbcTurn("encrypto", iv, Zeros, f[i - 1], i - 1)
        BY <2>2, <4>1, Zenon DEF IsTurned
      <4>3. BlockOf(f[i], i - 1) = BlockOf(c, i - 1)
        BY <1>5, <4>1, <4>2, Zenon
      <4>4. IsBlock(BlockOf(c, i - 1), c, i - 1)
        BY <1>5, <4>1, BlockBytesOf
      <4> QED
        BY <2>4, <3>2, <4>3, <4>4, Zenon DEF Previous, IsBlock
    <3> QED
      BY <3>1, <3>2
  <2>6. Word(BlockOf(d, i), BlockBytes)
    BY BlockBytesOf DEF IsBlock
  <2>7. Sum(before, BlockOf(d, i)) = Sum(BlockOf(d, i), before)
    BY <2>5, <2>6, SumTurned
  <2> QED
    BY <2>1, <2>3, <2>4, <2>5, <2>7, Zenon
<1> QED
  BY <1>4, <1>5, <1>6 DEF IsChain

\* What decryption makes of the array c.
IsUnchained(back, c, iv, delta, count, len) ==
  /\ Word(back, len)
  /\ \A i \in 0 .. count - 1 :
       BlockOf(back, i) =
         Sum(IF i = 0 THEN iv ELSE BlockOf(back, i - 1), Decipher(BlockOf(c, i), delta))

\* tls_aes_128_CBC_decrypto adds what it has written (tls_crypto_aes.cpp:197-217).
LEMMA Unchained ==
  ASSUME NEW iv, Word(iv, BlockBytes), NEW delta,
         NEW c, NEW count, NEW len, AreBlocks(count, len), Word(c, len)
  PROVE  IsUnchained(CbcDecrypto(iv, c, delta), c, iv, delta, count, len)
<1>1. count = Len(c) \div BlockBytes /\ count \in Nat
  BY BlocksOfWord
<1>2. PICK f : Turns("decrypto", iv, delta, c, count, f) /\ CbcDecrypto(iv, c, delta) = f[count]
  BY <1>1, DecryptoIs
<1>3. \A k \in 0 .. count : IsTurned("decrypto", iv, delta, c, count, len, f, k)
  BY <1>2, TurnedOf
<1>4. PICK back : back = CbcDecrypto(iv, c, delta)
  OBVIOUS
<1>5. /\ Word(back, len)
      /\ \A j \in 0 .. count - 1 : BlockOf(back, j) = CbcTurn("decrypto", iv, delta, f[j], j)
  BY <1>1, <1>2, <1>3, <1>4 DEF IsTurned
<1>6. ASSUME NEW i \in 0 .. count - 1
      PROVE  BlockOf(back, i) =
               Sum(IF i = 0 THEN iv ELSE BlockOf(back, i - 1), Decipher(BlockOf(c, i), delta))
  <2>1. BlockOf(back, i) = Sum(Previous(iv, f[i], i), Decipher(BlockOf(f[i], i), delta))
    BY <1>5, Zenon DEF CbcTurn
  <2>2. IsTurned("decrypto", iv, delta, c, count, len, f, i) /\ i \in Int /\ ~(i < i)
    BY <1>1, <1>3
  <2>3. BlockOf(f[i], i) = BlockOf(c, i)
    BY <2>2, Zenon DEF IsTurned
  <2>4. Previous(iv, f[i], i) = IF i = 0 THEN iv ELSE BlockOf(back, i - 1)
    <3>1. CASE i = 0
      BY <3>1 DEF Previous
    <3>2. CASE i # 0
      <4>1. i - 1 \in 0 .. count - 1 /\ i - 1 < i
        BY <1>1, <3>2
      <4>2. BlockOf(f[i], i - 1) = CbcTurn("decrypto", iv, delta, f[i - 1], i - 1)
        BY <2>2, <4>1, Zenon DEF IsTurned
      <4>3. BlockOf(f[i], i - 1) = BlockOf(back, i - 1)
        BY <1>5, <4>1, <4>2, Zenon
      <4> QED
        BY <3>2, <4>3, Zenon DEF Previous
    <3> QED
      BY <3>1, <3>2
  <2> QED
    BY <2>1, <2>3, <2>4, Zenon
<1> QED
  BY <1>4, <1>5, <1>6 DEF IsUnchained

\* What decryption gives back of d: the first block with the difference added, and
\* all of it only where there is no other block and no difference.
GivesBack(back, d, delta, len) ==
  /\ BlockOf(back, 0) = Sum(BlockOf(d, 0), delta)
  /\ back = d <=> delta = Zeros /\ len = BlockBytes

\* A byte that the cipher has not made.
NotCipher(b) == \A x, q : b # {<<"cipher", x, q>>}

\* Decryption gives back so much.
LEMMA FirstBlockBack ==
  ASSUME NEW iv, Word(iv, BlockBytes), NEW delta, Word(delta, BlockBytes),
         NEW d, NEW count, NEW len, AreBlocks(count, len), Word(d, len), count > 0, NotCipher(d[1]),
         NEW c, IsChain(c, d, iv, count, len),
         NEW back, IsUnchained(back, c, iv, delta, count, len)
  PROVE  GivesBack(back, d, delta, len)
<1>1. count \in Nat /\ 0 \in 0 .. count - 1 /\ 1 \in 1 .. BlockBytes
  BY Sizes DEF AreBlocks
<1>2. PICK d0, c0, b0 : d0 = BlockOf(d, 0) /\ c0 = BlockOf(c, 0) /\ b0 = BlockOf(back, 0)
  OBVIOUS
<1>3. Word(c, len) /\ Word(back, len)
  BY DEF IsChain, IsUnchained
<1>4. /\ Word(d0, BlockBytes) /\ \A p \in 1 .. BlockBytes : d0[p] = d[0 * BlockBytes + p]
      /\ Word(c0, BlockBytes) /\ Word(b0, BlockBytes)
  BY <1>1, <1>2, <1>3, BlockBytesOf DEF IsBlock
<1>5. d0[1] = d[1]
  BY <1>1, <1>4, Sizes
<1>6. c0 = Cipher(Sum(d0, iv))
  BY <1>1, <1>2 DEF IsChain
<1>7. b0 = Sum(iv, Decipher(c0, delta))
  BY <1>1, <1>2 DEF IsUnchained
<1>8. b0 = Sum(d0, delta)
  <2>1. Decipher(c0, delta) = Sum(Sum(d0, iv), delta)
    BY <1>6, CipherBack
  <2> QED
    BY <1>4, <1>7, <2>1, SumUndone
<1>9. ASSUME back = d PROVE delta = Zeros /\ len = BlockBytes
  <2>1. \A p \in 1 .. BlockBytes : d0[p] = SymDiff(d0[p], delta[p])
    BY <1>2, <1>4, <1>8, <1>9, SumWord
  <2>2. \A s, t : s = SymDiff(s, t) => t = {}
    BY DEF SymDiff
  <2>3. delta = Zeros
    <3>1. \A p \in 1 .. BlockBytes : delta[p] = Zeros[p]
      BY <2>1, <2>2 DEF Zeros
    <3>2. Word(Zeros, BlockBytes)
      BY Sizes DEF Word, Zeros
    <3> QED
      BY <3>1, <3>2, SameWords
  <2>4. count <= 1
    <3> SUFFICES ASSUME ~(count <= 1) PROVE FALSE
      OBVIOUS
    <3>1. 1 \in 0 .. count - 1
      BY <1>1
    <3>2. PICK d1, c1, b1 : d1 = BlockOf(d, 1) /\ c1 = BlockOf(c, 1) /\ b1 = BlockOf(back, 1)
      OBVIOUS
    <3>3. c1 = Cipher(Sum(d1, c0))
      <4>1. BlockOf(c, 1) = Cipher(Sum(BlockOf(d, 1), IF 1 = 0 THEN iv ELSE BlockOf(c, 1 - 1)))
        BY <3>1, Zenon DEF IsChain
      <4>2. 1 # 0 /\ 1 - 1 = 0
        OBVIOUS
      <4> QED
        BY <1>2, <3>2, <4>1, <4>2
    <3>4. b1 = Sum(b0, Decipher(c1, delta))
      <4>1. BlockOf(back, 1) =
              Sum(IF 1 = 0 THEN iv ELSE BlockOf(back, 1 - 1), Decipher(BlockOf(c, 1), delta))
        BY <3>1, Zenon DEF IsUnchained
      <4>2. 1 # 0 /\ 1 - 1 = 0
        OBVIOUS
      <4> QED
        BY <1>2, <3>2, <4>1, <4>2
    <3>5. b0 = d0 /\ b1 = d1
      BY <1>2, <1>9, <3>2
    <3>6. PICK y, z : y = Sum(d1, c0) /\ z = Sum(y, delta)
      OBVIOUS
    <3>7. d1 = Sum(d0, z)
      BY <3>3, <3>4, <3>5, <3>6, CipherBack
    <3>8. Word(d1, BlockBytes)
      BY <3>1, <3>2, BlockBytesOf DEF IsBlock
    <3>9. /\ Word(y, BlockBytes) /\ y[1] = SymDiff(d1[1], c0[1])
      BY <1>1, <3>6, <3>8, SumWord
    <3>10. z[1] = SymDiff(y[1], delta[1]) /\ delta[1] = {}
      <4>1. \A p \in 1 .. BlockBytes : z[p] = SymDiff(y[p], delta[p])
        BY <3>6, <3>9, SumWord
      <4>2. delta[1] = {}
        BY <1>1, <2>3 DEF Zeros
      <4> QED
        BY <1>1, <4>1, <4>2
    <3>11. d1[1] = SymDiff(d0[1], z[1])
      <4>1. PICK e : e = Sum(d0, z)
        OBVIOUS
      <4>2. Word(d0, BlockBytes)
        BY <1>4
      <4>3. \A p \in 1 .. BlockBytes : e[p] = SymDiff(d0[p], z[p])
        BY <4>1, <4>2, SumWord
      <4> QED
        BY <1>1, <3>7, <4>1, <4>3
    <3>12. d0[1] = c0[1]
      BY <3>9, <3>10, <3>11 DEF SymDiff
    <3>13. c0[1] = {<<"cipher", Sum(d0, iv), 1>>}
      BY <1>1, <1>6, Sizes, AtomsWord DEF Cipher
    <3> QED
      BY <1>5, <3>12, <3>13 DEF NotCipher
  <2>5. count = 1
    BY <1>1, <2>4
  <2> QED
    BY <2>3, <2>5, Sizes DEF AreBlocks
<1>10. ASSUME delta = Zeros, len = BlockBytes PROVE back = d
  <2>1. count = 1
    <3>1. count * BlockBytes = BlockBytes
      BY <1>10 DEF AreBlocks
    <3>2. ~(count >= 2)
      <4> SUFFICES ASSUME count >= 2 PROVE FALSE
        OBVIOUS
      <4>1. PICK e : e = count - 2
        OBVIOUS
      <4>2. e \in Nat /\ count = 2 + e
        BY <1>1, <4>1
      <4>3. count * BlockBytes = BlockBytes + BlockBytes + e * BlockBytes /\ e * BlockBytes \in Nat
        BY <4>2, Sizes
      <4>4. PICK u : u = e * BlockBytes
        OBVIOUS
      <4> QED
        BY <3>1, <4>3, <4>4, Sizes
    <3> QED
      BY <1>1, <3>2
  <2>2. b0 = d0
    <3>1. \A p \in 1 .. BlockBytes : b0[p] = SymDiff(d0[p], delta[p]) /\ delta[p] = {}
      <4>1. \A p \in 1 .. BlockBytes : b0[p] = SymDiff(d0[p], delta[p])
        BY <1>4, <1>8, SumWord
      <4>2. \A p \in 1 .. BlockBytes : delta[p] = {}
        BY <1>10 DEF Zeros
      <4> QED
        BY <4>1, <4>2
    <3>2. \A s : SymDiff(s, {}) = s
      BY DEF SymDiff
    <3>3. \A p \in 1 .. BlockBytes : b0[p] = d0[p]
      BY <3>1, <3>2
    <3> QED
      BY <1>4, <3>3, SameWords
  <2>3. \A k \in 0 .. count - 1 : BlockOf(back, k) = BlockOf(d, k)
    <3>1. \A k \in 0 .. count - 1 : k = 0
      BY <2>1
    <3> QED
      BY <1>2, <2>2, <3>1
  <2> QED
    BY <1>3, <2>3, SameBlocks
<1> QED
  BY <1>2, <1>8, <1>9, <1>10 DEF GivesBack

\* What CBC is given is a number of blocks.
IsCbcData(d, count, len) ==
  AreBlocks(count, len) /\ Word(d, len) /\ count > 0 /\ NotCipher(d[1])

\* So are the inputs of the calls.
LEMMA CbcData ==
  ASSUME NEW x \in CbcInputs
  PROVE  (\E count, len : IsCbcData(x.data, count, len)) /\ Word(x.delta, BlockBytes)
<1>1. PICK sizes : sizes = {n * BlockBytes : n \in 1 .. MaxBlocks}
  OBVIOUS
<1>2. PICK d, delta : d = x.data /\ delta = x.delta
  OBVIOUS
<1>3. /\ d \in {Atoms("data", 0, n) : n \in sizes} \cup {[j \in 1 .. n |-> {}] : n \in sizes}
      /\ delta \in {Zeros, Atoms("key", 0, BlockBytes)}
  BY <1>1, <1>2 DEF CbcInputs
<1>4. Word(delta, BlockBytes)
  <2>1. Word(Zeros, BlockBytes)
    BY Sizes DEF Word, Zeros
  <2>2. Word(Atoms("key", 0, BlockBytes), BlockBytes)
    BY AtomsWord, Sizes
  <2> QED
    BY <1>3, <2>1, <2>2
<1>5. PICK len \in sizes : d = Atoms("data", 0, len) \/ d = [j \in 1 .. len |-> {}]
  BY <1>3
<1>6. PICK count \in 1 .. MaxBlocks : len = count * BlockBytes
  BY <1>1, <1>5
<1>7. count \in Nat /\ count > 0 /\ len \in Nat /\ len >= 1
  <2>1. count \in Nat /\ count > 0
    BY <1>6
  <2>2. PICK e : e = count - 1
    OBVIOUS
  <2>3. e \in Nat /\ count = e + 1
    BY <2>1, <2>2
  <2>4. len = e * BlockBytes + BlockBytes /\ e * BlockBytes \in Nat
    BY <1>6, <2>3, Sizes
  <2>5. PICK u : u = e * BlockBytes
    OBVIOUS
  <2> QED
    BY <2>1, <2>4, <2>5, Sizes
<1>8. AreBlocks(count, len)
  BY <1>6, <1>7 DEF AreBlocks
<1>9. CASE d = Atoms("data", 0, len)
  <2>1. Word(d, len) /\ d[1] = {<<"data", 0, 1>>}
    BY <1>7, <1>9, AtomsWord
  <2>2. \A y, q : <<"data", 0, 1>> # <<"cipher", y, q>>
    OBVIOUS
  <2>3. NotCipher(d[1])
    BY <2>1, <2>2 DEF NotCipher
  <2> QED
    BY <1>2, <1>4, <1>7, <1>8, <2>1, <2>3 DEF IsCbcData
<1>10. CASE d = [j \in 1 .. len |-> {}]
  <2>1. Word(d, len) /\ d[1] = {}
    BY <1>7, <1>10 DEF Word
  <2>2. NotCipher(d[1])
    BY <2>1 DEF NotCipher
  <2> QED
    BY <1>2, <1>4, <1>7, <1>8, <2>1, <2>2 DEF IsCbcData
<1> QED
  BY <1>5, <1>9, <1>10

\* CBC does what CbcChains says.
LEMMA CbcCall == CallsInv => CbcChains
<1> SUFFICES ASSUME CallsInv, Returned("cbc")
             PROVE  LET block(i) == BlockOf(in.data, i)
                        back == CbcDecrypto(Iv, result, in.delta)
                    IN  /\ \A i \in 0 .. (Len(result) \div BlockBytes) - 1 :
                             BlockOf(result, i) =
                               Cipher(Sum(block(i), IF i = 0 THEN Iv ELSE BlockOf(result, i - 1)))
                        /\ BlockOf(back, 0) = Sum(block(0), in.delta)
                        /\ back = in.data <=> in.delta = Zeros /\ Len(in.data) = BlockBytes
  BY Zenon DEF CbcChains
<1>1. in \in CbcInputs /\ result = CbcEncrypto(Iv, in.data)
  <2>1. callee = "cbc" /\ done
    BY DEF Returned
  <2>2. result = Computed(callee, in) /\ in \in CbcInputs
    BY <2>1 DEF CallsInv
  <2> QED
    BY <2>1, <2>2 DEF Computed
<1>2. PICK d, delta : d = in.data /\ delta = in.delta
  OBVIOUS
<1>3. PICK count, len : IsCbcData(d, count, len)
  BY <1>1, <1>2, CbcData
<1>4. Word(delta, BlockBytes)
  BY <1>1, <1>2, CbcData
<1>5. AreBlocks(count, len) /\ Word(d, len) /\ count > 0 /\ NotCipher(d[1])
  BY <1>3 DEF IsCbcData
<1>6. PICK iv : iv = Iv
  OBVIOUS
<1>7. Word(iv, BlockBytes)
  BY <1>6, AtomsWord, Sizes DEF Iv
<1>8. PICK c, back : c = CbcEncrypto(iv, d) /\ back = CbcDecrypto(iv, c, delta)
  OBVIOUS
<1>9. IsChain(c, d, iv, count, len)
  BY <1>5, <1>7, <1>8, Chained
<1>10. Word(c, len)
  BY <1>9 DEF IsChain
<1>11. IsUnchained(back, c, iv, delta, count, len)
  BY <1>5, <1>7, <1>8, <1>10, Unchained
<1>12. GivesBack(back, d, delta, len)
  BY <1>4, <1>5, <1>7, <1>9, <1>11, FirstBlockBack
<1>13. Len(c) \div BlockBytes = count /\ Len(d) = len
  BY <1>5, <1>10, BlocksOfWord
<1>14. \A i \in 0 .. count - 1 :
         BlockOf(c, i) = Cipher(Sum(BlockOf(d, i), IF i = 0 THEN iv ELSE BlockOf(c, i - 1)))
  BY <1>9, Zenon DEF IsChain
<1>15. BlockOf(back, 0) = Sum(BlockOf(d, 0), delta) /\ (back = d <=> delta = Zeros /\ len = BlockBytes)
  BY <1>12, Zenon DEF GivesBack
<1> QED
  BY <1>1, <1>2, <1>6, <1>8, <1>13, <1>14, <1>15, Zenon

\* Encryption in place is the chain of the standard, and decryption in place gives back
\* only the first block, for every size and number of blocks
\* (tls_crypto_aes.cpp:176-217).
THEOREM CbcIsChain == PrimitivesSpec => []CbcChains
BY CallsInductive, CbcCall, PTL

----------------------------------------------------------------------------
(* What a tag binds.                                                       *)

\* The number of blocks that the loop of ghash takes of n bytes, and what it is followed
\* by if there is a rest.
Looped(n) == (n + BlockBytes - 1) \div BlockBytes - 1
RestOf(s, n) ==
  SubSeq(s, n - (n % BlockBytes) + 1, n) \o SubSeq(Zeros, (n % BlockBytes) + 1, BlockBytes)

\* count blocks of n bytes, len bytes in all, are looped over.
IsLooped(count, len, n) ==
  /\ AreBlocks(count, len) /\ len <= n
  /\ IF n % BlockBytes = 0 THEN len = n - BlockBytes ELSE len = n - (n % BlockBytes)

\* The loop reaches the rest, or else all but the last block.
LEMMA LoopedBlocks ==
  ASSUME NEW n \in Nat, n > 0
  PROVE  IsLooped(Looped(n), Looped(n) * BlockBytes, n)
<1>1. PICK b, q, r : b = BlockBytes /\ q = n \div b /\ r = n % b
  OBVIOUS
<1>2. b \in Nat /\ b > 0
  BY <1>1, Sizes
<1>3. q \in Nat /\ r \in 0 .. b - 1 /\ n = b * q + r
  BY <1>1, <1>2, Division
<1>4. CASE r = 0
  <2>1. PICK e : e = q - 1
    OBVIOUS
  <2>2. q # 0
    BY <1>2, <1>3, <1>4
  <2>3. e \in Nat /\ q = e + 1
    BY <1>3, <2>1, <2>2
  <2>4. n + b - 1 = b * q + (b - 1) /\ b - 1 \in 0 .. b - 1
    BY <1>2, <1>3, <1>4
  <2>5. (n + b - 1) \div b = q
    BY <1>2, <1>3, <2>4, DivisionUnique
  <2>6. Looped(n) = e
    BY <1>1, <2>3, <2>5 DEF Looped
  <2>7. e * b \in Nat /\ n = e * b + b
    BY <1>2, <1>3, <1>4, <2>3
  <2>8. PICK len : len = e * b
    OBVIOUS
  <2>9. len \in Nat /\ len <= n /\ len = n - b
    BY <1>2, <2>7, <2>8
  <2>10. Looped(n) * BlockBytes = len
    BY <1>1, <2>6, <2>8
  <2> QED
    BY <1>1, <1>4, <2>3, <2>6, <2>8, <2>9, <2>10 DEF IsLooped, AreBlocks
<1>5. CASE r # 0
  <2>1. PICK p, t, m : p = q + 1 /\ t = r - 1 /\ m = n + b - 1
    OBVIOUS
  <2>2. (n + b - 1) \div b = q + 1
    <3>1. p \in Nat /\ t \in 0 .. b - 1 /\ m = b * p + t
      BY <1>2, <1>3, <1>5, <2>1
    <3>2. m \div b = p
      BY <1>2, <3>1, DivisionUnique
    <3> QED
      BY <2>1, <3>2
  <2>3. Looped(n) = q
    BY <1>1, <1>3, <2>2 DEF Looped
  <2>4. q * b \in Nat /\ n = q * b + r
    BY <1>2, <1>3
  <2>5. PICK len : len = q * b
    OBVIOUS
  <2>6. len \in Nat /\ len <= n /\ len = n - r
    BY <1>3, <2>4, <2>5
  <2>7. Looped(n) * BlockBytes = len
    BY <1>1, <2>3, <2>5
  <2> QED
    BY <1>1, <1>3, <1>5, <2>3, <2>5, <2>6, <2>7 DEF IsLooped, AreBlocks
<1> QED
  BY <1>4, <1>5

\* What ghash takes of s.
IsAbsorbed(a, s, n, count) ==
  IF n % BlockBytes = 0
  THEN Word(a, count) /\ \A i \in 1 .. count : a[i] = BlockOf(s, i - 1)
  ELSE /\ Word(a, count + 1) /\ a[count + 1] = RestOf(s, n)
       /\ \A i \in 1 .. count : a[i] = BlockOf(s, i - 1)

\* It takes those blocks, and the rest.
LEMMA AbsorbedOf ==
  ASSUME NEW s, NEW n, Word(s, n), n > 0
  PROVE  IsAbsorbed(Absorbed(s), s, n, Looped(n))
<1>1. Len(s) = n /\ n \in Nat
  BY WordLength
<1>2. PICK count, rest : count = Looped(n) /\ rest = n % BlockBytes
  OBVIOUS
<1>3. count \in Nat
  BY <1>1, <1>2, LoopedBlocks DEF IsLooped, AreBlocks
<1>4. PICK blocks : blocks = [i \in 1 .. count |-> BlockOf(s, i - 1)]
  OBVIOUS
<1>5. Word(blocks, count) /\ \A i \in 1 .. count : blocks[i] = BlockOf(s, i - 1)
  BY <1>3, <1>4 DEF Word
<1>6. Absorbed(s) = blocks \o (IF rest = 0 THEN <<>> ELSE <<RestOf(s, n)>>)
  BY <1>1, <1>2, <1>4, Zenon DEF Absorbed, Looped, RestOf
<1>7. PICK a : a = Absorbed(s)
  OBVIOUS
<1>8. CASE rest = 0
  <2>1. PICK none : none = <<>>
    OBVIOUS
  <2>2. Word(none, 0)
    BY <2>1 DEF Word
  <2>3. a = blocks \o none
    BY <1>6, <1>7, <1>8, <2>1
  <2>4. IsJoined(a, blocks, count, none, 0)
    BY <1>5, <2>2, <2>3, Joined, Zenon
  <2>5. Word(a, count) /\ \A i \in 1 .. count : a[i] = blocks[i]
    BY <1>3, <2>4 DEF IsJoined
  <2> QED
    BY <1>2, <1>5, <1>7, <1>8, <2>5 DEF IsAbsorbed
<1>9. CASE rest # 0
  <2>1. PICK tail : tail = RestOf(s, n)
    OBVIOUS
  <2>2. PICK one : one = <<tail>>
    OBVIOUS
  <2>3. Word(one, 1) /\ one[1] = tail
    BY <2>2 DEF Word
  <2>4. a = blocks \o one
    BY <1>6, <1>7, <1>9, <2>1, <2>2
  <2>5. IsJoined(a, blocks, count, one, 1)
    BY <1>5, <2>3, <2>4, Joined, Zenon
  <2>6. /\ Word(a, count + 1) /\ a[count + 1] = tail
        /\ \A i \in 1 .. count : a[i] = blocks[i]
    BY <1>3, <2>3, <2>5 DEF IsJoined
  <2> QED
    BY <1>2, <1>5, <1>7, <1>9, <2>1, <2>6 DEF IsAbsorbed
<1> QED
  BY <1>8, <1>9

\* The bytes of the rest, and zeros.
IsRest(c, s, n) ==
  /\ Word(c, BlockBytes)
  /\ \A x \in 1 .. BlockBytes :
       c[x] = IF x <= n % BlockBytes THEN s[n - (n % BlockBytes) + x] ELSE {}

\* The rest is filled up with zeros.
LEMMA RestBytes ==
  ASSUME NEW s, NEW n, Word(s, n)
  PROVE  IsRest(RestOf(s, n), s, n)
<1>1. PICK b, r : b = BlockBytes /\ r = n % b
  OBVIOUS
<1>2. n \in Nat /\ b \in Nat /\ b > 0 /\ r \in 0 .. b - 1 /\ r <= n
  <2>1. n \in Nat /\ b \in Nat /\ b > 0
    BY <1>1, Sizes DEF Word
  <2>2. n \div b \in Nat /\ r \in 0 .. b - 1 /\ n = b * (n \div b) + r
    BY <1>1, <2>1, Division
  <2>3. PICK q : q = n \div b
    OBVIOUS
  <2>4. PICK u : u = b * q
    OBVIOUS
  <2>5. u \in Nat /\ n = u + r
    BY <2>1, <2>2, <2>3, <2>4
  <2> QED
    BY <2>1, <2>2, <2>5
<1>3. PICK from, next : from = n - r + 1 /\ next = r + 1
  OBVIOUS
<1>4. PICK tail, padding : tail = SubSeq(s, from, n) /\ padding = SubSeq(Zeros, next, b)
  OBVIOUS
<1>5. RestOf(s, n) = tail \o padding
  BY <1>1, <1>3, <1>4 DEF RestOf
<1>6. from \in 1 .. n + 1 /\ n \in from - 1 .. n /\ next \in 1 .. b + 1 /\ b \in next - 1 .. b
  BY <1>2, <1>3
<1>7. Word(Zeros, b) /\ \A x \in 1 .. b : Zeros[x] = {}
  BY <1>1, <1>2 DEF Word, Zeros
<1>8. IsCut(tail, s, from, n)
  BY <1>4, <1>6, Cut, Zenon
<1>9. IsCut(padding, Zeros, next, b)
  BY <1>4, <1>6, <1>7, Cut, Zenon
<1>10. n - from + 1 = r /\ b - next + 1 = b - r
  BY <1>2, <1>3
<1>11. Word(tail, r) /\ \A x \in 1 .. r : tail[x] = s[n - r + x]
  <2>1. \A x \in 1 .. r : from + x - 1 = n - r + x
    BY <1>2, <1>3
  <2> QED
    BY <1>8, <1>10, <2>1 DEF IsCut
<1>12. Word(padding, b - r) /\ \A x \in 1 .. b - r : padding[x] = {}
  <2>1. \A x \in 1 .. b - r : next + x - 1 \in 1 .. b
    BY <1>2, <1>3
  <2>2. Word(padding, b - r) /\ \A x \in 1 .. b - r : padding[x] = Zeros[next + x - 1]
    BY <1>9, <1>10 DEF IsCut
  <2> QED
    BY <1>7, <2>1, <2>2
<1>13. PICK c : c = tail \o padding
  OBVIOUS
<1>14. IsJoined(c, tail, r, padding, b - r)
  BY <1>11, <1>12, <1>13, Joined, Zenon
<1>15. r + (b - r) = b
  BY <1>2
<1>16. Word(c, b) /\ \A x \in 1 .. b : c[x] = IF x <= r THEN tail[x] ELSE padding[x - r]
  BY <1>14, <1>15 DEF IsJoined
<1>17. \A x \in 1 .. b : c[x] = IF x <= r THEN s[n - r + x] ELSE {}
  <2> SUFFICES ASSUME NEW x \in 1 .. b PROVE c[x] = IF x <= r THEN s[n - r + x] ELSE {}
    OBVIOUS
  <2>1. CASE x <= r
    <3>1. x \in 1 .. r
      BY <1>2, <2>1
    <3> QED
      BY <1>11, <1>16, <2>1, <3>1
  <2>2. CASE ~(x <= r)
    <3>1. x - r \in 1 .. b - r
      BY <1>2, <2>2
    <3> QED
      BY <1>12, <1>16, <2>2, <3>1
  <2> QED
    BY <2>1, <2>2
<1> QED
  BY <1>1, <1>5, <1>13, <1>16, <1>17 DEF IsRest

\* Two words of n bytes that differ at byte p only.
DifferAt(s, t, n, p) ==
  /\ Word(s, n) /\ Word(t, n) /\ p \in 1 .. n
  /\ s[p] # t[p] /\ \A j \in 1 .. n : j # p => s[j] = t[j]

\* The blocks in front of byte p are the same, and the one that it is in is not.
LEMMA FrontChange ==
  ASSUME NEW s, NEW t, NEW n, NEW p, DifferAt(s, t, n, p),
         NEW count, NEW len, AreBlocks(count, len), len <= n
  PROVE  (\A k \in 0 .. count - 1 : BlockOf(s, k) = BlockOf(t, k)) <=> len < p
<1>1. /\ n \in Nat /\ len \in Nat /\ p \in Nat /\ p >= 1 /\ count \in Nat
      /\ Word(s, n) /\ Word(t, n)
  BY DEF DifferAt, AreBlocks, Word
<1>2. ASSUME len < p, NEW k \in 0 .. count - 1 PROVE BlockOf(s, k) = BlockOf(t, k)
  <2>1. PICK x, y : x = BlockOf(s, k) /\ y = BlockOf(t, k)
    OBVIOUS
  <2>2. IsBlock(x, s, k) /\ IsBlock(y, t, k)
    BY <1>1, <2>1, FrontBlock
  <2>3. PICK first \in Nat : first = k * BlockBytes /\ first + BlockBytes <= len
    BY BlockInside
  <2>4. \A i \in 1 .. BlockBytes : x[i] = y[i]
    <3> SUFFICES ASSUME NEW i \in 1 .. BlockBytes PROVE x[i] = y[i]
      OBVIOUS
    <3>1. PICK j : j = first + i
      OBVIOUS
    <3>2. j \in 1 .. n /\ j # p
      BY <1>1, <1>2, <2>3, <3>1, Sizes
    <3>3. s[j] = t[j]
      BY <3>2 DEF DifferAt
    <3>4. x[i] = s[j] /\ y[i] = t[j]
      BY <2>2, <2>3, <3>1 DEF IsBlock
    <3> QED
      BY <3>3, <3>4
  <2>5. x = y
    BY <2>2, <2>4, SameWords DEF IsBlock
  <2> QED
    BY <2>1, <2>5
<1>3. ASSUME ~(len < p), \A k \in 0 .. count - 1 : BlockOf(s, k) = BlockOf(t, k) PROVE FALSE
  <2>1. p \in 1 .. len
    BY <1>1, <1>3
  <2>2. PICK k, i : k = RowOf(p) /\ i = Place(p)
    OBVIOUS
  <2>3. k \in 0 .. count - 1 /\ i \in 1 .. BlockBytes /\ p = k * BlockBytes + i
    BY <2>1, <2>2, ByteAt
  <2>4. IsBlock(BlockOf(s, k), s, k) /\ IsBlock(BlockOf(t, k), t, k)
    BY <1>1, <2>3, FrontBlock
  <2>5. BlockOf(s, k)[i] = s[p] /\ BlockOf(t, k)[i] = t[p]
    BY <2>3, <2>4 DEF IsBlock
  <2>6. BlockOf(s, k) = BlockOf(t, k)
    BY <1>3, <2>3
  <2> QED
    BY <2>5, <2>6 DEF DifferAt
<1> QED
  BY <1>2, <1>3

\* What ghash takes of two such words is the same just if it passes over the byte.
LEMMA AbsorbedChange ==
  ASSUME NEW s, NEW t, NEW n, NEW p, DifferAt(s, t, n, p)
  PROVE  Absorbed(s) = Absorbed(t) <=> n % BlockBytes = 0 /\ n - BlockBytes < p
<1>1. n \in Nat /\ n > 0 /\ p \in Nat /\ p >= 1 /\ p <= n /\ Word(s, n) /\ Word(t, n)
  BY DEF DifferAt, Word
<1>2. PICK count, len : count = Looped(n) /\ len = Looped(n) * BlockBytes
  OBVIOUS
<1>3. IsLooped(count, len, n)
  BY <1>1, <1>2, LoopedBlocks
<1>4. AreBlocks(count, len) /\ len <= n /\ count \in Nat /\ len \in Nat
  BY <1>3 DEF IsLooped, AreBlocks
<1>5. PICK a, b : a = Absorbed(s) /\ b = Absorbed(t)
  OBVIOUS
<1>6. IsAbsorbed(a, s, n, count) /\ IsAbsorbed(b, t, n, count)
  BY <1>1, <1>2, <1>5, AbsorbedOf
<1>7. (\A k \in 0 .. count - 1 : BlockOf(s, k) = BlockOf(t, k)) <=> len < p
  BY <1>4, FrontChange
<1>8. (\A i \in 1 .. count : BlockOf(s, i - 1) = BlockOf(t, i - 1)) <=> len < p
  <2>1. \A i \in 1 .. count : i - 1 \in 0 .. count - 1
    BY <1>4
  <2>2. \A k \in 0 .. count - 1 : k + 1 \in 1 .. count /\ (k + 1) - 1 = k
    BY <1>4
  <2> QED
    BY <1>7, <2>1, <2>2
<1>9. CASE n % BlockBytes = 0
  <2>1. len = n - BlockBytes
    BY <1>3, <1>9 DEF IsLooped
  <2>2. /\ Word(a, count) /\ \A i \in 1 .. count : a[i] = BlockOf(s, i - 1)
        /\ Word(b, count) /\ \A i \in 1 .. count : b[i] = BlockOf(t, i - 1)
    BY <1>6, <1>9 DEF IsAbsorbed
  <2>3. a = b <=> \A i \in 1 .. count : a[i] = b[i]
    BY <2>2, SameWords
  <2>4. a = b <=> len < p
    BY <1>8, <2>2, <2>3
  <2> QED
    BY <1>5, <1>9, <2>1, <2>4
<1>10. CASE n % BlockBytes # 0
  <2>1. PICK r : r = n % BlockBytes
    OBVIOUS
  <2>2. len = n - r /\ r \in 1 .. BlockBytes - 1
    <3>1. r \in 0 .. BlockBytes - 1
      BY <1>1, <2>1, Sizes, Division
    <3>2. len = n - r
      BY <1>3, <1>10, <2>1 DEF IsLooped
    <3> QED
      BY <1>10, <2>1, <3>1, <3>2, Sizes
  <2>3. PICK x, y : x = RestOf(s, n) /\ y = RestOf(t, n)
    OBVIOUS
  <2>4. /\ a[count + 1] = x /\ \A i \in 1 .. count : a[i] = BlockOf(s, i - 1)
        /\ b[count + 1] = y /\ \A i \in 1 .. count : b[i] = BlockOf(t, i - 1)
    BY <1>6, <1>10, <2>3 DEF IsAbsorbed
  <2>5. IsRest(x, s, n) /\ IsRest(y, t, n)
    BY <1>1, <2>3, RestBytes
  <2>6. SUFFICES ASSUME a = b PROVE FALSE
    BY <1>5, <1>10
  <2>7. len < p
    BY <1>8, <2>4, <2>6
  <2>8. PICK i : i = p - len
    OBVIOUS
  <2>9. i \in 1 .. r /\ i \in 1 .. BlockBytes /\ n - r + i = p
    BY <1>1, <1>4, <2>2, <2>7, <2>8, Sizes
  <2>10. x[i] = s[p] /\ y[i] = t[p]
    BY <2>1, <2>5, <2>9 DEF IsRest
  <2> QED
    BY <2>4, <2>6, <2>10 DEF DifferAt
<1> QED
  BY <1>9, <1>10

\* Two hashes are the same just if they are of the same.
LEMMA GhashSame ==
  ASSUME NEW a, NEW b, NEW c, NEW d
  PROVE  Ghash(a, c) = Ghash(b, d)
           <=> /\ Absorbed(a) = Absorbed(b) /\ Absorbed(c) = Absorbed(d)
               /\ Len(a) = Len(b) /\ Len(c) = Len(d)
<1>1. PICK x, y : /\ x = <<Absorbed(a), Absorbed(c), Len(a), Len(c)>>
                  /\ y = <<Absorbed(b), Absorbed(d), Len(b), Len(d)>>
  OBVIOUS
<1>2. Ghash(a, c) = Atoms("ghash", x, BlockBytes) /\ Ghash(b, d) = Atoms("ghash", y, BlockBytes)
  BY <1>1 DEF Ghash
<1>3. /\ Atoms("ghash", x, BlockBytes)[1] = {<<"ghash", x, 1>>}
      /\ Atoms("ghash", y, BlockBytes)[1] = {<<"ghash", y, 1>>}
  BY AtomsWord, Sizes
<1>4. Ghash(a, c) = Ghash(b, d) <=> x = y
  <2>1. \A u, v : {u} = {v} => u = v
    OBVIOUS
  <2>2. <<"ghash", x, 1>> = <<"ghash", y, 1>> => x = y
    OBVIOUS
  <2> QED
    BY <1>2, <1>3, <2>1, <2>2
<1> QED
  BY <1>1, <1>4

\* A byte that is not the one that takes its place.
NotOther(b) == b # {<<"other", 0, 0>>}

\* A word with the other byte differs there.
LEMMA OtherDiffers ==
  ASSUME NEW s, NEW n, Word(s, n), NEW p \in 1 .. n, NotOther(s[p])
  PROVE  DifferAt(s, Other(s, p), n, p) /\ Len(Other(s, p)) = n
<1>1. DOMAIN s = 1 .. n /\ n \in Nat
  BY WordLength
<1>2. PICK t : t = Other(s, p)
  OBVIOUS
<1>3. t = [j \in 1 .. n |-> IF j = p THEN {<<"other", 0, 0>>} ELSE s[j]]
  BY <1>1, <1>2 DEF Other
<1>4. Word(t, n)
  BY <1>1, <1>3 DEF Word
<1>5. DifferAt(s, t, n, p)
  BY <1>3, <1>4 DEF DifferAt, NotOther
<1>6. Len(t) = n
  BY <1>4, WordLength
<1> QED
  BY <1>2, <1>5, <1>6

\* What is sealed has none of the other byte.
LEMMA NoneOther ==
  ASSUME NEW n \in Nat, NEW p \in 1 .. n
  PROVE  /\ NotOther(Atoms("auth", 0, n)[p])
         /\ NotOther(CtrEncrypto(GivenNonce, Atoms("data", 0, n))[p])
<1>1. Atoms("auth", 0, n)[p] = {<<"auth", 0, p>>} /\ <<"auth", 0, p>> # <<"other", 0, 0>>
  BY AtomsWord
<1>2. NotOther(Atoms("auth", 0, n)[p])
  BY <1>1 DEF NotOther
<1>3. PICK d : d = Atoms("data", 0, n)
  OBVIOUS
<1>4. Word(d, n) /\ d[p] = {<<"data", 0, p>>} /\ <<"data", 0, p>> # <<"other", 0, 0>>
  BY <1>3, AtomsWord
<1>5. PICK c : c = CtrEncrypto(GivenNonce, d)
  OBVIOUS
<1>6. IsMasking(c, d, n, GivenNonce)
  BY <1>4, <1>5, CtrAdds
<1>7. NotOther(c[p])
  <2>1. CASE p <= n - (n % BlockBytes)
    <3>1. IsStreamByte(Added(GivenNonce, n, p), GivenNonce, n, p)
      BY <2>1, StreamByte
    <3>2. PICK x : Added(GivenNonce, n, p) = {<<"cipher", x, Place(p)>>}
      BY <3>1 DEF IsStreamByte
    <3>3. c[p] = SymDiff({<<"data", 0, p>>}, {<<"cipher", x, Place(p)>>})
      BY <1>4, <1>6, <2>1, <3>2 DEF IsMasking
    <3>4. <<"data", 0, p>> # <<"cipher", x, Place(p)>>
      OBVIOUS
    <3>5. <<"data", 0, p>> \in c[p]
      BY <3>3, <3>4 DEF SymDiff
    <3> QED
      BY <1>4, <3>5 DEF NotOther
  <2>2. CASE ~(p <= n - (n % BlockBytes))
    <3>1. c[p] = {<<"data", 0, p>>}
      BY <1>4, <1>6, <2>2 DEF IsMasking
    <3> QED
      BY <1>4, <3>1 DEF NotOther
  <2> QED
    BY <2>1, <2>2
<1> QED
  BY <1>2, <1>3, <1>5, <1>7

\* What ghash passes over of a word.
LEMMA Passes ==
  ASSUME NEW s, NEW n, Word(s, n), NEW p \in 1 .. n
  PROVE  p \in PassedOver(s) <=> n % BlockBytes = 0 /\ n - BlockBytes < p
<1>1. Len(s) = n /\ n \in Nat
  BY WordLength
<1> QED
  BY <1>1, Sizes DEF PassedOver

\* The hash of a word in which one byte has become the other.
LEMMA HashOfOther ==
  ASSUME NEW s, NEW n, Word(s, n), NEW p \in 1 .. n, NotOther(s[p])
  PROVE  Absorbed(s) = Absorbed(Other(s, p)) <=> p \in PassedOver(s)
BY OtherDiffers, AbsorbedChange, Passes

\* What arrives is refused, or comes back.
IsBound(x, r) ==
  /\ r.ret = -1 <=> \/ x.part = "tag"
                    \/ x.part = "auth" /\ x.place \notin PassedOver(x.auth)
                    \/ x.part = "data" /\ x.place \notin PassedOver(x.data)
  /\ x.part = "none" => r = [data |-> x.data, ret |-> Len(x.data)]

LEMMA OpenedBound ==
  ASSUME NEW x \in GcmInputs, x.place <= PartLength(x)
  PROVE  IsBound(x, Opened(x))
<1>1. PICK auth, data, part, place :
        auth = x.auth /\ data = x.data /\ part = x.part /\ place = x.place
  OBVIOUS
<1>2. /\ \E n \in UpTo(1) : auth = Atoms("auth", 0, n)
      /\ \E n \in UpTo(0) : data = Atoms("data", 0, n)
      /\ part \in {"none", "tag", "nonce", "auth", "data"} /\ place \in UpTo(1)
  BY <1>1 DEF GcmInputs
<1>3. PICK m \in UpTo(1) : auth = Atoms("auth", 0, m)
  BY <1>2
<1>4. PICK n \in UpTo(0) : data = Atoms("data", 0, n)
  BY <1>2
<1>5. m \in Nat /\ n \in Nat /\ place \in Nat /\ place >= 1
  BY <1>2 DEF UpTo
<1>6. PICK enc, tag : enc = CtrEncrypto(GivenNonce, data) /\ tag = Ghash(auth, enc)
  OBVIOUS
<1>7. Word(auth, m) /\ Word(data, n) /\ Len(auth) = m /\ Len(data) = n
  BY <1>3, <1>4, <1>5, AtomsWord, WordLength
<1>8. Word(enc, n) /\ Len(enc) = n
  BY <1>6, <1>7, CtrAdds, WordLength DEF IsMasking
<1>9. Opened(x) = GcmDecrypto(Received(x, "nonce", GivenNonce), Received(x, "auth", auth),
                              Received(x, "data", enc), Received(x, "tag", tag))
  BY <1>1, <1>6, Zenon DEF Opened, GcmEncrypto
<1>10. \A p, s : Received(x, p, s) = IF part = p THEN Other(s, place) ELSE s
  BY <1>1 DEF Received
<1>11. PICK r : r = Opened(x)
  OBVIOUS
<1>12. CASE part = "none"
  <2>1. r = GcmDecrypto(GivenNonce, auth, enc, tag)
    BY <1>9, <1>10, <1>11, <1>12
  <2>2. CtrEncrypto(GivenNonce, enc) = data
    BY <1>6, <1>7, CtrUndoes
  <2>3. r = [data |-> data, ret |-> n]
    BY <1>6, <1>8, <2>1, <2>2 DEF GcmDecrypto
  <2> QED
    BY <1>1, <1>5, <1>7, <1>11, <1>12, <2>3 DEF IsBound
<1>13. CASE part = "tag"
  <2>1. r = GcmDecrypto(GivenNonce, auth, enc, Other(tag, place))
    BY <1>9, <1>10, <1>11, <1>13
  <2>2. place \in 1 .. BlockBytes
    BY <1>1, <1>5, <1>13, Sizes DEF PartLength
  <2>3. PICK y : tag = Atoms("ghash", y, BlockBytes)
    BY <1>6 DEF Ghash
  <2>4. Word(tag, BlockBytes) /\ tag[place] = {<<"ghash", y, place>>}
    BY <2>2, <2>3, AtomsWord, Sizes
  <2>5. NotOther(tag[place])
    <3>1. <<"ghash", y, place>> # <<"other", 0, 0>>
      OBVIOUS
    <3> QED
      BY <2>4, <3>1 DEF NotOther
  <2>6. tag # Other(tag, place)
    BY <2>2, <2>4, <2>5, OtherDiffers DEF DifferAt
  <2>7. r.ret = -1
    BY <1>6, <2>1, <2>6 DEF GcmDecrypto
  <2> QED
    BY <1>1, <1>11, <1>13, <2>7 DEF IsBound
<1>14. CASE part = "nonce"
  <2>1. r = GcmDecrypto(Other(GivenNonce, place), auth, enc, tag)
    BY <1>9, <1>10, <1>11, <1>14
  <2>2. r.ret = n
    BY <1>6, <1>8, <2>1 DEF GcmDecrypto
  <2> QED
    BY <1>1, <1>5, <1>11, <1>14, <2>2 DEF IsBound
<1>15. CASE part = "auth"
  <2>1. PICK other : other = Other(auth, place)
    OBVIOUS
  <2>2. r = GcmDecrypto(GivenNonce, other, enc, tag)
    BY <1>9, <1>10, <1>11, <1>15, <2>1
  <2>3. place \in 1 .. m
    BY <1>1, <1>5, <1>7, <1>15 DEF PartLength
  <2>4. NotOther(auth[place])
    BY <1>3, <1>5, <2>3, NoneOther
  <2>5. Len(other) = Len(auth)
    BY <1>7, <2>1, <2>3, <2>4, OtherDiffers
  <2>6. Ghash(other, enc) = tag <=> place \in PassedOver(auth)
    BY <1>6, <1>7, <2>1, <2>3, <2>4, <2>5, HashOfOther, GhashSame
  <2>7. r.ret = IF place \in PassedOver(auth) THEN n ELSE -1
    BY <1>8, <2>2, <2>6 DEF GcmDecrypto
  <2> QED
    BY <1>1, <1>5, <1>11, <1>15, <2>7 DEF IsBound
<1>16. CASE part = "data"
  <2>1. PICK other : other = Other(enc, place)
    OBVIOUS
  <2>2. r = GcmDecrypto(GivenNonce, auth, other, tag)
    BY <1>9, <1>10, <1>11, <1>16, <2>1
  <2>3. place \in 1 .. n
    BY <1>1, <1>5, <1>7, <1>16 DEF PartLength
  <2>4. NotOther(enc[place])
    BY <1>4, <1>5, <1>6, <2>3, NoneOther
  <2>5. Len(other) = n
    BY <1>8, <2>1, <2>3, <2>4, OtherDiffers
  <2>6. Ghash(auth, other) = tag <=> place \in PassedOver(enc)
    BY <1>6, <1>8, <2>1, <2>3, <2>4, <2>5, HashOfOther, GhashSame
  <2>7. place \in PassedOver(enc) <=> place \in PassedOver(data)
    BY <1>7, <1>8, <2>3, Passes
  <2>8. r.ret = IF place \in PassedOver(data) THEN n ELSE -1
    BY <2>2, <2>5, <2>6, <2>7 DEF GcmDecrypto
  <2> QED
    BY <1>1, <1>5, <1>11, <1>16, <2>8 DEF IsBound
<1> QED
  BY <1>2, <1>12, <1>13, <1>14, <1>15, <1>16

\* GCM does what TagBinds says.
LEMMA GcmCall == CallsInv => TagBinds
<1> SUFFICES ASSUME CallsInv, Returned("gcm") PROVE IsBound(in, result)
  BY Zenon DEF TagBinds, IsBound
<1>1. callee = "gcm" /\ done
  BY DEF Returned
<1>2. result = Computed(callee, in) /\ in \in GcmInputs /\ in.place <= PartLength(in)
  BY <1>1 DEF CallsInv
<1>3. result = Opened(in)
  BY <1>1, <1>2 DEF Computed
<1> QED
  BY <1>2, <1>3, OpenedBound

\* A message is refused just if a byte of the tag, or of what ghash takes, is another
\* one, and what arrives as it was sealed comes back, for every size of block and nonce
\* and every length (tls_crypto_aes.cpp:297-381).
THEOREM TagIsBinding == PrimitivesSpec => []TagBinds
BY CallsInductive, GcmCall, PTL

----------------------------------------------------------------------------
(* HMAC.                                                                   *)

\* A message with the end mark, zeros and its length behind it.
Extended(m, zeros) == m \o EndMark \o Null(zeros) \o LengthField(Len(m))

\* The number of zeros fills the last block.
Fills(n, zeros) ==
  zeros \in 0 .. HashBlockSize - 1 /\ (n + 1 + zeros + LengthBytes) % HashBlockSize = 0

\* The sizes of the hashes (tls_algorithm.h:24-26).
LEMMA HashSizes ==
  /\ HashBlockSize \in Nat /\ HashBlockSize > 0
  /\ LengthBytes \in Nat /\ LengthBytes > 0 /\ LengthBytes < HashBlockSize
BY HashAssumption

\* What lies behind a message leaves it as it is (sha_calculate's last blocks).
LEMMA ExtendedWord ==
  ASSUME NEW m, NEW n, Word(m, n), NEW zeros \in Nat
  PROVE  /\ Word(Extended(m, zeros), n + 1 + zeros + LengthBytes)
         /\ \A j \in 1 .. n : Extended(m, zeros)[j] = m[j]
<1> DEFINE mark == <<"pad", 128, 0>>
           last == <<"pad", Len(m), 0>>
           a == m \o EndMark
           b == a \o Null(zeros)
<1>1. n \in Nat /\ LengthBytes \in Nat /\ LengthBytes > 0
  BY HashSizes DEF Word
<1>2. Word(EndMark, 1)
  BY DEF Word, EndMark
<1>3. \A k \in Nat : Word(Null(k), k)
  BY DEF Word, Null
<1>4. Word(LengthField(Len(m)), LengthBytes)
  <2>1. LengthBytes - 1 \in Nat /\ (LengthBytes - 1) + 1 = LengthBytes
    BY <1>1
  <2> HIDE DEF last
  <2>2. IsAppended(Append(Null(LengthBytes - 1), last), Null(LengthBytes - 1), LengthBytes - 1, last)
    BY <1>3, <2>1, Appended, Zenon
  <2>3. LengthField(Len(m)) = Append(Null(LengthBytes - 1), last)
    BY DEF LengthField, last
  <2> QED
    BY <2>1, <2>2, <2>3 DEF IsAppended
<1>5. IsJoined(a, m, n, EndMark, 1)
  BY <1>2, Joined, Zenon
<1> HIDE DEF a
<1>6. IsJoined(b, a, n + 1, Null(zeros), zeros)
  <2>1. Word(a, n + 1)
    BY <1>5 DEF IsJoined
  <2> QED
    BY <2>1, <1>3, Joined, Zenon
<1> HIDE DEF b
<1>7. IsJoined(b \o LengthField(Len(m)), b, n + 1 + zeros, LengthField(Len(m)), LengthBytes)
  <2>1. Word(b, n + 1 + zeros)
    BY <1>6 DEF IsJoined
  <2> QED
    BY <2>1, <1>4, Joined, Zenon
<1>8. Extended(m, zeros) = b \o LengthField(Len(m))
  BY DEF Extended, a, b
<1>9. ASSUME NEW j \in 1 .. n PROVE Extended(m, zeros)[j] = m[j]
  <2>0. /\ j \in 1 .. n + 1 /\ j \in 1 .. n + 1 + zeros /\ j \in 1 .. n + 1 + zeros + LengthBytes
        /\ j <= n /\ j <= n + 1 /\ j <= n + 1 + zeros
    BY <1>1
  <2>1. Extended(m, zeros)[j] = b[j]
    BY <1>7, <1>8, <2>0, Zenon DEF IsJoined
  <2>2. b[j] = a[j]
    BY <1>6, <2>0, Zenon DEF IsJoined
  <2>3. a[j] = m[j]
    BY <1>5, <2>0, Zenon DEF IsJoined
  <2> QED
    BY <2>1, <2>2, <2>3
<1> QED
  BY <1>7, <1>8, <1>9 DEF IsJoined

\* There is a number of zeros that fills the last block.
LEMMA ZerosExist ==
  ASSUME NEW n \in Nat
  PROVE  \E zeros : Fills(n, zeros)
<1>1. PICK q, r : q = (n + 1 + LengthBytes) \div HashBlockSize /\ r = (n + 1 + LengthBytes) % HashBlockSize
  OBVIOUS
<1>2. /\ n + 1 + LengthBytes \in Nat /\ q \in Nat /\ r \in 0 .. HashBlockSize - 1
      /\ n + 1 + LengthBytes = HashBlockSize * q + r
  BY <1>1, HashSizes
<1>3. CASE r = 0
  <2>1. (n + 1 + 0 + LengthBytes) % HashBlockSize = 0 /\ 0 \in 0 .. HashBlockSize - 1
    BY <1>1, <1>3, HashSizes
  <2> QED
    BY <2>1 DEF Fills
<1>4. CASE r # 0
  <2>1. PICK z : z = HashBlockSize - r
    OBVIOUS
  <2>2. z \in 0 .. HashBlockSize - 1
    BY <1>2, <1>4, <2>1, HashSizes
  <2>3. n + 1 + z + LengthBytes = HashBlockSize * (q + 1) + 0
    <3>1. PICK p : p = HashBlockSize * q
      OBVIOUS
    <3>2. HashBlockSize * (q + 1) = p + HashBlockSize /\ p \in Nat
      BY <1>2, <3>1, HashSizes
    <3> QED
      BY <1>2, <2>1, <3>1, <3>2, HashSizes
  <2>4. (n + 1 + z + LengthBytes) % HashBlockSize = 0
    <3>1. PICK t : t = n + 1 + z + LengthBytes
      OBVIOUS
    <3>2. q + 1 \in Nat /\ 0 \in 0 .. HashBlockSize - 1 /\ t = HashBlockSize * (q + 1) + 0
      BY <1>2, <2>3, <3>1, HashSizes
    <3>3. t % HashBlockSize = 0
      BY <3>2, HashSizes, DivisionUnique
    <3> QED
      BY <3>1, <3>3
  <2> QED
    BY <2>2, <2>4 DEF Fills
<1> QED
  BY <1>3, <1>4

\* It is the only one.
LEMMA ZerosUnique ==
  ASSUME NEW n \in Nat, NEW y, Fills(n, y), NEW z, Fills(n, z)
  PROVE  y = z
<1>1. PICK p, q : /\ p = (n + 1 + y + LengthBytes) \div HashBlockSize
                  /\ q = (n + 1 + z + LengthBytes) \div HashBlockSize
  OBVIOUS
<1>2. /\ y \in 0 .. HashBlockSize - 1 /\ z \in 0 .. HashBlockSize - 1
      /\ p \in Nat /\ n + 1 + y + LengthBytes = HashBlockSize * p
      /\ q \in Nat /\ n + 1 + z + LengthBytes = HashBlockSize * q
  BY <1>1, HashSizes DEF Fills
<1>3. ASSUME NEW s \in Nat, NEW t \in Nat, s < t
      PROVE  HashBlockSize * t >= HashBlockSize * s + HashBlockSize
  BY <1>3, HashSizes
<1>4. PICK u, v : u = HashBlockSize * p /\ v = HashBlockSize * q
  OBVIOUS
<1>5. u \in Nat /\ v \in Nat
  BY <1>2, <1>4, HashSizes
<1>6. ~(p < q) /\ ~(q < p)
  <2>1. p < q => v >= u + HashBlockSize
    BY <1>2, <1>3, <1>4
  <2>2. q < p => u >= v + HashBlockSize
    BY <1>2, <1>3, <1>4
  <2> QED
    BY <1>2, <1>4, <1>5, <2>1, <2>2, HashSizes
<1> QED
  BY <1>2, <1>6, HashSizes

\* The number of zeros that sha_calculate computes fills the last block.
LEMMA ZerosComputed ==
  ASSUME NEW n \in Nat, n % HashBlockSize # 0
  PROVE  LET rest == n % HashBlockSize
             room == HashBlockSize - LengthBytes
             filled == rest + 1 + LengthBytes
         IN  Fills(n, IF filled > HashBlockSize THEN HashBlockSize - rest - 1 + room
                      ELSE room - rest - 1)
<1>1. PICK q, rest : q = n \div HashBlockSize /\ rest = n % HashBlockSize
  OBVIOUS
<1>2. /\ q \in Nat /\ rest \in 1 .. HashBlockSize - 1
      /\ n = HashBlockSize * q + rest
  BY <1>1, HashSizes
<1>3. PICK room, p : room = HashBlockSize - LengthBytes /\ p = HashBlockSize * q
  OBVIOUS
<1>4. p \in Nat /\ n = p + rest /\ room \in 1 .. HashBlockSize - 1
  BY <1>2, <1>3, HashSizes
<1>5. ASSUME NEW z, NEW k \in Nat, n + 1 + z + LengthBytes = p + (HashBlockSize * k)
      PROVE  (n + 1 + z + LengthBytes) % HashBlockSize = 0
  <2>1. PICK t : t = n + 1 + z + LengthBytes
    OBVIOUS
  <2>2. HashBlockSize * (q + k) = p + (HashBlockSize * k)
    BY <1>2, <1>3, <1>5, HashSizes
  <2>3. q + k \in Nat /\ 0 \in 0 .. HashBlockSize - 1 /\ t = HashBlockSize * (q + k) + 0
    <3>1. PICK u : u = HashBlockSize * (q + k)
      OBVIOUS
    <3>2. u \in Nat /\ t = u
      BY <1>2, <1>5, <2>1, <2>2, <3>1, HashSizes
    <3> QED
      BY <1>2, <3>1, <3>2, HashSizes
  <2>4. t % HashBlockSize = 0
    BY <2>3, HashSizes, DivisionUnique
  <2> QED
    BY <2>1, <2>4
<1>6. CASE rest + 1 + LengthBytes > HashBlockSize
  <2>1. PICK z : z = HashBlockSize - rest - 1 + room
    OBVIOUS
  <2>2. z \in 0 .. HashBlockSize - 1
    BY <1>2, <1>3, <1>4, <1>6, <2>1, HashSizes
  <2>3. n + 1 + z + LengthBytes = p + (HashBlockSize * 2)
    BY <1>2, <1>3, <1>4, <2>1, HashSizes
  <2>4. Fills(n, z)
    BY <1>5, <2>2, <2>3 DEF Fills
  <2> QED
    BY <1>1, <1>3, <1>6, <2>1, <2>4
<1>7. CASE ~(rest + 1 + LengthBytes > HashBlockSize)
  <2>1. PICK z : z = room - rest - 1
    OBVIOUS
  <2>2. z \in 0 .. HashBlockSize - 1
    BY <1>2, <1>3, <1>4, <1>7, <2>1, HashSizes
  <2>3. n + 1 + z + LengthBytes = p + (HashBlockSize * 1)
    BY <1>2, <1>3, <1>4, <2>1, HashSizes
  <2>4. Fills(n, z)
    BY <1>5, <2>2, <2>3 DEF Fills
  <2> QED
    BY <1>1, <1>3, <1>7, <2>1, <2>4
<1> QED
  BY <1>6, <1>7

\* The padding of the standard: as many zeros as fill the last block.
LEMMA PaddedZeros ==
  ASSUME NEW m, NEW n, Word(m, n)
  PROVE  \E zeros : Fills(n, zeros) /\ Padded(m) = InBlocks(Extended(m, zeros))
<1>1. Len(m) = n /\ n \in Nat
  BY WordLength, Zenon
<1> DEFINE P(z) == (Len(m) + 1 + z + LengthBytes) % HashBlockSize = 0
           zeros == CHOOSE z \in 0 .. HashBlockSize - 1 : P(z)
<1>2. \E z \in 0 .. HashBlockSize - 1 : P(z)
  BY <1>1, ZerosExist DEF Fills
<1>3. zeros \in 0 .. HashBlockSize - 1 /\ P(zeros)
  <2> HIDE DEF P
  <2> QED
    BY <1>2, Zenon
<1>4. Fills(n, zeros)
  <2> HIDE DEF zeros
  <2> QED
    BY <1>1, <1>3 DEF Fills
<1>5. Padded(m) = InBlocks(Extended(m, zeros))
  BY Zenon DEF Padded, Extended
<1> QED
  BY <1>4, <1>5, Zenon

\* sha_calculate pads as the standard does, if the last block is not full.
LEMMA ShaPads ==
  ASSUME NEW m, NEW n, Word(m, n), n % HashBlockSize # 0
  PROVE  ShaBlocks(m) = Padded(m)
<1>1. Len(m) = n /\ n \in Nat
  BY WordLength, Zenon
<1>2. PICK z : Fills(n, z) /\ ShaBlocks(m) = InBlocks(Extended(m, z))
  <2>1. PICK z : z = IF (n % HashBlockSize) + 1 + LengthBytes > HashBlockSize
                     THEN HashBlockSize - (n % HashBlockSize) - 1 + (HashBlockSize - LengthBytes)
                     ELSE (HashBlockSize - LengthBytes) - (n % HashBlockSize) - 1
    OBVIOUS
  <2>2. Fills(n, z)
    BY <1>1, <2>1, ZerosComputed, Zenon
  <2>3. ShaBlocks(m) = InBlocks(Extended(m, z))
    BY <1>1, <2>1, Zenon DEF ShaBlocks, Extended
  <2> QED
    BY <2>2, <2>3
<1>3. PICK y : Fills(n, y) /\ Padded(m) = InBlocks(Extended(m, y))
  BY PaddedZeros, Zenon
<1>4. y = z
  BY <1>1, <1>2, <1>3, ZerosUnique
<1> QED
  BY <1>2, <1>3, <1>4

\* With a full last block it leaves the padding out.
LEMMA ShaDoesNotPad ==
  ASSUME NEW m, NEW n, Word(m, n), n % HashBlockSize = 0
  PROVE  ShaBlocks(m) # Padded(m)
<1>1. Len(m) = n /\ n \in Nat
  BY WordLength, Zenon
<1>2. ShaBlocks(m) = InBlocks(m)
  BY <1>1 DEF ShaBlocks
<1>3. PICK z : Fills(n, z) /\ Padded(m) = InBlocks(Extended(m, z))
  BY PaddedZeros, Zenon
<1>4. PICK k : k = n + 1 + z + LengthBytes
  OBVIOUS
<1>5. z \in Nat /\ k \in Nat /\ k > n /\ k % HashBlockSize = 0
  BY <1>1, <1>3, <1>4, HashSizes DEF Fills
<1>6. Len(Extended(m, z)) = k
  <2>1. Word(Extended(m, z), k)
    BY <1>4, <1>5, ExtendedWord
  <2> QED
    BY <2>1, WordLength, Zenon
<1>7. n \div HashBlockSize # k \div HashBlockSize
  <2>1. PICK p, q : p = n \div HashBlockSize /\ q = k \div HashBlockSize
    OBVIOUS
  <2>2. n = HashBlockSize * p /\ k = HashBlockSize * q
    BY <1>1, <1>5, <2>1, HashSizes
  <2> QED
    BY <1>5, <2>1, <2>2
<1>8. \A s : DOMAIN InBlocks(s) = 1 .. Len(s) \div HashBlockSize
  BY DEF InBlocks
<1>9. n \div HashBlockSize \in Nat /\ k \div HashBlockSize \in Nat
  BY <1>1, <1>5, HashSizes, Division
<1>10. 1 .. (n \div HashBlockSize) # 1 .. (k \div HashBlockSize)
  BY <1>7, <1>9
<1> QED
  BY <1>1, <1>2, <1>3, <1>6, <1>8, <1>10

\* The blocks of a message of whole blocks determine each of its bytes.
LEMMA BlocksTell ==
  ASSUME NEW k \in Nat, k % HashBlockSize = 0, NEW s, Word(s, k), NEW w, Word(w, k),
         InBlocks(s) = InBlocks(w), NEW j \in 1 .. k
  PROVE  s[j] = w[j]
<1>1. PICK c, t, r : /\ c = k \div HashBlockSize
                     /\ t = (j - 1) \div HashBlockSize /\ r = (j - 1) % HashBlockSize
  OBVIOUS
<1>2. /\ c \in Nat /\ k = HashBlockSize * c
      /\ t \in Nat /\ r \in 0 .. HashBlockSize - 1 /\ j - 1 = HashBlockSize * t + r
  <2>1. c \in Nat /\ k = HashBlockSize * c
    BY <1>1, HashSizes
  <2>2. t \in Nat /\ r \in 0 .. HashBlockSize - 1 /\ j - 1 = HashBlockSize * t + r
    <3>1. PICK i : i = j - 1
      OBVIOUS
    <3>2. i \in Nat
      BY <3>1
    <3>3. t \in Nat /\ r \in 0 .. HashBlockSize - 1 /\ i = HashBlockSize * t + r
      BY <1>1, <3>1, <3>2, HashSizes
    <3> QED
      BY <3>1, <3>3
  <2> QED
    BY <2>1, <2>2
<1>3. PICK u : u = HashBlockSize * t
  OBVIOUS
<1>4. u \in Nat /\ j = u + r + 1
  BY <1>2, <1>3, HashSizes
<1>5. t < c /\ u + HashBlockSize <= k
  <2>1. ASSUME NEW x \in Nat, NEW y \in Nat, x >= y PROVE HashBlockSize * x >= HashBlockSize * y
    BY <2>1, HashSizes
  <2>2. t < c
    <3>1. t >= c => u >= k
      BY <1>2, <1>3, <2>1
    <3> QED
      BY <1>2, <1>4, <3>1
  <2>3. HashBlockSize * (t + 1) = u + HashBlockSize
    BY <1>2, <1>3, HashSizes
  <2>4. HashBlockSize * c >= HashBlockSize * (t + 1)
    BY <1>2, <2>1, <2>2
  <2> QED
    BY <1>2, <2>2, <2>3, <2>4
<1>6. PICK a, b : a = ((t + 1) - 1) * HashBlockSize + 1 /\ b = (t + 1) * HashBlockSize
  OBVIOUS
<1>7. a = u + 1 /\ b = u + HashBlockSize
  BY <1>2, <1>3, <1>6, HashSizes
<1>8. a \in 1 .. k + 1 /\ b \in a - 1 .. k /\ r + 1 \in 1 .. b - a + 1 /\ a + (r + 1) - 1 = j
  BY <1>2, <1>4, <1>5, <1>7, HashSizes
<1>9. ASSUME NEW x, Word(x, k) PROVE InBlocks(x)[t + 1][r + 1] = x[j]
  <2>1. Len(x) \div HashBlockSize = c /\ t + 1 \in 1 .. c
    <3>1. Len(x) = k
      BY <1>9, WordLength, Zenon
    <3> QED
      BY <1>1, <1>2, <1>5, <3>1
  <2>2. InBlocks(x)[t + 1] = SubSeq(x, a, b)
    BY <1>6, <2>1 DEF InBlocks
  <2>3. IsCut(SubSeq(x, a, b), x, a, b)
    BY <1>8, <1>9, Cut, Zenon
  <2>4. SubSeq(x, a, b)[r + 1] = x[a + (r + 1) - 1]
    BY <1>8, <2>3, Zenon DEF IsCut
  <2> QED
    BY <1>8, <2>2, <2>4
<1> QED
  BY <1>9

\* Messages of one length that are padded to the same blocks are the same.
LEMMA PaddedTells ==
  ASSUME NEW m, NEW w, NEW n, Word(m, n), Word(w, n), Padded(m) = Padded(w)
  PROVE  m = w
<1>1. n \in Nat
  BY DEF Word
<1>2. PICK z : Fills(n, z) /\ Padded(m) = InBlocks(Extended(m, z))
  BY PaddedZeros, Zenon
<1>3. PICK y : Fills(n, y) /\ Padded(w) = InBlocks(Extended(w, y))
  BY PaddedZeros, Zenon
<1>4. y = z
  BY <1>1, <1>2, <1>3, ZerosUnique
<1>5. PICK k : k = n + 1 + z + LengthBytes
  OBVIOUS
<1>6. z \in Nat /\ k \in Nat /\ k >= n /\ k % HashBlockSize = 0
  BY <1>1, <1>2, <1>5, HashSizes DEF Fills
<1>7. /\ Word(Extended(m, z), k) /\ Word(Extended(w, z), k)
      /\ \A j \in 1 .. n : Extended(m, z)[j] = m[j] /\ Extended(w, z)[j] = w[j]
  BY <1>5, <1>6, ExtendedWord
<1>8. InBlocks(Extended(m, z)) = InBlocks(Extended(w, z))
  BY <1>2, <1>3, <1>4
<1>9. \A j \in 1 .. k : Extended(m, z)[j] = Extended(w, z)[j]
  <2>1. PICK s, v : s = Extended(m, z) /\ v = Extended(w, z)
    OBVIOUS
  <2>2. Word(s, k) /\ Word(v, k) /\ InBlocks(s) = InBlocks(v)
    BY <1>7, <1>8, <2>1
  <2>3. \A j \in 1 .. k : s[j] = v[j]
    BY <1>6, <2>2, BlocksTell
  <2> QED
    BY <2>1, <2>3
<1>10. \A j \in 1 .. n : m[j] = w[j]
  <2>1. \A j \in 1 .. n : j \in 1 .. k
    BY <1>1, <1>6
  <2> QED
    BY <1>7, <1>9, <2>1, Zenon
<1> QED
  BY <1>10, SameWords, Zenon

Implemented == DOMAIN ResultSize \cap {"sha1", "sha256"}

\* What a hash that is implemented makes of a message, and what it should make.
Digest(type, m) == [j \in 1 .. ResultSize[type] |-> <<type, ShaBlocks(m), j>>]
Standard(type, m) == [j \in 1 .. ResultSize[type] |-> <<type, Padded(m), j>>]

\* Digests have the length of the hash.
LEMMA DigestWord ==
  ASSUME NEW type \in Implemented, NEW m
  PROVE  /\ ResultSize[type] \in 1 .. HashBlockSize - 1
         /\ Word(Digest(type, m), ResultSize[type]) /\ Word(Standard(type, m), ResultSize[type])
<1>1. ResultSize[type] \in 1 .. HashBlockSize - 1
  BY HashAssumption, DigestAssumption, HashSizes DEF Implemented
<1> QED
  BY <1>1 DEF Word, Digest, Standard

\* A digest is that of the standard exactly for the blocks of the standard.
LEMMA DigestTells ==
  ASSUME NEW type \in Implemented, NEW m, NEW w
  PROVE  Digest(type, m) = Standard(type, w) <=> ShaBlocks(m) = Padded(w)
<1>1. 1 \in 1 .. ResultSize[type]
  BY DigestWord
<1>2. Digest(type, m)[1] = <<type, ShaBlocks(m), 1>> /\ Standard(type, w)[1] = <<type, Padded(w), 1>>
  BY <1>1 DEF Digest, Standard
<1>3. ShaBlocks(m) = Padded(w) => Digest(type, m) = Standard(type, w)
  BY DEF Digest, Standard
<1>4. Digest(type, m) = Standard(type, w) => ShaBlocks(m) = Padded(w)
  BY <1>2
<1> QED
  BY <1>3, <1>4

\* The hash of a message is that of the standard unless the last block is full.
LEMMA DigestRight ==
  ASSUME NEW type \in Implemented, NEW m, NEW n, Word(m, n)
  PROVE  Digest(type, m) = Standard(type, m) <=> n % HashBlockSize # 0
BY DigestTells, ShaPads, ShaDoesNotPad, Zenon

\* A hash function writes its digest to the front of the array (HashFnucTable).
LEMMA HashWritten ==
  ASSUME NEW type \in Implemented, NEW m, NEW array, Word(array, HashBlockSize)
  PROVE  LET c == WriteHash(type, m, array)
         IN  /\ Word(c, HashBlockSize) /\ SubSeq(c, 1, ResultSize[type]) = Digest(type, m)
             /\ c = Digest(type, m) \o SubSeq(array, ResultSize[type] + 1, HashBlockSize)
<1>1. PICK size, d, rest : /\ size = ResultSize[type] /\ d = Digest(type, m)
                           /\ rest = SubSeq(array, size + 1, HashBlockSize)
  OBVIOUS
<1>2. size \in 1 .. HashBlockSize - 1 /\ Word(d, size)
  BY <1>1, DigestWord
<1>3. Len(d) = size /\ Len(array) = HashBlockSize
  BY <1>2, WordLength, Zenon
<1>4. WriteHash(type, m, array) = d \o rest
  <2>1. type \in {"sha1", "sha256"}
    BY DEF Implemented
  <2>2. CASE type = "sha1"
    BY <1>1, <1>3, <2>2 DEF WriteHash, Sha1, Digest
  <2>3. CASE type = "sha256"
    BY <1>1, <1>3, <2>3 DEF WriteHash, Sha256, Digest
  <2> QED
    BY <2>1, <2>2, <2>3
<1>5. Word(rest, HashBlockSize - size)
  <2>1. /\ size + 1 \in 1 .. HashBlockSize + 1 /\ HashBlockSize \in (size + 1) - 1 .. HashBlockSize
        /\ HashBlockSize - (size + 1) + 1 = HashBlockSize - size
    BY <1>2, HashSizes
  <2>2. IsCut(rest, array, size + 1, HashBlockSize)
    BY <1>1, <2>1, Cut, Zenon
  <2> QED
    BY <2>1, <2>2 DEF IsCut
<1>6. PICK c : c = d \o rest
  OBVIOUS
<1>7. IsJoined(c, d, size, rest, HashBlockSize - size)
  BY <1>2, <1>5, <1>6, Joined, Zenon
<1>8. Word(c, HashBlockSize) /\ \A j \in 1 .. size : c[j] = d[j]
  <2>1. size + (HashBlockSize - size) = HashBlockSize /\ size <= HashBlockSize /\ size \in Nat
    BY <1>2, HashSizes
  <2> QED
    BY <1>7, <2>1, HashSizes DEF IsJoined
<1>9. SubSeq(c, 1, size) = d
  <2>1. 1 \in 1 .. HashBlockSize + 1 /\ size \in 1 - 1 .. HashBlockSize /\ size - 1 + 1 = size
    BY <1>2, HashSizes
  <2>2. IsCut(SubSeq(c, 1, size), c, 1, size)
    BY <1>8, <2>1, Cut, Zenon
  <2>3. Word(SubSeq(c, 1, size), size) /\ \A j \in 1 .. size : SubSeq(c, 1, size)[j] = c[1 + j - 1]
    BY <2>1, <2>2 DEF IsCut
  <2>4. \A j \in 1 .. size : 1 + j - 1 = j
    OBVIOUS
  <2>5. \A j \in 1 .. size : SubSeq(c, 1, size)[j] = d[j]
    BY <1>8, <2>3, <2>4
  <2> QED
    BY <1>2, <2>3, <2>5, SameWords, Zenon
<1> QED
  BY <1>1, <1>4, <1>6, <1>8, <1>9

\* A key with zeros behind it, up to the size of a block.
Stuffed(s) == s \o Null(HashBlockSize - Len(s))

\* A block of the key with a byte added to each of it.
Mixed(kind, block) == [j \in 1 .. HashBlockSize |-> <<kind, block[j], 0>>]

\* The key as tls_hmac uses it, and as it should be.
UsedKey(type, key) == Stuffed(IF Len(key) > HashBlockSize THEN Digest(type, key) ELSE key)
RightKey(type, key) == Stuffed(IF Len(key) > HashBlockSize THEN Standard(type, key) ELSE key)

\* What tls_hmac returns for a hash that is implemented.
Returns(type, block, data) ==
  Digest(type, Mixed("0x5C", block) \o Digest(type, Mixed("0x36", block) \o data))

\* The rest of an array of zeros is as many zeros.
LEMMA ZerosBehind ==
  ASSUME NEW n \in 0 .. HashBlockSize
  PROVE  SubSeq(Null(HashBlockSize), n + 1, HashBlockSize) = Null(HashBlockSize - n)
<1>1. PICK s, w, k : /\ s = SubSeq(Null(HashBlockSize), n + 1, HashBlockSize)
                     /\ w = Null(HashBlockSize - n) /\ k = HashBlockSize - n
  OBVIOUS
<1>2. /\ n + 1 \in 1 .. HashBlockSize + 1 /\ HashBlockSize \in (n + 1) - 1 .. HashBlockSize
      /\ HashBlockSize - (n + 1) + 1 = k /\ k \in Nat
  BY <1>1, HashSizes
<1>3. Word(Null(HashBlockSize), HashBlockSize) /\ Word(w, k)
  BY <1>1, <1>2, HashSizes DEF Word, Null
<1>4. IsCut(s, Null(HashBlockSize), n + 1, HashBlockSize)
  BY <1>1, <1>2, <1>3, Cut, Zenon
<1>5. Word(s, k) /\ \A j \in 1 .. k : s[j] = Null(HashBlockSize)[(n + 1) + j - 1]
  BY <1>2, <1>4 DEF IsCut
<1>6. \A j \in 1 .. k : s[j] = w[j]
  <2> SUFFICES ASSUME NEW j \in 1 .. k PROVE s[j] = w[j]
    OBVIOUS
  <2>1. (n + 1) + j - 1 \in 1 .. HashBlockSize /\ j \in 1 .. HashBlockSize - n
    BY <1>1, HashSizes
  <2>2. \A i \in 1 .. HashBlockSize : Null(HashBlockSize)[i] = <<"pad", 0, 0>>
    BY DEF Null
  <2>3. w[j] = <<"pad", 0, 0>>
    BY <1>1, <2>1 DEF Null
  <2> QED
    BY <1>5, <2>1, <2>2, <2>3
<1> QED
  BY <1>1, <1>3, <1>5, <1>6, SameWords, Zenon

\* A stuffed key has the size of a block and begins with the key.
LEMMA StuffedWord ==
  ASSUME NEW s, NEW n \in 0 .. HashBlockSize, Word(s, n)
  PROVE  Word(Stuffed(s), HashBlockSize) /\ \A j \in 1 .. n : Stuffed(s)[j] = s[j]
<1>1. PICK k : k = HashBlockSize - n
  OBVIOUS
<1>2. k \in Nat /\ n + k = HashBlockSize /\ n \in Nat
  BY <1>1, HashSizes
<1>3. Word(Null(k), k)
  BY <1>2 DEF Word, Null
<1>4. IsJoined(s \o Null(k), s, n, Null(k), k)
  BY <1>3, Joined, Zenon
<1>5. Stuffed(s) = s \o Null(k)
  <2>1. Len(s) = n
    BY WordLength, Zenon
  <2> QED
    BY <1>1, <2>1 DEF Stuffed
<1> QED
  <2>1. PICK c : c = Stuffed(s)
    OBVIOUS
  <2>2. IsJoined(c, s, n, Null(k), k)
    BY <1>4, <1>5, <2>1
  <2>3. Word(c, HashBlockSize) /\ \A j \in 1 .. HashBlockSize : c[j] = IF j <= n THEN s[j] ELSE Null(k)[j - n]
    BY <1>2, <2>2, Zenon DEF IsJoined
  <2>4. \A j \in 1 .. n : j \in 1 .. HashBlockSize /\ j <= n
    BY <1>2, HashSizes
  <2> QED
    BY <2>1, <2>3, <2>4

\* Two words that are joined determine both of them, if their lengths are known.
LEMMA JoinedTells ==
  ASSUME NEW a, NEW m, NEW b, Word(a, m), Word(b, m), NEW s, NEW w, NEW n, Word(s, n), Word(w, n),
         a \o s = b \o w
  PROVE  a = b /\ s = w
<1>1. PICK c : c = a \o s
  OBVIOUS
<1>2. IsJoined(c, a, m, s, n) /\ IsJoined(c, b, m, w, n)
  BY <1>1, Joined, Zenon
<1>3. m \in Nat /\ n \in Nat
  BY DEF Word
<1>4. \A j \in 1 .. m : a[j] = b[j]
  BY <1>2, <1>3 DEF IsJoined
<1>5. \A j \in 1 .. n : s[j] = w[j]
  <2> SUFFICES ASSUME NEW j \in 1 .. n PROVE s[j] = w[j]
    OBVIOUS
  <2>1. m + j \in 1 .. m + n /\ ~(m + j <= m) /\ (m + j) - m = j
    BY <1>3
  <2>2. c[m + j] = s[(m + j) - m] /\ c[m + j] = w[(m + j) - m]
    BY <1>2, <2>1, Zenon DEF IsJoined
  <2> QED
    BY <2>1, <2>2
<1> QED
  BY <1>4, <1>5, SameWords, Zenon

\* The key is the right one unless it is hashed and fills its last block.
LEMMA KeyRight ==
  ASSUME NEW type \in Implemented, NEW key, NEW n, Word(key, n)
  PROVE  /\ Word(UsedKey(type, key), HashBlockSize) /\ Word(RightKey(type, key), HashBlockSize)
         /\ UsedKey(type, key) = RightKey(type, key)
            <=> ~(n > HashBlockSize /\ n % HashBlockSize = 0)
<1>1. Len(key) = n /\ n \in Nat
  BY WordLength, Zenon
<1>2. CASE n > HashBlockSize
  <2>1. PICK size, d, s : /\ size = ResultSize[type] /\ d = Digest(type, key)
                          /\ s = Standard(type, key)
    OBVIOUS
  <2>2. size \in 0 .. HashBlockSize /\ Word(d, size) /\ Word(s, size)
    <3>1. size \in 1 .. HashBlockSize - 1
      BY <2>1, DigestWord
    <3>2. Word(d, size) /\ Word(s, size)
      BY <2>1, DigestWord, Zenon
    <3> QED
      BY <3>1, <3>2, HashSizes
  <2>3. UsedKey(type, key) = Stuffed(d) /\ RightKey(type, key) = Stuffed(s)
    BY <1>1, <1>2, <2>1 DEF UsedKey, RightKey
  <2>4. Word(Stuffed(d), HashBlockSize) /\ Word(Stuffed(s), HashBlockSize)
    BY <2>2, StuffedWord
  <2>5. Stuffed(d) = Stuffed(s) => d = s
    <3>1. /\ \A j \in 1 .. size : Stuffed(d)[j] = d[j]
          /\ \A j \in 1 .. size : Stuffed(s)[j] = s[j]
      BY <2>2, StuffedWord
    <3> QED
      BY <2>2, <3>1, SameWords
  <2>6. d = s <=> n % HashBlockSize # 0
    BY <2>1, DigestRight, Zenon
  <2> QED
    BY <1>2, <2>3, <2>4, <2>5, <2>6
<1>3. CASE ~(n > HashBlockSize)
  <2>1. UsedKey(type, key) = Stuffed(key) /\ RightKey(type, key) = Stuffed(key)
    BY <1>1, <1>3 DEF UsedKey, RightKey
  <2>2. n \in 0 .. HashBlockSize
    BY <1>1, <1>3, HashSizes
  <2>3. Word(Stuffed(key), HashBlockSize)
    BY <2>2, StuffedWord, Zenon
  <2> QED
    BY <1>3, <2>1, <2>3
<1> QED
  BY <1>2, <1>3

\* The hash is the right one of two that are made of words of these lengths
\* exactly if the words are the same and the last block is not full.
LEMMA HashRight ==
  ASSUME NEW type \in Implemented, NEW a, NEW b, NEW m, Word(a, m), Word(b, m),
         NEW s, NEW w, NEW n, Word(s, n), Word(w, n), (m + n) % HashBlockSize # 0
  PROVE  Digest(type, a \o s) = Standard(type, b \o w) <=> a = b /\ s = w
<1>1. PICK x, y : x = a \o s /\ y = b \o w
  OBVIOUS
<1>2. IsJoined(x, a, m, s, n) /\ IsJoined(y, b, m, w, n)
  BY <1>1, Joined, Zenon
<1>3. PICK k : k = m + n
  OBVIOUS
<1>4. Word(x, k) /\ Word(y, k) /\ k % HashBlockSize # 0
  BY <1>2, <1>3 DEF IsJoined
<1>5. ShaBlocks(x) = Padded(x)
  BY <1>4, ShaPads, Zenon
<1>6. Padded(x) = Padded(y) => x = y
  BY <1>4, PaddedTells, Zenon
<1>7. x = y <=> a = b /\ s = w
  BY <1>1, JoinedTells, Zenon
<1>8. Digest(type, x) = Standard(type, y) <=> ShaBlocks(x) = Padded(y)
  BY DigestTells, Zenon
<1> QED
  BY <1>1, <1>5, <1>6, <1>7, <1>8

\* What tls_hmac does for a hash that is implemented (tls_hash.cpp:200-231).
LEMMA HmacReturns ==
  ASSUME NEW type \in Implemented, NEW key, NEW n, Word(key, n), NEW data
  PROVE  Hmac(type, key, data) = Returns(type, UsedKey(type, key), data)
<1>1. Len(key) = n /\ n \in Nat
  BY WordLength, Zenon
<1>2. PICK size, zeros : size = ResultSize[type] /\ zeros = Null(HashBlockSize)
  OBVIOUS
<1>3. size \in 1 .. HashBlockSize - 1 /\ \A m : Len(Digest(type, m)) = size
  <2>1. \A m : Word(Digest(type, m), size)
    BY <1>2, DigestWord, Zenon
  <2> QED
    BY <1>2, <2>1, DigestWord, WordLength
<1>4. Word(zeros, HashBlockSize)
  BY <1>2, HashSizes DEF Word, Null
<1>5. PICK keyBuff : keyBuff = IF Len(key) > HashBlockSize THEN WriteHash(type, key, zeros)
                               ELSE key \o SubSeq(zeros, Len(key) + 1, HashBlockSize)
  OBVIOUS
<1>6. keyBuff = UsedKey(type, key)
  <2>1. CASE n > HashBlockSize
    <3>1. keyBuff = Digest(type, key) \o SubSeq(zeros, size + 1, HashBlockSize)
      BY <1>1, <1>2, <1>4, <1>5, <2>1, HashWritten
    <3>2. SubSeq(zeros, size + 1, HashBlockSize) = Null(HashBlockSize - size)
      <4>1. size \in 0 .. HashBlockSize
        BY <1>3, HashSizes
      <4> QED
        BY <1>2, <4>1, ZerosBehind, Zenon
    <3> QED
      BY <1>1, <1>3, <2>1, <3>1, <3>2 DEF UsedKey, Stuffed
  <2>2. CASE ~(n > HashBlockSize)
    <3>1. keyBuff = key \o SubSeq(zeros, n + 1, HashBlockSize)
      BY <1>1, <1>5, <2>2
    <3>2. SubSeq(zeros, n + 1, HashBlockSize) = Null(HashBlockSize - n)
      BY <1>1, <1>2, <2>2, HashSizes, ZerosBehind
    <3> QED
      BY <1>1, <2>2, <3>1, <3>2 DEF UsedKey, Stuffed
  <2> QED
    BY <2>1, <2>2
<1>7. PICK a, b : a = Mixed("0x36", keyBuff) /\ b = Mixed("0x5C", keyBuff)
  OBVIOUS
<1>8. PICK inner : inner = WriteHash(type, a \o data, a)
  OBVIOUS
<1>9. Word(inner, HashBlockSize) /\ SubSeq(inner, 1, size) = Digest(type, a \o data)
  <2>1. Word(a, HashBlockSize)
    BY <1>7, HashSizes DEF Word, Mixed
  <2> QED
    BY <1>2, <1>8, <2>1, HashWritten
<1>10. SubSeq(WriteHash(type, b \o SubSeq(inner, 1, size), inner), 1, size)
         = Digest(type, b \o SubSeq(inner, 1, size))
  BY <1>2, <1>9, HashWritten
<1>11. Hmac(type, key, data)
         = SubSeq(WriteHash(type, b \o SubSeq(inner, 1, size), inner), 1, size)
  BY <1>2, <1>5, <1>7, <1>8 DEF Hmac, Mixed
<1> QED
  BY <1>6, <1>7, <1>9, <1>10, <1>11 DEF Returns

\* The right value, of the right key.
Rfc2104(type, block, data) ==
  Standard(type, Mixed("0x5C", block) \o Standard(type, Mixed("0x36", block) \o data))

\* A byte of a mixed block tells that of the block.
LEMMA MixedTells ==
  ASSUME NEW kind, NEW a, NEW b, Word(a, HashBlockSize), Word(b, HashBlockSize)
  PROVE  /\ Word(Mixed(kind, a), HashBlockSize)
         /\ Mixed(kind, a) = Mixed(kind, b) <=> a = b
<1>1. \A c : \A j \in 1 .. HashBlockSize : Mixed(kind, c)[j] = <<kind, c[j], 0>>
  BY DEF Mixed
<1>2. Mixed(kind, a) = Mixed(kind, b) => \A j \in 1 .. HashBlockSize : a[j] = b[j]
  <2> SUFFICES ASSUME Mixed(kind, a) = Mixed(kind, b), NEW j \in 1 .. HashBlockSize
               PROVE  a[j] = b[j]
    OBVIOUS
  <2>1. <<kind, a[j], 0>> = <<kind, b[j], 0>>
    BY <1>1
  <2> QED
    BY <2>1
<1>3. Mixed(kind, a) = Mixed(kind, b) => a = b
  BY <1>2, SameWords, Zenon
<1>4. Word(Mixed(kind, a), HashBlockSize)
  BY HashSizes DEF Word, Mixed
<1> QED
  BY <1>3, <1>4

\* The result is the right one unless the data, or a key that is hashed, fills its
\* last block.
LEMMA HmacRight ==
  ASSUME NEW type \in Implemented, NEW key, NEW n, Word(key, n), NEW data, NEW m, Word(data, m)
  PROVE  Hmac(type, key, data) = Rfc2104(type, RightKey(type, key), data)
         <=> m % HashBlockSize # 0 /\ ~(n > HashBlockSize /\ n % HashBlockSize = 0)
<1>1. PICK size, u, v : size = ResultSize[type] /\ u = UsedKey(type, key) /\ v = RightKey(type, key)
  OBVIOUS
<1>2. /\ Word(u, HashBlockSize) /\ Word(v, HashBlockSize)
      /\ u = v <=> ~(n > HashBlockSize /\ n % HashBlockSize = 0)
  BY <1>1, KeyRight, Zenon
<1>3. PICK d, s : /\ d = Digest(type, Mixed("0x36", u) \o data)
                  /\ s = Standard(type, Mixed("0x36", v) \o data)
  OBVIOUS
<1>4. Word(d, size) /\ Word(s, size)
  BY <1>1, <1>3, DigestWord, Zenon
<1>5. (HashBlockSize + size) % HashBlockSize # 0
  <2>1. size \in 1 .. HashBlockSize - 1
    BY <1>1, DigestWord
  <2>2. PICK k : k = HashBlockSize + size
    OBVIOUS
  <2>3. k % HashBlockSize = size
    <3>1. 1 \in Nat /\ size \in 0 .. HashBlockSize - 1 /\ k = HashBlockSize * 1 + size
      BY <2>1, <2>2, HashSizes
    <3> QED
      BY <3>1, HashSizes, DivisionUnique
  <2> QED
    BY <2>1, <2>2, <2>3
<1>6. PICK a, b : a = Mixed("0x5C", u) /\ b = Mixed("0x5C", v)
  OBVIOUS
<1>7. Word(a, HashBlockSize) /\ Word(b, HashBlockSize) /\ (a = b <=> u = v)
  BY <1>2, <1>6, MixedTells, Zenon
<1>8. Digest(type, a \o d) = Standard(type, b \o s) <=> a = b /\ d = s
  <2>1. PICK k : k = HashBlockSize
    OBVIOUS
  <2>2. Word(a, k) /\ Word(b, k) /\ (k + size) % HashBlockSize # 0
    BY <1>5, <1>7, <2>1
  <2> QED
    BY <1>4, <2>2, HashRight
<1>9. u = v => (d = s <=> m % HashBlockSize # 0)
  <2> SUFFICES ASSUME u = v PROVE d = s <=> m % HashBlockSize # 0
    OBVIOUS
  <2>1. PICK x, c : x = Mixed("0x36", v) /\ c = x \o data
    OBVIOUS
  <2>2. Word(x, HashBlockSize)
    BY <1>2, <2>1, MixedTells, Zenon
  <2>3. IsJoined(c, x, HashBlockSize, data, m)
    BY <2>1, <2>2, Joined, Zenon
  <2>4. PICK k : k = HashBlockSize + m
    OBVIOUS
  <2>5. Word(c, k)
    BY <2>3, <2>4 DEF IsJoined
  <2>6. Digest(type, c) = Standard(type, c) <=> k % HashBlockSize # 0
    BY <2>5, DigestRight, Zenon
  <2>7. k % HashBlockSize = m % HashBlockSize
    <3>1. PICK q, r : q = m \div HashBlockSize /\ r = m % HashBlockSize
      OBVIOUS
    <3>2. m \in Nat
      BY DEF Word
    <3>3. q \in Nat /\ r \in 0 .. HashBlockSize - 1 /\ m = HashBlockSize * q + r
      BY <3>1, <3>2, HashSizes
    <3>4. HashBlockSize * (q + 1) = (HashBlockSize * q) + HashBlockSize /\ HashBlockSize * q \in Nat
      BY <3>3, HashSizes
    <3>5. PICK p : p = HashBlockSize * q
      OBVIOUS
    <3>6. HashBlockSize * (q + 1) = p + HashBlockSize /\ k = (p + HashBlockSize) + r
      BY <2>4, <3>3, <3>4, <3>5, HashSizes
    <3>7. q + 1 \in Nat /\ k = HashBlockSize * (q + 1) + r
      BY <3>3, <3>6
    <3>8. k % HashBlockSize = r
      BY <3>3, <3>7, HashSizes, DivisionUnique
    <3> QED
      BY <3>1, <3>8
  <2> QED
    BY <1>3, <2>1, <2>6, <2>7
<1>10. Hmac(type, key, data) = Digest(type, a \o d)
  BY <1>1, <1>3, <1>6, HmacReturns DEF Returns
<1>11. Rfc2104(type, v, data) = Standard(type, b \o s)
  BY <1>3, <1>6 DEF Rfc2104
<1> QED
  BY <1>1, <1>2, <1>7, <1>8, <1>9, <1>10, <1>11

\* A hash that is not implemented writes nothing (hash_null_func), so that the data
\* are never read.
LEMMA HmacIgnoresData ==
  ASSUME NEW type, type \notin {"sha1", "sha256"}, NEW key, NEW data
  PROVE  Hmac(type, key, data) = Hmac(type, key, <<>>)
<1>1. \A m, w, array : WriteHash(type, m, array) = WriteHash(type, w, array)
  BY DEF WriteHash
<1> HIDE DEF WriteHash
<1>2. PICK a, size : /\ size = ResultSize[type]
                     /\ a = IF Len(key) > HashBlockSize THEN WriteHash(type, key, Null(HashBlockSize))
                            ELSE key \o SubSeq(Null(HashBlockSize), Len(key) + 1, HashBlockSize)
  OBVIOUS
<1>3. PICK inner, block : \A s : Hmac(type, key, s) = SubSeq(WriteHash(type, block, inner), 1, size)
  <2>1. PICK inner : inner = WriteHash(type, <<>>, Mixed("0x36", a))
    OBVIOUS
  <2>2. \A s : WriteHash(type, Mixed("0x36", a) \o s, Mixed("0x36", a)) = inner
    BY <1>1, <2>1, Zenon
  <2>3. \A s : Hmac(type, key, s)
          = SubSeq(WriteHash(type, Mixed("0x5C", a) \o SubSeq(inner, 1, size), inner), 1, size)
    <3> SUFFICES ASSUME NEW s
                 PROVE  Hmac(type, key, s)
                   = SubSeq(WriteHash(type, Mixed("0x5C", a) \o SubSeq(inner, 1, size), inner), 1, size)
      OBVIOUS
    <3> QED
      BY <1>2, <2>2 DEF Hmac, Mixed
  <2> QED
    BY <2>3
<1> QED
  BY <1>3

\* The definition of the property is that of Rfc2104.
LEMMA HmacCall == CallsInv => HmacIsRfc2104
<1> SUFFICES ASSUME CallsInv, Returned("hmac")
             PROVE  LET hash(m) == [j \in 1 .. ResultSize[in.type] |-> <<in.type, Padded(m), j>>]
                        hashed == Len(in.key) > HashBlockSize
                        short == IF hashed THEN hash(in.key) ELSE in.key
                        key == short \o Null(HashBlockSize - Len(short))
                        added(kind) == [j \in 1 .. HashBlockSize |-> <<kind, key[j], 0>>]
                        full(s) == Len(s) % HashBlockSize = 0
                    IN  IF in.type \in {"sha1", "sha256"}
                        THEN result = hash(added("0x5C") \o hash(added("0x36") \o in.data))
                               <=> ~full(in.data) /\ ~(hashed /\ full(in.key))
                        ELSE result = Hmac(in.type, in.key, <<>>)
  BY Zenon DEF HmacIsRfc2104
<1>1. in \in HmacInputs /\ result = Hmac(in.type, in.key, in.data)
  <2>1. callee = "hmac" /\ done
    BY DEF Returned
  <2>2. result = Computed(callee, in) /\ in \in HmacInputs
    BY <2>1 DEF CallsInv
  <2> QED
    BY <2>1, <2>2 DEF Computed
<1>2. PICK type, key, data : type = in.type /\ key = in.key /\ data = in.data
  OBVIOUS
<1>3. type \in DOMAIN ResultSize /\ (\E n : Word(key, n)) /\ (\E m : Word(data, m))
  <2>1. type \in DOMAIN ResultSize /\ \E n \in Nat, m \in Nat : key = Array("key", n) /\ data = Array("data", m)
    BY <1>1, <1>2, HashSizes DEF HmacInputs
  <2>2. \A kind : \A n \in Nat : Word(Array(kind, n), n)
    BY DEF Word, Array
  <2> QED
    BY <2>1, <2>2
<1>4. PICK n, m : Word(key, n) /\ Word(data, m)
  BY <1>3
<1>5. Len(key) = n /\ Len(data) = m
  BY <1>4, WordLength, Zenon
<1>6. CASE type \notin {"sha1", "sha256"}
  BY <1>1, <1>2, <1>6, HmacIgnoresData
<1>7. CASE type \in {"sha1", "sha256"}
  <2>1. type \in Implemented
    BY <1>3, <1>7 DEF Implemented
  <2>2. result = Rfc2104(type, RightKey(type, key), data)
          <=> m % HashBlockSize # 0 /\ ~(n > HashBlockSize /\ n % HashBlockSize = 0)
    <3>1. Hmac(type, key, data) = Rfc2104(type, RightKey(type, key), data)
          <=> m % HashBlockSize # 0 /\ ~(n > HashBlockSize /\ n % HashBlockSize = 0)
      BY <1>4, <2>1, HmacRight
    <3> QED
      BY <1>1, <1>2, <3>1
  <2> QED
    BY <1>2, <1>5, <1>7, <2>2 DEF Rfc2104, RightKey, Stuffed, Mixed, Standard
<1> QED
  BY <1>6, <1>7

\* tls_hmac is HMAC of RFC 2104, except for the padding that is missing behind a full
\* last block, for every size of block, length and digest (tls_hash.cpp:200-231).
THEOREM HmacIsExact == PrimitivesSpec => []HmacIsRfc2104
BY CallsInductive, HmacCall, PTL

----------------------------------------------------------------------------
(* The block cipher.                                                       *)

\* A bit is in a sum just if it is in one of the two.
LEMMA SymDiffBit ==
  ASSUME NEW x, NEW y, NEW e
  PROVE  e \in SymDiff(x, y) <=> ~(e \in x <=> e \in y)
BY DEF SymDiff

\* The bits that can be carried into a byte.
LEMMA BitsNat == Bits \in Nat /\ Bits > 0 /\ Reduction \in Byte
BY FieldAssumption

\* Sums of bytes are bytes.
LEMMA SymDiffByte ==
  ASSUME NEW x \in Byte, NEW y \in Byte
  PROVE  SymDiff(x, y) \in Byte
BY DEF SymDiff, Byte

\* Twice a byte is a byte, whose bits are those below, and where the highest was
\* shifted out those of the reduction (byte_plus_2).
LEMMA TwiceBits ==
  ASSUME NEW v \in Byte
  PROVE  /\ Twice(v) \in Byte
         /\ \A e \in 0 .. Bits - 1 :
              e \in Twice(v) <=> ~(e - 1 \in v <=> (Bits - 1 \in v /\ e \in Reduction))
<1> DEFINE shifted == {b + 1 : b \in v}
<1>1. \A b \in v : b \in 0 .. Bits - 1
  BY DEF Byte
<1>2. \A e \in 0 .. Bits - 1 : e \in shifted <=> e - 1 \in v
  BY <1>1, BitsNat
<1>3. \A e \in shifted : e \in 0 .. Bits - 1 \/ (e = Bits /\ Bits - 1 \in v)
  BY <1>1, BitsNat
<1>4. Twice(v) = IF Bits - 1 \in v THEN SymDiff(shifted \ {Bits}, Reduction) ELSE shifted
  BY DEF Twice
<1> HIDE DEF shifted
<1>5. CASE Bits - 1 \in v
  <2>1. Twice(v) = SymDiff(shifted \ {Bits}, Reduction)
    BY <1>4, <1>5
  <2>2. shifted \ {Bits} \in Byte
    BY <1>3 DEF Byte
  <2>3. \A e \in 0 .. Bits - 1 : e # Bits
    BY BitsNat
  <2> QED
    BY <1>2, <1>5, <2>1, <2>2, <2>3, BitsNat, SymDiffByte, SymDiffBit
<1>6. CASE Bits - 1 \notin v
  BY <1>2, <1>3, <1>4, <1>6 DEF Byte
<1> QED
  BY <1>5, <1>6

\* Bytes with the same bits are the same.
LEMMA SameBytes ==
  ASSUME NEW x \in Byte, NEW y \in Byte, \A e \in 0 .. Bits - 1 : e \in x <=> e \in y
  PROVE  x = y
BY DEF Byte

\* Doubling is linear.
LEMMA TwiceSum ==
  ASSUME NEW x \in Byte, NEW y \in Byte
  PROVE  Twice(SymDiff(x, y)) = SymDiff(Twice(x), Twice(y))
<1>1. PICK s, l, r, p, q : /\ s = SymDiff(x, y) /\ l = Twice(s)
                           /\ p = Twice(x) /\ q = Twice(y) /\ r = SymDiff(p, q)
  OBVIOUS
<1>2. s \in Byte /\ p \in Byte /\ q \in Byte
  BY <1>1, SymDiffByte, TwiceBits
<1>3. l \in Byte /\ r \in Byte
  BY <1>1, <1>2, SymDiffByte, TwiceBits
<1>4. ASSUME NEW e \in 0 .. Bits - 1 PROVE e \in l <=> e \in r
  <2>1. e \in l <=> ~(e - 1 \in s <=> (Bits - 1 \in s /\ e \in Reduction))
    BY <1>1, <1>2, TwiceBits
  <2>2. e \in p <=> ~(e - 1 \in x <=> (Bits - 1 \in x /\ e \in Reduction))
    BY <1>1, TwiceBits
  <2>3. e \in q <=> ~(e - 1 \in y <=> (Bits - 1 \in y /\ e \in Reduction))
    BY <1>1, TwiceBits
  <2>4. /\ e - 1 \in s <=> ~(e - 1 \in x <=> e - 1 \in y)
        /\ Bits - 1 \in s <=> ~(Bits - 1 \in x <=> Bits - 1 \in y)
        /\ e \in r <=> ~(e \in p <=> e \in q)
    BY <1>1, SymDiffBit
  <2> QED
    BY <2>1, <2>2, <2>3, <2>4
<1>5. l = r
  BY <1>3, <1>4, SameBytes
<1> QED
  BY <1>1, <1>5

\* A sum of five.
Five(p, q, r, s, t) == SymDiff(SymDiff(p, SymDiff(q, r)), SymDiff(s, t))

LEMMA TwiceFive ==
  ASSUME NEW p \in Byte, NEW q \in Byte, NEW r \in Byte, NEW s \in Byte, NEW t \in Byte
  PROVE  /\ Five(p, q, r, s, t) \in Byte
         /\ Twice(Five(p, q, r, s, t)) = Five(Twice(p), Twice(q), Twice(r), Twice(s), Twice(t))
<1>1. PICK x, y, z : x = SymDiff(q, r) /\ y = SymDiff(p, x) /\ z = SymDiff(s, t)
  OBVIOUS
<1>2. x \in Byte /\ z \in Byte
  BY <1>1, SymDiffByte
<1>3. y \in Byte
  BY <1>1, <1>2, SymDiffByte
<1>4. Twice(x) = SymDiff(Twice(q), Twice(r)) /\ Twice(z) = SymDiff(Twice(s), Twice(t))
  BY <1>1, TwiceSum
<1>5. Twice(y) = SymDiff(Twice(p), Twice(x))
  BY <1>1, <1>2, TwiceSum
<1>6. Twice(SymDiff(y, z)) = SymDiff(Twice(y), Twice(z)) /\ SymDiff(y, z) \in Byte
  BY <1>2, <1>3, TwiceSum, SymDiffByte
<1>7. Five(p, q, r, s, t) = SymDiff(y, z)
  BY <1>1 DEF Five
<1> QED
  BY <1>4, <1>5, <1>6, <1>7 DEF Five

FiveBits(e, y, p, q, r, s, t) ==
  e \in y <=> ~(~(e \in p <=> ~(e \in q <=> e \in r)) <=> ~(e \in s <=> e \in t))

\* A bit of a sum of five.
LEMMA FiveBit ==
  ASSUME NEW p, NEW q, NEW r, NEW s, NEW t, NEW e
  PROVE  FiveBits(e, Five(p, q, r, s, t), p, q, r, s, t)
BY SymDiffBit DEF Five, FiveBits

\* One line of aes_suffix_mat, and of aes_suffix_inverse, on a column.
Mixed4(a, b, c, d) ==
  SymDiff(SymDiff(Times({1}, a), Times({0, 1}, b)), SymDiff(Times({0}, c), Times({0}, d)))
Unmixed4(a, b, c, d) ==
  SymDiff(SymDiff(Times({1, 2, 3}, a), Times({0, 1, 3}, b)),
          SymDiff(Times({0, 2, 3}, c), Times({0, 3}, d)))

\* A mixed byte is a sum of five.
LEMMA MixedIsFive ==
  ASSUME NEW a, NEW b, NEW c, NEW d
  PROVE  Mixed4(a, b, c, d) = Five(Twice(a), b, Twice(b), c, d)
<1>1. /\ Times({1}, a) = Twice(a)
      /\ Times({0, 1}, b) = SymDiff(b, Twice(b))
      /\ Times({0}, c) = c /\ Times({0}, d) = d
  <2>1. \A x : SymDiff(x, {}) = x /\ SymDiff({}, x) = x
    BY DEF SymDiff
  <2>2. /\ Times({1}, a) = SymDiff(SymDiff({}, Twice(a)), SymDiff({}, {}))
        /\ Times({0, 1}, b) = SymDiff(SymDiff(b, Twice(b)), SymDiff({}, {}))
        /\ Times({0}, c) = SymDiff(SymDiff(c, {}), SymDiff({}, {}))
        /\ Times({0}, d) = SymDiff(SymDiff(d, {}), SymDiff({}, {}))
    BY DEF Times
  <2> QED
    BY <2>1, <2>2
<1> QED
  BY <1>1 DEF Mixed4, Five

\* The bits of an unmixed byte.
LEMMA UnmixedBit ==
  ASSUME NEW a, NEW b, NEW c, NEW d, NEW e
  PROVE  LET two(x) == e \in Twice(x)
             four(x) == e \in Twice(Twice(x))
             eight(x) == e \in Twice(Twice(Twice(x)))
         IN  e \in Unmixed4(a, b, c, d)
             <=> ~(~(~(two(a) <=> ~(four(a) <=> eight(a)))
                     <=> ~(~(e \in b <=> two(b)) <=> eight(b)))
                   <=> ~(~(e \in c <=> ~(four(c) <=> eight(c)))
                         <=> ~(e \in d <=> eight(d))))
<1>1. /\ Times({1, 2, 3}, a)
           = SymDiff(SymDiff({}, Twice(a)), SymDiff(Twice(Twice(a)), Twice(Twice(Twice(a)))))
      /\ Times({0, 1, 3}, b) = SymDiff(SymDiff(b, Twice(b)), SymDiff({}, Twice(Twice(Twice(b)))))
      /\ Times({0, 2, 3}, c)
           = SymDiff(SymDiff(c, {}), SymDiff(Twice(Twice(c)), Twice(Twice(Twice(c)))))
      /\ Times({0, 3}, d) = SymDiff(SymDiff(d, {}), SymDiff({}, Twice(Twice(Twice(d)))))
  BY DEF Times
<1> QED
  BY <1>1, SymDiffBit DEF Unmixed4

\* The four doublings of a sum of five, that is the bits of a mixed byte.
LEMMA MixedDoubles ==
  ASSUME NEW a \in Byte, NEW b \in Byte, NEW c \in Byte, NEW d \in Byte
  PROVE  LET y == Mixed4(a, b, c, d)
             two(x) == Twice(x)
             four(x) == Twice(Twice(x))
             eight(x) == Twice(Twice(Twice(x)))
         IN  /\ y \in Byte
             /\ y = Five(two(a), b, two(b), c, d)
             /\ two(y) = Five(four(a), two(b), four(b), two(c), two(d))
             /\ four(y) = Five(eight(a), four(b), eight(b), four(c), four(d))
             /\ eight(y) = Five(Twice(eight(a)), eight(b), Twice(eight(b)), eight(c), eight(d))
<1>1. PICK y : y = Mixed4(a, b, c, d)
  OBVIOUS
<1>2. y = Five(Twice(a), b, Twice(b), c, d)
  BY <1>1, MixedIsFive
<1>3. \A x \in Byte : Twice(x) \in Byte
  BY TwiceBits
<1>4. y \in Byte /\ Twice(y) = Five(Twice(Twice(a)), Twice(b), Twice(Twice(b)), Twice(c), Twice(d))
  BY <1>2, <1>3, TwiceFive
<1>5. Twice(Twice(y)) = Five(Twice(Twice(Twice(a))), Twice(Twice(b)), Twice(Twice(Twice(b))),
                             Twice(Twice(c)), Twice(Twice(d)))
  BY <1>3, <1>4, TwiceFive
<1>6. PICK v : v = Twice(Twice(y))
  OBVIOUS
<1>7. Twice(v)
        = Five(Twice(Twice(Twice(Twice(a)))), Twice(Twice(Twice(b))),
               Twice(Twice(Twice(Twice(b)))), Twice(Twice(Twice(c))), Twice(Twice(Twice(d))))
  <2>1. PICK p, q, r, t, u : /\ p = Twice(Twice(Twice(a))) /\ q = Twice(Twice(b))
                             /\ r = Twice(Twice(Twice(b))) /\ t = Twice(Twice(c)) /\ u = Twice(Twice(d))
    OBVIOUS
  <2>2. p \in Byte /\ q \in Byte /\ r \in Byte /\ t \in Byte /\ u \in Byte
    BY <1>3, <2>1
  <2>3. Twice(v) = Five(Twice(p), Twice(q), Twice(r), Twice(t), Twice(u))
    BY <1>5, <1>6, <2>1, <2>2, TwiceFive
  <2> QED
    BY <2>1, <2>3
<1> QED
  BY <1>1, <1>2, <1>4, <1>5, <1>6, <1>7

\* The two matrices are inverse: what aes_suffix_inverse makes of a column that
\* aes_suffix_mat has mixed is its first byte, and so are the others, turned.
LEMMA MixUndone ==
  ASSUME NEW a \in Byte, NEW b \in Byte, NEW c \in Byte, NEW d \in Byte
  PROVE  Unmixed4(Mixed4(a, b, c, d), Mixed4(b, c, d, a), Mixed4(c, d, a, b), Mixed4(d, a, b, c)) = a
<1>1. PICK w, x, y, z : /\ w = Mixed4(a, b, c, d) /\ x = Mixed4(b, c, d, a)
                        /\ y = Mixed4(c, d, a, b) /\ z = Mixed4(d, a, b, c)
  OBVIOUS
<1>2. PICK a2, a4, a8, a16, b2, b4, b8, b16 :
        /\ a2 = Twice(a) /\ a4 = Twice(a2) /\ a8 = Twice(a4) /\ a16 = Twice(a8)
        /\ b2 = Twice(b) /\ b4 = Twice(b2) /\ b8 = Twice(b4) /\ b16 = Twice(b8)
  OBVIOUS
<1>3. PICK c2, c4, c8, c16, d2, d4, d8, d16 :
        /\ c2 = Twice(c) /\ c4 = Twice(c2) /\ c8 = Twice(c4) /\ c16 = Twice(c8)
        /\ d2 = Twice(d) /\ d4 = Twice(d2) /\ d8 = Twice(d4) /\ d16 = Twice(d8)
  OBVIOUS
<1>4. /\ Twice(w) = Five(a4, b2, b4, c2, d2) /\ Twice(Twice(w)) = Five(a8, b4, b8, c4, d4)
      /\ Twice(Twice(Twice(w))) = Five(a16, b8, b16, c8, d8)
  BY <1>1, <1>2, <1>3, MixedDoubles
<1>5. /\ x = Five(b2, c, c2, d, a) /\ Twice(x) = Five(b4, c2, c4, d2, a2)
      /\ Twice(Twice(Twice(x))) = Five(b16, c8, c16, d8, a8)
  BY <1>1, <1>2, <1>3, MixedDoubles
<1>6. /\ y = Five(c2, d, d2, a, b) /\ Twice(Twice(y)) = Five(c8, d4, d8, a4, b4)
      /\ Twice(Twice(Twice(y))) = Five(c16, d8, d16, a8, b8)
  BY <1>1, <1>2, <1>3, MixedDoubles
<1>7. z = Five(d2, a, a2, b, c) /\ Twice(Twice(Twice(z))) = Five(d16, a8, a16, b8, c8)
  BY <1>1, <1>2, <1>3, MixedDoubles
<1>8. ASSUME NEW e PROVE e \in Unmixed4(w, x, y, z) <=> e \in a
  <2>1. /\ FiveBits(e, Twice(w), a4, b2, b4, c2, d2)
        /\ FiveBits(e, Twice(Twice(w)), a8, b4, b8, c4, d4)
        /\ FiveBits(e, Twice(Twice(Twice(w))), a16, b8, b16, c8, d8)
    BY <1>4, FiveBit
  <2>2. /\ FiveBits(e, x, b2, c, c2, d, a)
        /\ FiveBits(e, Twice(x), b4, c2, c4, d2, a2)
        /\ FiveBits(e, Twice(Twice(Twice(x))), b16, c8, c16, d8, a8)
    BY <1>5, FiveBit
  <2>3. /\ FiveBits(e, y, c2, d, d2, a, b)
        /\ FiveBits(e, Twice(Twice(y)), c8, d4, d8, a4, b4)
        /\ FiveBits(e, Twice(Twice(Twice(y))), c16, d8, d16, a8, b8)
    BY <1>6, FiveBit
  <2>4. /\ FiveBits(e, z, d2, a, a2, b, c)
        /\ FiveBits(e, Twice(Twice(Twice(z))), d16, a8, a16, b8, c8)
    BY <1>7, FiveBit
  <2>5. e \in Unmixed4(w, x, y, z)
        <=> ~(~(~(e \in Twice(w) <=> ~(e \in Twice(Twice(w)) <=> e \in Twice(Twice(Twice(w)))))
                <=> ~(~(e \in x <=> e \in Twice(x)) <=> e \in Twice(Twice(Twice(x)))))
              <=> ~(~(e \in y <=> ~(e \in Twice(Twice(y)) <=> e \in Twice(Twice(Twice(y)))))
                    <=> ~(e \in z <=> e \in Twice(Twice(Twice(z))))))
    BY UnmixedBit
  <2> QED
    BY <2>1, <2>2, <2>3, <2>4, <2>5 DEF FiveBits
<1> QED
  BY <1>1, <1>8

\* A factor of either matrix is linear.
LEMMA TimesSum ==
  ASSUME NEW f, NEW x \in Byte, NEW y \in Byte
  PROVE  Times(f, SymDiff(x, y)) = SymDiff(Times(f, x), Times(f, y)) /\ Times(f, x) \in Byte
<1>1. \A v \in Byte : Twice(v) \in Byte
  BY TwiceBits
<1>2. PICK s, s2, s4, s8 : s = SymDiff(x, y) /\ s2 = Twice(s) /\ s4 = Twice(s2) /\ s8 = Twice(s4)
  OBVIOUS
<1>3. PICK x2, x4, x8, y2, y4, y8 : /\ x2 = Twice(x) /\ x4 = Twice(x2) /\ x8 = Twice(x4)
                                    /\ y2 = Twice(y) /\ y4 = Twice(y2) /\ y8 = Twice(y4)
  OBVIOUS
<1>4. x2 \in Byte /\ x4 \in Byte /\ x8 \in Byte /\ y2 \in Byte /\ y4 \in Byte /\ y8 \in Byte
  BY <1>1, <1>3
<1>5. s2 = SymDiff(x2, y2)
  BY <1>2, <1>3, TwiceSum
<1>6. s4 = SymDiff(x4, y4)
  BY <1>2, <1>3, <1>4, <1>5, TwiceSum
<1>7. s8 = SymDiff(x8, y8)
  BY <1>2, <1>3, <1>4, <1>6, TwiceSum
<1> DEFINE part(i, v) == IF i \in f THEN v ELSE {}
           Sum4(v, v2, v4, v8) ==
             SymDiff(SymDiff(part(0, v), part(1, v2)), SymDiff(part(2, v4), part(3, v8)))
<1>8. /\ Times(f, s) = Sum4(s, s2, s4, s8)
      /\ Times(f, x) = Sum4(x, x2, x4, x8) /\ Times(f, y) = Sum4(y, y2, y4, y8)
  BY <1>2, <1>3 DEF Times
<1>9. \A i : /\ part(i, s) = SymDiff(part(i, x), part(i, y))
              /\ part(i, s2) = SymDiff(part(i, x2), part(i, y2))
              /\ part(i, s4) = SymDiff(part(i, x4), part(i, y4))
              /\ part(i, s8) = SymDiff(part(i, x8), part(i, y8))
  <2>1. SymDiff({}, {}) = {}
    BY DEF SymDiff
  <2> QED
    BY <1>2, <1>5, <1>6, <1>7, <2>1
<1>10. {} \in Byte
  BY DEF Byte
<1>11. Times(f, x) \in Byte
  <2>1. \A i : part(i, x) \in Byte /\ part(i, x2) \in Byte /\ part(i, x4) \in Byte /\ part(i, x8) \in Byte
    BY <1>4, <1>10
  <2> HIDE DEF part
  <2> QED
    BY <1>8, <2>1, SymDiffByte
<1>12. Sum4(s, s2, s4, s8) = SymDiff(Sum4(x, x2, x4, x8), Sum4(y, y2, y4, y8))
  <2> HIDE DEF part
  <2>1. \A p, q, r, t, u, v, w, z :
          SymDiff(SymDiff(SymDiff(p, q), SymDiff(r, t)), SymDiff(SymDiff(u, v), SymDiff(w, z)))
            = SymDiff(SymDiff(SymDiff(p, r), SymDiff(u, w)), SymDiff(SymDiff(q, t), SymDiff(v, z)))
    BY DEF SymDiff
  <2>2. PICK p, q, u, v : p = part(0, x) /\ q = part(0, y) /\ u = part(1, x2) /\ v = part(1, y2)
    OBVIOUS
  <2>3. PICK r, t, w, z : r = part(2, x4) /\ t = part(2, y4) /\ w = part(3, x8) /\ z = part(3, y8)
    OBVIOUS
  <2>4. /\ part(0, s) = SymDiff(p, q) /\ part(1, s2) = SymDiff(u, v)
        /\ part(2, s4) = SymDiff(r, t) /\ part(3, s8) = SymDiff(w, z)
    BY <1>9, <2>2, <2>3
  <2>5. SymDiff(SymDiff(SymDiff(p, q), SymDiff(u, v)), SymDiff(SymDiff(r, t), SymDiff(w, z)))
          = SymDiff(SymDiff(SymDiff(p, u), SymDiff(r, w)), SymDiff(SymDiff(q, v), SymDiff(t, z)))
    BY <2>1
  <2> QED
    BY <2>2, <2>3, <2>4, <2>5
<1> QED
  BY <1>2, <1>8, <1>11, <1>12

\* The places of a block.
Cells == (0 .. 3) \X (0 .. 3)

\* A block is determined by its bytes.
LEMMA EqualBlocks ==
  ASSUME NEW m \in Block, NEW n \in Block, \A i, j \in 0 .. 3 : m[<<i, j>>] = n[<<i, j>>]
  PROVE  m = n
<1>1. \A p \in Cells : m[p] = n[p]
  <2> SUFFICES ASSUME NEW p \in Cells PROVE m[p] = n[p]
    OBVIOUS
  <2>1. PICK i \in 0 .. 3, j \in 0 .. 3 : p = <<i, j>>
    BY DEF Cells
  <2> QED
    BY <2>1
<1> QED
  BY <1>1 DEF Block, Cells

\* What each step of a round makes of a block, byte by byte.
LEMMA PlusBlock ==
  ASSUME NEW m \in Block, NEW n \in Block
  PROVE  /\ Plus(m, n) \in Block
         /\ \A i, j \in 0 .. 3 : Plus(m, n)[<<i, j>>] = SymDiff(m[<<i, j>>], n[<<i, j>>])
<1>1. \A p \in Cells : m[p] \in Byte /\ n[p] \in Byte
  BY DEF Block, Cells
<1>2. Plus(m, n) = [p \in Cells |-> SymDiff(m[p], n[p])]
  BY DEF Block, Cells, Plus
<1>3. \A p \in Cells : SymDiff(m[p], n[p]) \in Byte
  BY <1>1, SymDiffByte
<1> QED
  BY <1>2, <1>3 DEF Block, Cells

LEMMA TransposedBlock ==
  ASSUME NEW m \in Block
  PROVE  /\ Transposed(m) \in Block
         /\ \A i, j \in 0 .. 3 : Transposed(m)[<<i, j>>] = m[<<j, i>>]
<1>1. Transposed(m) = [p \in Cells |-> m[<<p[2], p[1]>>]]
  BY DEF Block, Cells, Transposed
<1>2. \A p \in Cells : m[<<p[2], p[1]>>] \in Byte
  BY DEF Block, Cells
<1> QED
  BY <1>1, <1>2 DEF Block, Cells

LEMMA SubstituteBlock ==
  ASSUME NEW box \in [Byte -> Byte], NEW m \in Block
  PROVE  /\ Substitute(box, m) \in Block
         /\ \A i, j \in 0 .. 3 : Substitute(box, m)[<<i, j>>] = box[m[<<i, j>>]]
<1>1. Substitute(box, m) = [p \in Cells |-> box[m[p]]]
  BY DEF Block, Cells, Substitute
<1>2. \A p \in Cells : box[m[p]] \in Byte
  BY DEF Block, Cells
<1> QED
  BY <1>1, <1>2 DEF Block, Cells

LEMMA ShiftBlock ==
  ASSUME NEW m \in Block
  PROVE  /\ LineShift(m) \in Block /\ LineShiftInverse(m) \in Block
         /\ \A i, j \in 0 .. 3 : /\ LineShift(m)[<<i, j>>] = m[<<i, (j + i) % 4>>]
                                 /\ LineShiftInverse(m)[<<i, j>>] = m[<<i, (j - i) % 4>>]
<1>1. /\ LineShift(m) = [p \in Cells |-> m[<<p[1], (p[2] + p[1]) % 4>>]]
      /\ LineShiftInverse(m) = [p \in Cells |-> m[<<p[1], (p[2] - p[1]) % 4>>]]
  BY DEF Block, Cells, LineShift, LineShiftInverse
<1>2. \A i, j \in 0 .. 3 : (j + i) % 4 \in 0 .. 3 /\ (j - i) % 4 \in 0 .. 3
  OBVIOUS
<1>3. \A p \in Cells : m[<<p[1], (p[2] + p[1]) % 4>>] \in Byte /\ m[<<p[1], (p[2] - p[1]) % 4>>] \in Byte
  BY <1>2 DEF Block, Cells
<1> QED
  BY <1>1, <1>3 DEF Block, Cells

\* A line of a product.
Product4(row, m, i, j) ==
  LET term(k) == Times(row[((k - i) % 4) + 1], m[<<k, j>>])
  IN  SymDiff(SymDiff(term(0), term(1)), SymDiff(term(2), term(3)))

LEMMA MatMulBlock ==
  ASSUME NEW row, NEW m \in Block
  PROVE  /\ MatMul(row, m) \in Block
         /\ \A i, j \in 0 .. 3 : MatMul(row, m)[<<i, j>>] = Product4(row, m, i, j)
<1>1. MatMul(row, m) = [p \in Cells |-> Product4(row, m, p[1], p[2])]
  BY DEF Block, Cells, MatMul, Product4
<1>2. ASSUME NEW i \in 0 .. 3, NEW j \in 0 .. 3 PROVE Product4(row, m, i, j) \in Byte
  <2>1. \A k \in 0 .. 3 : m[<<k, j>>] \in Byte
    BY DEF Block
  <2>2. \A f : \A k \in 0 .. 3 : Times(f, m[<<k, j>>]) \in Byte
    BY <2>1, TimesSum
  <2> QED
    BY <2>2, SymDiffByte DEF Product4
<1> QED
  BY <1>1, <1>2 DEF Block, Cells

\* Multiplication with a matrix is linear.
LEMMA MatMulSum ==
  ASSUME NEW row, NEW m \in Block, NEW n \in Block
  PROVE  MatMul(row, Plus(m, n)) = Plus(MatMul(row, m), MatMul(row, n))
<1>1. PICK s, l, x, y, r : /\ s = Plus(m, n) /\ l = MatMul(row, s)
                           /\ x = MatMul(row, m) /\ y = MatMul(row, n) /\ r = Plus(x, y)
  OBVIOUS
<1>2. s \in Block /\ \A i, j \in 0 .. 3 : s[<<i, j>>] = SymDiff(m[<<i, j>>], n[<<i, j>>])
  BY <1>1, PlusBlock
<1>3. /\ l \in Block /\ x \in Block /\ y \in Block
      /\ \A i, j \in 0 .. 3 : /\ l[<<i, j>>] = Product4(row, s, i, j)
                              /\ x[<<i, j>>] = Product4(row, m, i, j)
                              /\ y[<<i, j>>] = Product4(row, n, i, j)
  BY <1>1, <1>2, MatMulBlock
<1>4. r \in Block /\ \A i, j \in 0 .. 3 : r[<<i, j>>] = SymDiff(x[<<i, j>>], y[<<i, j>>])
  BY <1>1, <1>3, PlusBlock
<1>5. ASSUME NEW i \in 0 .. 3, NEW j \in 0 .. 3 PROVE l[<<i, j>>] = r[<<i, j>>]
  <2> DEFINE f(k) == row[((k - i) % 4) + 1]
             a(k) == Times(f(k), m[<<k, j>>])
             b(k) == Times(f(k), n[<<k, j>>])
             c(k) == Times(f(k), s[<<k, j>>])
  <2>1. \A k \in 0 .. 3 : c(k) = SymDiff(a(k), b(k))
    <3>1. \A k \in 0 .. 3 : m[<<k, j>>] \in Byte /\ n[<<k, j>>] \in Byte
      BY DEF Block
    <3>2. \A k \in 0 .. 3 : s[<<k, j>>] = SymDiff(m[<<k, j>>], n[<<k, j>>])
      BY <1>2
    <3> HIDE DEF f
    <3> QED
      BY <3>1, <3>2, TimesSum
  <2>2. /\ Product4(row, s, i, j) = SymDiff(SymDiff(c(0), c(1)), SymDiff(c(2), c(3)))
        /\ Product4(row, m, i, j) = SymDiff(SymDiff(a(0), a(1)), SymDiff(a(2), a(3)))
        /\ Product4(row, n, i, j) = SymDiff(SymDiff(b(0), b(1)), SymDiff(b(2), b(3)))
    BY DEF Product4
  <2> HIDE DEF a, b, c
  <2>3. \A p, q, u, v, w, z, g, h :
          SymDiff(SymDiff(SymDiff(p, q), SymDiff(u, v)), SymDiff(SymDiff(w, z), SymDiff(g, h)))
            = SymDiff(SymDiff(SymDiff(p, u), SymDiff(w, g)), SymDiff(SymDiff(q, v), SymDiff(z, h)))
    BY DEF SymDiff
  <2>4. PICK p, q, u, v : p = a(0) /\ q = b(0) /\ u = a(1) /\ v = b(1)
    OBVIOUS
  <2>5. PICK w, z, g, h : w = a(2) /\ z = b(2) /\ g = a(3) /\ h = b(3)
    OBVIOUS
  <2>6. c(0) = SymDiff(p, q) /\ c(1) = SymDiff(u, v) /\ c(2) = SymDiff(w, z) /\ c(3) = SymDiff(g, h)
    BY <2>1, <2>4, <2>5
  <2>7. l[<<i, j>>] = SymDiff(SymDiff(SymDiff(p, q), SymDiff(u, v)), SymDiff(SymDiff(w, z), SymDiff(g, h)))
    BY <1>3, <2>2, <2>6
  <2>8. r[<<i, j>>] = SymDiff(SymDiff(SymDiff(p, u), SymDiff(w, g)), SymDiff(SymDiff(q, v), SymDiff(z, h)))
    BY <1>3, <1>4, <2>2, <2>4, <2>5
  <2> QED
    BY <2>3, <2>7, <2>8
<1> QED
  BY <1>1, <1>3, <1>4, <1>5, EqualBlocks

\* A sum of the four bytes of a column, from whichever on.
LEMMA SumRotated ==
  ASSUME NEW p, NEW q, NEW r, NEW s
  PROVE  /\ SymDiff(SymDiff(s, p), SymDiff(q, r)) = SymDiff(SymDiff(p, q), SymDiff(r, s))
         /\ SymDiff(SymDiff(r, s), SymDiff(p, q)) = SymDiff(SymDiff(p, q), SymDiff(r, s))
         /\ SymDiff(SymDiff(q, r), SymDiff(s, p)) = SymDiff(SymDiff(p, q), SymDiff(r, s))
BY DEF SymDiff

\* A line of each of the two products.
LEMMA SuffixLines ==
  ASSUME NEW m, NEW j
  PROVE  LET c(k) == m[<<k, j>>]
         IN  /\ Product4(Suffix, m, 0, j) = Mixed4(c(0), c(1), c(2), c(3))
             /\ Product4(Suffix, m, 1, j) = Mixed4(c(1), c(2), c(3), c(0))
             /\ Product4(Suffix, m, 2, j) = Mixed4(c(2), c(3), c(0), c(1))
             /\ Product4(Suffix, m, 3, j) = Mixed4(c(3), c(0), c(1), c(2))
             /\ Product4(SuffixInverse, m, 0, j) = Unmixed4(c(0), c(1), c(2), c(3))
             /\ Product4(SuffixInverse, m, 1, j) = Unmixed4(c(1), c(2), c(3), c(0))
             /\ Product4(SuffixInverse, m, 2, j) = Unmixed4(c(2), c(3), c(0), c(1))
             /\ Product4(SuffixInverse, m, 3, j) = Unmixed4(c(3), c(0), c(1), c(2))
<1> DEFINE term(row, e, k) == Times(row[e], m[<<k, j>>])
           Sum4(w, x, y, z) == SymDiff(SymDiff(w, x), SymDiff(y, z))
           place(k, i) == IF k >= i THEN k - i + 1 ELSE k - i + 5
<1>1. ASSUME NEW row, NEW i \in 0 .. 3
      PROVE  Product4(row, m, i, j)
               = Sum4(term(row, place(0, i), 0), term(row, place(1, i), 1),
                      term(row, place(2, i), 2), term(row, place(3, i), 3))
  <2>1. \A k \in 0 .. 3 : ((k - i) % 4) + 1 = place(k, i)
    OBVIOUS
  <2> DEFINE f(k) == ((k - i) % 4) + 1
  <2>2. Product4(row, m, i, j)
          = Sum4(term(row, f(0), 0), term(row, f(1), 1), term(row, f(2), 2), term(row, f(3), 3))
    BY DEF Product4
  <2>3. f(0) = place(0, i) /\ f(1) = place(1, i) /\ f(2) = place(2, i) /\ f(3) = place(3, i)
    BY <2>1
  <2> HIDE DEF f, place, term, Sum4
  <2> QED
    BY <2>2, <2>3, Zenon
<1>2. /\ Suffix[1] = {1} /\ Suffix[2] = {0, 1} /\ Suffix[3] = {0} /\ Suffix[4] = {0}
      /\ SuffixInverse[1] = {1, 2, 3} /\ SuffixInverse[2] = {0, 1, 3}
      /\ SuffixInverse[3] = {0, 2, 3} /\ SuffixInverse[4] = {0, 3}
  BY DEF Suffix, SuffixInverse
<1>3. /\ place(0, 0) = 1 /\ place(1, 0) = 2 /\ place(2, 0) = 3 /\ place(3, 0) = 4
      /\ place(0, 1) = 4 /\ place(1, 1) = 1 /\ place(2, 1) = 2 /\ place(3, 1) = 3
      /\ place(0, 2) = 3 /\ place(1, 2) = 4 /\ place(2, 2) = 1 /\ place(3, 2) = 2
      /\ place(0, 3) = 2 /\ place(1, 3) = 3 /\ place(2, 3) = 4 /\ place(3, 3) = 1
  OBVIOUS
<1>4. 0 \in 0 .. 3 /\ 1 \in 0 .. 3 /\ 2 \in 0 .. 3 /\ 3 \in 0 .. 3
  OBVIOUS
<1> HIDE DEF place
<1>5. ASSUME NEW row
      PROVE  /\ Product4(row, m, 0, j)
                  = Sum4(term(row, 1, 0), term(row, 2, 1), term(row, 3, 2), term(row, 4, 3))
             /\ Product4(row, m, 1, j)
                  = Sum4(term(row, 1, 1), term(row, 2, 2), term(row, 3, 3), term(row, 4, 0))
             /\ Product4(row, m, 2, j)
                  = Sum4(term(row, 1, 2), term(row, 2, 3), term(row, 3, 0), term(row, 4, 1))
             /\ Product4(row, m, 3, j)
                  = Sum4(term(row, 1, 3), term(row, 2, 0), term(row, 3, 1), term(row, 4, 2))
  <2> HIDE DEF term
  <2>1. /\ Product4(row, m, 0, j)
             = Sum4(term(row, 1, 0), term(row, 2, 1), term(row, 3, 2), term(row, 4, 3))
        /\ Product4(row, m, 1, j)
             = Sum4(term(row, 4, 0), term(row, 1, 1), term(row, 2, 2), term(row, 3, 3))
        /\ Product4(row, m, 2, j)
             = Sum4(term(row, 3, 0), term(row, 4, 1), term(row, 1, 2), term(row, 2, 3))
        /\ Product4(row, m, 3, j)
             = Sum4(term(row, 2, 0), term(row, 3, 1), term(row, 4, 2), term(row, 1, 3))
    <3> HIDE DEF Sum4
    <3>1. /\ Product4(row, m, 0, j)
               = Sum4(term(row, place(0, 0), 0), term(row, place(1, 0), 1),
                      term(row, place(2, 0), 2), term(row, place(3, 0), 3))
          /\ Product4(row, m, 1, j)
               = Sum4(term(row, place(0, 1), 0), term(row, place(1, 1), 1),
                      term(row, place(2, 1), 2), term(row, place(3, 1), 3))
          /\ Product4(row, m, 2, j)
               = Sum4(term(row, place(0, 2), 0), term(row, place(1, 2), 1),
                      term(row, place(2, 2), 2), term(row, place(3, 2), 3))
          /\ Product4(row, m, 3, j)
               = Sum4(term(row, place(0, 3), 0), term(row, place(1, 3), 1),
                      term(row, place(2, 3), 2), term(row, place(3, 3), 3))
      BY <1>1, <1>4, Zenon
    <3> QED
      BY <1>3, <3>1, Zenon
  <2>2. PICK p1, q1, r1, s1 : /\ p1 = term(row, 1, 1) /\ q1 = term(row, 2, 2)
                              /\ r1 = term(row, 3, 3) /\ s1 = term(row, 4, 0)
    OBVIOUS
  <2>3. PICK p2, q2, r2, s2 : /\ p2 = term(row, 1, 2) /\ q2 = term(row, 2, 3)
                              /\ r2 = term(row, 3, 0) /\ s2 = term(row, 4, 1)
    OBVIOUS
  <2>4. PICK p3, q3, r3, s3 : /\ p3 = term(row, 1, 3) /\ q3 = term(row, 2, 0)
                              /\ r3 = term(row, 3, 1) /\ s3 = term(row, 4, 2)
    OBVIOUS
  <2>5. /\ Sum4(s1, p1, q1, r1) = Sum4(p1, q1, r1, s1)
        /\ Sum4(r2, s2, p2, q2) = Sum4(p2, q2, r2, s2)
        /\ Sum4(q3, r3, s3, p3) = Sum4(p3, q3, r3, s3)
    BY SumRotated
  <2> HIDE DEF Sum4
  <2> QED
    BY <2>1, <2>2, <2>3, <2>4, <2>5
<1> QED
  BY <1>2, <1>5 DEF Mixed4, Unmixed4

\* aes_suffix_inverse undoes aes_suffix_mat.
LEMMA MatMulUndone ==
  ASSUME NEW m \in Block
  PROVE  MatMul(SuffixInverse, MatMul(Suffix, m)) = m
<1>1. PICK x, y : x = MatMul(Suffix, m) /\ y = MatMul(SuffixInverse, x)
  OBVIOUS
<1>2. x \in Block /\ \A i, j \in 0 .. 3 : x[<<i, j>>] = Product4(Suffix, m, i, j)
  BY <1>1, MatMulBlock
<1>3. y \in Block /\ \A i, j \in 0 .. 3 : y[<<i, j>>] = Product4(SuffixInverse, x, i, j)
  BY <1>1, <1>2, MatMulBlock
<1>4. ASSUME NEW j \in 0 .. 3 PROVE \A i \in 0 .. 3 : y[<<i, j>>] = m[<<i, j>>]
  <2>1. PICK a, b, c, d : /\ a = m[<<0, j>>] /\ b = m[<<1, j>>] /\ c = m[<<2, j>>] /\ d = m[<<3, j>>]
    OBVIOUS
  <2>2. a \in Byte /\ b \in Byte /\ c \in Byte /\ d \in Byte
    BY <2>1 DEF Block
  <2>3. /\ x[<<0, j>>] = Mixed4(a, b, c, d) /\ x[<<1, j>>] = Mixed4(b, c, d, a)
        /\ x[<<2, j>>] = Mixed4(c, d, a, b) /\ x[<<3, j>>] = Mixed4(d, a, b, c)
    <3>1. /\ x[<<0, j>>] = Product4(Suffix, m, 0, j) /\ x[<<1, j>>] = Product4(Suffix, m, 1, j)
          /\ x[<<2, j>>] = Product4(Suffix, m, 2, j) /\ x[<<3, j>>] = Product4(Suffix, m, 3, j)
      BY <1>2
    <3> QED
      BY <2>1, <3>1, SuffixLines, Zenon
  <2>4. PICK w0, w1, w2, w3 : /\ w0 = x[<<0, j>>] /\ w1 = x[<<1, j>>]
                              /\ w2 = x[<<2, j>>] /\ w3 = x[<<3, j>>]
    OBVIOUS
  <2>5. /\ y[<<0, j>>] = Unmixed4(w0, w1, w2, w3) /\ y[<<1, j>>] = Unmixed4(w1, w2, w3, w0)
        /\ y[<<2, j>>] = Unmixed4(w2, w3, w0, w1) /\ y[<<3, j>>] = Unmixed4(w3, w0, w1, w2)
    <3>1. /\ y[<<0, j>>] = Product4(SuffixInverse, x, 0, j)
          /\ y[<<1, j>>] = Product4(SuffixInverse, x, 1, j)
          /\ y[<<2, j>>] = Product4(SuffixInverse, x, 2, j)
          /\ y[<<3, j>>] = Product4(SuffixInverse, x, 3, j)
      BY <1>3
    <3> QED
      BY <2>4, <3>1, SuffixLines, Zenon
  <2>6. /\ Unmixed4(w0, w1, w2, w3) = a /\ Unmixed4(w1, w2, w3, w0) = b
        /\ Unmixed4(w2, w3, w0, w1) = c /\ Unmixed4(w3, w0, w1, w2) = d
    BY <2>2, <2>3, <2>4, MixUndone
  <2>7. \A i \in 0 .. 3 : i = 0 \/ i = 1 \/ i = 2 \/ i = 3
    OBVIOUS
  <2> QED
    BY <2>1, <2>5, <2>6, <2>7
<1> QED
  BY <1>1, <1>3, <1>4, EqualBlocks

\* The S-box takes every byte, so that it takes none twice: inv_s_box undoes it.
LEMMA SBoxUndone ==
  /\ SBox \in [Byte -> Byte] /\ SBoxInverse \in [Byte -> Byte]
  /\ \A v \in Byte : SBoxInverse[SBox[v]] = v
<1>1. SBox \in [Byte -> Byte] /\ \A v \in Byte : \E x \in Byte : SBox[x] = v
  BY SBoxAssumption DEF Range
<1>2. IsFiniteSet(Byte)
  <2>1. IsFiniteSet(0 .. Bits - 1)
    BY BitsNat, FS_Interval
  <2> QED
    BY <2>1, FS_SUBSET DEF Byte
<1>3. SBox \in Injection(Byte, Byte)
  <2>1. SBox \in Surjection(Byte, Byte)
    BY <1>1 DEF Surjection
  <2> QED
    BY <1>2, <2>1, FS_SurjSameCardinalityImpliesInj
<1>4. \A x, y \in Byte : SBox[x] = SBox[y] => x = y
  BY <1>1, <1>3 DEF Injection, IsInjective
<1>5. \A v \in Byte : SBoxInverse[v] \in Byte /\ SBox[SBoxInverse[v]] = v
  BY <1>1 DEF SBoxInverse
<1>6. SBoxInverse \in [Byte -> Byte]
  BY <1>5 DEF SBoxInverse
<1> QED
  BY <1>1, <1>4, <1>5, <1>6

\* One round's moves, and the moves back.
Moved(m) == LineShift(Substitute(SBox, m))
MovedBack(m) == LineShiftInverse(Substitute(SBoxInverse, m))

LEMMA MoveUndone ==
  ASSUME NEW m \in Block
  PROVE  Moved(m) \in Block /\ MovedBack(m) \in Block /\ MovedBack(Moved(m)) = m
<1>1. PICK u, v, w, x : /\ u = Substitute(SBox, m) /\ v = LineShift(u)
                        /\ w = Substitute(SBoxInverse, v) /\ x = LineShiftInverse(w)
  OBVIOUS
<1>2. u \in Block /\ \A i, j \in 0 .. 3 : u[<<i, j>>] = SBox[m[<<i, j>>]]
  BY <1>1, SBoxUndone, SubstituteBlock
<1>3. v \in Block /\ \A i, j \in 0 .. 3 : v[<<i, j>>] = u[<<i, (j + i) % 4>>]
  BY <1>1, <1>2, ShiftBlock
<1>4. w \in Block /\ \A i, j \in 0 .. 3 : w[<<i, j>>] = SBoxInverse[v[<<i, j>>]]
  BY <1>1, <1>3, SBoxUndone, SubstituteBlock
<1>5. x \in Block /\ \A i, j \in 0 .. 3 : x[<<i, j>>] = w[<<i, (j - i) % 4>>]
  BY <1>1, <1>4, ShiftBlock
<1>6. ASSUME NEW i \in 0 .. 3, NEW j \in 0 .. 3 PROVE x[<<i, j>>] = m[<<i, j>>]
  <2>1. PICK k : k = (j - i) % 4
    OBVIOUS
  <2>2. k \in 0 .. 3 /\ (k + i) % 4 = j
    BY <2>1
  <2>3. x[<<i, j>>] = SBoxInverse[v[<<i, k>>]]
    BY <1>4, <1>5, <2>1, <2>2
  <2>4. v[<<i, k>>] = SBox[m[<<i, j>>]]
    BY <1>2, <1>3, <2>2
  <2>5. m[<<i, j>>] \in Byte
    BY DEF Block
  <2> QED
    BY <2>3, <2>4, <2>5, SBoxUndone
<1>7. x = m
  BY <1>5, <1>6, EqualBlocks
<1>8. MovedBack(m) \in Block
  BY SBoxUndone, SubstituteBlock, ShiftBlock DEF MovedBack
<1> QED
  BY <1>1, <1>3, <1>7, <1>8 DEF Moved, MovedBack

\* Sums of blocks.
LEMMA PlusTwice ==
  ASSUME NEW m \in Block, NEW n \in Block
  PROVE  Plus(Plus(m, n), n) = m
<1>1. PICK s, r : s = Plus(m, n) /\ r = Plus(s, n)
  OBVIOUS
<1>2. s \in Block /\ \A i, j \in 0 .. 3 : s[<<i, j>>] = SymDiff(m[<<i, j>>], n[<<i, j>>])
  BY <1>1, PlusBlock
<1>3. r \in Block /\ \A i, j \in 0 .. 3 : r[<<i, j>>] = SymDiff(s[<<i, j>>], n[<<i, j>>])
  BY <1>1, <1>2, PlusBlock
<1>4. \A x, y : SymDiff(SymDiff(x, y), y) = x
  BY DEF SymDiff
<1> QED
  BY <1>1, <1>2, <1>3, <1>4, EqualBlocks

LEMMA PlusGrouped ==
  ASSUME NEW m \in Block, NEW n \in Block, NEW o \in Block
  PROVE  Plus(Plus(m, n), o) = Plus(m, Plus(n, o))
<1>1. PICK s, r, t, u : s = Plus(m, n) /\ r = Plus(s, o) /\ t = Plus(n, o) /\ u = Plus(m, t)
  OBVIOUS
<1>2. /\ s \in Block /\ \A i, j \in 0 .. 3 : s[<<i, j>>] = SymDiff(m[<<i, j>>], n[<<i, j>>])
      /\ t \in Block /\ \A i, j \in 0 .. 3 : t[<<i, j>>] = SymDiff(n[<<i, j>>], o[<<i, j>>])
  BY <1>1, PlusBlock
<1>3. /\ r \in Block /\ \A i, j \in 0 .. 3 : r[<<i, j>>] = SymDiff(s[<<i, j>>], o[<<i, j>>])
      /\ u \in Block /\ \A i, j \in 0 .. 3 : u[<<i, j>>] = SymDiff(m[<<i, j>>], t[<<i, j>>])
  BY <1>1, <1>2, PlusBlock
<1>4. \A x, y, z : SymDiff(SymDiff(x, y), z) = SymDiff(x, SymDiff(y, z))
  BY DEF SymDiff
<1> QED
  BY <1>1, <1>2, <1>3, <1>4, EqualBlocks

LEMMA TransposedSum ==
  ASSUME NEW m \in Block, NEW n \in Block
  PROVE  /\ Transposed(Transposed(m)) = m
         /\ Transposed(Plus(m, n)) = Plus(Transposed(m), Transposed(n))
<1>1. PICK s, r, t, u, v : /\ s = Plus(m, n) /\ r = Transposed(s) /\ t = Transposed(m)
                           /\ u = Transposed(n) /\ v = Plus(t, u)
  OBVIOUS
<1>2. /\ s \in Block /\ \A i, j \in 0 .. 3 : s[<<i, j>>] = SymDiff(m[<<i, j>>], n[<<i, j>>])
      /\ t \in Block /\ \A i, j \in 0 .. 3 : t[<<i, j>>] = m[<<j, i>>]
      /\ u \in Block /\ \A i, j \in 0 .. 3 : u[<<i, j>>] = n[<<j, i>>]
  BY <1>1, PlusBlock, TransposedBlock
<1>3. /\ r \in Block /\ \A i, j \in 0 .. 3 : r[<<i, j>>] = s[<<j, i>>]
      /\ v \in Block /\ \A i, j \in 0 .. 3 : v[<<i, j>>] = SymDiff(t[<<i, j>>], u[<<i, j>>])
  BY <1>1, <1>2, PlusBlock, TransposedBlock
<1>4. r = v
  BY <1>2, <1>3, EqualBlocks
<1>5. PICK w : w = Transposed(t)
  OBVIOUS
<1>6. w \in Block /\ \A i, j \in 0 .. 3 : w[<<i, j>>] = t[<<j, i>>]
  BY <1>2, <1>5, TransposedBlock
<1>7. w = m
  BY <1>2, <1>6, EqualBlocks
<1> QED
  BY <1>1, <1>4, <1>5, <1>7

\* What holds of a number whenever it holds of those before it holds of all.
LEMMA OneAfterAnother ==
  ASSUME NEW n \in Nat, NEW P, \A i \in 0 .. n : (\A k \in 0 .. i - 1 : k \in P) => i \in P
  PROVE  \A i \in 0 .. n : i \in P
<1> DEFINE Others == (0 .. n) \ P
<1>1. SUFFICES ASSUME Others # {} PROVE FALSE
  OBVIOUS
<1>2. PICK m \in Others : \A k \in Others : m <= k
  <2>1. Others \subseteq Nat
    OBVIOUS
  <2> HIDE DEF Others
  <2> QED
    BY <1>1, <2>1, Least
<1>3. m \in 0 .. n /\ m \notin P
  OBVIOUS
<1>4. \A k \in 0 .. m - 1 : k \in P
  BY <1>2, <1>3
<1> QED
  BY <1>3, <1>4

\* A function each of whose values is made from those before it.
Steps(n, step, f) == f = [i \in 0 .. n |-> step[<<i, f>>]]

LEMMA StepsExist ==
  ASSUME NEW n \in Nat, NEW S, NEW none \in S, NEW step \in [(0 .. n) \X [0 .. n -> S] -> S],
         \A i \in 0 .. n : \A g, h \in [0 .. n -> S] :
           (\A k \in 0 .. i - 1 : g[k] = h[k]) => step[<<i, g>>] = step[<<i, h>>]
  PROVE  \E f \in [0 .. n -> S] : Steps(n, step, f)
<1> DEFINE Reaches(f, m) == \A i \in 0 .. m : f[i] = step[<<i, f>>]
           P == {m \in 0 .. n : \E f \in [0 .. n -> S] : Reaches(f, m)}
<1>1. ASSUME NEW m \in 0 .. n, \A k \in 0 .. m - 1 : k \in P PROVE m \in P
  <2>1. PICK g \in [0 .. n -> S] : \A i \in 0 .. m - 1 : g[i] = step[<<i, g>>]
    <3>1. CASE m = 0
      <4>1. PICK g : g = [i \in 0 .. n |-> none]
        OBVIOUS
      <4>2. g \in [0 .. n -> S]
        BY <4>1
      <4>3. \A i \in 0 .. m - 1 : FALSE
        BY <3>1
      <4> QED
        BY <4>2, <4>3, Zenon
    <3>2. CASE m # 0
      <4>1. m - 1 \in 0 .. m - 1
        BY <3>2
      <4>2. m - 1 \in P
        BY <1>1, <4>1
      <4> QED
        BY <4>2
    <3> QED
      BY <3>1, <3>2
  <2>2. step[<<m, g>>] \in S
    OBVIOUS
  <2>3. PICK f : f = [g EXCEPT ![m] = step[<<m, g>>]]
    OBVIOUS
  <2>4. /\ f \in [0 .. n -> S] /\ f[m] = step[<<m, g>>]
        /\ \A k \in 0 .. m - 1 : f[k] = g[k]
    BY <2>2, <2>3
  <2>5. \A i \in 0 .. m : step[<<i, f>>] = step[<<i, g>>]
    <3> SUFFICES ASSUME NEW i \in 0 .. m PROVE step[<<i, f>>] = step[<<i, g>>]
      OBVIOUS
    <3>1. i \in 0 .. n /\ \A k \in 0 .. i - 1 : f[k] = g[k]
      BY <2>4
    <3> QED
      BY <2>4, <3>1
  <2>6. ASSUME NEW i \in 0 .. m PROVE f[i] = step[<<i, f>>]
    <3>1. CASE i = m
      BY <2>4, <2>5, <3>1
    <3>2. CASE i # m
      <4>1. i \in 0 .. m - 1
        BY <3>2
      <4> QED
        BY <2>1, <2>4, <2>5, <4>1
    <3> QED
      BY <3>1, <3>2
  <2> QED
    BY <2>4, <2>6
<1>2. n \in P
  <2>1. \A i \in 0 .. n : (\A k \in 0 .. i - 1 : k \in P) => i \in P
    BY <1>1
  <2> HIDE DEF P
  <2> QED
    BY <2>1, OneAfterAnother
<1>3. PICK f \in [0 .. n -> S] : \A i \in 0 .. n : f[i] = step[<<i, f>>]
  BY <1>2
<1> QED
  BY <1>3 DEF Steps

\* The powers of x that rcon starts with.
Powers(g) == g = [r \in 0 .. Rounds - 1 |-> IF r = 0 THEN {0} ELSE Twice(g[r - 1])]

LEMMA RconBytes == \A r \in 0 .. Rounds - 1 : Rcon[r] \in Byte
<1> DEFINE n == Rounds - 1
           G == [0 .. n -> Byte]
           step == [x \in (0 .. n) \X G |-> IF x[1] = 0 THEN {0} ELSE Twice(x[2][x[1] - 1])]
<1>1. n \in Nat
  BY FieldAssumption
<1>2. {0} \in Byte
  BY BitsNat DEF Byte
<1>3. \A i \in 0 .. n, g \in G : step[<<i, g>>] = IF i = 0 THEN {0} ELSE Twice(g[i - 1])
  OBVIOUS
<1>4. step \in [(0 .. n) \X G -> Byte]
  <2>1. ASSUME NEW i \in 0 .. n, NEW g \in G PROVE (IF i = 0 THEN {0} ELSE Twice(g[i - 1])) \in Byte
    <3>1. ASSUME i # 0 PROVE g[i - 1] \in Byte
      <4>1. i - 1 \in 0 .. n
        BY <1>1, <3>1
      <4> HIDE DEF n
      <4> QED
        BY <4>1
    <3> QED
      BY <1>2, <3>1, TwiceBits
  <2> QED
    BY <2>1
<1>5. ASSUME NEW i \in 0 .. n, NEW g \in G, NEW h \in G, \A k \in 0 .. i - 1 : g[k] = h[k]
      PROVE  step[<<i, g>>] = step[<<i, h>>]
  <2>1. i # 0 => g[i - 1] = h[i - 1]
    BY <1>1, <1>5
  <2> HIDE DEF step, G
  <2> QED
    BY <1>3, <2>1
<1>6. \E f \in G : Steps(n, step, f)
  <2> HIDE DEF step, n
  <2> QED
    BY <1>1, <1>2, <1>4, <1>5, StepsExist
<1>7. \E f : Powers(f)
  <2>1. PICK f \in G : Steps(n, step, f)
    BY <1>6
  <2>2. f = [i \in 0 .. n |-> step[<<i, f>>]]
    BY <2>1, Zenon DEF Steps
  <2>3. f = [i \in 0 .. n |-> IF i = 0 THEN {0} ELSE Twice(f[i - 1])]
    <3> HIDE DEF step
    <3> QED
      BY <1>3, <2>2
  <2> QED
    BY <2>3, Zenon DEF Powers
<1>8. PICK f : Powers(f) /\ Rcon = f
  BY <1>7, ZenonT(40) DEF Powers, Rcon
<1> DEFINE P == {i \in 0 .. n : f[i] \in Byte}
<1>9. ASSUME NEW i \in 0 .. n, \A k \in 0 .. i - 1 : k \in P PROVE i \in P
  <2>1. f[i] = IF i = 0 THEN {0} ELSE Twice(f[i - 1])
    BY <1>8, Zenon DEF Powers
  <2>2. i # 0 => f[i - 1] \in Byte
    <3>1. i # 0 => i - 1 \in 0 .. i - 1
      OBVIOUS
    <3> QED
      BY <1>9, <3>1
  <2> QED
    BY <1>2, <2>1, <2>2, TwiceBits
<1>10. \A i \in 0 .. n : i \in P
  <2> HIDE DEF P, n
  <2> QED
    BY <1>1, <1>9, OneAfterAnother
<1> QED
  BY <1>8, <1>10

\* A line of the extended key, from the one before it and the one four before it.
KeyLine == [0 .. 3 -> Byte]
NextLine(i, four, last) ==
  [j \in 0 .. 3 |->
     SymDiff(four[j],
             IF i % 4 = 0 THEN SymDiff(SBox[last[(j + 1) % 4]], IF j = 0 THEN Rcon[i \div 4 - 1] ELSE {})
             ELSE last[j])]
FirstLine(key, i) == [j \in 0 .. 3 |-> key[<<i, j>>]]
Extends(key, g) ==
  g = [i \in 0 .. 4 * Rounds + 3 |->
         IF i < 4 THEN FirstLine(key, i) ELSE NextLine(i, g[i - 4], g[i - 1])]

LEMMA NextLineWord ==
  ASSUME NEW i \in 4 .. 4 * Rounds + 3, NEW four \in KeyLine, NEW last \in KeyLine
  PROVE  NextLine(i, four, last) \in KeyLine
<1>1. i \div 4 - 1 \in 0 .. Rounds - 1
  BY FieldAssumption
<1>2. Rcon[i \div 4 - 1] \in Byte /\ {} \in Byte
  BY <1>1, RconBytes DEF Byte
<1>3. PICK constant \in Byte : constant = Rcon[i \div 4 - 1]
  BY <1>2
<1>4. ASSUME NEW j \in 0 .. 3
      PROVE  SymDiff(four[j],
                     IF i % 4 = 0 THEN SymDiff(SBox[last[(j + 1) % 4]], IF j = 0 THEN constant ELSE {})
                     ELSE last[j]) \in Byte
  <2>1. PICK k \in 0 .. 3 : k = (j + 1) % 4
    OBVIOUS
  <2>2. PICK a, b, c, d : a = four[j] /\ b = last[j] /\ c = last[k] /\ d = SBox[c]
    OBVIOUS
  <2>3. a \in Byte /\ b \in Byte /\ c \in Byte
    BY <2>2 DEF KeyLine
  <2>4. d \in Byte
    BY <2>2, <2>3, SBoxUndone
  <2>5. PICK e \in Byte : e = IF j = 0 THEN constant ELSE {}
    BY <1>2
  <2>6. SymDiff(d, e) \in Byte
    BY <2>4, <2>5, SymDiffByte
  <2>7. PICK f \in Byte : f = IF i % 4 = 0 THEN SymDiff(d, e) ELSE b
    BY <2>3, <2>6
  <2>8. SymDiff(a, f) \in Byte
    BY <2>3, SymDiffByte
  <2> QED
    BY <2>1, <2>2, <2>5, <2>7, <2>8
<1> QED
  BY <1>3, <1>4 DEF NextLine, KeyLine

LEMMA FirstLineWord ==
  ASSUME NEW key \in Block, NEW i \in 0 .. 3
  PROVE  FirstLine(key, i) \in KeyLine
BY DEF FirstLine, KeyLine, Block

\* The extended key is made of words, the key itself the first four of them.
LEMMA KeyLines ==
  ASSUME NEW key \in Block
  PROVE  /\ \A i \in 0 .. 4 * Rounds + 3 : KeyExtend(key)[i] \in KeyLine
         /\ \A i \in 0 .. 3 : KeyExtend(key)[i] = FirstLine(key, i)
<1> DEFINE n == 4 * Rounds + 3
           G == [0 .. n -> KeyLine]
           value(i, g) == IF i < 4 THEN FirstLine(key, i) ELSE NextLine(i, g[i - 4], g[i - 1])
           step == [x \in (0 .. n) \X G |-> value(x[1], x[2])]
<1>1. n \in Nat /\ \A i \in 0 .. 3 : i \in 0 .. n
  BY FieldAssumption
<1>2. FirstLine(key, 0) \in KeyLine
  BY FirstLineWord
<1>3. \A i \in 0 .. n, g \in G : step[<<i, g>>] = value(i, g)
  OBVIOUS
<1>4. ASSUME NEW i \in 0 .. n, NEW g, i >= 4 => g[i - 4] \in KeyLine /\ g[i - 1] \in KeyLine
      PROVE  value(i, g) \in KeyLine
  <2>1. CASE i < 4
    BY <2>1, FirstLineWord
  <2>2. CASE i >= 4
    <3>1. PICK four \in KeyLine, last \in KeyLine : four = g[i - 4] /\ last = g[i - 1]
      BY <1>4, <2>2
    <3>2. i \in 4 .. 4 * Rounds + 3
      BY <2>2
    <3>3. NextLine(i, four, last) \in KeyLine
      BY <3>2, NextLineWord
    <3> QED
      BY <2>2, <3>1, <3>3
  <2> QED
    BY <2>1, <2>2
<1>5. step \in [(0 .. n) \X G -> KeyLine]
  <2>1. ASSUME NEW i \in 0 .. n, NEW g \in G PROVE value(i, g) \in KeyLine
    <3>1. ASSUME i >= 4 PROVE i - 4 \in 0 .. n /\ i - 1 \in 0 .. n
      BY <1>1, <3>1
    <3>2. i >= 4 => g[i - 4] \in KeyLine /\ g[i - 1] \in KeyLine
      <4> HIDE DEF n
      <4> QED
        BY <3>1
    <3> HIDE DEF n, value
    <3> QED
      BY <1>4, <3>2
  <2> HIDE DEF n, G, value
  <2> QED
    BY <2>1
<1>6. ASSUME NEW i \in 0 .. n, NEW g \in G, NEW h \in G, \A k \in 0 .. i - 1 : g[k] = h[k]
      PROVE  step[<<i, g>>] = step[<<i, h>>]
  <2>1. i >= 4 => i - 1 \in 0 .. i - 1 /\ i - 4 \in 0 .. i - 1
    BY <1>1
  <2>2. i >= 4 => g[i - 1] = h[i - 1] /\ g[i - 4] = h[i - 4]
    BY <1>6, <2>1
  <2>3. value(i, g) = value(i, h)
    BY <1>1, <2>2
  <2> HIDE DEF step, G, value
  <2> QED
    BY <1>3, <2>3
<1>7. \E f \in G : Steps(n, step, f)
  <2> HIDE DEF step, n
  <2> QED
    BY <1>1, <1>2, <1>5, <1>6, StepsExist
<1>8. \E f : Extends(key, f)
  <2>1. PICK f \in G : Steps(n, step, f)
    BY <1>7
  <2>2. f = [i \in 0 .. n |-> step[<<i, f>>]]
    BY <2>1, Zenon DEF Steps
  <2>3. f = [i \in 0 .. n |-> value(i, f)]
    <3> HIDE DEF step, value
    <3> QED
      BY <1>3, <2>2
  <2> QED
    BY <2>3, Zenon DEF Extends
<1>9. PICK f : Extends(key, f) /\ KeyExtend(key) = f
  BY <1>8, ZenonT(40) DEF Extends, KeyExtend, FirstLine, NextLine
<1> DEFINE P == {i \in 0 .. n : f[i] \in KeyLine}
<1>10. \A i \in 0 .. n : f[i] = value(i, f)
  BY <1>9, Zenon DEF Extends
<1>11. ASSUME NEW i \in 0 .. n, \A k \in 0 .. i - 1 : k \in P PROVE i \in P
  <2>1. i >= 4 => i - 1 \in 0 .. i - 1 /\ i - 4 \in 0 .. i - 1
    BY <1>1
  <2>2. i >= 4 => f[i - 4] \in KeyLine /\ f[i - 1] \in KeyLine
    BY <1>11, <2>1
  <2> HIDE DEF value, n
  <2>3. value(i, f) \in KeyLine
    BY <1>4, <2>2
  <2> QED
    BY <1>10, <2>3
<1>12. \A i \in 0 .. n : i \in P
  <2> HIDE DEF P, n
  <2> QED
    BY <1>1, <1>11, OneAfterAnother
<1>13. \A i \in 0 .. 3 : f[i] = FirstLine(key, i)
  BY <1>1, <1>10
<1> QED
  BY <1>9, <1>12, <1>13

\* The round keys are blocks, the first one is the key itself.
LEMMA RoundKeys ==
  ASSUME NEW key \in Block
  PROVE  /\ \A i \in 0 .. Rounds : RoundKey(KeyExtend(key), i) \in Block
         /\ RoundKey(KeyExtend(key), 0) = Transposed(key)
<1>1. PICK lines : lines = KeyExtend(key)
  OBVIOUS
<1>2. /\ \A i \in 0 .. 4 * Rounds + 3 : lines[i] \in KeyLine
      /\ \A i \in 0 .. 3 : lines[i] = FirstLine(key, i)
  BY <1>1, KeyLines
<1>3. ASSUME NEW i \in 0 .. Rounds PROVE RoundKey(lines, i) \in Block
  <2>1. \A p \in Cells : 4 * i + p[2] \in 0 .. 4 * Rounds + 3 /\ p[1] \in 0 .. 3
    BY FieldAssumption DEF Cells
  <2>2. \A p \in Cells : lines[4 * i + p[2]][p[1]] \in Byte
    BY <1>2, <2>1 DEF KeyLine
  <2> QED
    BY <2>2 DEF RoundKey, Block, Cells
<1>4. PICK first : first = RoundKey(lines, 0)
  OBVIOUS
<1>5. first = [p \in Cells |-> lines[p[2]][p[1]]]
  <2>1. \A p \in Cells : 4 * 0 + p[2] = p[2]
    BY DEF Cells
  <2> QED
    BY <1>4, <2>1 DEF RoundKey, Cells
<1>6. Transposed(key) = [p \in Cells |-> key[<<p[2], p[1]>>]]
  BY DEF Block, Cells, Transposed
<1>7. \A p \in Cells : lines[p[2]][p[1]] = key[<<p[2], p[1]>>]
  <2> SUFFICES ASSUME NEW i \in 0 .. 3, NEW j \in 0 .. 3 PROVE lines[j][i] = key[<<j, i>>]
    BY DEF Cells
  <2> QED
    BY <1>2 DEF FirstLine
<1> QED
  BY <1>1, <1>3, <1>4, <1>5, <1>6, <1>7

\* The state of aes_128_encrypto, and of aes_128_decrypto, after every round.
FirstState(way, data, lines) ==
  Plus(Transposed(data), IF way = "encrypto" THEN RoundKey(lines, 0) ELSE RoundKey(lines, Rounds))
NextState(way, lines, i, m) ==
  IF way = "encrypto"
  THEN Plus(IF i = Rounds THEN Moved(m) ELSE MatMul(Suffix, Moved(m)), RoundKey(lines, i))
  ELSE Plus(IF i = Rounds THEN MovedBack(m) ELSE MatMul(SuffixInverse, MovedBack(m)),
            MatMul(SuffixInverse, RoundKey(lines, Rounds - i)))
States(way, data, lines, g) ==
  g = [i \in 0 .. Rounds |->
         IF i = 0 THEN FirstState(way, data, lines) ELSE NextState(way, lines, i, g[i - 1])]
BlockKeys(lines) == \A i \in 0 .. Rounds : RoundKey(lines, i) \in Block

LEMMA StateBlock ==
  ASSUME NEW way, NEW data \in Block, NEW lines, BlockKeys(lines)
  PROVE  /\ FirstState(way, data, lines) \in Block
         /\ \A i \in 0 .. Rounds, m \in Block : NextState(way, lines, i, m) \in Block
<1>1. Rounds \in Nat /\ 0 \in 0 .. Rounds /\ Rounds \in 0 .. Rounds
  BY FieldAssumption
<1>2. FirstState(way, data, lines) \in Block
  <2>1. PICK key \in Block : key = IF way = "encrypto" THEN RoundKey(lines, 0) ELSE RoundKey(lines, Rounds)
    BY <1>1 DEF BlockKeys
  <2> QED
    BY <2>1, PlusBlock, TransposedBlock DEF FirstState
<1>3. ASSUME NEW i \in 0 .. Rounds, NEW m \in Block PROVE NextState(way, lines, i, m) \in Block
  <2>1. PICK key \in Block, other \in Block : key = RoundKey(lines, i) /\ other = RoundKey(lines, Rounds - i)
    <3>1. Rounds - i \in 0 .. Rounds
      BY <1>1
    <3> QED
      BY <3>1 DEF BlockKeys
  <2>2. PICK moved \in Block, back \in Block : moved = Moved(m) /\ back = MovedBack(m)
    BY MoveUndone
  <2>3. PICK mixed \in Block, unmixed \in Block, last \in Block :
          /\ mixed = MatMul(Suffix, moved) /\ unmixed = MatMul(SuffixInverse, back)
          /\ last = MatMul(SuffixInverse, other)
    BY MatMulBlock
  <2>4. PICK there \in Block, again \in Block :
          /\ there = IF i = Rounds THEN moved ELSE mixed
          /\ again = IF i = Rounds THEN back ELSE unmixed
    OBVIOUS
  <2>5. Plus(there, key) \in Block /\ Plus(again, last) \in Block
    BY PlusBlock
  <2> QED
    BY <2>1, <2>2, <2>3, <2>4, <2>5 DEF NextState
<1> QED
  BY <1>2, <1>3

LEMMA StatesExist ==
  ASSUME NEW way, NEW data \in Block, NEW lines, BlockKeys(lines)
  PROVE  \E g : States(way, data, lines, g)
<1> DEFINE G == [0 .. Rounds -> Block]
           value(i, g) == IF i = 0 THEN FirstState(way, data, lines) ELSE NextState(way, lines, i, g[i - 1])
           step == [x \in (0 .. Rounds) \X G |-> value(x[1], x[2])]
<1>1. Rounds \in Nat
  BY FieldAssumption
<1>2. ASSUME NEW i \in 0 .. Rounds, NEW g \in G PROVE value(i, g) \in Block
  <2>1. ASSUME i # 0 PROVE g[i - 1] \in Block
    <3>1. i - 1 \in 0 .. Rounds
      BY <1>1, <2>1
    <3> QED
      BY <3>1
  <2> QED
    BY <2>1, StateBlock
<1>3. \A i \in 0 .. Rounds, g \in G : step[<<i, g>>] = value(i, g)
  OBVIOUS
<1>4. step \in [(0 .. Rounds) \X G -> Block]
  <2> HIDE DEF G, value
  <2> QED
    BY <1>2
<1>5. ASSUME NEW i \in 0 .. Rounds, NEW g \in G, NEW h \in G, \A k \in 0 .. i - 1 : g[k] = h[k]
      PROVE  step[<<i, g>>] = step[<<i, h>>]
  <2>1. i # 0 => g[i - 1] = h[i - 1]
    BY <1>1, <1>5
  <2>2. value(i, g) = value(i, h)
    BY <2>1
  <2> HIDE DEF step, G, value
  <2> QED
    BY <1>3, <2>2
<1>6. PICK f \in G : Steps(Rounds, step, f)
  <2> HIDE DEF step
  <2> QED
    BY <1>1, <1>4, <1>5, StepsExist
<1>7. f = [i \in 0 .. Rounds |-> step[<<i, f>>]]
  BY <1>6, Zenon DEF Steps
<1>8. f = [i \in 0 .. Rounds |-> value(i, f)]
  <2> HIDE DEF step, value
  <2> QED
    BY <1>3, <1>7
<1> QED
  BY <1>8, Zenon DEF States

LEMMA StatesBlocks ==
  ASSUME NEW way, NEW data \in Block, NEW lines, BlockKeys(lines),
         NEW g, States(way, data, lines, g)
  PROVE  \A i \in 0 .. Rounds :
           /\ g[i] \in Block
           /\ g[i] = IF i = 0 THEN FirstState(way, data, lines) ELSE NextState(way, lines, i, g[i - 1])
<1> DEFINE P == {i \in 0 .. Rounds : g[i] \in Block}
<1>1. \A i \in 0 .. Rounds :
        g[i] = IF i = 0 THEN FirstState(way, data, lines) ELSE NextState(way, lines, i, g[i - 1])
  BY Zenon DEF States
<1>2. ASSUME NEW i \in 0 .. Rounds, \A k \in 0 .. i - 1 : k \in P PROVE i \in P
  <2>1. i # 0 => g[i - 1] \in Block
    <3>1. i # 0 => i - 1 \in 0 .. i - 1
      OBVIOUS
    <3> QED
      BY <1>2, <3>1
  <2> QED
    BY <1>1, <2>1, StateBlock
<1>3. \A i \in 0 .. Rounds : i \in P
  <2> HIDE DEF P
  <2> QED
    BY <1>2, FieldAssumption, OneAfterAnother
<1> QED
  BY <1>1, <1>3

\* What the two functions return is the last state.
LEMMA LastEncrypto ==
  ASSUME NEW data \in Block, NEW key, BlockKeys(KeyExtend(key))
  PROVE  \E g : States("encrypto", data, KeyExtend(key), g) /\ Encrypto(data, key) = Transposed(g[Rounds])
<1> DEFINE lines == KeyExtend(key)
           stat(g) ==
             g = [i \in 0 .. Rounds |->
                    IF i = 0 THEN Plus(Transposed(data), RoundKey(lines, 0))
                    ELSE Plus(IF i = Rounds THEN LineShift(Substitute(SBox, g[i - 1]))
                              ELSE MatMul(Suffix, LineShift(Substitute(SBox, g[i - 1]))),
                              RoundKey(lines, i))]
<1>1. \A g : States("encrypto", data, lines, g) <=> stat(g)
  <2>1. FirstState("encrypto", data, lines) = Plus(Transposed(data), RoundKey(lines, 0))
    BY DEF FirstState
  <2>2. \A i, m : NextState("encrypto", lines, i, m)
                    = Plus(IF i = Rounds THEN LineShift(Substitute(SBox, m))
                           ELSE MatMul(Suffix, LineShift(Substitute(SBox, m))), RoundKey(lines, i))
    BY DEF NextState, Moved
  <2> HIDE DEF lines
  <2> QED
    BY <2>1, <2>2, Zenon DEF States
<1>2. \E g : stat(g)
  BY <1>1, StatesExist
<1>3. PICK g : stat(g) /\ Encrypto(data, key) = Transposed(g[Rounds])
  BY <1>2, ZenonT(40) DEF Encrypto
<1> QED
  BY <1>1, <1>3

LEMMA LastDecrypto ==
  ASSUME NEW data \in Block, NEW key, BlockKeys(KeyExtend(key))
  PROVE  \E g : States("decrypto", data, KeyExtend(key), g) /\ Decrypto(data, key) = Transposed(g[Rounds])
<1> DEFINE lines == KeyExtend(key)
           stat(g) ==
             g = [i \in 0 .. Rounds |->
                    IF i = 0 THEN Plus(Transposed(data), RoundKey(lines, Rounds))
                    ELSE Plus(IF i = Rounds THEN LineShiftInverse(Substitute(SBoxInverse, g[i - 1]))
                              ELSE MatMul(SuffixInverse, LineShiftInverse(Substitute(SBoxInverse, g[i - 1]))),
                              MatMul(SuffixInverse, RoundKey(lines, Rounds - i)))]
<1>1. \A g : States("decrypto", data, lines, g) <=> stat(g)
  <2>1. FirstState("decrypto", data, lines) = Plus(Transposed(data), RoundKey(lines, Rounds))
    BY DEF FirstState
  <2>2. \A i, m : NextState("decrypto", lines, i, m)
                    = Plus(IF i = Rounds THEN LineShiftInverse(Substitute(SBoxInverse, m))
                           ELSE MatMul(SuffixInverse, LineShiftInverse(Substitute(SBoxInverse, m))),
                           MatMul(SuffixInverse, RoundKey(lines, Rounds - i)))
    BY DEF NextState, MovedBack
  <2> HIDE DEF lines
  <2> QED
    BY <2>1, <2>2, Zenon DEF States
<1>2. \E g : stat(g)
  BY <1>1, StatesExist
<1>3. PICK g : stat(g) /\ Decrypto(data, key) = Transposed(g[Rounds])
  BY <1>2, ZenonT(40) DEF Decrypto
<1> QED
  BY <1>1, <1>3

\* Round i of the decryption starts where round Rounds - i of the encryption has
\* moved its bytes: the sums with the keys of the rounds cancel.
LEMMA StatesMeet ==
  ASSUME NEW data \in Block, NEW other \in Block, NEW lines, BlockKeys(lines),
         NEW e, States("encrypto", data, lines, e),
         NEW d, States("decrypto", other, lines, d), Transposed(other) = e[Rounds]
  PROVE  \A i \in 0 .. Rounds - 1 : d[i] = Moved(e[Rounds - 1 - i])
<1> DEFINE P == {i \in 0 .. Rounds - 1 : d[i] = Moved(e[Rounds - 1 - i])}
<1>1. Rounds \in Nat /\ Rounds > 0
  BY FieldAssumption
<1>2. \A i \in 0 .. Rounds :
        /\ e[i] \in Block
        /\ e[i] = IF i = 0 THEN FirstState("encrypto", data, lines)
                  ELSE NextState("encrypto", lines, i, e[i - 1])
  BY StatesBlocks
<1>3. \A i \in 0 .. Rounds :
        /\ d[i] \in Block
        /\ d[i] = IF i = 0 THEN FirstState("decrypto", other, lines)
                  ELSE NextState("decrypto", lines, i, d[i - 1])
  BY StatesBlocks
<1>4. ASSUME NEW i \in 0 .. Rounds - 1, \A k \in 0 .. i - 1 : k \in P PROVE i \in P
  <2>1. CASE i = 0
    <3>1. PICK m \in Block, last \in Block, key \in Block :
            m = e[Rounds - 1] /\ last = e[Rounds] /\ key = RoundKey(lines, Rounds)
      <4>1. Rounds - 1 \in 0 .. Rounds /\ Rounds \in 0 .. Rounds
        BY <1>1
      <4> QED
        BY <1>2, <4>1 DEF BlockKeys
    <3>2. last = Plus(Moved(m), key)
      <4>1. Rounds \in 0 .. Rounds /\ Rounds # 0
        BY <1>1
      <4>2. last = NextState("encrypto", lines, Rounds, m)
        BY <1>2, <3>1, <4>1
      <4> QED
        BY <3>1, <4>2 DEF NextState
    <3>3. d[0] = Plus(last, key)
      <4>1. d[0] = FirstState("decrypto", other, lines)
        BY <1>1, <1>3
      <4>2. Transposed(other) = last
        BY <3>1
      <4> QED
        BY <3>1, <4>1, <4>2 DEF FirstState
    <3>4. d[0] = Moved(m)
      BY <3>2, <3>3, MoveUndone, PlusTwice
    <3>5. Rounds - 1 - i = Rounds - 1
      BY <1>1, <2>1
    <3> QED
      BY <2>1, <3>1, <3>4, <3>5
  <2>2. CASE i # 0
    <3>1. PICK j : j = Rounds - i
      OBVIOUS
    <3>2. j \in 1 .. Rounds - 1 /\ j \in 0 .. Rounds /\ j - 1 \in 0 .. Rounds /\ Rounds - 1 - i = j - 1
      BY <1>1, <2>2, <3>1
    <3>3. i \in 0 .. Rounds /\ i # Rounds /\ i - 1 \in 0 .. i - 1 /\ Rounds - 1 - (i - 1) = j
      BY <1>1, <2>2, <3>1
    <3>4. PICK m \in Block, n \in Block, key \in Block :
            m = e[j - 1] /\ n = e[j] /\ key = RoundKey(lines, j)
      BY <1>2, <3>2 DEF BlockKeys
    <3>5. n = Plus(MatMul(Suffix, Moved(m)), key)
      <4>1. n = NextState("encrypto", lines, j, m)
        BY <1>2, <3>2, <3>4
      <4>2. j # Rounds
        BY <1>1, <3>2
      <4> QED
        BY <3>4, <4>1, <4>2 DEF NextState
    <3>6. d[i - 1] = Moved(n)
      BY <1>4, <3>3, <3>4
    <3>7. d[i] = Plus(MatMul(SuffixInverse, MovedBack(d[i - 1])), MatMul(SuffixInverse, key))
      <4>1. d[i] = NextState("decrypto", lines, i, d[i - 1])
        BY <1>3, <2>2, <3>3
      <4> QED
        BY <3>1, <3>3, <3>4, <4>1 DEF NextState
    <3>8. PICK moved \in Block, mixed \in Block, unmixed \in Block :
            /\ moved = Moved(m) /\ mixed = MatMul(Suffix, moved) /\ unmixed = MatMul(SuffixInverse, key)
      BY MoveUndone, MatMulBlock
    <3>9. MatMul(SuffixInverse, n) = Plus(moved, unmixed)
      <4>1. MatMul(SuffixInverse, mixed) = moved
        BY <3>8, MatMulUndone
      <4> QED
        BY <3>5, <3>8, <4>1, MatMulSum
    <3>10. d[i] = Plus(Plus(moved, unmixed), unmixed)
      BY <3>6, <3>7, <3>8, <3>9, MoveUndone
    <3>11. d[i] = moved
      BY <3>10, PlusTwice
    <3> QED
      BY <3>2, <3>4, <3>8, <3>11
  <2> QED
    BY <2>1, <2>2
<1>5. \A i \in 0 .. Rounds - 1 : i \in P
  <2>1. Rounds - 1 \in Nat
    BY <1>1
  <2> HIDE DEF P
  <2> QED
    BY <1>4, <2>1, OneAfterAnother
<1> QED
  BY <1>5

\* What decryption makes of what encryption has made: the data, the key and the
\* key's image under aes_suffix_inverse.
LEMMA DecryptoOfEncrypto ==
  ASSUME NEW data \in Block, NEW key \in Block
  PROVE  LET turned == Transposed(key)
         IN  Decrypto(Encrypto(data, key), key)
               = Plus(data, Transposed(Plus(turned, MatMul(SuffixInverse, turned))))
<1>1. PICK lines : lines = KeyExtend(key)
  OBVIOUS
<1>2. BlockKeys(lines) /\ RoundKey(lines, 0) = Transposed(key)
  BY <1>1, RoundKeys DEF BlockKeys
<1>3. PICK e : States("encrypto", data, lines, e) /\ Encrypto(data, key) = Transposed(e[Rounds])
  BY <1>1, <1>2, LastEncrypto
<1>4. PICK other : other = Encrypto(data, key)
  OBVIOUS
<1>5. Rounds \in Nat /\ Rounds > 0 /\ 0 \in 0 .. Rounds /\ Rounds \in 0 .. Rounds
  BY FieldAssumption
<1>6. /\ \A i \in 0 .. Rounds : e[i] \in Block
      /\ e[0] = FirstState("encrypto", data, lines)
  BY <1>2, <1>3, <1>5, StatesBlocks
<1>7. other \in Block
  BY <1>3, <1>4, <1>5, <1>6, TransposedBlock
<1>8. PICK d : States("decrypto", other, lines, d) /\ Decrypto(other, key) = Transposed(d[Rounds])
  BY <1>1, <1>2, <1>7, LastDecrypto
<1>9. d[Rounds] = NextState("decrypto", lines, Rounds, d[Rounds - 1])
  BY <1>2, <1>5, <1>7, <1>8, StatesBlocks
<1>10. d[Rounds - 1] = Moved(e[0])
  <2>1. \A i \in 0 .. Rounds - 1 : d[i] = Moved(e[Rounds - 1 - i])
    <3>1. Transposed(other) = e[Rounds]
      BY <1>3, <1>4, <1>5, <1>6, TransposedSum
    <3> QED
      BY <1>2, <1>3, <1>7, <1>8, <3>1, StatesMeet
  <2>2. Rounds - 1 \in 0 .. Rounds - 1 /\ Rounds - 1 - (Rounds - 1) = 0
    BY <1>5
  <2> QED
    BY <2>1, <2>2
<1>11. PICK turned \in Block, image \in Block, text \in Block, first \in Block :
         /\ turned = Transposed(key) /\ image = MatMul(SuffixInverse, turned)
         /\ text = Transposed(data) /\ first = e[0]
  BY <1>5, <1>6, TransposedBlock, MatMulBlock
<1>12. first = Plus(text, turned)
  BY <1>2, <1>6, <1>11 DEF FirstState
<1>13. d[Rounds] = Plus(first, image)
  <2>1. MovedBack(d[Rounds - 1]) = first
    BY <1>10, <1>11, MoveUndone
  <2>2. Rounds - Rounds = 0
    BY <1>5
  <2> QED
    BY <1>2, <1>9, <1>11, <2>1, <2>2 DEF NextState
<1>14. PICK rest \in Block : rest = Plus(turned, image)
  BY PlusBlock
<1>15. d[Rounds] = Plus(text, rest)
  BY <1>12, <1>13, <1>14, PlusGrouped
<1>16. Transposed(d[Rounds]) = Plus(data, Transposed(rest))
  <2>1. Transposed(Plus(text, rest)) = Plus(Transposed(text), Transposed(rest))
    BY TransposedSum
  <2>2. Transposed(text) = data
    BY <1>11, TransposedSum
  <2> QED
    BY <1>15, <2>1, <2>2
<1> QED
  BY <1>4, <1>8, <1>11, <1>14, <1>16

\* So that the calls of the block cipher are as DecryptsUpToKey says.
LEMMA AesCall == CallsInv => DecryptsUpToKey
<1> SUFFICES ASSUME CallsInv, Returned("aes") PROVE DecryptsUpToKey
  BY DEF DecryptsUpToKey
<1>1. in \in AesInputs /\ result = Computed("aes", in)
  BY DEF CallsInv, Returned
<1>2. in.data \in Block /\ in.key \in Block
  BY <1>1, AesInputsAssumption
<1>3. result = Decrypto(Encrypto(in.data, in.key), in.key)
  BY <1>1 DEF Computed
<1> QED
  BY <1>2, <1>3, DecryptoOfEncrypto DEF DecryptsUpToKey

\* Whatever the data, the key, the S-box, the field and the number of rounds are,
\* aes_128_decrypto gives back what aes_128_encrypto was given with the key and its
\* image under aes_suffix_inverse added: DecryptsUpToKey.
THEOREM DecryptionUpToKey == PrimitivesSpec => []DecryptsUpToKey
BY CallsInductive, AesCall, PTL

----------------------------------------------------------------------------
(* The multiplication of GHASH.                                            *)

\* A polynomial times x, and times x to the power i.
Raised(p) == {e + 1 : e \in p}
RaisedBy(p, i) == {e + i : e \in p}

LEMMA GhashNat ==
  /\ GhashBits \in Nat /\ GhashBits > 0
  /\ \A e \in GhashReduction : e \in 0 .. GhashBits - 1
BY GhashAssumption

\* The bits of a polynomial whose power top has been replaced.
LEMMA ReplaceBit ==
  ASSUME NEW p \in SUBSET Int, NEW top \in Int, top >= GhashBits, NEW e \in Int
  PROVE  /\ Replace(p, top) \in SUBSET Int
         /\ e \in Replace(p, top)
              <=> e # top /\ ~(e \in p <=> top \in p /\ e - (top - GhashBits) \in GhashReduction)
<1> DEFINE low == {f + (top - GhashBits) : f \in GhashReduction}
<1>1. low \in SUBSET Int
  BY GhashNat
<1>2. \A f \in Int : f \in low <=> f - (top - GhashBits) \in GhashReduction
  <2> SUFFICES ASSUME NEW f \in Int PROVE f \in low <=> f - (top - GhashBits) \in GhashReduction
    OBVIOUS
  <2>1. ASSUME NEW g \in GhashReduction, f = g + (top - GhashBits)
        PROVE  f - (top - GhashBits) \in GhashReduction
    <3>1. f - (top - GhashBits) = g
      BY <2>1, GhashNat
    <3> QED
      BY <3>1
  <2>2. ASSUME f - (top - GhashBits) \in GhashReduction PROVE f \in low
    <3>1. f = (f - (top - GhashBits)) + (top - GhashBits)
      BY GhashNat
    <3> QED
      BY <2>2, <3>1
  <2> QED
    BY <2>1, <2>2
<1>3. top \notin low
  BY <1>2, GhashNat
<1>4. Replace(p, top) = IF top \in p THEN SymDiff(p \ {top}, low) ELSE p
  BY DEF Replace
<1> HIDE DEF low
<1>5. CASE top \in p
  <2>1. e \in SymDiff(p \ {top}, low) <=> ~(e \in p \ {top} <=> e \in low)
    BY SymDiffBit
  <2>2. SymDiff(p \ {top}, low) \in SUBSET Int
    BY <1>1 DEF SymDiff
  <2> QED
    BY <1>2, <1>3, <1>4, <1>5, <2>1, <2>2
<1>6. CASE top \notin p
  BY <1>4, <1>6
<1> QED
  BY <1>5, <1>6

\* Sets of integers with the same members are the same.
LEMMA SamePolynomials ==
  ASSUME NEW p \in SUBSET Int, NEW q \in SUBSET Int, \A e \in Int : e \in p <=> e \in q
  PROVE  p = q
OBVIOUS

LEMMA SumOfPolynomials ==
  ASSUME NEW p \in SUBSET Int, NEW q \in SUBSET Int
  PROVE  SymDiff(p, q) \in SUBSET Int
BY DEF SymDiff

LEMMA RaisedBit ==
  ASSUME NEW p \in SUBSET Int
  PROVE  Raised(p) \in SUBSET Int /\ \A e \in Int : e \in Raised(p) <=> e - 1 \in p
BY DEF Raised

\* A replacement is linear, and the same one power higher.
LEMMA ReplaceSum ==
  ASSUME NEW p \in SUBSET Int, NEW q \in SUBSET Int, NEW top \in Int, top >= GhashBits
  PROVE  Replace(SymDiff(p, q), top) = SymDiff(Replace(p, top), Replace(q, top))
<1>1. PICK s, l, x, y, r : /\ s = SymDiff(p, q) /\ l = Replace(s, top) /\ x = Replace(p, top)
                           /\ y = Replace(q, top) /\ r = SymDiff(x, y)
  OBVIOUS
<1>2. s \in SUBSET Int
  BY <1>1, SumOfPolynomials
<1>3. l \in SUBSET Int /\ x \in SUBSET Int /\ y \in SUBSET Int
  BY <1>1, <1>2, ReplaceBit
<1>4. r \in SUBSET Int
  BY <1>1, <1>3, SumOfPolynomials
<1>5. ASSUME NEW e \in Int PROVE e \in l <=> e \in r
  <2>1. PICK f : f = e - (top - GhashBits)
    OBVIOUS
  <2>2. /\ e \in l <=> e # top /\ ~(e \in s <=> top \in s /\ f \in GhashReduction)
        /\ e \in x <=> e # top /\ ~(e \in p <=> top \in p /\ f \in GhashReduction)
        /\ e \in y <=> e # top /\ ~(e \in q <=> top \in q /\ f \in GhashReduction)
    BY <1>1, <1>2, <2>1, ReplaceBit
  <2>3. /\ e \in s <=> ~(e \in p <=> e \in q)
        /\ top \in s <=> ~(top \in p <=> top \in q)
        /\ e \in r <=> ~(e \in x <=> e \in y)
    BY <1>1, SymDiffBit
  <2> QED
    BY <2>2, <2>3
<1>6. l = r
  BY <1>3, <1>4, <1>5, SamePolynomials
<1> QED
  BY <1>1, <1>6

LEMMA ReplaceRaised ==
  ASSUME NEW p \in SUBSET Int, NEW top \in Int, top >= GhashBits
  PROVE  Replace(Raised(p), top + 1) = Raised(Replace(p, top))
<1>1. PICK s, l, x, r, up : /\ s = Raised(p) /\ l = Replace(s, up) /\ x = Replace(p, top)
                            /\ r = Raised(x) /\ up = top + 1
  OBVIOUS
<1>2. s \in SUBSET Int /\ \A e \in Int : e \in s <=> e - 1 \in p
  BY <1>1, RaisedBit
<1>3. up \in Int /\ up >= GhashBits
  BY <1>1, GhashNat
<1>4. l \in SUBSET Int /\ x \in SUBSET Int
  BY <1>1, <1>2, <1>3, ReplaceBit
<1>5. r \in SUBSET Int /\ \A e \in Int : e \in r <=> e - 1 \in x
  BY <1>1, <1>4, RaisedBit
<1>6. ASSUME NEW e \in Int PROVE e \in l <=> e \in r
  <2>1. PICK d \in Int : d = e - 1
    OBVIOUS
  <2>2. e \in l <=> e # up /\ ~(e \in s <=> up \in s /\ e - (up - GhashBits) \in GhashReduction)
    BY <1>1, <1>2, <1>3, ReplaceBit
  <2>3. d \in x <=> d # top /\ ~(d \in p <=> top \in p /\ d - (top - GhashBits) \in GhashReduction)
    BY <1>1, ReplaceBit
  <2>4. e - (up - GhashBits) = d - (top - GhashBits) /\ (e = up <=> d = top) /\ up - 1 = top
    BY <1>1, <2>1, GhashNat
  <2>5. (e \in s <=> d \in p) /\ (up \in s <=> top \in p) /\ (e \in r <=> d \in x)
    BY <1>2, <1>3, <1>5, <2>1, <2>4
  <2> QED
    BY <2>2, <2>3, <2>4, <2>5
<1>7. l = r
  BY <1>4, <1>5, <1>6, SamePolynomials
<1> QED
  BY <1>1, <1>7

\* A polynomial from whose powers above k the highest GhashBits - 1 are replaced
\* one after the other.
Replaces(p, g) ==
  g = [k \in 0 .. GhashBits - 1 |-> IF k = 0 THEN p ELSE Replace(g[k - 1], 2 * GhashBits - 1 - k)]

LEMMA ReplacesExists ==
  ASSUME NEW p \in SUBSET Int
  PROVE  \E g : Replaces(p, g)
<1> DEFINE n == GhashBits - 1
           S == SUBSET Int
           G == [0 .. n -> S]
           value(k, g) == IF k = 0 THEN p ELSE Replace(g[k - 1], 2 * GhashBits - 1 - k)
           step == [x \in (0 .. n) \X G |-> value(x[1], x[2])]
<1>1. n \in Nat
  BY GhashNat
<1>2. ASSUME NEW k \in 0 .. n, NEW g \in G PROVE value(k, g) \in S
  <2>1. ASSUME k # 0 PROVE value(k, g) \in S
    <3>1. k - 1 \in 0 .. n
      BY <1>1, <2>1
    <3>2. g[k - 1] \in SUBSET Int
      BY <3>1
    <3>3. PICK top \in Int : top = 2 * GhashBits - 1 - k /\ top >= GhashBits
      BY GhashNat
    <3>4. Replace(g[k - 1], top) \in SUBSET Int
      BY <3>2, <3>3, ReplaceBit
    <3> QED
      BY <2>1, <3>3, <3>4
  <2> QED
    BY <2>1
<1>3. \A k \in 0 .. n, g \in G : step[<<k, g>>] = value(k, g)
  OBVIOUS
<1>4. step \in [(0 .. n) \X G -> S]
  <2> HIDE DEF G, S, n, value
  <2> QED
    BY <1>2
<1>5. ASSUME NEW k \in 0 .. n, NEW g \in G, NEW h \in G, \A j \in 0 .. k - 1 : g[j] = h[j]
      PROVE  step[<<k, g>>] = step[<<k, h>>]
  <2>1. k # 0 => g[k - 1] = h[k - 1]
    BY <1>1, <1>5
  <2>2. value(k, g) = value(k, h)
    BY <2>1
  <2> HIDE DEF step, G, value
  <2> QED
    BY <1>3, <2>2
<1>6. PICK f \in G : Steps(n, step, f)
  <2> HIDE DEF step, n, S
  <2>1. p \in S
    BY DEF S
  <2> QED
    BY <1>1, <1>4, <1>5, <2>1, StepsExist
<1>7. f = [k \in 0 .. n |-> step[<<k, f>>]]
  BY <1>6, Zenon DEF Steps
<1>8. f = [k \in 0 .. n |-> value(k, f)]
  <2> HIDE DEF step, value
  <2> QED
    BY <1>3, <1>7
<1> QED
  BY <1>8, Zenon DEF Replaces

\* The last of them is what Reduced gives.
LEMMA ReducedIs ==
  ASSUME NEW p \in SUBSET Int
  PROVE  \E g : /\ Reduced(p) = g[GhashBits - 1]
                /\ \A k \in 0 .. GhashBits - 1 :
                     /\ g[k] \in SUBSET Int
                     /\ g[k] = IF k = 0 THEN p ELSE Replace(g[k - 1], 2 * GhashBits - 1 - k)
<1>1. \E h : Replaces(p, h)
  BY ReplacesExists
<1>2. PICK g : Replaces(p, g) /\ Reduced(p) = g[GhashBits - 1]
  BY <1>1, ZenonT(40) DEF Replaces, Reduced
<1>3. \A k \in 0 .. GhashBits - 1 :
        g[k] = IF k = 0 THEN p ELSE Replace(g[k - 1], 2 * GhashBits - 1 - k)
  BY <1>2, Zenon DEF Replaces
<1> DEFINE n == GhashBits - 1
           P == {k \in 0 .. n : g[k] \in SUBSET Int}
<1>4. n \in Nat
  BY GhashNat
<1>5. ASSUME NEW k \in 0 .. n, \A j \in 0 .. k - 1 : j \in P PROVE k \in P
  <2>1. CASE k = 0
    BY <1>3, <2>1
  <2>2. CASE k # 0
    <3>1. g[k - 1] \in SUBSET Int
      <4>1. k - 1 \in 0 .. k - 1
        BY <2>2
      <4> QED
        BY <1>5, <4>1
    <3>2. PICK top \in Int : top = 2 * GhashBits - 1 - k /\ top >= GhashBits
      BY GhashNat
    <3>3. Replace(g[k - 1], top) \in SUBSET Int
      BY <3>1, <3>2, ReplaceBit
    <3> QED
      BY <1>3, <2>2, <3>2, <3>3
  <2> QED
    BY <2>1, <2>2
<1>6. \A k \in 0 .. n : k \in P
  <2> HIDE DEF P, n
  <2> QED
    BY <1>4, <1>5, OneAfterAnother
<1> QED
  BY <1>2, <1>3, <1>6

\* To reduce is linear.
LEMMA ReducedSum ==
  ASSUME NEW p \in SUBSET Int, NEW q \in SUBSET Int
  PROVE  /\ Reduced(SymDiff(p, q)) = SymDiff(Reduced(p), Reduced(q))
         /\ Reduced(p) \in SUBSET Int
<1> DEFINE n == GhashBits - 1
<1>1. n \in Nat /\ n \in 0 .. n
  BY GhashNat
<1>2. PICK s \in SUBSET Int : s = SymDiff(p, q)
  BY SumOfPolynomials
<1>3. PICK f : /\ Reduced(p) = f[n]
               /\ \A k \in 0 .. n :
                    /\ f[k] \in SUBSET Int
                    /\ f[k] = IF k = 0 THEN p ELSE Replace(f[k - 1], 2 * GhashBits - 1 - k)
  BY ReducedIs
<1>4. PICK g : /\ Reduced(q) = g[n]
               /\ \A k \in 0 .. n :
                    /\ g[k] \in SUBSET Int
                    /\ g[k] = IF k = 0 THEN q ELSE Replace(g[k - 1], 2 * GhashBits - 1 - k)
  BY ReducedIs
<1>5. PICK h : /\ Reduced(s) = h[n]
               /\ \A k \in 0 .. n :
                    /\ h[k] \in SUBSET Int
                    /\ h[k] = IF k = 0 THEN s ELSE Replace(h[k - 1], 2 * GhashBits - 1 - k)
  BY ReducedIs
<1> DEFINE P == {k \in 0 .. n : h[k] = SymDiff(f[k], g[k])}
<1>6. ASSUME NEW k \in 0 .. n, \A j \in 0 .. k - 1 : j \in P PROVE k \in P
  <2>1. CASE k = 0
    BY <1>2, <1>3, <1>4, <1>5, <2>1
  <2>2. CASE k # 0
    <3>1. k - 1 \in 0 .. k - 1 /\ k - 1 \in 0 .. n
      BY <1>1, <2>2
    <3>2. PICK x \in SUBSET Int, y \in SUBSET Int : x = f[k - 1] /\ y = g[k - 1]
      BY <1>3, <1>4, <3>1
    <3>3. PICK top \in Int : top = 2 * GhashBits - 1 - k /\ top >= GhashBits
      BY GhashNat
    <3>4. h[k - 1] = SymDiff(x, y)
      BY <1>6, <3>1, <3>2
    <3>5. h[k] = Replace(SymDiff(x, y), top) /\ f[k] = Replace(x, top) /\ g[k] = Replace(y, top)
      BY <1>3, <1>4, <1>5, <2>2, <3>2, <3>3, <3>4
    <3>6. Replace(SymDiff(x, y), top) = SymDiff(Replace(x, top), Replace(y, top))
      BY <3>3, ReplaceSum
    <3> QED
      BY <3>5, <3>6
  <2> QED
    BY <2>1, <2>2
<1>7. \A k \in 0 .. n : k \in P
  <2> HIDE DEF P, n
  <2> QED
    BY <1>1, <1>6, OneAfterAnother
<1> QED
  BY <1>1, <1>2, <1>3, <1>4, <1>5, <1>7

\* What has no power to be replaced is left as it is.
LEMMA ReducedSmall ==
  ASSUME NEW p \in SUBSET (0 .. GhashBits - 1)
  PROVE  Reduced(p) = p
<1> DEFINE n == GhashBits - 1
<1>1. n \in Nat /\ n \in 0 .. n /\ p \in SUBSET Int
  BY GhashNat
<1>2. PICK f : /\ Reduced(p) = f[n]
               /\ \A k \in 0 .. n :
                    /\ f[k] \in SUBSET Int
                    /\ f[k] = IF k = 0 THEN p ELSE Replace(f[k - 1], 2 * GhashBits - 1 - k)
  BY <1>1, ReducedIs
<1> DEFINE P == {k \in 0 .. n : f[k] = p}
<1>3. ASSUME NEW k \in 0 .. n, \A j \in 0 .. k - 1 : j \in P PROVE k \in P
  <2>1. CASE k = 0
    BY <1>2, <2>1
  <2>2. CASE k # 0
    <3>1. k - 1 \in 0 .. k - 1
      BY <1>1, <2>2
    <3>2. f[k - 1] = p
      BY <1>3, <3>1
    <3>3. 2 * GhashBits - 1 - k \notin p
      BY GhashNat
    <3>4. Replace(p, 2 * GhashBits - 1 - k) = p
      BY <3>3 DEF Replace
    <3> QED
      BY <1>2, <2>2, <3>2, <3>4
  <2> QED
    BY <2>1, <2>2
<1>4. \A k \in 0 .. n : k \in P
  <2> HIDE DEF P, n
  <2> QED
    BY <1>1, <1>3, OneAfterAnother
<1> QED
  BY <1>1, <1>2, <1>4

\* A product with x is reduced by one more replacement.
LEMMA ReducedRaised ==
  ASSUME NEW p \in SUBSET (0 .. 2 * GhashBits - 3), GhashBits > 1
  PROVE  Reduced(Raised(p)) = Replace(Raised(Reduced(p)), GhashBits)
<1> DEFINE n == GhashBits - 1
<1>1. /\ n \in Nat /\ n # 0 /\ n \in 0 .. n /\ n - 1 \in Nat /\ n - 1 \in 0 .. n - 1
      /\ 0 \in 0 .. n /\ 1 \in 0 .. n
  BY GhashNat
<1>2. p \in SUBSET Int
  BY GhashNat
<1>3. PICK s \in SUBSET Int : s = Raised(p)
  BY <1>2, RaisedBit
<1>4. PICK f : /\ Reduced(p) = f[n]
               /\ \A k \in 0 .. n :
                    /\ f[k] \in SUBSET Int
                    /\ f[k] = IF k = 0 THEN p ELSE Replace(f[k - 1], 2 * GhashBits - 1 - k)
  BY <1>2, ReducedIs
<1>5. PICK h : /\ Reduced(s) = h[n]
               /\ \A k \in 0 .. n :
                    /\ h[k] \in SUBSET Int
                    /\ h[k] = IF k = 0 THEN s ELSE Replace(h[k - 1], 2 * GhashBits - 1 - k)
  BY ReducedIs
<1>6. f[1] = p
  <2>1. f[1] = Replace(p, 2 * GhashBits - 1 - 1)
    <3>1. 1 - 1 = 0
      OBVIOUS
    <3> QED
      BY <1>1, <1>4, <3>1
  <2>2. 2 * GhashBits - 1 - 1 \notin p
    BY GhashNat
  <2> QED
    BY <2>1, <2>2 DEF Replace
<1> DEFINE P == {k \in 0 .. n - 1 : h[k] = Raised(f[k + 1])}
<1>7. ASSUME NEW k \in 0 .. n - 1, \A j \in 0 .. k - 1 : j \in P PROVE k \in P
  <2>1. CASE k = 0
    BY <1>1, <1>3, <1>5, <1>6, <2>1
  <2>2. CASE k # 0
    <3>1. /\ k - 1 \in 0 .. k - 1 /\ k \in 0 .. n /\ k + 1 \in 0 .. n /\ k + 1 # 0
          /\ (k - 1) + 1 = k /\ (k + 1) - 1 = k
      BY <1>1, <2>2
    <3>2. PICK x \in SUBSET Int : x = f[k]
      BY <1>4, <3>1
    <3>3. PICK top \in Int : top = 2 * GhashBits - 1 - (k + 1) /\ top >= GhashBits
      BY <3>1, GhashNat
    <3>4. 2 * GhashBits - 1 - k = top + 1
      BY <3>3, GhashNat
    <3>5. h[k - 1] = Raised(x)
      <4>1. k - 1 \in P
        BY <1>7, <3>1
      <4> QED
        BY <3>1, <3>2, <4>1
    <3>6. h[k] = Replace(Raised(x), top + 1)
      BY <1>5, <2>2, <3>1, <3>4, <3>5
    <3>7. f[k + 1] = Replace(x, top)
      BY <1>4, <3>1, <3>2, <3>3
    <3>8. Replace(Raised(x), top + 1) = Raised(Replace(x, top))
      BY <3>3, ReplaceRaised
    <3> QED
      BY <3>6, <3>7, <3>8
  <2> QED
    BY <2>1, <2>2
<1>8. \A k \in 0 .. n - 1 : k \in P
  <2> DEFINE m == n - 1
  <2>1. m \in Nat
    BY <1>1
  <2>2. \A k \in 0 .. m : (\A j \in 0 .. k - 1 : j \in P) => k \in P
    BY <1>7
  <2>3. \A k \in 0 .. m : k \in P
    <3> HIDE DEF P, m
    <3> QED
      BY <2>1, <2>2, OneAfterAnother
  <2> HIDE DEF P
  <2> QED
    BY <2>3
<1>9. h[n - 1] = Raised(f[n])
  <2>1. n - 1 \in P
    BY <1>1, <1>8
  <2>2. (n - 1) + 1 = n
    BY <1>1
  <2> QED
    BY <2>1, <2>2
<1>10. h[n] = Replace(h[n - 1], 2 * GhashBits - 1 - n) /\ 2 * GhashBits - 1 - n = GhashBits
  <2>1. 2 * GhashBits - 1 - n = GhashBits
    BY GhashNat
  <2>2. h[n] = IF n = 0 THEN s ELSE Replace(h[n - 1], 2 * GhashBits - 1 - n)
    BY <1>1, <1>5
  <2> QED
    BY <1>1, <2>1, <2>2
<1> QED
  BY <1>3, <1>4, <1>5, <1>9, <1>10

\* V_buff and Z_buff of ghash_multiplication, after i turns.
NextTerm(u) ==
  LET shifted == Raised(u)
  IN  IF GhashBits \in shifted THEN SymDiff(shifted \ {GhashBits}, GhashReduction) ELSE shifted
Terms(b, v) == v = [i \in 0 .. GhashBits - 1 |-> IF i = 0 THEN b ELSE NextTerm(v[i - 1])]
SumsUp(a, v, z) ==
  z = [i \in 0 .. GhashBits |->
         IF i = 0 THEN {} ELSE IF i - 1 \in a THEN SymDiff(z[i - 1], v[i - 1]) ELSE z[i - 1]]

\* A turn's shift is one replacement.
LEMMA NextTermIs ==
  ASSUME NEW u \in SUBSET Int
  PROVE  NextTerm(u) = Replace(Raised(u), GhashBits) /\ NextTerm(u) \in SUBSET Int
<1>1. {e + (GhashBits - GhashBits) : e \in GhashReduction} = GhashReduction
  <2>1. \A e \in GhashReduction : e + (GhashBits - GhashBits) = e
    BY GhashNat
  <2> QED
    BY <2>1
<1>2. NextTerm(u) = Replace(Raised(u), GhashBits)
  BY <1>1 DEF NextTerm, Replace
<1>3. Raised(u) \in SUBSET Int
  BY RaisedBit
<1> QED
  BY <1>2, <1>3, GhashNat, ReplaceBit

LEMMA TermsExist ==
  ASSUME NEW b \in SUBSET Int
  PROVE  \E v : Terms(b, v)
<1> DEFINE n == GhashBits - 1
           S == SUBSET Int
           G == [0 .. n -> S]
           value(i, g) == IF i = 0 THEN b ELSE NextTerm(g[i - 1])
           step == [x \in (0 .. n) \X G |-> value(x[1], x[2])]
<1>1. n \in Nat
  BY GhashNat
<1>2. ASSUME NEW i \in 0 .. n, NEW g \in G PROVE value(i, g) \in S
  <2>1. ASSUME i # 0 PROVE value(i, g) \in S
    <3>1. i - 1 \in 0 .. n
      BY <1>1, <2>1
    <3>2. g[i - 1] \in SUBSET Int
      BY <3>1
    <3> QED
      BY <2>1, <3>2, NextTermIs
  <2> QED
    BY <2>1
<1>3. \A i \in 0 .. n, g \in G : step[<<i, g>>] = value(i, g)
  OBVIOUS
<1>4. step \in [(0 .. n) \X G -> S]
  <2> HIDE DEF G, S, n, value
  <2> QED
    BY <1>2
<1>5. ASSUME NEW i \in 0 .. n, NEW g \in G, NEW h \in G, \A j \in 0 .. i - 1 : g[j] = h[j]
      PROVE  step[<<i, g>>] = step[<<i, h>>]
  <2>1. i # 0 => g[i - 1] = h[i - 1]
    BY <1>1, <1>5
  <2>2. value(i, g) = value(i, h)
    BY <2>1
  <2> HIDE DEF step, G, value
  <2> QED
    BY <1>3, <2>2
<1>6. PICK f \in G : Steps(n, step, f)
  <2> HIDE DEF step, n, S
  <2>1. b \in S
    BY DEF S
  <2> QED
    BY <1>1, <1>4, <1>5, <2>1, StepsExist
<1>7. f = [i \in 0 .. n |-> step[<<i, f>>]]
  BY <1>6, Zenon DEF Steps
<1>8. f = [i \in 0 .. n |-> value(i, f)]
  <2> HIDE DEF step, value
  <2> QED
    BY <1>3, <1>7
<1> QED
  BY <1>8, Zenon DEF Terms

LEMMA SumsExist ==
  ASSUME NEW a, NEW v, \A i \in 0 .. GhashBits - 1 : v[i] \in SUBSET Int
  PROVE  \E z : SumsUp(a, v, z)
<1> DEFINE n == GhashBits
           S == SUBSET Int
           G == [0 .. n -> S]
           value(i, g) ==
             IF i = 0 THEN {} ELSE IF i - 1 \in a THEN SymDiff(g[i - 1], v[i - 1]) ELSE g[i - 1]
           step == [x \in (0 .. n) \X G |-> value(x[1], x[2])]
<1>1. n \in Nat
  BY GhashNat
<1>2. ASSUME NEW i \in 0 .. n, NEW g \in G PROVE value(i, g) \in S
  <2>1. ASSUME i # 0 PROVE value(i, g) \in S
    <3>1. i - 1 \in 0 .. n /\ i - 1 \in 0 .. GhashBits - 1
      BY <1>1, <2>1
    <3>2. PICK x \in SUBSET Int, y \in SUBSET Int : x = g[i - 1] /\ y = v[i - 1]
      BY <3>1
    <3>3. SymDiff(x, y) \in SUBSET Int
      BY SumOfPolynomials
    <3> QED
      BY <2>1, <3>2, <3>3
  <2> QED
    BY <2>1
<1>3. \A i \in 0 .. n, g \in G : step[<<i, g>>] = value(i, g)
  OBVIOUS
<1>4. step \in [(0 .. n) \X G -> S]
  <2> HIDE DEF G, S, n, value
  <2> QED
    BY <1>2
<1>5. ASSUME NEW i \in 0 .. n, NEW g \in G, NEW h \in G, \A j \in 0 .. i - 1 : g[j] = h[j]
      PROVE  step[<<i, g>>] = step[<<i, h>>]
  <2>1. i # 0 => g[i - 1] = h[i - 1]
    BY <1>1, <1>5
  <2>2. value(i, g) = value(i, h)
    BY <2>1
  <2> HIDE DEF step, G, value
  <2> QED
    BY <1>3, <2>2
<1>6. PICK f \in G : Steps(n, step, f)
  <2> HIDE DEF step, n, S
  <2>1. {} \in S
    BY DEF S
  <2> QED
    BY <1>1, <1>4, <1>5, <2>1, StepsExist
<1>7. f = [i \in 0 .. n |-> step[<<i, f>>]]
  BY <1>6, Zenon DEF Steps
<1>8. f = [i \in 0 .. n |-> value(i, f)]
  <2> HIDE DEF step, value
  <2> QED
    BY <1>3, <1>7
<1> QED
  BY <1>8, Zenon DEF SumsUp

\* V_buff holds b times x to the power i, reduced.
LEMMA TermsAre ==
  ASSUME NEW b \in SUBSET (0 .. GhashBits - 1), NEW v, Terms(b, v)
  PROVE  \A i \in 0 .. GhashBits - 1 :
           v[i] = Reduced(RaisedBy(b, i)) /\ RaisedBy(b, i) \in SUBSET Int /\ v[i] \in SUBSET Int
<1> DEFINE n == GhashBits - 1
           P == {i \in 0 .. n : v[i] = Reduced(RaisedBy(b, i))}
<1>1. n \in Nat
  BY GhashNat
<1>2. \A i \in 0 .. n : RaisedBy(b, i) \in SUBSET (i .. n + i)
  BY GhashNat DEF RaisedBy
<1>3. ASSUME NEW i \in 0 .. n, \A j \in 0 .. i - 1 : j \in P PROVE i \in P
  <2>1. v[i] = IF i = 0 THEN b ELSE NextTerm(v[i - 1])
    BY Zenon DEF Terms
  <2>2. CASE i = 0
    <3>1. \A e \in b : e + 0 = e
      BY GhashNat
    <3>2. RaisedBy(b, 0) = b
      BY <3>1 DEF RaisedBy
    <3> QED
      BY <2>1, <2>2, <3>2, ReducedSmall
  <2>3. CASE i # 0
    <3>1. i - 1 \in 0 .. i - 1 /\ i - 1 \in 0 .. n /\ GhashBits > 1
      BY <1>1, <2>3, GhashNat
    <3>2. PICK p : p = RaisedBy(b, i - 1)
      OBVIOUS
    <3>3. p \in SUBSET (0 .. 2 * GhashBits - 3) /\ p \in SUBSET Int
      <4>1. p \in SUBSET (i - 1 .. n + (i - 1))
        BY <1>2, <3>1, <3>2
      <4>2. \A e \in i - 1 .. n + (i - 1) : e \in 0 .. 2 * GhashBits - 3 /\ e \in Int
        BY <1>1, <3>1, GhashNat
      <4> QED
        BY <4>1, <4>2
    <3>4. v[i - 1] = Reduced(p)
      <4>1. i - 1 \in P
        BY <1>3, <3>1
      <4> QED
        BY <3>2, <4>1
    <3>5. Reduced(p) \in SUBSET Int
      BY <3>3, ReducedSum
    <3>6. v[i] = Replace(Raised(Reduced(p)), GhashBits)
      BY <2>1, <2>3, <3>4, <3>5, NextTermIs
    <3>7. v[i] = Reduced(Raised(p))
      BY <3>1, <3>3, <3>6, ReducedRaised
    <3>8. Raised(p) = RaisedBy(b, i)
      <4>1. Raised(p) = {e + 1 : e \in {f + (i - 1) : f \in b}}
        BY <3>2 DEF Raised, RaisedBy
      <4>2. \A f \in b : (f + (i - 1)) + 1 = f + i
        BY GhashNat
      <4>3. {e + 1 : e \in {f + (i - 1) : f \in b}} = {f + i : f \in b}
        BY <4>2
      <4> QED
        BY <4>1, <4>3 DEF RaisedBy
    <3> QED
      BY <3>7, <3>8
  <2> QED
    BY <2>2, <2>3
<1>4. \A i \in 0 .. n : i \in P
  <2> HIDE DEF P, n
  <2> QED
    BY <1>1, <1>3, OneAfterAnother
<1>5. ASSUME NEW i \in 0 .. n PROVE RaisedBy(b, i) \in SUBSET Int
  BY <1>1, <1>2
<1>6. \A i \in 0 .. n : v[i] = Reduced(RaisedBy(b, i))
  BY <1>4
<1> QED
  BY <1>5, <1>6, ReducedSum

LEMMA GhashIs ==
  ASSUME NEW a, NEW b \in SUBSET (0 .. GhashBits - 1)
  PROVE  \E v, z : /\ Terms(b, v) /\ SumsUp(a, v, z)
                   /\ GhashMultiplication(a, b, GhashBits, GhashReduction) = z[GhashBits]
<1>1. PICK v : v = CHOOSE x : Terms(b, x)
  OBVIOUS
<1>2. Terms(b, v)
  <2>1. \E x : Terms(b, x)
    BY GhashNat, TermsExist
  <2> QED
    BY <1>1, <2>1, Zenon
<1>3. PICK z : z = CHOOSE x : SumsUp(a, v, x)
  OBVIOUS
<1>4. SumsUp(a, v, z)
  <2>1. \E x : SumsUp(a, v, x)
    BY <1>2, TermsAre, SumsExist
  <2> QED
    BY <1>3, <2>1, Zenon
<1>5. GhashMultiplication(a, b, GhashBits, GhashReduction)
        = (CHOOSE x : SumsUp(a, (CHOOSE y : Terms(b, y)), x))[GhashBits]
  BY ZenonT(40) DEF GhashMultiplication, SumsUp, Terms, NextTerm, Raised
<1> QED
  BY <1>1, <1>2, <1>3, <1>4, <1>5

\* The products of the terms of a below x to the power i with those of b: those
\* whose powers add up to n, and the powers for which their number is odd.
Products(a, b, i, n) == {t \in a \X b : t[1] < i /\ t[1] + t[2] = n}
OddPowers(a, b, i) == {n \in 0 .. 2 * GhashBits - 2 : Cardinality(Products(a, b, i, n)) % 2 = 1}

\* One more term of a adds b times its power.
LEMMA OneMoreTerm ==
  ASSUME NEW a \in SUBSET (0 .. GhashBits - 1), NEW b \in SUBSET (0 .. GhashBits - 1),
         NEW i \in 0 .. GhashBits - 1
  PROVE  OddPowers(a, b, i + 1)
           = IF i \in a THEN SymDiff(OddPowers(a, b, i), RaisedBy(b, i)) ELSE OddPowers(a, b, i)
<1>1. IsFiniteSet(a \X b)
  <2>1. IsFiniteSet(0 .. GhashBits - 1)
    BY GhashNat, FS_Interval
  <2>2. IsFiniteSet(a) /\ IsFiniteSet(b)
    BY <2>1, FS_Subset
  <2> QED
    BY <2>2, FS_Product
<1>2. \A n : IsFiniteSet(Products(a, b, i, n))
  BY <1>1, FS_Subset DEF Products
<1>3. \A e \in a : e \in Nat
  BY GhashNat
<1>4. \A e \in b : e \in Nat
  BY GhashNat
<1>5. \A t \in a \X b : t[1] \in Nat /\ t[2] \in Nat
  BY <1>3, <1>4
<1>6. \A t \in a \X b : t[1] < i + 1 <=> t[1] < i \/ t[1] = i
  BY <1>5
<1>7. ASSUME i \notin a PROVE OddPowers(a, b, i + 1) = OddPowers(a, b, i)
  <2>1. \A t \in a \X b : t[1] # i
    BY <1>7
  <2>2. \A n : Products(a, b, i + 1, n) = Products(a, b, i, n)
    BY <1>6, <2>1 DEF Products
  <2> QED
    BY <2>2 DEF OddPowers
<1>8. ASSUME i \in a PROVE OddPowers(a, b, i + 1) = SymDiff(OddPowers(a, b, i), RaisedBy(b, i))
  <2>1. \A n \in Int : n \in RaisedBy(b, i) <=> n - i \in b
    BY <1>4 DEF RaisedBy
  <2>2. RaisedBy(b, i) \subseteq 0 .. 2 * GhashBits - 2
    BY GhashNat DEF RaisedBy
  <2>3. ASSUME NEW n \in 0 .. 2 * GhashBits - 2
        PROVE  n \in OddPowers(a, b, i + 1) <=> ~(n \in OddPowers(a, b, i) <=> n \in RaisedBy(b, i))
    <3>1. PICK x, y, m : /\ x = Products(a, b, i, n) /\ y = Products(a, b, i + 1, n) /\ m = n - i
      OBVIOUS
    <3>2. n \in OddPowers(a, b, i) <=> Cardinality(x) % 2 = 1
      BY <3>1 DEF OddPowers
    <3>3. n \in OddPowers(a, b, i + 1) <=> Cardinality(y) % 2 = 1
      BY <3>1 DEF OddPowers
    <3>4. n \in RaisedBy(b, i) <=> m \in b
      BY <2>1, <3>1
    <3>5. IsFiniteSet(x) /\ Cardinality(x) \in Nat /\ <<i, m>> \notin x
      <4>1. IsFiniteSet(x)
        BY <1>2, <3>1
      <4>2. Cardinality(x) \in Nat
        BY <4>1, FS_CardinalityType
      <4>3. \A t \in x : t[1] # i
        BY <1>5, <3>1 DEF Products
      <4> QED
        BY <4>1, <4>2, <4>3
    <3>6. CASE m \in b
      <4>1. y = x \cup {<<i, m>>}
        <5>1. <<i, m>> \in y
          BY <1>8, <3>1, <3>6, <1>4 DEF Products
        <5>2. x \subseteq y
          BY <1>6, <3>1 DEF Products
        <5>3. ASSUME NEW t \in y, t \notin x PROVE t = <<i, m>>
          <6>1. t \in a \X b /\ t[1] = i /\ t[1] + t[2] = n
            BY <1>6, <3>1, <5>3 DEF Products
          <6>2. t[2] = m
            BY <1>5, <3>1, <6>1
          <6> QED
            BY <6>1, <6>2
        <5> QED
          BY <5>1, <5>2, <5>3
      <4>2. Cardinality(y) = Cardinality(x) + 1
        BY <3>5, <4>1, FS_AddElement
      <4>3. PICK c \in Nat : c = Cardinality(x)
        BY <3>5
      <4>4. (c + 1) % 2 = 1 <=> ~(c % 2 = 1)
        OBVIOUS
      <4> QED
        BY <3>2, <3>3, <3>4, <3>6, <4>2, <4>3, <4>4
    <3>7. CASE m \notin b
      <4>1. \A t \in a \X b : t[1] + t[2] = n => t[1] # i
        <5> SUFFICES ASSUME NEW t \in a \X b, t[1] + t[2] = n, t[1] = i PROVE FALSE
          OBVIOUS
        <5>1. t[2] = m /\ t[2] \in b
          BY <1>5, <3>1
        <5> QED
          BY <3>7, <5>1
      <4>2. y = x
        BY <1>6, <3>1, <4>1 DEF Products
      <4> QED
        BY <3>2, <3>3, <3>4, <3>7, <4>2
    <3> QED
      BY <3>6, <3>7
  <2>4. PICK p, q, r : p = OddPowers(a, b, i + 1) /\ q = OddPowers(a, b, i) /\ r = RaisedBy(b, i)
    OBVIOUS
  <2>5. p \subseteq 0 .. 2 * GhashBits - 2 /\ q \subseteq 0 .. 2 * GhashBits - 2
    BY <2>4 DEF OddPowers
  <2>6. p = SymDiff(q, r)
    <3>1. \A e : e \in SymDiff(q, r) <=> ~(e \in q <=> e \in r)
      BY SymDiffBit
    <3> QED
      BY <2>2, <2>3, <2>4, <2>5, <3>1
  <2> QED
    BY <2>4, <2>6
<1> QED
  BY <1>7, <1>8

\* Z_buff holds the sum of the products, reduced.
LEMMA SumsAre ==
  ASSUME NEW a \in SUBSET (0 .. GhashBits - 1), NEW b \in SUBSET (0 .. GhashBits - 1),
         NEW v, Terms(b, v), NEW z, SumsUp(a, v, z)
  PROVE  \A i \in 0 .. GhashBits : z[i] = Reduced(OddPowers(a, b, i))
<1> DEFINE n == GhashBits
           P == {i \in 0 .. n : z[i] = Reduced(OddPowers(a, b, i))}
<1>1. n \in Nat
  BY GhashNat
<1>2. ASSUME NEW i \in 0 .. n, \A j \in 0 .. i - 1 : j \in P PROVE i \in P
  <2>1. z[i] = IF i = 0 THEN {} ELSE IF i - 1 \in a THEN SymDiff(z[i - 1], v[i - 1]) ELSE z[i - 1]
    BY Zenon DEF SumsUp
  <2>2. CASE i = 0
    <3>1. \A t \in a \X b : ~(t[1] < 0)
      <4>1. \A e \in a : ~(e < 0)
        BY GhashNat
      <4> QED
        BY <4>1
    <3>2. \A m : Products(a, b, 0, m) = {}
      BY <3>1 DEF Products
    <3>3. \A m : ~(Cardinality(Products(a, b, 0, m)) % 2 = 1)
      <4>1. \A m : Cardinality(Products(a, b, 0, m)) = 0
        BY <3>2, FS_EmptySet
      <4> QED
        BY <4>1
    <3>4. OddPowers(a, b, 0) = {}
      BY <3>3 DEF OddPowers
    <3>5. Reduced({}) = {}
      BY ReducedSmall
    <3> QED
      BY <2>1, <2>2, <3>4, <3>5
  <2>3. CASE i # 0
    <3>1. PICK j : j = i - 1
      OBVIOUS
    <3>2. j \in 0 .. i - 1 /\ j \in 0 .. GhashBits - 1 /\ j + 1 = i
      BY <1>1, <2>3, <3>1
    <3>3. PICK p \in SUBSET Int, q \in SUBSET Int : p = OddPowers(a, b, j) /\ q = RaisedBy(b, j)
      <4>1. OddPowers(a, b, j) \in SUBSET Int
        BY GhashNat DEF OddPowers
      <4>2. RaisedBy(b, j) \in SUBSET Int
        BY <3>2, TermsAre
      <4> QED
        BY <4>1, <4>2
    <3>4. z[j] = Reduced(p)
      <4>1. j \in P
        BY <1>2, <3>2
      <4> QED
        BY <3>3, <4>1
    <3>5. v[j] = Reduced(q)
      BY <3>2, <3>3, TermsAre
    <3>6. OddPowers(a, b, i) = IF j \in a THEN SymDiff(p, q) ELSE p
      BY <3>2, <3>3, OneMoreTerm
    <3>7. z[i] = IF j \in a THEN SymDiff(Reduced(p), Reduced(q)) ELSE Reduced(p)
      BY <2>1, <2>3, <3>1, <3>4, <3>5
    <3>8. Reduced(SymDiff(p, q)) = SymDiff(Reduced(p), Reduced(q))
      BY ReducedSum
    <3> QED
      BY <3>6, <3>7, <3>8
  <2> QED
    BY <2>2, <2>3
<1>3. \A i \in 0 .. n : i \in P
  <2> HIDE DEF P, n
  <2> QED
    BY <1>1, <1>2, OneAfterAnother
<1> QED
  BY <1>3

LEMMA GhashCall == CallsInv => GhashMultiplies
<1> SUFFICES ASSUME CallsInv, Returned("ghash") PROVE GhashMultiplies
  BY DEF GhashMultiplies
<1>1. in \in GhashInputs /\ result = Computed("ghash", in)
  BY DEF CallsInv, Returned
<1>2. PICK a \in SUBSET (0 .. GhashBits - 1), b \in SUBSET (0 .. GhashBits - 1) : a = in.a /\ b = in.b
  BY <1>1 DEF GhashInputs
<1>3. result = GhashMultiplication(a, b, GhashBits, GhashReduction)
  BY <1>1, <1>2 DEF Computed
<1>4. PICK v, z : /\ Terms(b, v) /\ SumsUp(a, v, z)
                  /\ GhashMultiplication(a, b, GhashBits, GhashReduction) = z[GhashBits]
  BY GhashIs
<1>5. result = Reduced(OddPowers(a, b, GhashBits))
  <2>1. GhashBits \in 0 .. GhashBits
    BY GhashNat
  <2> QED
    BY <1>3, <1>4, <2>1, SumsAre
<1>6. OddPowers(a, b, GhashBits)
        = {n \in 0 .. 2 * GhashBits - 2 : Cardinality({t \in a \X b : t[1] + t[2] = n}) % 2 = 1}
  <2>1. \A t \in a \X b : t[1] < GhashBits
    <3>1. \A e \in a : e < GhashBits
      BY GhashNat
    <3> QED
      BY <3>1
  <2>2. \A n : Products(a, b, GhashBits, n) = {t \in a \X b : t[1] + t[2] = n}
    BY <2>1 DEF Products
  <2> QED
    BY <2>2 DEF OddPowers
<1> QED
  BY <1>2, <1>5, <1>6, Zenon DEF GhashMultiplies

\* Whatever the number of bits and the reduction are, ghash_multiplication is the
\* product of its two polynomials, reduced while it is made as it would be at the end
\* (tls_crypto_aes.cpp:264-294): GhashMultiplies.
THEOREM GhashIsProduct == PrimitivesSpec => []GhashMultiplies
BY CallsInductive, GhashCall, PTL
=============================================================================
