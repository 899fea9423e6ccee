---------------------------- MODULE CipherModes ----------------------------
(***************************************************************************)
(* CBC, CTR and GCM of algorithm/tls_crypto_aes.cpp over an ideal cipher.  *)
(* A byte is a set of atoms, its sum with another the symmetric difference; *)
(* the cipher makes atoms of its own of every block it is given, so two    *)
(* blocks are equal only if the code computes them from the same data.  An *)
(* atom is <<kind, origin, place>>.  One key is in use throughout.         *)
(***************************************************************************)
EXTENDS Integers, Sequences, FiniteSetsExt

CONSTANTS
  BlockBytes,     \* 16
  NonceBytes      \* 12

ASSUME BlockAssumption ==
  BlockBytes \in Nat \ {0} /\ NonceBytes \in 1 .. BlockBytes - 1

Atoms(kind, origin, n) == [j \in 1 .. n |-> {<<kind, origin, j>>}]
Zeros == [j \in 1 .. BlockBytes |-> {}]
Sum(s, t) == [j \in DOMAIN s |-> SymDiff(s[j], t[j])]

Cipher(block) == Atoms("cipher", block, BlockBytes)

\* aes_128_decrypto: what was encrypted comes back with delta added to it, a
\* block that depends on the key alone (see DecryptsUpToKey of MCPrimitives).
Decipher(block, delta) ==
  LET sources == {a \in block[1] : a[1] = "cipher" /\ block = Cipher(a[2])}
  IN  IF sources = {} THEN Atoms("decipher", block, BlockBytes)
      ELSE Sum((CHOOSE a \in sources : TRUE)[2], delta)

\* The 0-based block that byte j of an array is in, and its place in it.
RowOf(j) == (j - 1) \div BlockBytes
Place(j) == ((j - 1) % BlockBytes) + 1

\* Block i of an array, and the array with it overwritten.
BlockOf(data, i) == SubSeq(data, i * BlockBytes + 1, (i + 1) * BlockBytes)
Overwrite(data, i, block) ==
  [j \in DOMAIN data |-> IF RowOf(j) = i THEN block[Place(j)] ELSE data[j]]

\* The loop of both directions of CBC: turn(before, i) is what is written over
\* block i of the array as the earlier turns have left it.
InPlace(data, turn(_, _)) ==
  LET after[n \in 0 .. Len(data) \div BlockBytes] ==
        IF n = 0 THEN data ELSE Overwrite(after[n - 1], n - 1, turn(after[n - 1], n - 1))
  IN  after[Len(data) \div BlockBytes]

\* p_data[(i - 1) * block_size] is read from the array that is written.
PreviousIsIv(iv, data, i) == iv

Previous(iv, data, i) == IF i = 0 THEN iv ELSE BlockOf(data, i - 1)

CbcEncrypto(iv, data) ==
  InPlace(data, LAMBDA m, i : Cipher(Sum(Previous(iv, m, i), BlockOf(m, i))))

CbcDecrypto(iv, data, delta) ==
  InPlace(data, LAMBDA m, i : Sum(Previous(iv, m, i), Decipher(BlockOf(m, i), delta)))

\* The key stream.  Turn i puts byte i of the nonce into the buffer, in which
\* the other ones are what the cipher left there, and then the counter, which
\* lies over byte i when i has passed the nonce.  For i >= BlockBytes the byte
\* is written beyond the buffer, so blocks <= BlockBytes is presumed.
KeyStreamLate(nonce, blocks) ==
  LET buffer[i \in 0 .. blocks - 1] ==
        Cipher([j \in 1 .. BlockBytes |->
                  IF j > NonceBytes THEN {<<"counter", i + 1, j>>}
                  ELSE IF j = i THEN nonce[j]
                  ELSE IF i = 0 THEN {} ELSE buffer[i - 1][j]])
  IN  buffer

KeyStream(nonce, blocks) ==
  LET buffer[i \in 0 .. blocks - 1] ==
        Cipher([j \in 1 .. BlockBytes |->
                  IF j > NonceBytes THEN {<<"counter", i + 1, j>>}
                  ELSE IF j = i + 1 THEN nonce[j]
                  ELSE IF i = 0 THEN {} ELSE buffer[i - 1][j]])
  IN  buffer

\* tls_aes_128_CTR_encrypto, and _decrypto: only whole blocks are reached.
CtrEncrypto(nonce, data) ==
  LET blocks == Len(data) \div BlockBytes
      stream == KeyStream(nonce, blocks)
  IN  [j \in DOMAIN data |->
         IF RowOf(j) < blocks THEN SymDiff(data[j], stream[RowOf(j)][Place(j)]) ELSE data[j]]

\* ghash_multiplication of polynomials as sets of exponents, modulo one of
\* degree width whose lower terms are low: 128 and the bits of 0xe1.  After i
\* turns V_buff is v[i], and z[i] is Z_buff.
GhashMultiplicationCutOff(a, b, width, low) ==
  LET v[i \in 0 .. width - 1] ==
        IF i = 0 THEN b ELSE {e + 1 : e \in v[i - 1]} \ {width}
      z[i \in 0 .. width] ==
        IF i = 0 THEN {} ELSE IF i - 1 \in a THEN SymDiff(z[i - 1], v[i - 1]) ELSE z[i - 1]
  IN  z[width]

GhashMultiplication(a, b, width, low) ==
  LET v[i \in 0 .. width - 1] ==
        IF i = 0 THEN b
        ELSE LET shifted == {e + 1 : e \in v[i - 1]}
             IN  IF width \in shifted THEN SymDiff(shifted \ {width}, low) ELSE shifted
      z[i \in 0 .. width] ==
        IF i = 0 THEN {} ELSE IF i - 1 \in a THEN SymDiff(z[i - 1], v[i - 1]) ELSE z[i - 1]
  IN  z[width]

\* What ghash takes of one of its two inputs.  The loop over the blocks starts
\* at 1: the last block is left to the branch for one that is not full.
AbsorbedWithoutRest(data) ==
  LET looped == (Len(data) + BlockBytes - 1) \div BlockBytes - 1
  IN  [i \in 1 .. looped |-> BlockOf(data, i - 1)]

Absorbed(data) ==
  LET looped == (Len(data) + BlockBytes - 1) \div BlockBytes - 1
      rest == Len(data) % BlockBytes
      tail == SubSeq(data, Len(data) - rest + 1, Len(data))
  IN  [i \in 1 .. looped |-> BlockOf(data, i - 1)]
        \o (IF rest = 0 THEN <<>> ELSE <<tail \o SubSeq(Zeros, rest + 1, BlockBytes)>>)

\* The hash of a list of blocks, the last of which holds the two lengths: an
\* ideal function of it, whose result the code writes over the whole tag.
Ghash(auth, data) ==
  Atoms("ghash", <<Absorbed(auth), Absorbed(data), Len(auth), Len(data)>>, BlockBytes)

GcmEncrypto(nonce, auth, data) ==
  LET encrypted == CtrEncrypto(nonce, data)
  IN  [data |-> encrypted, tag |-> Ghash(auth, encrypted)]

\* The data is decrypted whatever the tag says; ret is -1 if it is refused.
GcmDecrypto(nonce, auth, data, tag) ==
  [data |-> CtrEncrypto(nonce, data), ret |-> IF Ghash(auth, data) = tag THEN Len(data) ELSE -1]
=============================================================================
