---------------------------- MODULE MCPrimitives ----------------------------
(* The block cipher, its modes on messages of up to MaxBlocks blocks, the    *)
(* product of GHASH and HMAC, one call at a time, against their definitions  *)
(* in the standards, or exactly as far from them as the code is.             *)
EXTENDS Aes, CipherModes, Hmac

CONSTANTS
  MaxBlocks,      \* of data for the modes
  AesInputs,      \* data and keys for the block cipher
  GhashBits,      \* bits of GHASH's polynomials, 128 in the code
  GhashReduction  \* the bits of 0xe1

\* For more blocks CTR writes beyond its buffer (see KeyStream).
ASSUME MaxBlocksAssumption == MaxBlocks \in 1 .. BlockBytes
ASSUME AesInputsAssumption == AesInputs \subseteq [data : Block, key : Block]
ASSUME GhashAssumption == GhashBits \in Nat \ {0} /\ GhashReduction \subseteq 0 .. GhashBits - 1

VARIABLES
  callee,   \* the function that is called
  in,       \* its arguments
  done,     \* it has returned
  result    \* what it has returned

callVars == <<callee, in, done, result>>

\* An S-box of four bits, and matrices with all bytes equal or one set.
Nibbles == <<6, 11, 5, 4, 2, 14, 7, 10, 9, 13, 15, 12, 3, 1, 0, 8>>
MCSBox ==
  [v \in Byte |-> {b \in 0 .. 3 : (Nibbles[MapThenSumSet(LAMBDA e : 2^e, v) + 1] \div 2^b) % 2 = 1}]
MCResultSize == [sha1 |-> 2, sha256 |-> 3, md5 |-> 2]

Flat(v) == [p \in (0 .. 3) \X (0 .. 3) |-> v]
OneByte(v) == {[Flat({}) EXCEPT ![c] = v] : c \in (0 .. 3) \X (0 .. 3)}
MCAesInputs ==
  [data : {Flat({}), Flat({1, 3})} \cup OneByte({0, 2}),
   key : {Flat({}), Flat({2}), Flat({0, 3})} \cup OneByte({1})]

GhashInputs == [a : SUBSET (0 .. GhashBits - 1), b : SUBSET (0 .. GhashBits - 1)]

HmacInputs ==
  LET sizes == 0 .. 2 * HashBlockSize + 1
  IN  [type : DOMAIN ResultSize, key : {Array("key", n) : n \in sizes},
       data : {Array("data", n) : n \in sizes}]

Iv == Atoms("iv", 0, BlockBytes)
GivenNonce == Atoms("nonce", 0, NonceBytes)
Other(s, j) == [s EXCEPT ![j] = {<<"other", 0, 0>>}]
UpTo(least) == least .. MaxBlocks * BlockBytes

\* Data of whole blocks, or all zero, and what decryption leaves added to a block.
CbcInputs ==
  LET sizes == {n * BlockBytes : n \in 1 .. MaxBlocks}
  IN  [data : {Atoms("data", 0, n) : n \in sizes} \cup {[j \in 1 .. n |-> {}] : n \in sizes},
       delta : {Zeros, Atoms("key", 0, BlockBytes)}]

CtrInputs == [data : {Atoms("data", 0, n) : n \in UpTo(0)}, place : 1 .. NonceBytes]

\* A message that is sealed, and the one byte of it that arrives as another one.
GcmInputs ==
  [auth : {Atoms("auth", 0, n) : n \in UpTo(1)}, data : {Atoms("data", 0, n) : n \in UpTo(0)},
   part : {"none", "tag", "nonce", "auth", "data"}, place : UpTo(1)]

PartLength(x) ==
  CASE x.part = "tag" -> BlockBytes
    [] x.part = "nonce" -> NonceBytes
    [] x.part = "auth" -> Len(x.auth)
    [] x.part = "data" -> Len(x.data)
    [] OTHER -> 1

PrimitivesInit ==
  /\ done = FALSE
  /\ result = <<>>
  /\ \/ callee = "aes" /\ in \in AesInputs
     \/ callee = "ghash" /\ in \in GhashInputs
     \/ callee = "hmac" /\ in \in HmacInputs
     \/ callee = "cbc" /\ in \in CbcInputs
     \/ callee = "ctr" /\ in \in CtrInputs
     \/ callee = "gcm" /\ in \in {x \in GcmInputs : x.place <= PartLength(x)}

\* The message of x, sealed, altered and opened.
Received(x, part, s) == IF x.part = part THEN Other(s, x.place) ELSE s
Opened(x) ==
  LET sealed == GcmEncrypto(GivenNonce, x.auth, x.data)
  IN  GcmDecrypto(Received(x, "nonce", GivenNonce), Received(x, "auth", x.auth),
                  Received(x, "data", sealed.data), Received(x, "tag", sealed.tag))

\* What function f returns for x.
Computed(f, x) ==
  CASE f = "aes" -> Decrypto(Encrypto(x.data, x.key), x.key)
    [] f = "ghash" -> GhashMultiplication(x.a, x.b, GhashBits, GhashReduction)
    [] f = "hmac" -> Hmac(x.type, x.key, x.data)
    [] f = "cbc" -> CbcEncrypto(Iv, x.data)
    [] f = "ctr" -> CtrEncrypto(GivenNonce, x.data)
    [] f = "gcm" -> Opened(x)

Call ==
  /\ ~done
  /\ done' = TRUE
  /\ result' = Computed(callee, in)
  /\ UNCHANGED <<callee, in>>

PrimitivesSpec == PrimitivesInit /\ [][Call]_callVars

Returned(f) == callee = f /\ done
----------------------------------------------------------------------------
\* aes_128_decrypto (tls_crypto_aes.cpp:151-173) undoes aes_128_encrypto but for
\* the key's block and its image under aes_suffix_inverse, which are left added
\* to the data; so it is the inverse exactly for the keys that the image is
\* equal to, as it is when all bytes are the same.
DecryptsUpToKey ==
  Returned("aes") =>
    LET key == Transposed(in.key)
    IN  result = Plus(in.data, Transposed(Plus(key, MatMul(SuffixInverse, key))))

\* The highest power of a product replaced, from 2 * GhashBits - 2 down to GhashBits.
Replace(p, top) ==
  IF top \in p THEN SymDiff(p \ {top}, {e + (top - GhashBits) : e \in GhashReduction}) ELSE p
Reduced(p) ==
  LET q[k \in 0 .. GhashBits - 1] ==
        IF k = 0 THEN p ELSE Replace(q[k - 1], 2 * GhashBits - 1 - k)
  IN  q[GhashBits - 1]

\* ghash_multiplication (264-294) is the product in the field: the sum of all
\* products of terms, reduced at the end instead of while they are made.
GhashMultiplies ==
  Returned("ghash") =>
    LET terms == in.a \X in.b
        times(n) == {t \in terms : t[1] + t[2] = n}
    IN  result = Reduced({n \in 0 .. 2 * GhashBits - 2 : Cardinality(times(n)) % 2 = 1})

\* Padding of FIPS 180-4: an end mark, as few zeros as make room for the length
\* at the end of a block.
Padded(m) ==
  LET zeros == CHOOSE z \in 0 .. HashBlockSize - 1 : (Len(m) + 1 + z + LengthBytes) % HashBlockSize = 0
  IN  InBlocks(m \o EndMark \o Null(zeros) \o LengthField(Len(m)))

\* tls_hmac (tls_hash.cpp:200-231) is HMAC of RFC 2104 with the hash of FIPS 180-4,
\* unless the data, or a key that must be hashed, fills its last block: then the
\* padding is missing.  With a hash that is not implemented its result is part of
\* the key with 0x36 added to it, whatever the data.
HmacIsRfc2104 ==
  Returned("hmac") =>
    LET hash(m) == [j \in 1 .. ResultSize[in.type] |-> <<in.type, Padded(m), j>>]
        hashed == Len(in.key) > HashBlockSize
        short == IF hashed THEN hash(in.key) ELSE in.key
        key == short \o Null(HashBlockSize - Len(short))
        added(kind) == [j \in 1 .. HashBlockSize |-> <<kind, key[j], 0>>]
        full(s) == Len(s) % HashBlockSize = 0
    IN  IF in.type \in {"sha1", "sha256"}
        THEN result = hash(added("0x5C") \o hash(added("0x36") \o in.data))
               <=> ~full(in.data) /\ ~(hashed /\ full(in.key))
        ELSE result = Hmac(in.type, in.key, <<>>)

\* In place as it is, tls_aes_128_CBC_encrypto (tls_crypto_aes.cpp:176-195) is the
\* chain of the standard; tls_aes_128_CBC_decrypto (197-217), which adds plain text
\* where the chain has cipher text, gives back the first block of it (up to what
\* DecryptsUpToKey says of the key), and all of it only if there is no other.
CbcChains ==
  Returned("cbc") =>
    LET block(i) == BlockOf(in.data, i)
        back == CbcDecrypto(Iv, result, in.delta)
    IN  /\ \A i \in 0 .. (Len(result) \div BlockBytes) - 1 :
             BlockOf(result, i) = Cipher(Sum(block(i), IF i = 0 THEN Iv ELSE BlockOf(result, i - 1)))
        /\ BlockOf(back, 0) = Sum(block(0), in.delta)
        /\ back = in.data <=> in.delta = Zeros /\ Len(in.data) = BlockBytes

\* tls_aes_128_CTR_encrypto (228-253) adds key stream to every byte of every whole
\* block, no byte of it twice, and none to the rest; used again it takes it off.
\* Two nonces that differ at one byte have the blocks before that one in common:
\* block i is the first that byte i of the nonce reaches.
CtrMasks ==
  Returned("ctr") =>
    LET whole == Len(in.data) - (Len(in.data) % BlockBytes)
        added == Sum(in.data, result)
        other == Sum(in.data, CtrEncrypto(Other(GivenNonce, in.place), in.data))
    IN  /\ \A j \in 1 .. Len(result) : added[j] = {} <=> j > whole
        /\ \A j, k \in 1 .. whole : j # k => added[j] # added[k]
        /\ CtrEncrypto(GivenNonce, result) = in.data
        /\ \A j \in 1 .. whole : added[j] = other[j] <=> RowOf(j) < in.place - 1

\* The bytes that ghash passes over: the last block, where it is a full one.
PassedOver(s) == IF Len(s) % BlockBytes = 0 THEN Len(s) - BlockBytes + 1 .. Len(s) ELSE {}

\* tls_aes_128_GCM_decrypto (365-381) refuses a message exactly when a byte of what
\* ghash takes, or the tag, is not what was sealed; the nonce and a last full
\* block are not part of that.  What arrives as it was sealed comes back.
TagBinds ==
  Returned("gcm") =>
    /\ result.ret = -1 <=> \/ in.part = "tag"
                           \/ in.part = "auth" /\ in.place \notin PassedOver(in.auth)
                           \/ in.part = "data" /\ in.place \notin PassedOver(in.data)
    /\ in.part = "none" => result = [data |-> in.data, ret |-> Len(in.data)]
=============================================================================
