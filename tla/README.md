# A TLA+ verification of tls_protocol

`tls_protocol` is the beginning of a TLS 1.2 implementation in C++: a record
layer over Windows sockets, the cryptography it needs (AES, hashes, HMAC, the
PRF, RSA over its own long numbers) and a certificate parser. There is no
handshake yet. This directory holds TLA+ modules of the parts that run, the TLC
configurations that check small instances of them, and theorems about the
record layer, its protection, the sockets, the modes of AES, HMAC, the PRF, the long
numbers, RSA and the certificate parser that TLAPS checks for every value of the constants.

Paths below are relative to the repository; line numbers are of the commit that
the modules were written from.

    tlc -workers 2 -config RecordIO.cfg MCRecordIO     # checks an instance
    tlapm RecordIOProofs.tla                           # checks proofs

## 1. The system

| component | source | state | operations |
|---|---|---|---|
| socket loops | `src/win32/win32_sockets.cpp:49-88` | the connection; bytes moved by the loop | `win32sockets_send`, `win32sockets_recv` |
| socket life cycle | same, `16-47`, `90-98` | `sockets_count`, Winsock's own count | `win32sockets_open`, `win32sockets_close` |
| record layer, input and output | `src/tls_record.cpp:48-95`, `286-332` | the caller's header and buffer | `tls_record_send`, `tls_record_recv`, and the two `_directly` functions |
| record protection | `src/tls_record.cpp:97-284` | `TLS_RECORD_CONTEXT`: keys, two swapped buffers, 128 random bytes | `tls_record_pack_block`, `_pack_aead`, `_unpack_block`, `_unpack_aead`, `get_random` |
| long numbers | `src/tools/long_number.cpp` | byte arrays | compare, shift, plus, mul, dec, div, mod, Montgomery product |
| memory pool | `src/tools/memory_pool.cpp` | `usage`, `max` | create, alloc, free, delete |
| RSA | `src/algorithm/tls_crypto_rsa.cpp` | `MG_CONTEXT` with its pool | `RSA_MG_ctx_init`, `RSA_exp_mod` |
| hash, HMAC, PRF | `src/algorithm/tls_hash.cpp` | none | SHA-1/256/384/512, `tls_hmac`, `tls_prf` |
| AES modes | `src/algorithm/tls_crypto_aes.cpp` | none | CBC, CTR, GCM over one block cipher |
| certificates | `src/algorithm/tls_cert.cpp` | none | `x509v3_cert_unpack` |
| handshake | `src/tls_handshake.cpp`, `src/tls_common.*` | none | constants and comments only |
| main, random numbers | `src/main.cpp`, `win32get_random` | none | stubs; one system call |

How they interact: everything is a direct call, in one thread per connection.
The record layer calls the socket loops for a header and then for a payload; it
calls HMAC, AES and `get_random` to pack a fragment in one of its two buffers.
RSA calls the long numbers, and every function of both takes scratch memory from
one memory pool and gives it back by size. The only concurrency is between the
two ends of a connection, which run this code independently of each other, and
the network between them. There are no callbacks, threads or locks.

Which behaviours are hard:

* **Two ends cut one byte stream at different places.** `send` and `recv` move
  any part of what is asked for. Header and payload must be put together from
  the right bytes wherever the cuts fall.
* **Timeouts in the middle of a record.** A loop that gives up after 10 s leaves
  part of a record in the stream, or has consumed a header. The caller retries.
* **A closing peer, an aborted connection**, at any point of a call.
* **Two counters of one fact**: `sockets_count` and the count Winsock keeps.
* **Sizes in several byte orders**, two buffers swapped behind the caller, and a
  limited stock of random bytes.
* **Carries and borrows** across array ends of different lengths.
* **Arrays that are read and written by one loop**: CBC in place, the counter's buffer
  in CTR, the chain of the PRF, the one buffer of HMAC.
* **Lengths that come from outside**: a padding byte, the length in a record's header,
  the lengths in a certificate; and pointers that are followed before they were
  written.
* **Three swapped pointers and a stack of buffers** whose use depends on the bits
  of the exponent.

What makes each component correct, and the properties that say so:

| component | what must hold | properties |
|---|---|---|
| socket loops | a call returns unless a blocking send finds the connection full for ever; no byte is invented | `CallsReturn`, `TypeOK`; `RecvEndsByTimeout` is refuted |
| record layer | order, integrity, no replay, truthful results, no overrun; in short, a queue | `InOrderWhileInSync`, `NeverReplayed`, `SendReportsTruth`, `RecvFitsBuffer`, `ImplementsChannel` |
| socket life cycle | when an open socket goes down, what the counter counts | `KeptSocketsAreUp`, `CountsAgree` |
| record protection, sending | the receiver is told how many bytes follow, random bytes are fresh, what is encrypted is whole blocks, the packed fragment is sent | `LengthOnWire`, `RandomFresh`, `PacksWholeBlocks`; `PackedOnWire` is refuted |
| record protection, receiving | the MAC is where it was put; when two records share a block of key stream | `MacInside`, `MasksShared`; that no record can be opened is a theorem, `NothingOpened` |
| long numbers | arithmetic | five properties of `MCLongNumber` |
| memory pool, RSA | the pool suffices, buffers stay apart, the result is the power | `PoolSuffices`, `BuffersApart`, `ArithmeticHolds`, `LadderHolds`, `ExpIsPower` |
| AES and its modes | decryption undoes encryption, every byte is masked once, a tag binds what it covers | `DecryptsUpToKey`, `GhashMultiplies`, `CbcChains`, `CtrMasks`, `TagBinds` |
| hash, HMAC, PRF | the standards' definitions; the result is filled and no more; an end | `HmacIsRfc2104`, `IsPHash`, `FillsResult`, `PrfReturns` |
| certificates | what is unpacked was parsed | `SignatureSaved` is refuted |

Some of these say *how far* the code is from its purpose: `DecryptsUpToKey`,
`LengthOnWire` or `MasksShared` describe exactly what happens, and the intended
property is the one they fall short of. Section 5 lists them.

`PROJECT.json` lists every hazard at its line with the properties that cover it.

## 2. The modules

    Sockets  <-  RecordIO  -- implements -->  RecordChannel
                    |
          RecordIOProofs

    CipherModes  <-  RecordOpen
    Aes, CipherModes, Hmac  <-  MCPrimitives
    RecordOpen, MCPrimitives  <-  ProtectionProofs
    LongNumber  <-  MCLongNumber <- LongNumberProofs
    LongNumber, MemoryPool  <-  RsaExp
    LongNumberProofs, RsaExp  <-  RsaExpProofs
    Winsock <- WinsockProofs        RecordSeal <- RecordSealProofs
    Prf <- PrfProofs                CertParser <- CertParserProofs

**Sockets** is one TCP connection and the loops of `win32sockets_send` and
`win32sockets_recv` at its two ends. A stream is two counters, the bytes put in
(`sent`) and the bytes taken out (`taken`); `Capacity` is what the two kernels
hold. `call[e]` is the loop that end `e` runs: what is asked for, what has been
moved, and `busy`, `ok` or `error`. Each action is one turn of a loop, that is one
`select` and the `send` or `recv` behind it: `SendSome`, `RecvSome`, `RecvEof`
(`recv` returns 0), `Timeout` and `SocketError`. The sockets are blocking, so a `send`
that has taken some bytes may also stay and wait for room for the others (`WaitInSend`,
`waits`); then no timeout ends it. `Close` and `Reset` are the
connection's.

**RecordIO** puts the record layer on top. `pc` says where an end is in
`tls_record_send_directly` or `tls_record_recv_directly`; the actions are the
entry (`RecordSend`, `RefuseSend`, `RecordRecv`, `RefuseRecv`), the step from
header to payload (`HeaderSent`, `HeaderReceived`, `HeaderRejected`) and the
returns (`SendReturns`, `RecvFails`, `RecvReturns`). `recs[e]` is a history
variable: where in `e`'s stream each of its records begins, what length its
header states, and how much of it was put in. What a receiver reads as a header
is that of the record that begins where the call began, if one does and its
header is whole; anywhere else it is any of `GarbageLengths`. So a receiver that
has lost its place is modelled, not excluded.

**RecordChannel** is what the callers may count on: in each direction a queue of
records, delivered whole, once and in order, until that direction breaks.
`RecordIO` implements it: a record enters the queue with its last byte, and a
direction breaks when a call fails with part of a record moved.

**Winsock** is the life of sockets: the static counter of the code with the width
of `size_t` (wrapping), the count of startups that Winsock keeps for the process,
and the caller of `test/openssl_test/openssl_main.cpp:91-92`, who takes a result below 0
for a failure, keeps any other, the 0 of a refused connect among them, and closes once
what it keeps. `strays` counts the closes of such a 0.

**RecordSeal** is `tls_record_send` on one context with a stream, block or AEAD
cipher, in the code's own sizes: 2^14, 2048, blocks of 16, the masks and bytes of
the padding as they are written. What is in a buffer is its kind (data or packed
fragment) and its length.

**LongNumber** holds the arithmetic as operators on arrays of bytes. The width of
a byte is a constant. Loops that carry are recursive functions of the index, and
each operator returns what the code leaves in the array it writes to, including
what is wrong with it; `Plus`, `Mul` and their rows also whether the byte in front of that
array was written (`before`). **MCLongNumber** makes each operation a step.

**MemoryPool** is the stack allocator, with the buffers its callers believe they
hold as history. **RsaExp** is `RSA_MG_ctx_init` and `RSA_exp_mod`, with the calls
to `MG_mul`, the division and the debug check as states of their own, so that the
pool is seen when it is fullest.

**Aes** is the block cipher over a field of `2^Bits` elements. A byte is the set of
its bits, so that the sum is the symmetric difference; the S-box is a constant. Key
schedule, both directions and their matrices are those of the code, the key of the
last round that goes through `aes_suffix_inverse` included.

**CipherModes** holds the loops of CBC, CTR and GCM over an *ideal* cipher. A byte is
a set of atoms, its sum with another again the symmetric difference, and the cipher
makes fresh atoms of each block it is given. Two blocks are equal then only if the
code computes them from the same data, and "is this byte masked, by what" is a
question about a set. What CBC decryption gets back is the block plus `delta`, the
block that `DecryptsUpToKey` shows the cipher to leave; `CbcChains` is checked with
and without it. The tag is an ideal function of the blocks and lengths that `ghash`
takes; its multiplication is an operator of its own, on polynomials as sets.

**Hmac** is the padding of `sha_calculate`, the table of hashes and `tls_hmac`, byte
by byte, with a digest as an ideal function of the blocks that are compressed.
**Prf** is `tls_prf`, one turn of its loop at a time, over an ideal MAC. For a hash
that is not implemented it uses what `HmacIsRfc2104` shows: a MAC that does not
depend on the message.

**MCPrimitives** calls one of these functions on one of its inputs, as one step, for every
value of the constants: the block cipher on data and keys from a constant set of them
(`AesInputs`), the multiplication of GHASH on all polynomials of `GhashBits` bits, HMAC on
keys and data of up to two blocks and a byte, and CBC, CTR and GCM on data of up to
`MaxBlocks` blocks, GCM from the sealing to the opening with at most one byte changed.

**RecordOpen** composes the two ends of protection over `CipherModes`:
`tls_record_pack_aead`, and `tls_record_unpack_aead` on any packed fragment, as often
and in any order, under any length, with at most one byte changed and with what was
in the buffer behind it. `tls_record_unpack_block` is given fragments by their length,
their last byte after decryption and the size of the MAC, because the sender never
lets out what it could open (`RecordSeal`). The stock of random bytes is any sequence of
values from `RandomValues`, so that two random bytes may be equal, as bytes are.

**CertParser** is `x509v3_cert_unpack`, one fragment at a time, on sequences of bytes.
`size_t` has `SizeBytes` bytes and wraps. A fragment, length or pointer that was never
written is a nondeterministic choice of `Fragments`. What lies in memory around the
certificate is any too: a fragment accepted there (`Accepted`) has a pointer to the offset
behind its tag, wrapped as the code wraps it; reading there, or following a pointer that was
never written, may end the program.

What the models take for granted:

* `assert` is active (`CMakeLists.txt` sets no `NDEBUG`), so a failing one stops
  the program: `stopped`.
* Both ends run this code. Arbitrary bytes reach a receiver only through a loss of
  framing, and then of arbitrary length.
* Behind a `select` that finds room, `send` takes at least a byte of what is left
  and no more than fits, and then returns or waits for more room. Bytes in flight
  may be late: a `recv` may time out although they have been sent.
* A socket that was closed at this end is not used again by the caller.

## 3. The runs

Most runs end in seconds, `RecordIO`, `RecordLiveness` and `RecordOpen` in half a minute to two. The
models are symmetric in their two ends only up to `Closers`, and no symmetry is
used. `CHECK_DEADLOCK FALSE` is set everywhere because everything ends: callers
make at most `MaxCalls` calls, and a program that has stopped stays so.

| run | shows | instance |
|---|---|---|
| `RecordIO` | type and safety properties, and the refinement of `RecordChannel` | header of 2 bytes, data up to 2, fragments up to 3, 3 bytes in flight, two calls per end, lengths 0, 2, 3, garbage 0, 3, 4, the server may close; about 179,000 states |
| `RecordLiveness` | which calls return, under `Fairness` | 3 bytes in flight, so that a record of 4 can fill the connection and wait, lengths 0 and 2, nobody closes; about 92,000 states |
| `PeerClose` | refutes `RecvEndsByTimeout` | 2 bytes in flight, 2 calls per end, the server may close |
| `Winsock` | the counters, and when sockets go down | three sockets, six opens, counter of 4 values; 48,206 states |
| `RecordSeal` | lengths on the wire, padding, random bytes | the code's sizes; lengths around 0, a block, 2^14; MACs of 0, 20 and 32 bytes; 128 random bytes; 908 states |
| `PackedOnWire` | refutes the property of that name | the same, SHA-1 |
| `LongNumber` | each operation against the integers | all pairs of numbers of up to 3 bytes of 2 bits; 54,880 states |
| `RsaExp` | results, loop invariant, scratch memory | odd keys of 1 to 3 bytes of 2 bits, each of whole bytes and one with a leading zero byte, five messages, exponents with runs of zeros and of ones, two calls per context; 9,250 states |
| `Primitives` | the block cipher, its modes, GHASH's product and HMAC against their standards | AES of 4 bits and 3 rounds; blocks of 4 bytes, nonces of 3, every length of up to 4 blocks, each byte of what is sealed changed in turn; polynomials of degree below 4; HMAC with keys and data of up to 9 bytes and blocks of 4; 15,258 states |
| `RecordOpen` | what the receiving side makes of records | blocks of 4, one fixed and two random bytes of nonce, four random bytes of two values, two records of up to 3 blocks, lengths and padding at every limit; 44,384 states |
| `Prf` | `tls_prf` against P_hash, and that it ends, under weak fairness of its only thread | the seven hashes, the lengths TLS asks for and their neighbours; 207 states |
| `CertParser` | refutes `SignatureSaved` | a certificate in the parser's format, every cut and 4 values for every byte of it, lengths that wrap, all pairs of 11 telling bytes |

Why the bounds are enough. For the record layer every interesting position is
reached with two bytes of header and two of payload: nothing moved, part of the
header, the header exactly, part of the payload, all of it. The three lengths lie
on both sides of each limit (`MaxPlain`, `MaxFragment`), as do the buffers and the
garbage. With three bytes in flight the stream holds less than a record, more
than a header, and parts of two records. Two calls per end make a record behind a
broken one and a retry of a failed call; three calls per end were checked once on a
smaller instance (two bytes in flight, 3.1 million states). The bound on calls is in
any case only TLC's: the safety properties are proved without it (below).

The counter of four values wraps both ways: below 0 when the 0 of a refused connect is
closed with no socket held, and by the next open past its greatest value to 0 again. Six
opens are enough to bring it to 0 by such a close with sockets held, which takes the
library down under them, and to have their handles given again afterwards. Bytes of two bits make every
carry, borrow and ripple happen within three bytes, and the operators do not mention
the width otherwise. For the RSA model, odd keys of whole bytes and messages
of no more bits are those for which the code is right (`UsualKeys`, which `MCRsaExp` assumes
so that TLC evaluates it): with other keys the reduction modulo R keeps bits too many
(`KeepsLowBits`), and TLC refutes `LadderHolds` with N = 7; with other messages, which
pass the assertion only when N has a leading zero byte, it refutes it with N = 13 in three
bytes and a message of 63. What bytes of two bits do not show, the proofs do: they hold
for every width of a byte and every length of the key.

For AES three rounds are a first, a middle and a last one; all of the key schedule's
cases occur in its 16 lines, and the shape of the rounds does not depend on the width
of a byte. Blocks of 4 bytes are longer than a nonce of 3, as 16 are than 12, so a
message of 4 blocks reaches the block in which the counter lies over what the nonce
would fill. `SizeBytes = 2` makes a length of two bytes wrap in `CertParser`, as 8
bytes do in the code. `Reach` bounds how far from the certificate the loop over the
extensions is followed; there everything is a free choice already. `RandomMax = 4`
gives two records of two random bytes, whose two values make every pattern of equal and
different bytes; a third record is refused.

**Fairness.** `Fairness` is `WF_vars(Step(e))` for each end: the code of an end that
has been called is run by its operating system, and `select` returns after its
timeout. That is what 10 seconds in `win32socket_timeout_val` give. `FairSpec` of `Prf` is
`WF_vars(Next)`, a thread that runs. A `send` that waits for room goes on when the
library finds some, which is a step of the same end. Nothing is
assumed of the callers, of closing, or of aborts; nor that bytes arrive.

## 4. What is proved

`tlapm` checks these for every capacity, header size, limit, set of lengths and
number of calls, from the assumptions on constants that the modules state
(`CapacityAssumption`: at least one byte; `SizesAssumption`: a header has at least
one byte, and no plain text is longer than a fragment; `ArgumentsAssumption`:
lengths and buffer sizes are naturals). TLC evaluates the assumptions in every run
of `MCRecordIO`. `Winsock` assumes that handles are positive and finitely many
(`HandlesAssumption`) and that the counter has a value (`BoundsAssumption`), `RecordSeal` that a length fits 16 bits and a MAC 64 bytes.
`RecordOpen` assumes that the authenticated header fits one block, as its 13 bytes do,
that a nonce has a fixed and a random part, that data have no more whole blocks than a
block has bytes (`CounterAssumption`: beyond it CTR writes past its buffer, section 6), and
that a fragment fits the buffer, which `tls_record_recv_directly` sees to; `Prf` that a result has 0 to 128 bytes, which its
own assertion says; `RsaExp` that a key has at least one byte (`KeysAssumption`), an exponent
64 bits (`InputsAssumption`) and that fewer than half of a key's bytes are leading zeros
(`RemainderCoversKey`); `LongNumber` that a byte has
at least one bit (`ByteBitsAssumption`), and `MCLongNumber` that the largest number of
bytes is a natural number (`MaxBytesAssumption`); `CipherModes` that a nonce is shorter
than a block (`BlockAssumption`); `Hmac` that the length at the end of the padding is
shorter than a block (`HashAssumption`), and so are the digests of SHA-1 and SHA-256, 20 and
32 bytes of 64 (`DigestAssumption`): one that fills a block would leave the outer hash without
padding; `Aes` that a byte has at least one bit, that there is a round (`FieldAssumption`)
and that the S-box takes every byte, which `inv_s_box` is the proof of (`SBoxAssumption`).
`MCPrimitives` takes the inputs of the block cipher from its blocks (`AesInputsAssumption`),
says that the polynomial of GHASH has a degree above its other powers (`GhashAssumption`),
and limits data to as many blocks as a block has
bytes (`MaxBlocksAssumption`), for the reason of `CounterAssumption`; its proofs do not use
that, but beyond it `KeyStream` is not what the code does. The theorem about `CertParser`
has its assumptions in its statement: an input is a sequence of bytes shorter than the
largest `size_t` (`CertsAssumption`), and the header of a fragment is no longer than that
either (`SizeAssumption`).

| theorem | module | states |
|---|---|---|
| `TypeCorrect` | `RecordIOProofs` | `Spec => []TypeOK` |
| `Inductive` | `RecordIOProofs` | `Spec => []IndInv` |
| `BufferSafe` | `RecordIOProofs` | `Spec => []RecvFitsBuffer` |
| `ReportsTrue` | `RecordIOProofs` | `Spec => []SendReportsTruth` |
| `DeliveredOnce` | `RecordIOProofs` | `Spec => []NeverReplayed` |
| `DeliveredInOrder` | `RecordIOProofs` | `Spec => []InOrderWhileInSync` |
| `Implements` | `RecordIOProofs` | `Spec => ImplementsChannel` |
| `CounterIs`, `GoesDownAtBalance` | `WinsockProofs` | `Spec => []CountsAgree`, `Spec => KeptSocketsAreUp` |
| `TypeCorrect` | `WinsockProofs`, `RecordSealProofs` | `Spec => []TypeOK` |
| `FreshRandom` | `RecordSealProofs` | `Spec => []RandomFresh` |
| `LengthTold` | `RecordSealProofs` | `Spec => []LengthOnWire` |
| `WholeBlocksOnly` | `RecordSealProofs` | `Spec => []PacksWholeBlocks` |
| `MacInPlace` | `ProtectionProofs` | `Spec => []MacInside` |
| `NothingOpened` | `ProtectionProofs` | `Spec => []NothingOpens` |
| `StreamsShared` | `ProtectionProofs` | `Spec => []MasksShared` |
| `CtrIsMask` | `ProtectionProofs` | `PrimitivesSpec => []CtrMasks` |
| `CbcIsChain` | `ProtectionProofs` | `PrimitivesSpec => []CbcChains` |
| `TagIsBinding` | `ProtectionProofs` | `PrimitivesSpec => []TagBinds` |
| `HmacIsExact` | `ProtectionProofs` | `PrimitivesSpec => []HmacIsRfc2104` |
| `DecryptionUpToKey` | `ProtectionProofs` | `PrimitivesSpec => []DecryptsUpToKey` |
| `GhashIsProduct` | `ProtectionProofs` | `PrimitivesSpec => []GhashMultiplies` |
| `ResultFilled` | `PrfProofs` | `Spec => []FillsResult` |
| `HashIsP` | `PrfProofs` | `Spec => []IsPHash` |
| `PoolIsEnough` | `RsaExpProofs` | `Spec => []PoolSuffices` |
| `HeldLikeAStack` | `RsaExpProofs` | `Spec => []BuffersApart` |
| `TypeCorrect` | `RsaExpProofs` | `Spec => []TypeOK` |
| `NothingOverflows` | `RsaExpProofs` | `UsualKeys /\ Spec => []ArithmeticHolds` |
| `LoopInvariant` | `RsaExpProofs` | `UsualKeys /\ Spec => []LadderHolds` |
| `ExponentiationIsRight` | `RsaExpProofs` | `UsualKeys /\ Spec => []ExpIsPower` |
| `Product` | `LongNumberProofs` | `OpSpec => []Multiplies` |
| `QuotientAndRest` | `LongNumberProofs` | `OpSpec => []Divides` |
| `DecAndCompare` | `LongNumberProofs` | `OpSpec => []Subtracts` |
| `ShiftsArePowers` | `LongNumberProofs` | `OpSpec => []Shifts` |
| `LowBitsKept` | `LongNumberProofs` | `OpSpec => []KeepsLowBits` |
| `NothingUnpacked` | `CertParserProofs` | `Spec => [](result = "unpacked" => ret = Failed /\ saved \in Seq({NoWhere}))` |

*The argument.* None of the four safety properties is inductive by itself: they
speak of what was handed over and not of where the two ends stand in the stream.
`IndInv` adds that, in four parts per end:

* `SendInv`. The records of a stream lie one behind the other and fill it (`Laid`);
  all but the last have ended and their status is true (`Settled`); and the call in
  progress is tied to the last record: a send that has moved `b` bytes of a payload
  has a last record of `HeaderSize + b` bytes, with the length that is in `header`.
* `RecvInv`. A receive has taken exactly the bytes its loop counts, from where the
  call began, and its buffer holds a fragment of the largest size.
* `ReplayInv`. Every record that was handed over begins before the receiver's place
  in the stream (`Cursor`), and they are in order. This needs no assumption of
  being in sync: a record is recognised only where it begins, and the receiver
  never goes back.
* `OrderInv`. While in sync, the place of the receiver is the boundary behind the
  last record that it was handed, and these are the first records, all whole.

The steps are proved one action at a time for the end that moves, and `OtherEnd`
says that they leave alone what belongs to the other. What a step of the sender
may do to a stream that the receiver is reading is stated once (`Grows`) and used
by both receiver parts. `IndInv` was checked with TLC on the instance of the run
`RecordIO` before it was proved.

For the refinement, `WholeLen` and `First` describe the queue that a stream shows
without counting a set; `WholeCount` ties them to the cardinality in `QueueOf`.
Every step then is a `Put` (the last byte of a record), a `Get` (`RecvReturns`), a
`Break` (a failing call, or a header that is rejected), or shows nothing.

For the sockets, `LifeInv` says that the counter is what `CountsAgree` says and that each
call of open has made at most one result to keep or to close. `Keeps` and `CloseKeeps`
follow the number of sockets held; `Reduced` shows that counting after the
reduction to the counter's width is counting before it. A close that cleans up has brought
the counter to 0, and no other step takes anything down but a close of the handle itself.
For the random bytes,
`RandomInv` keeps the ranges taken so far one behind the other below
`tls_random_used`.

*Padding.* In `WholeBlocksOnly` the mask is applied to 16 more than the size of data and
MAC together; it clears bit 4 and leaves the low four, so the result is a multiple of 16
exactly if that size is one. `LongEnough` shows that the limit on the caller's data leaves
room for the IV, the largest MAC and the padding.

*The receiving side.* `NothingOpened` keeps of every packed fragment (`WellPacked`)
that its bytes in front of the tag are no bytes of a hash and that the tag is one of
data that names the record's own length. `ArrivalBytes` carries this over to what
arrives; and `TagRefused` shows that a tag which is accepted would begin where the
packed one begins, hence belong to a fragment as long as its own data. The key stream
is a recursive function of the block's number, so that its bytes are no bytes of a
hash takes an induction. The induction theorems of the library cannot be applied, but
the least element of a set of naturals can: `Least` is proved from the well-foundedness
of the order, and each induction is the question about the smallest counterexample.

*Key streams.* For `StreamsShared`, `MaskedInv` keeps that every packed record is its data
with the key stream of the random bytes it begins with (`IsMasked`). Two
streams whose nonces agree in k bytes agree in k blocks (`StreamsAgree`). Where the nonces
differ the blocks do, and from there on so does every later block, because it is made of
the one before it by a cipher that never makes one byte of two blocks (`StreamsPart`).
`NoncesAgree` turns agreement of the random bytes (`Alike`) into that of the nonces, and
`BlocksAlike` puts the two together, block by block.

*Modes.* The invariant `CallsInv` of `MCPrimitives` is that the inputs stay and that what has
been returned is what the function computes of them; the rest is about the operators. For
`CtrIsMask`, `StreamByte` gives the byte of the key stream that is added to a byte of the
data, as one the cipher made of the block of its turn: none comes twice, because the turn's
counter is part of that block (`StreamBytesDiffer`), and where two nonces part, the two
lemmas on key streams say (`OtherStream`).

For `CbcIsChain`, `TurnsExist` shows that the arrays the turns leave one after the other
are defined (`Turns`), and `TurnedOf`, by a smallest counterexample, that after k turns the
first k blocks are what these turns wrote and the others as they were: a turn touches its
own block only (`Overwritten`). Hence `Chained`, the chain of the standard, and
`Unchained`, in which the block in front is one of the plain text. `FirstBlockBack` shows
that a second block cannot come back: the first byte of the data would have to be one that
the cipher made. For `TagIsBinding`, `LoopedBlocks` says how far the loop of `ghash` gets,
in front of the rest or of a last block that is full, and `AbsorbedChange` that two words
which differ in one byte are absorbed alike exactly if this byte lies behind that. The hash
is ideal, so this is also when the tags are equal (`GhashSame`).

*HMAC.* The number of zeros that `sha_calculate` computes fills the last block
(`ZerosComputed`), and no other number does (`ZerosUnique`), so it pads as the standard does
(`ShaPads`), except behind a full block, where the standard has one block more
(`ShaDoesNotPad`). Blocks of messages of one length determine the messages (`PaddedTells`),
and a digest, which is ideal, its blocks. The outer hash is never of whole blocks, as a
digest is shorter than one; so the result is the right one just if the key and the inner
digest are (`HashRight`), the key just if it is not hashed or hashed rightly (`KeyRight`),
and the inner digest just if the data are not of whole blocks (`HmacRight`). That the three
uses of one buffer do not disturb each other is `HmacReturns`. `HmacIgnoresData` is the case
of a hash that writes nothing.

*Block cipher.* Doubling is linear bit by bit (`TwiceBits`, `TwiceSum`), and so are the
factors and the products with either matrix (`TimesSum`, `MatMulSum`). A byte of a mixed
column is a sum of five, doubled up to three times by the inverse (`MixedDoubles`); bit by
bit all but the first byte of the column come an even number of times (`MixUndone`), whatever
the reduction is. So `aes_suffix_inverse` undoes `aes_suffix_mat` (`MatMulUndone`); that the
S-box takes no byte twice is because it takes each of finitely many (`SBoxUndone`), and the
shifts are inverse by arithmetic (`MoveUndone`). `StepsExist` shows that arrays made from
their earlier entries exist: the round constants, the extended key (`KeyLines`) and the
states after each round (`StatesExist`), which `LastEncrypto` and `LastDecrypto` tie to the
two functions. `StatesMeet` is the induction over the rounds: round i of the decryption
starts where round `Rounds - i` of the encryption has moved its bytes, as the round's key,
put through the same matrix, cancels. Only in the last round there is no matrix and the
key still goes through it, which leaves what `DecryptsUpToKey` says (`DecryptoOfEncrypto`).

*GHASH.* The reference multiplies first and then replaces the powers from the highest down;
the code shifts and replaces one power a turn. Replacing is linear (`ReplaceSum`), so
reducing is (`ReducedSum`), and commutes with a shift (`ReplaceRaised`): a product with x is
reduced by one replacement more (`ReducedRaised`). Hence `V_buff` is b times a power of x,
reduced (`TermsAre`), and `Z_buff` the reduced sum over the terms of a so far (`SumsAre`),
for which `OneMoreTerm` counts the products of two terms that fall on each power.

*Certificates.* `NothingUnpacked` needs that lengths are naturals below the width of
`size_t`, for which `BigEndianIsNat` does the same for the recursive value of the
length's bytes. The invariant `Inv` says that, as long as the unpacking goes
on, the pointer of `t_frag` and all that were copied are as they were at the beginning.

*P_hash.* `HashInv` says that the chain is one link ahead of the pieces. `IsPHash` defines
the A(i) by recursion; `Chain` says the same of any function that satisfies the
equations, `ChainGrows` extends one by a link, and `OneChain`, by a smallest
counterexample again, that two are equal as far as both go. So the chain of the invariant
is the one of the property.

*The pool.* `PoolInv` bounds what is in use at each place of the code (`InUse`). The bound
between two calls is not 0 but the remainder of R^2, which a division that returns early
would not give back, so the proof needs nothing of the arithmetic. `Needs` compares both
sides in bytes of N: R^2 has at most twice those and one, a buffer of `MG_mul` at least
that many, and the pool is eight such buffers, of which at most five are ever taken.
`HeldInv` then lists the buffers that are held at each place, and for it the
division is looked at: R^2 has more bits than N, so it does not return early.

*Exponentiation.* That `RSA_exp_mod` computes a power modulo N is proved in three layers.
`DataInv` are the types: the context and the three arrays are numbers of N_bytes bytes,
whatever the products leave in them. The second layer is the arithmetic of one call, on
the results of `LongNumberProofs`. `PrimeRun` follows `RSA_get_prime_N` bit by bit: with k
bits done, N times what has been made so far is -1 modulo 2^k (`PrimeIs`). `ReductionIs`
and `ReductionResult` are Montgomery's reduction on integers: with m = (v mod R) N' mod R,
R divides v + m N and the quotient is below N + R, so that one subtraction brings it below
R, and below N if v is below R. `Room` shows that every product and sum on the way fits
`buff_bytes`, so no flag is set and no carry is lost; `MgMulIs` puts this together: `MG_mul`
leaves what stands for the product divided by R. This is where bits that are not whole bytes
do harm, as `Mod2Pow` keeps too many of them. `ConvIs` says that `mg_const` is congruent to
R^2.

The third layer is the invariant `Correct`. `PrimedInv` says that the context's numbers are
these; `CallInv` that the message is below R, the exponent odd, and that the three
pointers are to different arrays; `LadderInv` that what the pointers are left with stands for
the powers of `LadderHolds` (`StandsFor`: below R, and congruent to the power times R). What
stands for two powers is multiplied to what stands for the power of the sum
(`PowersMultiply`), the bit that is looked at adds to the low bits of e what `BitAdds` says,
and the last product takes R off again, by an inverse of R modulo the odd N (`Invertible`,
`PowerIsLeft`): it is below N and congruent to the power, hence equal. The parts of
`PowerInv` were checked with TLC on the run's instance before they were proved.

*Long numbers.* The invariant `OpInv` of `MCLongNumber` says that the operands are as they
were and that what was computed is the operation's `Answer`; so each theorem is one about
an operator, for every width of a byte and every two arrays. What the code does from byte
to byte is a recursive function in the model, and the lemma of each operation
(`PlusDef`, `DecDef`, `RowDef`, `MulDef`, `DivU8Def`, `DivLoop`) first gives its carries,
borrows, rows or rests a name: `Recursion` shows that the equations have a solution, and
the definition then is one. `Part(x, k)` is the value of the low k bytes, and
`Carries` the one induction that all of them need: if in every byte what is kept and Base
times the next carry make up the sum and the carry that comes in, then the values of the
prefixes balance, up to the carry that is left. `PlusIs` and `DecIs` follow from it
with the bytes above; a row of `Mul` (`RowIs`) with the fact that the bytes above the
row are still 0, which is why the carry that `Plus` loses does no harm (`CarryIntoZero`); and
`MulIs` sums up the rows. `LongDivIs` follows the rests of `long_number_div` bit by bit:
with the bits from j up in hand, the rest is that of the value of these bits
(`RestAbove`) and the bits of the quotient are its own (`QuotAbove`), for which `DivBit` is
the step and `BroughtDownIs` shows that a doubled rest still fits. `CompareIs` and
`BitwidthIs` tie widths to values. The powers of two are a recursive function (`Pow2`), as
the provers know nothing of `^`; `Pow2Def` to `PowerMonotone` are what is needed of them, and
`DivIs` to `DivTwice` the same of quotients and remainders.

**Only model-checked.** Liveness under fairness and anything with `ENABLED` is out
of the prover's reach, so `CallsReturn` and `PrfReturns` stay with TLC. Every safety property of
the passing runs is proved, under the hypotheses the table states. The keys and messages that
`UsualKeys` leaves out are no gap of the proof: for them the code is wrong, as section 3
says.

## 5. What the runs found

Three statements of the repository's own comments are refuted by what the code does;
`PROJECT.json` quotes each.

1. *Receive loop at the end of the stream* (`win32_sockets.cpp:86`). `recv` returns
   0, the loop adds it and goes on for ever. (`PeerClose`)
2. *What is sent* (`tls_record.cpp:313`) is the buffer that has been swapped away, with
   a byte count whose bytes are swapped; with AEAD nothing is packed.
   (`PackedOnWire`)
3. *The check macro* (`tls_cert.cpp:93`) is the wrong way round: a certificate is refused
   at its first fragment that parses, and where 0 is returned the saved signature value, like
   all the others, is a fragment that did not. (`SignatureSaved`, `NothingUnpacked`)

The following hold, as properties of runs or, where only a theorem is named, as theorems;
each is weaker than what the code is for by just the defect it describes:

4. *Padding* (`tls_record.cpp:141`) masks bit 4 instead of the low four bits, so only
   records whose data and MAC are whole blocks get past the assertion of the CBC
   encryption. (`PacksWholeBlocks`)
5. *AEAD records cannot be opened* (`tls_record.cpp:269`): the header that is
   authenticated holds the length of the data at one end and that of the fragment at
   the other. (theorem `NothingOpened`)
6. *Records of a block cipher cannot be opened* (`tls_record.cpp:194`): the length of the
   data is the distance of two pointers the wrong way round, and copying that much goes
   beyond the buffer. What the MAC is compared with is never looked at. (theorem `NothingOpened`)
7. *AES decryption* (`tls_crypto_aes.cpp:168`) leaves the key, and its image under the
   inverse mixing of columns, added to the data. (`DecryptsUpToKey`)
8. *CBC decryption in place* (`tls_crypto_aes.cpp:214`) adds the previous plain text where
   the chain has cipher text: it is right for one block. (`CbcChains`)
9. *CTR* (`tls_crypto_aes.cpp:242`) sets one byte of the nonce per block, so records whose
   nonces differ first at byte i share the key stream of the blocks before it: always the
   first four, and the fifth whenever their first random bytes happen to be equal. And it
   leaves a last block that is not full as it is. (`CtrMasks`, `MasksShared`)
10. *GHASH* (`tls_crypto_aes.cpp:319`) passes over a last block that is full, which the tag
   does not bind then. (`TagBinds`)
11. *SHA* (`tls_hash.cpp:41`) does not pad a message of whole blocks. (`HmacIsRfc2104`)
12. *tls_prf* (`tls_hash.cpp:257`) does not end for a hash without result, and for a hash
    that is not implemented repeats one block. (`PrfReturns`, `IsPHash`)
13. *The length on the wire* (`tls_record.cpp:312`): with a block cipher its bytes are
    swapped twice, so the receiver loses its place unless they are equal. (`LengthOnWire`)
14. *Reduction* (`long_number.cpp:245`) modulo a power of two that is not a whole number of
    bytes keeps bits that it should not, and with a key of such a width `MG_mul` is wrong
    from its first product on. (`KeepsLowBits`)
15. *Refused connect* (`win32_sockets.cpp:43`) returns 0, where the test program checks for
    a negative value and so keeps the 0; closing it lowers the counter, which then hides a
    socket or wraps, and the library goes down under sockets that are held, or never.
    (`CountsAgree`, `KeptSocketsAreUp`)
16. *Blocking sends* (`win32_sockets.cpp:61`): both ends that send more than the connection
    holds wait for each other for ever, which the 10 seconds of `select` do not end.
    (`CallsReturn`)

Met while reading or proving, with nothing in the repository that says otherwise, and so
without a run: `RSA_exp_mod` compares a message with N by their bytes, and when N has a
leading zero byte a message above R gets past it and the result is wrong
(`tls_crypto_rsa.cpp:109`); `long_number_mul` may forget an overflow of an earlier row; the end of a certificate's
fragment is computed in `size_t` and may wrap round (`tls_cert.cpp:75`), its length stands in
front of its tag, and an empty fragment at the very end is refused (`:50`); a right
shift by fewer than eight bits reads bytes it has shifted already; with two sockets
one startup of Winsock is never undone; a length that is garbage can ask for data
that never comes (it ends in a timeout).

`long_number_plus` loses the carry into a byte that is not 0xFF, and writes in front of the
array when the carry ripples past its first byte (`long_number.cpp:98`). `Plus` has both, and
`Multiplies` shows that neither happens in a product, where a row's carry always meets a byte
that is still 0. `test/algorithm_test.cpp:78-81` calls it on two numbers and prints the
result as `val1 + val2` without looking at it; no run refutes that line.

## 6. What is not modelled

* *The handshake, `main`, random numbers.* There is no code, or one system call.
* *Compression functions and the values of the tables.* Arithmetic on words, better
  tested with the standards' vectors than model-checked.
* *CTR from the 17th block on* writes beyond its buffer (`tls_crypto_aes.cpp:242`); what
  follows from that is not visible in this code, and messages of at most as many blocks
  as a block has bytes are modelled. So is the copy beyond the buffer in
  `tls_record_unpack_block`, which the model ends with (`overrun`).
* *Bit strings and object identifiers* of `tls_cert.cpp`: nothing calls these functions.
* *Debug input and output of long numbers*, `long_number_gcd` (empty) and
  `long_number_exp_mod` (documented as not to be used).

## 7. Plan

Done, in this order: `Sockets`, `RecordIO` with its abstraction `RecordChannel`;
`Winsock`; `RecordSeal`; `LongNumber`; `MemoryPool` and `RsaExp`; `Aes`, `CipherModes`,
`Hmac`; `Prf`; `RecordOpen`; `CertParser`; and the proofs of section 4. Worth doing next:

1. *The handshake*, when there is one: the record layer's change of cipher is modelled in
   `RecordSeal` (`ChangeCipher`) only as far as the context's fields go.
