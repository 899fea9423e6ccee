--------------------------- MODULE RsaExpProofs ---------------------------
(* The exponentiation of RSA is right, and its memory suffices, for every    *)
(* key, width of a byte, message and exponent and any number of calls.       *)
(*                                                                           *)
(* Memory: PoolInv bounds what is in use at each place of the code, and      *)
(* HeldInv lists the buffers that are held there.  Types: DataInv.           *)
(*                                                                           *)
(* Arithmetic, for UsualKeys: PrimeIs says that RSA_get_prime_N makes        *)
(* N * N' = -1 modulo R, ReductionResult is the lemma of Montgomery's        *)
(* reduction, MgMulIs says that MG_mul is the product divided by R modulo N  *)
(* and does not overflow, and ConvIs that mg_const is R^2 mod N.  The        *)
(* invariant Correct says of every call what it has computed so far, and     *)
(* LadderInv that of the loop over the bits of e.                            *)
EXTENDS RsaExp, LongNumberProofs, SequenceTheorems

Key == ctx.N
Scratch == BuffBytes(ctx)
Remainder == RBytes(ctx.rBits)

\* A pool is a record of its size, what is in use and what is held.
IsPool(p) ==
  /\ p = [max |-> p.max, usage |-> p.usage, held |-> p.held]
  /\ p.max \in Int /\ p.usage \in Int

\* The most that is in use at a place of the code.  A division that returns early keeps its
\* remainder, so what is in use between calls is not taken to be 0.
InUse(at) ==
  CASE at \in {"start", "primed"} -> 0
    [] at = "prime" -> NBytes
    [] at = "conv" -> 2 * Remainder
    [] at = "division" -> 3 * Remainder
    [] at = "ready" -> Remainder
    [] OTHER -> Remainder + 2 * NBytes

\* The context of a key.
ContextInv ==
  /\ Key \in Moduli
  /\ ctx = [N |-> Key, rBits |-> Bitwidth(Key), prime |-> ctx.prime, conv |-> ctx.conv]

\* No allocation has failed, and while the program runs no more is in use than
\* the calls that have not returned account for.
PoolInv ==
  /\ ContextInv
  /\ IsPool(pool) /\ pool.max = 8 * Scratch
  /\ Bytes(msg) \in Nat
  /\ pc \in MulPoints \cup {"start", "prime", "primed", "conv", "division", "ready",
                             "debug", "debugging", "finish"}
  /\ stopped # "pool"
  /\ inMul \in BOOLEAN
  /\ inMul => pc \in MulPoints
  /\ Running /\ ~inMul => pool.usage <= InUse(pc)
  /\ Running /\ inMul => pool.usage <= InUse(pc) + 3 * Scratch

----------------------------------------------------------------------------
(* How much each call takes, against the bytes of N.                         *)

\* The quotient by the bits of a byte.
LEMMA Quotient ==
  ASSUME NEW x \in Nat
  PROVE  x \div ByteBits \in Nat /\ ByteBits * (x \div ByteBits) <= x
BY ByteBitsAssumption

\* The indices of an array of n bytes.
LEMMA Indices ==
  ASSUME NEW n \in Nat
  PROVE  IsFiniteSet(0 .. n - 1) /\ Cardinality(0 .. n - 1) = n
<1>1. 0 \in Int /\ n - 1 \in Int
  OBVIOUS
<1>2. /\ IsFiniteSet(0 .. n - 1)
      /\ Cardinality(0 .. n - 1) = IF 0 > n - 1 THEN 0 ELSE (n - 1) - 0 + 1
  BY ONLY <1>1, FS_Interval, Zenon
<1> QED
  BY <1>2

\* The bits of an array are no more than those of its bytes.
LEMMA BitwidthBounded ==
  ASSUME NEW x, Bytes(x) \in Nat
  PROVE  Bitwidth(x) \in Nat /\ Bitwidth(x) <= ByteBits * Bytes(x)
<1> DEFINE all == 0 .. ByteBits * Bytes(x) - 1
           some == {k \in all : \E j \in k .. ByteBits * Bytes(x) - 1 :
                                  Bit(x[j \div ByteBits], j % ByteBits) = 1}
<1>1. ByteBits * Bytes(x) \in Nat
  BY ByteBitsAssumption
<1>2. IsFiniteSet(all) /\ Cardinality(all) = ByteBits * Bytes(x)
  BY <1>1, Indices, Zenon
<1>3. some \subseteq all
  OBVIOUS
<1>4. Bitwidth(x) = Cardinality(some)
  BY DEF Bitwidth
<1> HIDE DEF all, some
<1>5. IsFiniteSet(some) /\ Cardinality(some) <= Cardinality(all)
  BY <1>2, <1>3, FS_Subset
<1>6. Cardinality(some) \in Nat
  BY <1>5, FS_CardinalityType
<1> QED
  BY <1>2, <1>4, <1>5, <1>6

\* The array a value is written to has as many bytes as it is asked for.
LEMMA ToBytesLong ==
  ASSUME NEW v, NEW n \in Nat
  PROVE  Bytes(ToBytes(v, n)) = n
<1>1. DOMAIN ToBytes(v, n) = 0 .. n - 1
  BY DEF ToBytes
<1>2. Cardinality(0 .. n - 1) = n
  BY Indices
<1> QED
  BY <1>1, <1>2 DEF Bytes

\* R^2 has at most one byte more than twice those of N, and the buffers of a
\* multiplication at least that many.
LEMMA Needs ==
  ASSUME ContextInv
  PROVE  /\ NBytes \in Nat /\ NBytes > 0
         /\ Remainder \in Nat /\ Remainder <= 2 * NBytes + 1
         /\ Scratch \in Nat /\ Scratch >= 2 * NBytes + 1
<1> DEFINE n == NBytes
           w == Bitwidth(Key)
<1>1. n \in Nat /\ n > 0
  BY KeysAssumption DEF ContextInv, NBytes, Key
<1>2. w \in Nat /\ w <= ByteBits * n /\ ctx.rBits = w
  BY <1>1, BitwidthBounded DEF ContextInv, NBytes, Key
<1> HIDE DEF n, w
<1>3. ByteBits \in Nat /\ ByteBits > 0
  BY ByteBitsAssumption
<1>4. Remainder \in Nat /\ Remainder <= 2 * n + 1
  <2> DEFINE x == 2 * w + 1 + ByteBits - 1
             q == x \div ByteBits
  <2>1. x \in Nat /\ x <= 2 * (ByteBits * n) + ByteBits
    <3>1. ByteBits * n \in Nat
      BY <1>1, <1>3
    <3> QED
      BY <1>2, <1>3, <3>1
  <2>2. Remainder = q
    BY <1>2 DEF RBytes, Remainder
  <2> HIDE DEF x
  <2>3. q \in Nat /\ ByteBits * q <= x
    BY <2>1, Quotient
  <2> HIDE DEF q
  <2>4. ByteBits * q <= ByteBits * (2 * n + 1)
    <3>1. ByteBits * (2 * n + 1) = 2 * (ByteBits * n) + ByteBits
      BY <1>1, <1>3 DEF n
    <3>2. ByteBits * q \in Nat /\ ByteBits * n \in Nat
      BY <1>1, <1>3, <2>3 DEF n
    <3> QED
      BY <1>3, <2>1, <2>3, <3>1, <3>2
  <2>5. n \in Nat
    BY <1>1 DEF n
  <2>6. q <= 2 * n + 1
    BY <1>3, <2>3, <2>4, <2>5
  <2> QED
    BY <2>2, <2>3, <2>6
<1>5. Scratch \in Nat /\ Scratch >= 2 * n + 1
  <2>1. Ceil(w) \in Nat
    <3>1. w + ByteBits - 1 \in Nat
      BY <1>2, <1>3
    <3> QED
      BY <3>1, Quotient DEF Ceil
  <2>2. Scratch = n + 1 + IF n < Ceil(w) THEN Ceil(w) ELSE n
    BY <1>2 DEF Scratch, BuffBytes, n, NBytes
  <2> QED
    BY <1>1, <2>1, <2>2 DEF n
<1> QED
  BY <1>1, <1>4, <1>5 DEF n

----------------------------------------------------------------------------
(* The pool.                                                                 *)

\* mem_pool_alloc adds what it takes, and mem_pool_free subtracts it.
LEMMA AllocUses ==
  ASSUME NEW p, IsPool(p), NEW k \in Nat, NEW size \in Nat
  PROVE  /\ IsPool(Alloc(p, k, size))
         /\ Alloc(p, k, size).max = p.max
         /\ Alloc(p, k, size).usage = p.usage + k * size
<1>1. CASE size = 0
  BY <1>1 DEF Alloc, IsPool
<1>2. CASE size # 0
  <2> DEFINE added == [j \in 1 .. k |-> [at |-> p.usage + (j - 1) * size, size |-> size]]
             held == p.held \o added
             used == p.usage + k * size
  <2>1. Alloc(p, k, size) = [p EXCEPT !.usage = used, !.held = held]
    BY <1>2, Zenon DEF Alloc
  <2>2. used \in Int /\ p.max \in Int
    BY DEF IsPool
  <2> HIDE DEF held, used
  <2>3. Alloc(p, k, size) = [max |-> p.max, usage |-> used, held |-> held]
    BY <2>1 DEF IsPool
  <2>4. /\ IsPool(Alloc(p, k, size)) /\ Alloc(p, k, size).max = p.max
        /\ Alloc(p, k, size).usage = used
    BY <2>2, <2>3 DEF IsPool
  <2> QED
    BY <2>4 DEF used
<1> QED
  BY <1>1, <1>2

\* What mem_pool_free gives back.
LEMMA FreeUses ==
  ASSUME NEW p, IsPool(p), NEW k \in Nat, NEW size \in Nat
  PROVE  /\ IsPool(Free(p, k, size))
         /\ Free(p, k, size).max = p.max
         /\ Free(p, k, size).usage = p.usage - k * size
<1>1. CASE size = 0
  BY <1>1 DEF Free, IsPool
<1>2. CASE size # 0
  <2> DEFINE held == SubSeq(p.held, 1, Len(p.held) - k)
             used == p.usage - k * size
  <2>1. Free(p, k, size) = [p EXCEPT !.usage = used, !.held = held]
    BY <1>2, Zenon DEF Free
  <2>2. used \in Int /\ p.max \in Int
    BY DEF IsPool
  <2> HIDE DEF held, used
  <2>3. Free(p, k, size) = [max |-> p.max, usage |-> used, held |-> held]
    BY <2>1 DEF IsPool
  <2>4. /\ IsPool(Free(p, k, size)) /\ Free(p, k, size).max = p.max
        /\ Free(p, k, size).usage = used
    BY <2>2, <2>3 DEF IsPool
  <2> QED
    BY <2>4 DEF used
<1> QED
  BY <1>1, <1>2

\* A call whose buffers fit what is left takes them.
LEMMA TakeSucceeds ==
  ASSUME IsPool(pool), NEW k \in Nat, NEW size \in Nat, NEW next,
         pool.usage + k * size <= pool.max, Take(k, size, next)
  PROVE  /\ IsPool(pool') /\ pool'.max = pool.max
         /\ pool'.usage = pool.usage + k * size
         /\ pc' = next /\ stopped' = stopped
<1>1. k * size \in Nat
  OBVIOUS
<1>2. Fits(pool, k, size)
  BY <1>1 DEF Fits, IsPool
<1>3. pool' = Alloc(pool, k, size) /\ pc' = next /\ stopped' = stopped
  BY <1>2 DEF Take
<1> QED
  BY <1>3, AllocUses

----------------------------------------------------------------------------
(* The theorem.                                                              *)

\* What is in use depends on these alone.
LEMMA SameUse ==
  ASSUME PoolInv, UNCHANGED <<pc, ctx, pool, inMul, msg, stopped>>
  PROVE  PoolInv'
BY DEF PoolInv, ContextInv, IsPool, InUse, Key, Scratch, Remainder, NBytes, Bytes,
       BuffBytes, RBytes, Ceil, Running

\* It holds of the context that MG_ctx_init makes.
LEMMA PoolInit == Init => PoolInv
<1> SUFFICES ASSUME Init
             PROVE  PoolInv
  OBVIOUS
<1>1. ContextInv
  BY DEF Init, ContextInv, Key
<1>2. pool = [max |-> 8 * Scratch, usage |-> 0, held |-> <<>>]
  BY DEF Init, NewPool, Scratch
<1>3. Scratch \in Nat /\ Remainder \in Nat /\ NBytes \in Nat
  BY <1>1, Needs
<1>4. IsPool(pool) /\ pool.max = 8 * Scratch /\ pool.usage = 0
  BY <1>2, <1>3 DEF IsPool
<1>5. Bytes(msg) \in Nat
  <2>1. DOMAIN msg = 0 .. 1 - 1 /\ 1 \in Nat
    BY DEF Init, Zero
  <2>2. Cardinality(0 .. 1 - 1) = 1
    BY <2>1, Indices
  <2> QED
    BY <2>1, <2>2 DEF Bytes
<1>6. pc = "start" /\ inMul = FALSE /\ stopped = "no"
  BY DEF Init
<1>7. InUse(pc) = 0
  BY <1>6 DEF InUse
<1>8. pool.usage <= InUse(pc)
  BY <1>4, <1>7
<1>9. stopped # "pool" /\ inMul \in BOOLEAN /\ (inMul => pc \in MulPoints)
  BY <1>6
<1> QED
  BY <1>1, <1>4, <1>5, <1>6, <1>8, <1>9 DEF PoolInv

\* Every step keeps what is in use within the bounds of its place.
LEMMA PoolStep == PoolInv /\ [Next]_vars => PoolInv'
<1> SUFFICES ASSUME PoolInv, [Next]_vars
             PROVE  PoolInv'
  OBVIOUS
<1> DEFINE n == NBytes
           r == Remainder
           g == Scratch
<1>1. /\ n \in Nat /\ r \in Nat /\ r <= 2 * n + 1
      /\ g \in Nat /\ g >= 2 * n + 1
  BY Needs DEF PoolInv
<1>2. IsPool(pool) /\ pool.max = 8 * g /\ pool.usage \in Int
  BY DEF PoolInv, IsPool
\* A step that leaves the key as it is, does not stop the program, and ends with
\* no more in use than its place allows.
<1>3. ASSUME ContextInv', Key' = Key, IsPool(pool'), pool'.max = pool.max,
             Bytes(msg)' \in Nat, stopped' # "pool", inMul' \in BOOLEAN,
             pc' \in MulPoints \cup {"start", "prime", "primed", "conv", "division",
                                     "ready", "debug", "debugging", "finish"},
             inMul' => pc' \in MulPoints,
             Running' /\ ~inMul' => pool'.usage <= InUse(pc'),
             Running' /\ inMul' => pool'.usage <= InUse(pc') + 3 * g
      PROVE  PoolInv'
  <2>1. /\ Scratch' = Scratch /\ NBytes' = NBytes /\ Remainder' = Remainder
        /\ Bytes(msg)' = Bytes(msg')
    BY <1>3 DEF PoolInv, ContextInv, Scratch, BuffBytes, Ceil, Key, Remainder, RBytes,
                NBytes, Bytes
  <2>2. InUse(pc)' = InUse(pc')
    BY <2>1 DEF InUse
  <2> QED
    BY <1>2, <1>3, <2>1, <2>2 DEF PoolInv, IsPool
<1> HIDE DEF n, r, g
\* What is in use at each place, and that there are no others.
<1>4. /\ InUse("start") = 0 /\ InUse("primed") = 0 /\ InUse("prime") = n
      /\ InUse("conv") = 2 * r /\ InUse("division") = 3 * r /\ InUse("ready") = r
  BY DEF InUse, n, r
<1>5. /\ InUse("debug") = r + 2 * n /\ InUse("debugging") = r + 2 * n
      /\ InUse("finish") = r + 2 * n
      /\ \A at \in MulPoints : InUse(at) = r + 2 * n
  BY DEF InUse, MulPoints, n, r
<1>6. pc \notin MulPoints => inMul = FALSE /\ (Running => pool.usage <= InUse(pc))
  BY DEF PoolInv
\* A call that takes k buffers of size bytes, where they fit.
<1>7. ASSUME NEW k \in Nat, NEW size \in Nat, NEW next, Take(k, size, next),
             pool.usage + k * size <= 8 * g
      PROVE  /\ IsPool(pool') /\ pool'.max = pool.max
             /\ pool'.usage = pool.usage + k * size
             /\ pc' = next /\ stopped' = stopped /\ stopped' # "pool"
  BY <1>2, <1>7, TakeSucceeds DEF PoolInv
\* A return that gives k buffers of size bytes back.
<1>8. ASSUME NEW k \in Nat, NEW size \in Nat, pool' = Free(pool, k, size)
      PROVE  IsPool(pool') /\ pool'.max = pool.max /\ pool'.usage = pool.usage - k * size
  BY <1>2, <1>8, FreeUses
<1>9. ASSUME ctx' = ctx PROVE ContextInv' /\ Key' = Key
  BY <1>9 DEF PoolInv, ContextInv, Key
<1>10. ASSUME msg' = msg PROVE Bytes(msg)' \in Nat
  BY <1>10 DEF PoolInv, Bytes
<1>11. CASE PrimeBegins
  <2>1. pc = "start" /\ Running /\ Take(1, n, "prime")
        /\ ctx' = ctx /\ msg' = msg /\ inMul' = inMul
    BY <1>11 DEF PrimeBegins, data, n
  <2>2. inMul = FALSE /\ pool.usage <= InUse(pc)
    BY <1>6, <2>1 DEF MulPoints
  <2>3. pool.usage <= 0
    BY <1>4, <2>1, <2>2
  <2>4. pool.usage + 1 * n <= 8 * g
    BY <1>1, <1>2, <2>3 DEF n, g
  <2>5. /\ IsPool(pool') /\ pool'.max = pool.max /\ pool'.usage = pool.usage + 1 * n
        /\ pc' = "prime" /\ stopped' # "pool"
    BY <1>1, <1>7, <2>1, <2>4 DEF n
  <2>6. pool'.usage <= InUse(pc')
    BY <1>1, <1>2, <1>4, <2>1, <2>2, <2>3, <2>5 DEF n
  <2> QED
    BY <1>3, <1>9, <1>10, <2>1, <2>2, <2>5, <2>6
<1>12. CASE PrimeReturns
  <2>1. /\ pc = "prime" /\ Running /\ pool' = Free(pool, 1, n) /\ pc' = "primed"
        /\ ctx' = [ctx EXCEPT !.prime = PrimeN(ctx.N, ctx.rBits)]
        /\ msg' = msg /\ inMul' = inMul /\ stopped' = stopped
    BY <1>12 DEF PrimeReturns, data, n
  <2>2. inMul = FALSE /\ pool.usage <= InUse(pc)
    BY <1>6, <2>1 DEF MulPoints
  <2>3. pool.usage <= n
    BY <1>4, <2>1, <2>2
  <2>4. IsPool(pool') /\ pool'.max = pool.max /\ pool'.usage = pool.usage - 1 * n
    BY <1>1, <1>8, <2>1 DEF n
  <2>5. pool'.usage <= InUse(pc')
    BY <1>1, <1>2, <1>4, <2>1, <2>2, <2>3, <2>4 DEF n
  <2>6. ContextInv' /\ Key' = Key
    <3> DEFINE v == PrimeN(ctx.N, ctx.rBits)
    <3>1. ctx' = [ctx EXCEPT !.prime = v]
      BY <2>1
    <3> HIDE DEF v
    <3> QED
      BY <3>1 DEF PoolInv, ContextInv, Key
  <2>7. stopped' # "pool"
    BY <2>1 DEF PoolInv
  <2> QED
    BY <1>3, <1>10, <2>1, <2>2, <2>4, <2>5, <2>6, <2>7
<1>13. CASE ConvBegins
  <2>1. pc = "primed" /\ Running /\ Take(2, r, "conv")
        /\ ctx' = ctx /\ msg' = msg /\ inMul' = inMul
    BY <1>13 DEF ConvBegins, data, r, Remainder
  <2>2. inMul = FALSE /\ pool.usage <= InUse(pc)
    BY <1>6, <2>1 DEF MulPoints
  <2>3. pool.usage <= 0
    BY <1>4, <2>1, <2>2
  <2>4. pool.usage + 2 * r <= 8 * g
    BY <1>1, <1>2, <2>3 DEF n, r, g
  <2>5. /\ IsPool(pool') /\ pool'.max = pool.max /\ pool'.usage = pool.usage + 2 * r
        /\ pc' = "conv" /\ stopped' # "pool"
    BY <1>1, <1>7, <2>1, <2>4 DEF r
  <2>6. pool'.usage <= InUse(pc')
    BY <1>1, <1>2, <1>4, <2>1, <2>2, <2>3, <2>5 DEF r
  <2> QED
    BY <1>3, <1>9, <1>10, <2>1, <2>2, <2>5, <2>6
<1>14. CASE DivisionBegins
  <2>1. pc = "conv" /\ Running /\ Take(1, r, "division")
        /\ ctx' = ctx /\ msg' = msg /\ inMul' = inMul
    BY <1>14 DEF DivisionBegins, data, r, Remainder
  <2>2. inMul = FALSE /\ pool.usage <= InUse(pc)
    BY <1>6, <2>1 DEF MulPoints
  <2>3. pool.usage <= 2 * r
    BY <1>4, <2>1, <2>2
  <2>4. pool.usage + 1 * r <= 8 * g
    BY <1>1, <1>2, <2>3 DEF n, r, g
  <2>5. /\ IsPool(pool') /\ pool'.max = pool.max /\ pool'.usage = pool.usage + 1 * r
        /\ pc' = "division" /\ stopped' # "pool"
    BY <1>1, <1>7, <2>1, <2>4 DEF r
  <2>6. pool'.usage <= InUse(pc')
    BY <1>1, <1>2, <1>4, <2>1, <2>2, <2>3, <2>5 DEF r
  <2> QED
    BY <1>3, <1>9, <1>10, <2>1, <2>2, <2>5, <2>6
<1>15. CASE ConvReturns
  <2> DEFINE d == ConvDivision(ctx.N, ctx.rBits)
             freed == IF d.leak = 0 THEN Free(pool, 1, r) ELSE pool
  <2>1. pc = "division" /\ Running /\ msg' = msg /\ inMul' = inMul
    BY <1>15 DEF ConvReturns, data
  <2>2. inMul = FALSE /\ pool.usage <= InUse(pc)
    BY <1>6, <2>1 DEF MulPoints
  <2>3. pool.usage <= 3 * r
    BY <1>4, <2>1, <2>2
  <2>4. \/ stopped' = "remainder" /\ UNCHANGED <<ctx, pool, pc>>
        \/ /\ \E v : ctx' = [ctx EXCEPT !.conv = v]
           /\ pool' = Free(freed, 2, r)
           /\ pc' = "ready" /\ stopped' = stopped
    BY <1>15 DEF ConvReturns, r, Remainder
  <2> HIDE DEF d
  <2>5. CASE stopped' = "remainder" /\ UNCHANGED <<ctx, pool, pc>>
    <3>1. ~Running'
      BY <2>5 DEF Running
    <3>2. IsPool(pool') /\ pool'.max = pool.max
      BY <1>2, <2>5
    <3>3. /\ pc' \in MulPoints \cup {"start", "prime", "primed", "conv", "division",
                                    "ready", "debug", "debugging", "finish"}
          /\ stopped' # "pool"
      BY <2>1, <2>5
    <3> QED
      BY <1>3, <1>9, <1>10, <2>1, <2>2, <2>5, <3>1, <3>2, <3>3
  <2>6. CASE /\ \E v : ctx' = [ctx EXCEPT !.conv = v]
             /\ pool' = Free(freed, 2, r)
             /\ pc' = "ready" /\ stopped' = stopped
    <3>1. IsPool(freed) /\ freed.max = pool.max /\ freed.usage <= 3 * r
      <4>1. CASE d.leak = 0
        <5>1. IsPool(Free(pool, 1, r)) /\ Free(pool, 1, r).max = pool.max
              /\ Free(pool, 1, r).usage = pool.usage - 1 * r
          BY <1>1, <1>2, FreeUses
        <5> QED
          BY <1>1, <1>2, <2>3, <4>1, <5>1
      <4>2. CASE d.leak # 0
        BY <1>2, <2>3, <4>2
      <4> QED
        BY <4>1, <4>2
    <3> HIDE DEF freed
    <3>2. IsPool(pool') /\ pool'.max = pool.max /\ pool'.usage = freed.usage - 2 * r
      <4>1. r \in Nat /\ 2 \in Nat
        BY <1>1
      <4>2. /\ IsPool(Free(freed, 2, r)) /\ Free(freed, 2, r).max = freed.max
            /\ Free(freed, 2, r).usage = freed.usage - 2 * r
        BY <3>1, <4>1, FreeUses, Zenon
      <4> QED
        BY <2>6, <3>1, <4>2
    <3>3. freed.usage \in Int
      BY <3>1 DEF IsPool
    <3>4. pool'.usage <= InUse(pc')
      BY <1>1, <1>4, <2>6, <3>1, <3>2, <3>3
    <3>5. ContextInv' /\ Key' = Key
      BY <2>6 DEF PoolInv, ContextInv, Key
    <3>6. stopped' # "pool"
      BY <2>6 DEF PoolInv
    <3> QED
      BY <1>3, <1>10, <2>1, <2>2, <2>6, <3>2, <3>4, <3>5, <3>6
  <2> QED
    BY <2>4, <2>5, <2>6
<1>16. ASSUME NEW m \in Messages, NEW x \in Exponents, ExpMod(m, x)
       PROVE  PoolInv'
  <2>1. /\ pc = "ready" /\ Running /\ Take(1, 2 * n, "toMont")
        /\ ctx' = ctx /\ msg' = ToBytes(m, n) /\ inMul' = inMul
    BY <1>16 DEF ExpMod, n
  <2>2. inMul = FALSE /\ pool.usage <= InUse(pc)
    BY <1>6, <2>1 DEF MulPoints
  <2>3. pool.usage <= r
    BY <1>4, <2>1, <2>2
  <2>4. 2 * n \in Nat /\ pool.usage + 1 * (2 * n) <= 8 * g
    BY <1>1, <1>2, <2>3
  <2>5. /\ IsPool(pool') /\ pool'.max = pool.max
        /\ pool'.usage = pool.usage + 1 * (2 * n)
        /\ pc' = "toMont" /\ stopped' # "pool"
    BY <1>7, <2>1, <2>4
  <2>6. pc' \in MulPoints
    BY <2>5 DEF MulPoints
  <2>7. pool'.usage <= InUse(pc')
    BY <1>1, <1>2, <1>5, <2>3, <2>5, <2>6
  <2>8. Bytes(msg)' \in Nat
    BY <1>1, <2>1, ToBytesLong DEF Bytes
  <2> QED
    BY <1>3, <1>9, <2>1, <2>2, <2>5, <2>6, <2>7, <2>8
<1>17. CASE MulBegins
  <2>1. /\ pc \in MulPoints /\ Running /\ ~inMul /\ Take(3, g, pc)
        /\ ctx' = ctx /\ msg' = msg /\ inMul' = (stopped' = "no")
    BY <1>17 DEF MulBegins, data, g, Scratch
  <2>2. pool.usage <= r + 2 * n
    BY <1>5, <2>1 DEF PoolInv
  <2>3. pool.usage + 3 * g <= 8 * g
    BY <1>1, <1>2, <2>2
  <2>4. /\ IsPool(pool') /\ pool'.max = pool.max /\ pool'.usage = pool.usage + 3 * g
        /\ pc' = pc /\ stopped' = stopped /\ stopped' # "pool"
    BY <1>1, <1>7, <2>1, <2>3
  <2>5. inMul' = TRUE
    BY <2>1, <2>4 DEF Running
  <2>6. pool'.usage <= InUse(pc') + 3 * g
    BY <1>1, <1>2, <1>5, <2>1, <2>2, <2>4
  <2> QED
    BY <1>3, <1>9, <1>10, <2>1, <2>4, <2>5, <2>6
<1>18. CASE MulReturns
  <2> DEFINE ok == MgMul(ctx, Operands[1], Operands[2]).ok
  <2>1. inMul /\ Running /\ ctx' = ctx /\ msg' = msg /\ inMul' = FALSE
    BY <1>18 DEF MulReturns
  <2>2. pc \in MulPoints /\ pool.usage <= r + 2 * n + 3 * g
    <3>1. pc \in MulPoints /\ pool.usage <= InUse(pc) + 3 * g
      BY <2>1 DEF PoolInv, g
    <3> QED
      BY <1>5, <3>1
  <2>3. \/ stopped' = "overflow" /\ pool' = pool /\ pc' = pc
        \/ /\ pool' = Free(pool, 3, g) /\ stopped' = stopped
           /\ pc' \in {"debug", "multiply", "square", "fromMont", "finish"}
    BY <1>18 DEF MulReturns, NextBit, g, Scratch
  <2>4. CASE stopped' = "overflow" /\ pool' = pool /\ pc' = pc
    <3>1. ~Running' /\ stopped' # "pool"
      BY <2>4 DEF Running
    <3> QED
      BY <1>2, <1>3, <1>9, <1>10, <2>1, <2>2, <2>4, <3>1
  <2>5. CASE /\ pool' = Free(pool, 3, g) /\ stopped' = stopped
             /\ pc' \in {"debug", "multiply", "square", "fromMont", "finish"}
    <3>1. IsPool(pool') /\ pool'.max = pool.max /\ pool'.usage = pool.usage - 3 * g
      BY <1>1, <1>8, <2>5
    <3>2. InUse(pc') = r + 2 * n
      BY <1>5, <2>5 DEF MulPoints
    <3>3. pool'.usage <= InUse(pc')
      BY <1>1, <1>2, <2>2, <3>1, <3>2
    <3>4. /\ pc' \in MulPoints \cup {"start", "prime", "primed", "conv", "division",
                                    "ready", "debug", "debugging", "finish"}
          /\ stopped' # "pool"
      BY <2>5 DEF PoolInv, MulPoints
    <3> QED
      BY <1>3, <1>9, <1>10, <2>1, <3>1, <3>3, <3>4
  <2> QED
    BY <2>3, <2>4, <2>5
<1>19. CASE DebugBegins
  <2> DEFINE big == Bytes(msg) + n + 1
             p == Alloc(NewPool(4 * big), 1, n + 1)
  <2>1. /\ pc = "debug" /\ Running /\ pool' = pool
        /\ ctx' = ctx /\ msg' = msg /\ inMul' = inMul
    BY <1>19 DEF DebugBegins, data
  <2>2. inMul = FALSE /\ pool.usage <= InUse(pc)
    BY <1>6, <2>1 DEF MulPoints
  <2>3. big \in Nat /\ big >= n + 1 /\ n + 1 \in Nat
    BY <1>1 DEF PoolInv
  <2>4. \/ Fits(p, 3, big) /\ pc' = "debugging" /\ stopped' = stopped
        \/ ~Fits(p, 3, big)
    BY <1>19 DEF DebugBegins, n
  <2> HIDE DEF big
  <2>5. Fits(p, 3, big)
    <3>1. NewPool(4 * big) = [max |-> 4 * big, usage |-> 0, held |-> <<>>]
      BY DEF NewPool
    <3>2. /\ IsPool(NewPool(4 * big)) /\ NewPool(4 * big).max = 4 * big
          /\ NewPool(4 * big).usage = 0
      BY <2>3, <3>1 DEF IsPool
    <3>3. p.max = 4 * big /\ p.usage = 0 + 1 * (n + 1)
      <4> DEFINE new == NewPool(4 * big)
                 size == n + 1
      <4>1. IsPool(new) /\ 1 \in Nat /\ size \in Nat
        BY <2>3, <3>2
      <4> HIDE DEF new, size
      <4>2. /\ Alloc(new, 1, size).max = new.max
            /\ Alloc(new, 1, size).usage = new.usage + 1 * size
        BY <4>1, AllocUses, Zenon
      <4> QED
        BY <3>2, <4>2 DEF new, size
    <3> HIDE DEF p
    <3> QED
      BY <1>1, <2>3, <3>3 DEF Fits
  <2>6. pc' = "debugging" /\ stopped' = stopped
    BY <2>4, <2>5
  <2>7. pool'.usage <= InUse(pc')
    BY <1>5, <2>1, <2>2, <2>6
  <2>8. IsPool(pool') /\ pool'.max = pool.max /\ stopped' # "pool"
    BY <1>2, <2>1, <2>6 DEF PoolInv
  <2> QED
    BY <1>3, <1>9, <1>10, <2>1, <2>2, <2>6, <2>7, <2>8
<1>20. CASE DebugReturns
  <2>1. /\ pc = "debugging" /\ pool' = pool /\ ctx' = ctx /\ msg' = msg
        /\ inMul' = inMul /\ stopped' = stopped /\ Running
        /\ pc' \in {"square", "fromMont"}
    BY <1>20 DEF DebugReturns, NextBit
  <2>2. inMul = FALSE /\ pool.usage <= InUse(pc)
    BY <1>6, <2>1 DEF MulPoints
  <2>3. pc' \in MulPoints
    BY <2>1 DEF MulPoints
  <2>4. pool'.usage <= InUse(pc')
    BY <1>5, <2>1, <2>2, <2>3
  <2>5. IsPool(pool') /\ pool'.max = pool.max /\ stopped' # "pool"
    BY <1>2, <2>1 DEF PoolInv
  <2> QED
    BY <1>3, <1>9, <1>10, <2>1, <2>2, <2>3, <2>4, <2>5
<1>21. CASE ExpModReturns
  <2>1. /\ pc = "finish" /\ pool' = Free(pool, 1, 2 * n) /\ ctx' = ctx /\ msg' = msg
        /\ inMul' = inMul /\ stopped' = stopped /\ Running /\ pc' = "ready"
    BY <1>21 DEF ExpModReturns, n
  <2>2. inMul = FALSE /\ pool.usage <= InUse(pc)
    BY <1>6, <2>1 DEF MulPoints
  <2>3. pool.usage <= r + 2 * n
    BY <1>5, <2>1, <2>2
  <2>4. 2 * n \in Nat
    BY <1>1
  <2>5. /\ IsPool(pool') /\ pool'.max = pool.max
        /\ pool'.usage = pool.usage - 1 * (2 * n)
    BY <1>8, <2>1, <2>4
  <2>6. pool'.usage <= InUse(pc')
    BY <1>1, <1>2, <1>4, <2>1, <2>3, <2>5
  <2>7. stopped' # "pool"
    BY <2>1 DEF PoolInv
  <2> QED
    BY <1>3, <1>9, <1>10, <2>1, <2>2, <2>5, <2>6, <2>7
<1>22. CASE UNCHANGED vars
  BY <1>22, SameUse DEF vars, data
<1> QED
  BY <1>11, <1>12, <1>13, <1>14, <1>15, <1>16, <1>17, <1>18, <1>19, <1>20, <1>21, <1>22
     DEF Next

\* The invariant of the pool.
LEMMA PoolInductive == Spec => []PoolInv
  BY PoolInit, PoolStep, PTL DEF Spec

\* The assertion of mem_pool_alloc never fails, the property the run of RsaExp
\* checks (memory_pool.cpp:19).
THEOREM PoolIsEnough == Spec => []PoolSuffices
<1>1. PoolInv => PoolSuffices
  BY DEF PoolInv, PoolSuffices
<1> QED
  BY <1>1, PoolInductive, PTL

----------------------------------------------------------------------------
(* Which buffers are held.                                                   *)

\* A pool whose buffers lie one behind the other, below what is in use.
Pools == [max : Nat, usage : Nat, held : Seq([at : Nat, size : Nat])]
Tidy(p) == p \in Pools /\ Stacked(p)

\* A new pool has no buffers.
LEMMA NewIsTidy ==
  ASSUME NEW max \in Nat
  PROVE  Tidy(NewPool(max)) /\ NewPool(max).usage = 0 /\ NewPool(max).held = <<>>
BY DEF Tidy, Pools, Stacked, NewPool

\* The buffers that mem_pool_alloc adds.
New(p, k, size) == [j \in 1 .. k |-> [at |-> p.usage + (j - 1) * size, size |-> size]]

\* They lie one behind the other, from what was in use to what is then.
LEMMA NewBuffers ==
  ASSUME NEW p \in Pools, NEW k \in Nat, NEW size \in Nat, NEW h, h = New(p, k, size)
  PROVE  /\ h \in Seq([at : Nat, size : Nat]) /\ Len(h) = k
         /\ \A j \in 1 .. k : /\ h[j].at >= p.usage /\ h[j].at + h[j].size <= p.usage + k * size
                              /\ h[j].at \in Nat /\ h[j].size \in Nat
         /\ \A j, l \in 1 .. k : j < l => h[j].at + h[j].size <= h[l].at
<1>1. p.usage \in Nat
  BY DEF Pools
<1>2. PICK u : u = p.usage
  OBVIOUS
<1>3. u \in Nat
  BY <1>1, <1>2
<1> DEFINE At0(j) == u + (j - 1) * size
<1>4. ASSUME NEW j \in 1 .. k
      PROVE  /\ h[j] = [at |-> At0(j), size |-> size] /\ At0(j) \in Nat
             /\ At0(j) >= u /\ At0(j) + size <= u + k * size
  <2>1. h[j] = [at |-> At0(j), size |-> size]
    BY <1>2 DEF New
  <2>2. j - 1 \in Nat /\ j <= k /\ j \in Nat
    OBVIOUS
  <2>3. (j - 1) * size \in Nat /\ j * size \in Nat /\ k * size \in Nat /\ j * size <= k * size
    BY <2>2
  <2>4. (j - 1) * size + size = j * size
    BY <2>2
  <2> QED
    BY <1>3, <2>1, <2>3, <2>4
<1>5. ASSUME NEW j \in 1 .. k, NEW l \in 1 .. k, j < l
      PROVE  At0(j) + size <= At0(l)
  <2>1. j - 1 \in Nat /\ l - 1 \in Nat /\ j <= l - 1 /\ j \in Nat
    BY <1>5
  <2>2. j * size <= (l - 1) * size /\ j * size = (j - 1) * size + size
    BY <2>1
  <2>3. (j - 1) * size \in Nat /\ (l - 1) * size \in Nat
    BY <2>1
  <2> QED
    BY <1>3, <2>2, <2>3
<1>6. h = [j \in 1 .. k |-> h[j]]
  BY DEF New
<1> HIDE DEF At0
<1>7. ASSUME NEW j \in 1 .. k
      PROVE  h[j].at = At0(j) /\ h[j].size = size /\ h[j] \in [at : Nat, size : Nat]
  <2>1. h[j] = [at |-> At0(j), size |-> size] /\ At0(j) \in Nat
    BY <1>4
  <2> QED
    BY <2>1
<1>8. h \in Seq([at : Nat, size : Nat]) /\ Len(h) = k
  <2>1. PICK S : S = [at : Nat, size : Nat]
    OBVIOUS
  <2>2. \A j \in 1 .. k : h[j] \in S
    BY <1>7, <2>1
  <2>3. h \in [1 .. k -> S]
    BY <1>6, <2>2
  <2>4. h \in Seq(S) /\ Len(h) = k
    BY <2>3
  <2> QED
    BY <2>1, <2>4
<1> QED
  BY <1>2, <1>4, <1>5, <1>7, <1>8

\* What is taken from a tidy pool leaves it tidy, and giving it back leaves it
\* as it was.
LEMMA AllocIsTidy ==
  ASSUME NEW p, Tidy(p), NEW k \in Nat, NEW size \in Nat
  PROVE  Tidy(Alloc(p, k, size)) /\ Free(Alloc(p, k, size), k, size) = p
<1>1. CASE size = 0
  BY <1>1 DEF Alloc, Free
<1>2. CASE size # 0
  <2>1. PICK new, held, used, q :
          /\ new = New(p, k, size) /\ held = p.held \o new /\ used = p.usage + k * size
          /\ q = Alloc(p, k, size)
    OBVIOUS
  <2>2. /\ p = [max |-> p.max, usage |-> p.usage, held |-> p.held]
        /\ p.max \in Nat /\ p.usage \in Nat /\ p.held \in Seq([at : Nat, size : Nat])
        /\ p \in Pools
    BY DEF Tidy, Pools
  <2>3. q = [max |-> p.max, usage |-> used, held |-> held]
    <3>1. q = [p EXCEPT !.usage = used, !.held = held]
      BY <1>2, <2>1, Zenon DEF Alloc, New
    <3> QED
      BY <2>2, <3>1
  <2>4. /\ new \in Seq([at : Nat, size : Nat]) /\ Len(new) = k
        /\ \A j \in 1 .. k : /\ new[j].at >= p.usage /\ new[j].at + new[j].size <= used
                             /\ new[j].at \in Nat /\ new[j].size \in Nat
        /\ \A j, l \in 1 .. k : j < l => new[j].at + new[j].size <= new[l].at
    BY <2>1, <2>2, NewBuffers
  <2>5. k * size \in Nat /\ used \in Nat /\ p.usage <= used
    <3>1. k * size \in Nat
      OBVIOUS
    <3> QED
      BY <2>1, <2>2, <3>1
  <2>6. PICK old, o : old = p.held /\ o = Len(p.held)
    OBVIOUS
  <2>7. /\ old \in Seq([at : Nat, size : Nat]) /\ o = Len(old) /\ o \in Nat /\ held = old \o new
        /\ held \in Seq([at : Nat, size : Nat]) /\ Len(held) = o + k /\ DOMAIN old = 1 .. o
        /\ DOMAIN held = 1 .. o + k
        /\ \A j \in 1 .. o : held[j] = old[j]
        /\ \A j \in o + 1 .. o + k : held[j] = new[j - o] /\ j - o \in 1 .. k
    <3>1. PICK S : S = [at : Nat, size : Nat]
      OBVIOUS
    <3>2. old \in Seq(S) /\ new \in Seq(S)
      BY <2>2, <2>4, <2>6, <3>1
    <3>3. o = Len(old) /\ Len(new) = k /\ held = old \o new
      BY <2>1, <2>4, <2>6
    <3>4. o \in Nat /\ DOMAIN old = 1 .. o
      BY <3>2, <3>3, LenProperties
    <3>5. /\ held \in Seq(S) /\ Len(held) = o + k
          /\ \A j \in 1 .. o + k : held[j] = IF j <= o THEN old[j] ELSE new[j - o]
      BY <3>2, <3>3, ConcatProperties
    <3>6. DOMAIN held = 1 .. o + k
      BY <3>5, LenProperties
    <3>7. ASSUME NEW j \in 1 .. o
          PROVE  held[j] = old[j]
      <4>1. j \in 1 .. o + k /\ j <= o
        BY <3>4
      <4> QED
        BY <3>5, <4>1
    <3>8. ASSUME NEW j \in o + 1 .. o + k
          PROVE  held[j] = new[j - o] /\ j - o \in 1 .. k
      <4>1. j \in 1 .. o + k /\ ~(j <= o) /\ j - o \in 1 .. k
        BY <3>4
      <4> QED
        BY <3>5, <4>1
    <3> QED
      BY <3>1, <3>2, <3>3, <3>4, <3>5, <3>6, <3>7, <3>8
  <2>8. /\ \A j \in 1 .. o : old[j].at + old[j].size <= p.usage /\ old[j].at \in Nat /\ old[j].size \in Nat
        /\ \A j, l \in 1 .. o : j < l => old[j].at + old[j].size <= old[l].at
    <3>1. PICK S : S = [at : Nat, size : Nat]
      OBVIOUS
    <3>2. \A j \in 1 .. o : old[j] \in S
      BY <2>7, <3>1, ElementOfSeq
    <3>3. \A j \in 1 .. o : old[j].at \in Nat /\ old[j].size \in Nat
      BY <3>1, <3>2
    <3>4. Stacked(p) /\ DOMAIN p.held = 1 .. o
      BY <2>6, <2>7 DEF Tidy
    <3> QED
      BY <2>6, <3>3, <3>4 DEF Stacked
  <2>9. ASSUME NEW j \in 1 .. o + k
        PROVE  held[j].at + held[j].size <= used
    <3>1. CASE j \in 1 .. o
      <4>1. old[j].at + old[j].size <= p.usage /\ old[j].at \in Nat /\ old[j].size \in Nat
        BY <2>8, <3>1
      <4>2. held[j] = old[j]
        BY <2>7, <3>1
      <4> QED
        BY <2>2, <2>5, <4>1, <4>2
    <3>2. CASE j \in o + 1 .. o + k
      <4>1. held[j] = new[j - o] /\ j - o \in 1 .. k
        BY <2>7, <3>2
      <4> QED
        BY <2>4, <4>1
    <3>3. o \in Nat
      BY <2>7
    <3> QED
      BY <3>1, <3>2, <3>3
  <2>10. ASSUME NEW j \in 1 .. o + k, NEW l \in 1 .. o + k, j < l
         PROVE  held[j].at + held[j].size <= held[l].at
    <3>1. CASE l \in 1 .. o
      <4>1. j \in 1 .. o
        BY <2>7, <2>10, <3>1
      <4> QED
        BY <2>7, <2>8, <2>10, <3>1, <4>1
    <3>2. CASE l \in o + 1 .. o + k /\ j \in 1 .. o
      <4>1. held[j].at + held[j].size <= p.usage /\ held[j].at \in Nat /\ held[j].size \in Nat
        BY <2>7, <2>8, <3>2
      <4>2. held[l].at >= p.usage /\ held[l].at \in Nat
        BY <2>4, <2>7, <3>2
      <4> QED
        BY <2>2, <4>1, <4>2
    <3>3. CASE l \in o + 1 .. o + k /\ j \in o + 1 .. o + k
      <4>1. o \in Nat /\ held[j] = new[j - o] /\ held[l] = new[l - o]
            /\ j - o \in 1 .. k /\ l - o \in 1 .. k
        BY <2>7, <3>3
      <4>2. j - o < l - o
        BY <2>10, <4>1
      <4> QED
        BY <2>4, <4>1, <4>2
    <3>4. o \in Nat
      BY <2>7
    <3>5. l \in 1 .. o \/ (l \in o + 1 .. o + k /\ (j \in 1 .. o \/ j \in o + 1 .. o + k))
      BY <3>4
    <3> QED
      BY <3>1, <3>2, <3>3, <3>5
  <2>11. Tidy(q)
    <3>1. q \in Pools
      BY <2>2, <2>3, <2>5, <2>7 DEF Pools
    <3>2. q.held = held /\ q.usage = used
      BY <2>3
    <3>3. Stacked(q)
      BY <2>7, <2>9, <2>10, <3>2 DEF Stacked
    <3> QED
      BY <3>1, <3>3 DEF Tidy
  <2>12. Free(q, k, size) = p
    <3>1. SubSeq(held, 1, Len(held) - k) = old
      <4>1. Len(held) - k = o
        BY <2>7
      <4>2. SubSeq(old \o new, 1, o) = old
        BY <2>4, <2>7
      <4> QED
        BY <2>7, <4>1, <4>2
    <3>2. used - k * size = p.usage
      BY <2>1, <2>2, <2>5
    <3>3. q.held = held /\ q.usage = used
      BY <2>3
    <3>4. Free(q, k, size) = [q EXCEPT !.usage = p.usage, !.held = p.held]
      BY <1>2, <2>6, <3>1, <3>2, <3>3, Zenon DEF Free
    <3> QED
      BY <2>2, <2>3, <3>4
  <2> QED
    BY <2>1, <2>11, <2>12
<1> QED
  BY <1>1, <1>2

----------------------------------------------------------------------------
(* The buffers are given back in the order the calls need.                   *)

\* The number 1 of n bytes.
LEMMA OneIs ==
  ASSUME NEW n \in Nat \ {0}
  PROVE  One(n) \in Number(n) /\ Value(One(n)) = 1
<1>1. PICK x : x = One(n)
  OBVIOUS
<1>2. x = [k \in 0 .. n - 1 |-> IF k = 0 THEN 1 ELSE 0]
  BY <1>1 DEF One, Zero
<1>3. Base \in Nat /\ Base >= 2 /\ Weight(0) = 1
  BY Weights
<1>4. 0 \in Byte /\ 1 \in Byte
  BY <1>3 DEF Byte
<1>5. x \in Number(n)
  BY <1>2, <1>4 DEF Number
<1>6. Value(x) = Part(x, n) /\ Digits(x, n)
  BY <1>5, NumberDef
<1>7. 1 \in Nat /\ 1 <= n /\ 0 \in 0 .. n - 1 /\ n \in Nat
  OBVIOUS
<1>8. x[0] = 1 /\ \A k \in 1 .. n - 1 : x[k] = 0
  BY <1>2, <1>7
<1>9. Part(x, n) = Part(x, 1)
  BY <1>6, <1>7, <1>8, PartAboveZero
<1>10. Part(x, 0 + 1) = Part(x, 0) + x[0] * Weight(0) /\ Part(x, 0) = 0
  BY <1>6, <1>7, PartDef
<1> QED
  BY <1>1, <1>3, <1>5, <1>6, <1>8, <1>9, <1>10

\* The numbers of RSA_get_MG_conv_const: R^2 has room in its buffer, and is no
\* smaller than N.
LEMMA RSquared ==
  ASSUME NEW N \in Moduli, NEW bits, bits = Bitwidth(N), NEW r, r = RBytes(bits)
  PROVE  /\ r \in Nat \ {0} /\ bits \in Nat
         /\ LeftShift(One(r), 2 * bits) \in Number(r)
         /\ Value(LeftShift(One(r), 2 * bits)) = Pow2[2 * bits]
         /\ N \in Number(Bytes(N)) /\ Bytes(N) \in Nat \ {0}
         /\ Value(N) \in Nat /\ Value(N) < Pow2[bits] /\ Pow2[bits] <= Pow2[2 * bits]
<1>1. N \in Number(Bytes(N)) /\ Bytes(N) \in Nat \ {0}
  BY KeysAssumption
<1>2. bits \in Nat /\ Value(N) < Pow2[bits] /\ Value(N) \in Nat
  <2>1. Bytes(N) \in Nat /\ ByteBits * Bytes(N) \in Nat
    BY <1>1, ByteBitsAssumption
  <2>2. Bitwidth(N) \in 0 .. ByteBits * Bytes(N) /\ Value(N) < Pow2[Bitwidth(N)]
    BY <1>1, <2>1, BitwidthIs
  <2>3. Value(N) \in Nat
    BY <1>1, <2>1, NumberDef
  <2> QED
    BY <2>1, <2>2, <2>3
<1>3. ByteBits \in Nat \ {0}
  BY ByteBitsAssumption
<1>4. r \in Nat /\ 2 * bits < ByteBits * r
  <2>1. PICK x : x = 2 * bits + 1 + ByteBits - 1
    OBVIOUS
  <2>2. x \in Nat /\ r = x \div ByteBits /\ x = 2 * bits + ByteBits
    BY <1>2, <1>3, <2>1 DEF RBytes
  <2>3. r \in Nat /\ x % ByteBits \in Nat /\ x = r * ByteBits + (x % ByteBits) /\ x % ByteBits < ByteBits
    <3>1. /\ x \div ByteBits \in Nat /\ x % ByteBits \in Nat /\ x % ByteBits < ByteBits
          /\ x = (x \div ByteBits) * ByteBits + (x % ByteBits)
      BY <1>3, <2>2, DivDef
    <3> QED
      BY <2>2, <3>1
  <2>4. r * ByteBits = ByteBits * r /\ ByteBits * r \in Nat
    BY <1>3, <2>3
  <2> QED
    BY <1>2, <1>3, <2>2, <2>3, <2>4
<1>5. r # 0
  BY <1>2, <1>3, <1>4
<1>6. One(r) \in Number(r) /\ Value(One(r)) = 1
  BY <1>4, <1>5, OneIs
<1>7. 2 * bits \in Nat /\ ByteBits * r \in Nat
  BY <1>2, <1>3, <1>4
<1>8. /\ LeftShift(One(r), 2 * bits) \in Number(r)
      /\ Value(LeftShift(One(r), 2 * bits)) = (1 * Pow2[2 * bits]) % Weight(r)
  BY <1>4, <1>6, <1>7, LeftShiftIs
<1>9. Pow2[2 * bits] < Weight(r)
  BY <1>4, <1>7, PowerOrder DEF Weight
<1>10. /\ Pow2[2 * bits] \in Nat /\ Weight(r) \in Nat \ {0} /\ Pow2[bits] <= Pow2[2 * bits]
  <2>1. bits <= 2 * bits
    BY <1>2
  <2> QED
    BY <1>2, <1>4, <1>7, <2>1, PowerMonotone, Weights
<1>11. Pow2[2 * bits] % Weight(r) = Pow2[2 * bits]
  BY <1>9, <1>10, SmallMod
<1> QED
  BY <1>1, <1>2, <1>4, <1>5, <1>8, <1>10, <1>11

\* The long division never returns early: it gives its buffer back.
LEMMA NoLeak ==
  ASSUME NEW N \in Moduli, NEW bits, bits = Bitwidth(N)
  PROVE  ConvDivision(N, bits).leak = 0
<1>1. PICK r, x, m : r = RBytes(bits) /\ x = LeftShift(One(r), 2 * bits) /\ m = Bytes(N)
  OBVIOUS
<1>2. /\ r \in Nat \ {0} /\ x \in Number(r) /\ Value(x) = Pow2[2 * bits]
      /\ N \in Number(m) /\ m \in Nat \ {0}
      /\ Value(N) \in Nat /\ Value(N) < Pow2[bits] /\ Pow2[bits] <= Pow2[2 * bits] /\ bits \in Nat
  BY <1>1, RSquared
<1>3. Pow2[bits] \in Nat /\ Pow2[2 * bits] \in Nat
  BY <1>2, Pow2Def
<1>4. Value(x) > Value(N)
  BY <1>2, <1>3
<1>5. Compare(x, N) = Sign(Value(x), Value(N))
  BY <1>2, CompareIs
<1>6. Compare(x, N) # -1
  BY <1>4, <1>5 DEF Sign
<1>7. Bitwidth(x) \in Nat
  <2>1. r \in Nat /\ ByteBits * r \in Nat /\ Bitwidth(x) \in 0 .. ByteBits * r
    BY <1>2, ByteBitsAssumption, BitwidthIs
  <2> QED
    BY <2>1
<1>8. PICK w, z : DivRun(w, z, x, N, r, r, Bitwidth(x))
  <2>1. r \in Nat /\ m \in Nat
    BY <1>2
  <2> QED
    BY <1>2, <1>6, <2>1, DivLoop
<1>9. Div(x, N, r) = [quot |-> z, rest |-> Resize(w[Bitwidth(x)], r), leak |-> 0]
  BY <1>8 DEF DivRun
<1>10. Div(x, N, r).leak = 0
  BY <1>9
<1> QED
  BY <1>1, <1>10 DEF ConvDivision

\* The pool at a place of the code, for a modulus of n bytes, a square of r and
\* a multiplication's buffers of g: each call has added its own to its caller's.
PoolOf(at, n, r, g) ==
  CASE at \in {"start", "primed", "ready"} -> NewPool(8 * g)
    [] at = "prime" -> Alloc(NewPool(8 * g), 1, n)
    [] at = "conv" -> Alloc(NewPool(8 * g), 2, r)
    [] at = "division" -> Alloc(Alloc(NewPool(8 * g), 2, r), 1, r)
    [] OTHER -> Alloc(NewPool(8 * g), 1, 2 * n)

\* It is tidy everywhere.
LEMMA PoolOfIsTidy ==
  ASSUME NEW at, NEW n \in Nat, NEW r \in Nat, NEW g \in Nat
  PROVE  Tidy(PoolOf(at, n, r, g))
<1>1. PICK p : p = NewPool(8 * g)
  OBVIOUS
<1>2. Tidy(p)
  <2>1. 8 * g \in Nat
    OBVIOUS
  <2> QED
    BY <1>1, <2>1, NewIsTidy
<1>3. 2 * n \in Nat /\ 1 \in Nat /\ 2 \in Nat
  OBVIOUS
<1>4. Tidy(Alloc(p, 1, n)) /\ Tidy(Alloc(p, 2, r)) /\ Tidy(Alloc(p, 1, 2 * n))
  BY <1>2, <1>3, AllocIsTidy
<1>5. Tidy(Alloc(Alloc(p, 2, r), 1, r))
  BY <1>3, <1>4, AllocIsTidy
<1>6. PoolOf(at, n, r, g) \in {p, Alloc(p, 1, n), Alloc(p, 2, r), Alloc(Alloc(p, 2, r), 1, r), Alloc(p, 1, 2 * n)}
  BY <1>1 DEF PoolOf
<1> QED
  BY <1>2, <1>4, <1>5, <1>6

\* The pool is that of the code's place, with the buffers of a multiplication
\* on top while there is one, or once one has stopped the program.
HeldInv ==
  /\ pool = IF inMul \/ stopped = "overflow"
            THEN Alloc(PoolOf(pc, NBytes, Remainder, Scratch), 3, Scratch)
            ELSE PoolOf(pc, NBytes, Remainder, Scratch)
  /\ Tidy(debug)

\* No step touches the key.
LEMMA KeyKept ==
  ASSUME ContextInv, [Next]_vars
  PROVE  /\ Key' = Key /\ ctx'.rBits = ctx.rBits
         /\ NBytes' = NBytes /\ Remainder' = Remainder /\ Scratch' = Scratch
<1>1. ctx' = ctx \/ (\E v : ctx' = [ctx EXCEPT !.prime = v]) \/ \E v : ctx' = [ctx EXCEPT !.conv = v]
  <2>1. CASE PrimeReturns
    BY <2>1 DEF PrimeReturns
  <2>2. CASE ConvReturns
    BY <2>2 DEF ConvReturns
  <2>3. CASE UNCHANGED vars
    BY <2>3 DEF vars
  <2>4. CASE PrimeBegins \/ ConvBegins \/ DivisionBegins \/ MulBegins \/ MulReturns
             \/ DebugBegins \/ DebugReturns \/ ExpModReturns
    BY <2>4 DEF PrimeBegins, ConvBegins, DivisionBegins, MulBegins, MulReturns,
                DebugBegins, DebugReturns, ExpModReturns
  <2>5. CASE \E m \in Messages, x \in Exponents : ExpMod(m, x)
    BY <2>5 DEF ExpMod
  <2> QED
    BY <2>1, <2>2, <2>3, <2>4, <2>5 DEF Next
<1>2. Key' = Key /\ ctx'.rBits = ctx.rBits
  <2>1. CASE ctx' = ctx
    BY <2>1 DEF Key
  <2>2. CASE \E v : ctx' = [ctx EXCEPT !.prime = v]
    <3>1. PICK v : ctx' = [ctx EXCEPT !.prime = v]
      BY <2>2
    <3> QED
      BY <3>1 DEF ContextInv, Key
  <2>3. CASE \E v : ctx' = [ctx EXCEPT !.conv = v]
    <3>1. PICK v : ctx' = [ctx EXCEPT !.conv = v]
      BY <2>3
    <3> QED
      BY <3>1 DEF ContextInv, Key
  <2> QED
    BY <1>1, <2>1, <2>2, <2>3
<1> QED
  BY <1>2 DEF NBytes, Remainder, Scratch, BuffBytes, RBytes, Bytes, Ceil, Key

\* It holds at first, when nothing is held.
LEMMA HeldInit == Init => HeldInv
<1> SUFFICES ASSUME Init
             PROVE  HeldInv
  OBVIOUS
<1>1. pool = NewPool(8 * Scratch) /\ pc = "start" /\ inMul = FALSE /\ stopped = "no" /\ debug = NewPool(0)
  BY DEF Init, Scratch
<1>2. PoolOf(pc, NBytes, Remainder, Scratch) = NewPool(8 * Scratch)
  BY <1>1 DEF PoolOf
<1>3. Tidy(debug)
  BY <1>1, NewIsTidy
<1> QED
  BY <1>1, <1>2, <1>3 DEF HeldInv

\* Every step leaves the pool as its place wants it.
LEMMA HeldStep == PoolInv /\ PoolInv' /\ HeldInv /\ [Next]_vars => HeldInv'
<1> SUFFICES ASSUME PoolInv, PoolInv', HeldInv, [Next]_vars
             PROVE  HeldInv'
  OBVIOUS
<1>1. PICK n, r, g : n = NBytes /\ r = Remainder /\ g = Scratch
  OBVIOUS
<1>2. /\ n \in Nat /\ r \in Nat /\ g \in Nat /\ 2 * n \in Nat
      /\ NBytes' = n /\ Remainder' = r /\ Scratch' = g
  BY <1>1, Needs, KeyKept DEF PoolInv
<1>3. PICK e0, p1, p2, p3, p4 :
        /\ e0 = NewPool(8 * g) /\ p1 = Alloc(e0, 1, n) /\ p2 = Alloc(e0, 2, r)
        /\ p3 = Alloc(p2, 1, r) /\ p4 = Alloc(e0, 1, 2 * n)
  OBVIOUS
<1>4. /\ Tidy(e0) /\ Tidy(p1) /\ Tidy(p2) /\ Tidy(p3) /\ Tidy(p4)
      /\ Free(p1, 1, n) = e0 /\ Free(p2, 2, r) = e0 /\ Free(p3, 1, r) = p2 /\ Free(p4, 1, 2 * n) = e0
  <2>1. Tidy(e0)
    <3>1. 8 * g \in Nat
      BY <1>2
    <3> QED
      BY <1>3, <3>1, NewIsTidy
  <2>2. 1 \in Nat /\ 2 \in Nat
    OBVIOUS
  <2>3. /\ Tidy(p1) /\ Tidy(p2) /\ Tidy(p4)
        /\ Free(p1, 1, n) = e0 /\ Free(p2, 2, r) = e0 /\ Free(p4, 1, 2 * n) = e0
    BY <1>2, <1>3, <2>1, <2>2, AllocIsTidy
  <2>4. Tidy(p3) /\ Free(p3, 1, r) = p2
    BY <1>2, <1>3, <2>2, <2>3, AllocIsTidy
  <2> QED
    BY <2>1, <2>3, <2>4
<1>5. /\ \A at \in {"start", "primed", "ready"} : PoolOf(at, n, r, g) = e0
      /\ PoolOf("prime", n, r, g) = p1 /\ PoolOf("conv", n, r, g) = p2
      /\ PoolOf("division", n, r, g) = p3
      /\ \A at \in MulPoints \cup {"debug", "debugging", "finish"} : PoolOf(at, n, r, g) = p4
  BY <1>3 DEF PoolOf, MulPoints
<1>6. /\ ~inMul /\ Running => pool = PoolOf(pc, n, r, g)
      /\ inMul => pool = Alloc(PoolOf(pc, n, r, g), 3, g)
      /\ inMul => pc \in MulPoints
      /\ inMul \in BOOLEAN
  BY <1>1 DEF HeldInv, PoolInv, Running
<1>7. stopped' # "pool"
  BY DEF PoolInv
<1>8. Tidy(debug)
  BY DEF HeldInv
\* A step that takes or gives back what its place wants.
<1>9. ASSUME ~inMul', stopped' # "overflow", pool' = PoolOf(pc', n, r, g), Tidy(debug')
      PROVE  HeldInv'
  BY <1>2, <1>9 DEF HeldInv, Tidy, Pools, Stacked
\* A call that takes memory from the pool gets it.
<1>10. ASSUME NEW k, NEW size, NEW next, Take(k, size, next)
       PROVE  pool' = Alloc(pool, k, size) /\ pc' = next /\ stopped' = stopped
  BY <1>7, <1>10 DEF Take
<1>11. pc \notin MulPoints => ~inMul
  BY <1>6
<1>12. CASE PrimeBegins
  <2>1. /\ pc = "start" /\ Running /\ Take(1, n, "prime") /\ inMul' = inMul /\ debug' = debug
    BY <1>1, <1>12 DEF PrimeBegins
  <2>2. ~inMul /\ pool = e0
    BY <1>5, <1>6, <1>11, <2>1 DEF MulPoints
  <2>3. pool' = p1 /\ pc' = "prime" /\ stopped' = "no"
    BY <1>3, <1>10, <2>1, <2>2 DEF Running
  <2> QED
    BY <1>5, <1>8, <1>9, <2>1, <2>2, <2>3
<1>13. CASE PrimeReturns
  <2>1. /\ pc = "prime" /\ Running /\ pool' = Free(pool, 1, n) /\ pc' = "primed"
        /\ inMul' = inMul /\ debug' = debug /\ stopped' = stopped
    BY <1>1, <1>13 DEF PrimeReturns
  <2>2. ~inMul /\ pool = p1
    BY <1>5, <1>6, <1>11, <2>1 DEF MulPoints
  <2>3. pool' = e0 /\ stopped' = "no"
    BY <1>4, <2>1, <2>2 DEF Running
  <2> QED
    BY <1>5, <1>8, <1>9, <2>1, <2>2, <2>3
<1>14. CASE ConvBegins
  <2>1. /\ pc = "primed" /\ Running /\ Take(2, r, "conv") /\ inMul' = inMul /\ debug' = debug
    BY <1>1, <1>14 DEF ConvBegins, Remainder
  <2>2. ~inMul /\ pool = e0
    BY <1>5, <1>6, <1>11, <2>1 DEF MulPoints
  <2>3. pool' = p2 /\ pc' = "conv" /\ stopped' = "no"
    BY <1>3, <1>10, <2>1, <2>2 DEF Running
  <2> QED
    BY <1>5, <1>8, <1>9, <2>1, <2>2, <2>3
<1>15. CASE DivisionBegins
  <2>1. /\ pc = "conv" /\ Running /\ Take(1, r, "division") /\ inMul' = inMul /\ debug' = debug
    BY <1>1, <1>15 DEF DivisionBegins, Remainder
  <2>2. ~inMul /\ pool = p2
    BY <1>5, <1>6, <1>11, <2>1 DEF MulPoints
  <2>3. pool' = p3 /\ pc' = "division" /\ stopped' = "no"
    BY <1>3, <1>10, <2>1, <2>2 DEF Running
  <2> QED
    BY <1>5, <1>8, <1>9, <2>1, <2>2, <2>3
<1>16. CASE ConvReturns
  <2>1. PICK d : d = ConvDivision(ctx.N, ctx.rBits)
    OBVIOUS
  <2>2. d.leak = 0
    <3>1. ctx.N \in Moduli /\ ctx.rBits = Bitwidth(ctx.N)
      BY DEF PoolInv, ContextInv, Key
    <3> QED
      BY <2>1, <3>1, NoLeak
  <2>3. /\ pc = "division" /\ Running /\ inMul' = inMul /\ debug' = debug
        /\ \/ stopped' = "remainder" /\ pool' = pool /\ pc' = pc
           \/ /\ pool' = Free(Free(pool, 1, r), 2, r)
              /\ pc' = "ready" /\ stopped' = stopped
    BY <1>1, <1>16, <2>1, <2>2 DEF ConvReturns, Remainder
  <2>4. ~inMul /\ pool = p3
    BY <1>5, <1>6, <1>11, <2>3 DEF MulPoints
  <2>5. CASE stopped' = "remainder" /\ pool' = pool /\ pc' = pc
    BY <1>5, <1>8, <1>9, <2>3, <2>4, <2>5
  <2>6. CASE pool' = Free(Free(pool, 1, r), 2, r) /\ pc' = "ready" /\ stopped' = stopped
    <3>1. pool' = e0 /\ stopped' = "no"
      BY <1>4, <2>3, <2>4, <2>6 DEF Running
    <3> QED
      BY <1>5, <1>8, <1>9, <2>3, <2>4, <2>6, <3>1
  <2> QED
    BY <2>3, <2>5, <2>6
<1>17. ASSUME NEW m \in Messages, NEW x \in Exponents, ExpMod(m, x)
       PROVE  HeldInv'
  <2>1. pc = "ready" /\ Running /\ Take(1, 2 * n, "toMont") /\ inMul' = inMul /\ debug' = debug
    BY <1>1, <1>17 DEF ExpMod
  <2>2. ~inMul /\ pool = e0
    BY <1>5, <1>6, <1>11, <2>1 DEF MulPoints
  <2>3. pool' = p4 /\ pc' = "toMont" /\ stopped' = "no"
    BY <1>3, <1>10, <2>1, <2>2 DEF Running
  <2>4. pc' \in MulPoints
    BY <2>3 DEF MulPoints
  <2> QED
    BY <1>5, <1>8, <1>9, <2>1, <2>2, <2>3, <2>4
<1>18. CASE MulBegins
  <2>1. /\ pc \in MulPoints /\ Running /\ ~inMul /\ Take(3, g, pc)
        /\ debug' = debug /\ inMul' = (stopped' = "no")
    BY <1>1, <1>18 DEF MulBegins, Scratch
  <2>2. pool = PoolOf(pc, n, r, g)
    BY <1>6, <2>1
  <2>3. pool' = Alloc(PoolOf(pc', n, r, g), 3, g) /\ stopped' = "no"
    BY <1>10, <2>1, <2>2 DEF Running
  <2>4. inMul' = TRUE /\ Tidy(debug)'
    BY <1>8, <2>1, <2>3 DEF Tidy, Pools, Stacked
  <2> QED
    BY <1>2, <2>3, <2>4 DEF HeldInv
<1>19. CASE MulReturns
  <2>1. /\ inMul /\ Running /\ debug' = debug /\ inMul' = FALSE
        /\ \/ stopped' = "overflow" /\ pool' = pool /\ pc' = pc
           \/ /\ pool' = Free(pool, 3, g) /\ stopped' = stopped
              /\ pc' \in {"debug", "multiply", "square", "fromMont", "finish"}
    BY <1>1, <1>19 DEF MulReturns, NextBit, Scratch
  <2>2. pc \in MulPoints /\ pool = Alloc(p4, 3, g)
    BY <1>5, <1>6, <2>1
  <2>3. Free(pool, 3, g) = p4
    <3>1. 3 \in Nat
      OBVIOUS
    <3> QED
      BY <1>2, <1>4, <2>2, <3>1, AllocIsTidy
  <2>4. CASE stopped' = "overflow" /\ pool' = pool /\ pc' = pc
    <3>1. PoolOf(pc', n, r, g) = p4
      BY <1>5, <2>2, <2>4
    <3>2. Tidy(debug)'
      BY <1>8, <2>1 DEF Tidy, Pools, Stacked
    <3> QED
      BY <1>2, <2>2, <2>4, <3>1, <3>2 DEF HeldInv
  <2>5. CASE /\ pool' = Free(pool, 3, g) /\ stopped' = stopped
             /\ pc' \in {"debug", "multiply", "square", "fromMont", "finish"}
    <3>1. PoolOf(pc', n, r, g) = p4
      BY <1>5, <2>5 DEF MulPoints
    <3> QED
      BY <1>8, <1>9, <2>1, <2>3, <2>5, <3>1 DEF Running
  <2> QED
    BY <2>1, <2>4, <2>5
<1>20. CASE DebugBegins
  <2>1. PICK big, p : big = Bytes(msg) + n + 1 /\ p = Alloc(NewPool(4 * big), 1, n + 1)
    OBVIOUS
  <2>2. /\ pc = "debug" /\ Running /\ inMul' = inMul /\ pool' = pool
        /\ debug' = Alloc(p, 3, big) /\ pc' = "debugging" /\ stopped' = stopped
    BY <1>1, <1>7, <1>20, <2>1 DEF DebugBegins
  <2>3. ~inMul /\ pool = p4
    BY <1>5, <1>6, <1>11, <2>2 DEF MulPoints
  <2>4. big \in Nat /\ 4 * big \in Nat /\ n + 1 \in Nat
    BY <1>2, <2>1 DEF PoolInv
  <2>5. Tidy(debug')
    <3>1. 1 \in Nat /\ 3 \in Nat
      OBVIOUS
    <3>2. Tidy(NewPool(4 * big))
      BY <2>4, NewIsTidy
    <3>3. Tidy(p)
      BY <2>1, <2>4, <3>1, <3>2, AllocIsTidy
    <3> QED
      BY <2>2, <2>4, <3>1, <3>3, AllocIsTidy
  <2> QED
    BY <1>5, <1>9, <2>2, <2>3, <2>5 DEF Running
<1>21. CASE DebugReturns
  <2>1. /\ pc = "debugging" /\ Running /\ inMul' = inMul /\ pool' = pool /\ stopped' = stopped
        /\ debug' = NewPool(0) /\ pc' \in {"square", "fromMont"}
    BY <1>21 DEF DebugReturns, NextBit
  <2>2. ~inMul /\ pool = p4 /\ pc' \in MulPoints
    BY <1>5, <1>6, <1>11, <2>1 DEF MulPoints
  <2>3. Tidy(debug')
    BY <2>1, NewIsTidy
  <2> QED
    BY <1>5, <1>9, <2>1, <2>2, <2>3 DEF Running
<1>22. CASE ExpModReturns
  <2>1. /\ pc = "finish" /\ Running /\ inMul' = inMul /\ debug' = debug /\ stopped' = stopped
        /\ pool' = Free(pool, 1, 2 * n) /\ pc' = "ready"
    BY <1>1, <1>22 DEF ExpModReturns
  <2>2. ~inMul /\ pool = p4
    BY <1>5, <1>6, <1>11, <2>1 DEF MulPoints
  <2>3. pool' = e0
    BY <1>4, <2>1, <2>2
  <2> QED
    BY <1>5, <1>8, <1>9, <2>1, <2>2, <2>3 DEF Running
<1>23. CASE UNCHANGED vars
  <2>1. pool' = pool /\ pc' = pc /\ inMul' = inMul /\ stopped' = stopped /\ debug' = debug
    BY <1>23 DEF vars
  <2>2. Tidy(debug)'
    BY <1>8, <2>1 DEF Tidy, Pools, Stacked
  <2> QED
    BY <1>1, <1>2, <2>1, <2>2 DEF HeldInv
<1> QED
  BY <1>12, <1>13, <1>14, <1>15, <1>16, <1>17, <1>18, <1>19, <1>20, <1>21, <1>22, <1>23
     DEF Next

\* The invariant of what is held.
LEMMA HeldInductive == Spec => [](PoolInv /\ HeldInv)
<1>1. Init => PoolInv /\ HeldInv
  BY PoolInit, HeldInit
<1>2. PoolInv /\ HeldInv /\ [Next]_vars => PoolInv' /\ HeldInv'
  BY PoolStep, HeldStep
<1> QED
  BY <1>1, <1>2, PTL DEF Spec

\* The buffers that are held never overlap, and between calls none is held,
\* whatever the key, the width of a byte and the number of calls: giving back by
\* size alone (memory_pool.cpp:29-37) is safe as RSA_MG_ctx_init, RSA_exp_mod and
\* what they call do it.
THEOREM HeldLikeAStack == Spec => []BuffersApart
<1>1. PoolInv /\ HeldInv => BuffersApart
  <2> SUFFICES ASSUME PoolInv, HeldInv
               PROVE  BuffersApart
    OBVIOUS
  <2>1. NBytes \in Nat /\ Remainder \in Nat /\ Scratch \in Nat
    BY Needs DEF PoolInv
  <2>2. Tidy(PoolOf(pc, NBytes, Remainder, Scratch))
    BY <2>1, PoolOfIsTidy
  <2>3. Tidy(Alloc(PoolOf(pc, NBytes, Remainder, Scratch), 3, Scratch))
    <3>1. 3 \in Nat
      OBVIOUS
    <3> QED
      BY <2>1, <2>2, <3>1, AllocIsTidy
  <2>4. Tidy(pool) /\ Tidy(debug)
    BY <2>2, <2>3 DEF HeldInv
  <2>5. ASSUME Running, pc \in {"start", "primed", "ready"}
        PROVE  pool.usage = 0 /\ pool.held = <<>>
    <3>1. ~inMul /\ stopped # "overflow"
      BY <2>5 DEF PoolInv, MulPoints, Running
    <3>2. pool = NewPool(8 * Scratch)
      BY <2>5, <3>1 DEF HeldInv, PoolOf
    <3> QED
      BY <3>2 DEF NewPool
  <2> QED
    BY <2>4, <2>5 DEF BuffersApart, Tidy
<1> QED
  BY <1>1, HeldInductive, PTL

----------------------------------------------------------------------------
(* What the arithmetic leaves is an array of bytes, for every key.           *)

\* Each byte of a right shift is one byte's high bits and the next one's low
\* bits, whichever byte those are read from.
LEMMA RightShiftType ==
  ASSUME NEW m \in Nat, NEW x \in Number(m), NEW bits \in Nat
  PROVE  RightShift(x, bits) \in Number(m)
<1>1. PICK k, s, p, g : /\ k = bits \div ByteBits /\ s = bits % ByteBits
                        /\ p = Pow2[s] /\ g = Pow2[ByteBits - s]
  OBVIOUS
<1>2. k \in Nat /\ p \in Nat \ {0} /\ g \in Nat \ {0} /\ g * p = Base
  <2>1. k \in Nat /\ p \in Nat \ {0} /\ g \in Nat \ {0} /\ p * g = Base
    BY <1>1, BitsSplit
  <2> QED
    BY <2>1
<1>3. Base \in Nat /\ Base >= 2
  BY Weights
<1>4. ASSUME NEW u \in Byte
      PROVE  u \div p \in Nat /\ u \div p < g /\ g <= Base
  <2>1. u \in 0 .. Base - 1
    BY DEF Byte
  <2>2. /\ (u % p) * g \in Nat /\ (u % p) * g + g <= Base
        /\ u \div p \in Nat /\ u \div p < g
    BY <1>2, <2>1, ShiftStep
  <2> QED
    BY <1>2, <1>3, <2>2
<1>5. ASSUME NEW u \in Byte
      PROVE  u \div p \in Byte
  <2>1. u \div p \in Nat /\ u \div p < g /\ g <= Base
    BY <1>4
  <2>2. PICK q : q = u \div p
    OBVIOUS
  <2> QED
    BY <1>2, <1>3, <2>1, <2>2 DEF Byte
<1>6. ASSUME NEW u \in Byte, NEW v \in Byte
      PROVE  (u \div p) + ((v * g) % Base) \in Byte
  <2>1. v \in 0 .. Base - 1
    BY DEF Byte
  <2>2. (v * g) % Base = (v % p) * g /\ (v % p) * g \in Nat /\ (v % p) * g + g <= Base
    BY <1>2, <2>1, ShiftStep
  <2>3. u \div p \in Nat /\ u \div p < g
    BY <1>4
  <2>4. PICK q, r : q = u \div p /\ r = (v * g) % Base
    OBVIOUS
  <2>5. q \in Nat /\ r \in Nat /\ q < g /\ r + g <= Base
    BY <2>2, <2>3, <2>4
  <2>6. q + r \in 0 .. Base - 1
    BY <1>2, <1>3, <2>5
  <2> QED
    BY <2>4, <2>6 DEF Byte
<1>7. DOMAIN x = 0 .. m - 1 /\ Bytes(x) = m /\ \A j \in 0 .. m - 1 : x[j] \in Byte
  BY NumberDef
<1> DEFINE v(j) == IF k = 0 THEN x[j] \div p ELSE x[k + j]
<1>8. RightShift(x, bits) =
        [j \in 0 .. m - 1 |->
           IF j >= m - k THEN 0
           ELSE IF j = m - k - 1 THEN x[k + j] \div p
           ELSE (x[k + j] \div p) + ((v(j + 1) * g) % Base)]
  BY <1>1, <1>7 DEF RightShift, Shl, Shr
<1>9. ASSUME NEW j \in 0 .. m - 1, j < m - k - 1
      PROVE  v(j + 1) \in Byte
  <2>1. j + 1 \in 0 .. m - 1 /\ k + (j + 1) \in 0 .. m - 1
    BY <1>2, <1>9
  <2> QED
    BY <1>5, <1>7, <2>1
<1> HIDE DEF v
<1>10. ASSUME NEW j \in 0 .. m - 1
       PROVE  (IF j >= m - k THEN 0
               ELSE IF j = m - k - 1 THEN x[k + j] \div p
               ELSE (x[k + j] \div p) + ((v(j + 1) * g) % Base)) \in Byte
  <2>1. CASE j >= m - k
    BY <1>3, <2>1 DEF Byte
  <2>2. CASE ~(j >= m - k)
    <3>1. k + j \in 0 .. m - 1
      BY <1>2, <2>2
    <3>2. x[k + j] \in Byte
      BY <1>7, <3>1
    <3>3. CASE j = m - k - 1
      BY <1>5, <2>2, <3>2, <3>3
    <3>4. CASE j # m - k - 1
      <4>1. j < m - k - 1
        BY <1>2, <2>2, <3>4
      <4>2. v(j + 1) \in Byte
        BY <1>9, <4>1
      <4>3. (x[k + j] \div p) + ((v(j + 1) * g) % Base) \in Byte
        BY <1>6, <3>2, <4>2
      <4> QED
        BY <2>2, <3>4, <4>3
    <3> QED
      BY <3>3, <3>4
  <2> QED
    BY <2>1, <2>2
<1> QED
  BY <1>8, <1>10 DEF Number

\* The low bits of a byte are a byte.
LEMMA Mod2PowType ==
  ASSUME NEW m \in Nat, NEW x \in Number(m), NEW bits \in Nat
  PROVE  Mod2Pow(x, bits) \in Number(m)
<1>1. PICK s, p : s = bits % ByteBits /\ p = Pow2[s]
  OBVIOUS
<1>2. p \in Nat \ {0}
  BY <1>1, BitsSplit
<1>3. DOMAIN x = 0 .. m - 1 /\ \A j \in 0 .. m - 1 : x[j] \in Byte
  BY NumberDef
<1>4. ASSUME NEW u \in Byte
      PROVE  u % p \in Byte
  <2>1. u \in Nat /\ u < Base /\ Base \in Nat
    BY Weights DEF Byte
  <2>2. u \div p \in Nat /\ u % p \in Nat /\ u = (u \div p) * p + (u % p)
    BY <1>2, <2>1, DivDef
  <2>3. PICK q, r : q = u \div p /\ r = u % p
    OBVIOUS
  <2>4. q * p \in Nat
    <3>1. q \in Nat /\ p \in Nat
      BY <1>2, <2>2, <2>3
    <3> QED
      BY <3>1
  <2>5. r \in 0 .. Base - 1
    BY <2>1, <2>2, <2>3, <2>4
  <2> QED
    BY <2>3, <2>5 DEF Byte
<1>5. 0 \in Byte
  BY Weights DEF Byte
<1>6. PICK bytes : bytes = (bits + ByteBits - 1) \div ByteBits
  OBVIOUS
<1>7. Mod2Pow(x, bits) = [j \in 0 .. m - 1 |->
                            IF s # 0 /\ j = bytes - 1 THEN x[j] % p
                            ELSE IF j < bytes \/ (s # 0 /\ j = bytes) THEN x[j]
                            ELSE 0]
  BY <1>1, <1>3, <1>6 DEF Mod2Pow
<1>8. ASSUME NEW j \in 0 .. m - 1
      PROVE  x[j] \in Byte /\ x[j] % p \in Byte
  BY <1>3, <1>4
<1> QED
  BY <1>5, <1>7, <1>8 DEF Number

\* A copy into an array of any length.
LEMMA ResizeType ==
  ASSUME NEW n \in Nat, NEW x \in Number(n), NEW l \in Nat
  PROVE  Resize(x, l) \in Number(l)
<1>1. DOMAIN x = 0 .. n - 1 /\ \A k \in 0 .. n - 1 : x[k] \in Byte
  BY NumberDef
<1>2. 0 \in Byte
  BY Weights DEF Byte
<1> QED
  BY <1>1, <1>2 DEF Resize, Number

\* The rest of a long division, also by 0.
LEMMA RestType ==
  ASSUME NEW n \in Nat \ {0}, NEW x \in Number(n), NEW h \in Nat, NEW y \in Number(h), NEW l \in Nat
  PROVE  Div(x, y, l).rest \in Number(l)
<1>1. CASE Compare(x, y) = -1
  <2>1. Div(x, y, l) = [quot |-> Zero(Bytes(x)), rest |-> Resize(x, l), leak |-> Bytes(x)]
    BY <1>1, Zenon DEF Div
  <2>2. Div(x, y, l).rest = Resize(x, l)
    BY <2>1
  <2>3. n \in Nat
    OBVIOUS
  <2> QED
    BY <2>2, <2>3, ResizeType
<1>2. CASE Compare(x, y) # -1
  <2>1. PICK width : width = Bitwidth(x)
    OBVIOUS
  <2>2. width \in Nat
    <3>1. n \in Nat /\ ByteBits * n \in Nat
      BY ByteBitsAssumption
    <3>2. Bitwidth(x) \in 0 .. ByteBits * n
      BY <3>1, BitwidthIs
    <3> QED
      BY <2>1, <3>1, <3>2
  <2>3. PICK w \in [0 .. width -> Number(n)] : \E z : DivRun(w, z, x, y, l, n, width)
    BY <1>2, <2>1, DivLoop
  <2>4. PICK z : Div(x, y, l) = [quot |-> z, rest |-> Resize(w[width], l), leak |-> 0]
    BY <2>3 DEF DivRun
  <2>5. Div(x, y, l).rest = Resize(w[width], l)
    BY <2>4
  <2>6. w[width] \in Number(n) /\ n \in Nat
    BY <2>2
  <2> QED
    BY <2>5, <2>6, ResizeType
<1> QED
  BY <1>1, <1>2

\* The array with bit k added to it, as RSA_get_prime_N sets a bit.
WithBit(x, k) == [x EXCEPT ![k \div ByteBits] = @ + Pow2[k % ByteBits]]

\* Bit k of an array of n bytes is in one of them.
LEMMA BitPlace ==
  ASSUME NEW n \in Nat, NEW k \in Nat, k < ByteBits * n, NEW h, h = k \div ByteBits, NEW s, s = k % ByteBits
  PROVE  h \in 0 .. n - 1 /\ s \in 0 .. ByteBits - 1 /\ k = h * ByteBits + s /\ h \in Nat /\ s \in Nat
<1>1. ByteBits \in Nat \ {0}
  BY ByteBitsAssumption
<1>2. h \in Nat /\ s \in Nat /\ s < ByteBits /\ k = h * ByteBits + s
  <2>1. /\ k \div ByteBits \in Nat /\ k % ByteBits \in Nat /\ k % ByteBits < ByteBits
        /\ k = (k \div ByteBits) * ByteBits + (k % ByteBits)
    BY <1>1, DivDef
  <2> QED
    BY <2>1
<1>3. h < n
  <2>1. SUFFICES ASSUME h >= n PROVE FALSE
    BY <1>2
  <2>2. PICK p \in Nat : h = n + p
    <3>1. h - n \in Nat /\ h = n + (h - n)
      BY <1>2, <2>1
    <3> QED
      BY <3>1
  <2>3. PICK b1 \in Nat : b1 = ByteBits
    BY <1>1
  <2>4. (n + p) * b1 = b1 * n + p * b1 /\ p * b1 \in Nat /\ b1 * n \in Nat
    BY <2>2, <2>3
  <2> QED
    BY <1>2, <2>2, <2>3, <2>4
<1> QED
  BY <1>1, <1>2, <1>3

\* Setting a bit above a number adds its power of two.
LEMMA WithBitIs ==
  ASSUME NEW n \in Nat, NEW x \in Number(n), NEW k \in Nat, k < ByteBits * n, Value(x) < Pow2[k]
  PROVE  /\ WithBit(x, k) \in Number(n)
         /\ Value(WithBit(x, k)) = Value(x) + Pow2[k]
<1>1. PICK h, s, p, z : /\ h = k \div ByteBits /\ s = k % ByteBits /\ p = Pow2[s]
                        /\ z = WithBit(x, k)
  OBVIOUS
<1>2. h \in 0 .. n - 1 /\ s \in 0 .. ByteBits - 1 /\ k = h * ByteBits + s /\ h \in Nat /\ s \in Nat
  BY <1>1, BitPlace
<1>3. /\ Pow2[k] = Weight(h) * p /\ p \in Nat \ {0} /\ 2 * p <= Base /\ Pow2[k] \in Nat \ {0}
      /\ Base \in Nat /\ Weight(h) \in Nat \ {0}
  <2>1. Pow2[k] = Weight(h) * p /\ p \in Nat \ {0} /\ Pow2[k] \in Nat \ {0}
    BY <1>1, BitsSplit
  <2>2. ByteBits \in Nat /\ s < ByteBits
    BY <1>2, ByteBitsAssumption
  <2>3. Pow2[ByteBits] = Pow2[s] * Pow2[ByteBits - s] /\ Pow2[ByteBits - s] >= 2
    BY <1>2, <2>2, PowerOrder
  <2>4. PICK g : g = Pow2[ByteBits - s]
    OBVIOUS
  <2>5. g \in Nat
    <3>1. ByteBits - s \in Nat
      BY <1>2, <2>2
    <3> QED
      BY <2>4, <3>1, Pow2Def
  <2>6. Base = p * g /\ g >= 2
    BY <1>1, <2>3, <2>4 DEF Base
  <2>7. p * g >= p * 2
    BY <2>1, <2>5, <2>6
  <2> QED
    BY <1>2, <2>1, <2>5, <2>6, <2>7, Weights
<1>4. x[h] \in Nat /\ x[h] < p
  <2>1. x[h] \in Nat /\ Value(x) \in Nat
    BY <1>2, ByteOfNumber, NumberDef
  <2>2. PICK t \in Nat : Value(x) \div Pow2[h * ByteBits + s] = (x[h] \div Pow2[s]) + Pow2[ByteBits - s] * t
    BY <1>2, LowBits
  <2>3. Value(x) \div Pow2[k] = 0
    <3>1. Value(x) \in Int /\ Value(x) = 0 * Pow2[k] + Value(x) /\ 0 \in Int
      BY <1>3, <2>1
    <3> QED
      BY <1>3, <2>1, <3>1, DivIs
  <2>4. /\ x[h] \div p \in Nat /\ x[h] % p \in Nat /\ x[h] % p < p
        /\ x[h] = (x[h] \div p) * p + (x[h] % p)
    BY <1>3, <2>1, DivDef
  <2>5. Pow2[ByteBits - s] * t \in Nat
    <3>1. ByteBits - s \in Nat
      BY <1>2, ByteBitsAssumption
    <3>2. Pow2[ByteBits - s] \in Nat
      BY <3>1, Pow2Def
    <3> QED
      BY <3>2
  <2>6. x[h] \div p = 0
    BY <1>1, <1>2, <2>2, <2>3, <2>4, <2>5
  <2>7. PICK u, r : u = x[h] /\ r = x[h] % p
    OBVIOUS
  <2>8. u = 0 * p + r /\ r \in Nat /\ r < p /\ p \in Nat
    BY <1>3, <2>4, <2>6, <2>7
  <2>9. 0 * p = 0
    BY <2>8
  <2> QED
    BY <2>1, <2>7, <2>8, <2>9
<1>5. z = [j \in 0 .. n - 1 |-> IF j = h THEN x[h] + p ELSE x[j]]
  <2>1. DOMAIN x = 0 .. n - 1 /\ x = [j \in 0 .. n - 1 |-> x[j]]
    BY DEF Number
  <2> QED
    BY <1>1, <1>2, <2>1 DEF WithBit
<1>6. z \in Number(n) /\ z[h] = x[h] + p /\ \A j \in 0 .. n - 1 : j # h => z[j] = x[j]
  <2>1. x[h] + p \in Byte
    BY <1>3, <1>4 DEF Byte
  <2>2. \A j \in 0 .. n - 1 : x[j] \in Byte
    BY NumberDef
  <2> QED
    BY <1>2, <1>5, <2>1, <2>2 DEF Number
<1>7. /\ Digits(x, n) /\ Digits(z, n) /\ Value(x) = Part(x, n) /\ Value(z) = Part(z, n)
      /\ Value(x) \in Nat /\ Value(z) \in Nat
  BY <1>6, NumberDef
<1>8. Part(z, h) = Part(x, h)
  <2>1. Agree(x, z, h) /\ Digits(x, h) /\ h \in 0 .. h
    BY <1>2, <1>6, <1>7 DEF Agree, Digits
  <2> QED
    BY <1>2, <2>1, PartSame
<1>9. /\ Part(x, h + 1) = Part(x, h) + x[h] * Weight(h)
      /\ Part(z, h + 1) = Part(x, h) + (x[h] + p) * Weight(h)
      /\ Part(x, h) \in Nat
  BY <1>2, <1>6, <1>7, <1>8, PartStep
<1>10. Part(z, n) + Part(x, h + 1) = Part(x, n) + Part(z, h + 1)
  <2>1. h + 1 \in 0 .. n /\ \A j \in h + 1 .. n - 1 : z[j] = x[j]
    BY <1>2, <1>6
  <2> QED
    BY <1>7, <2>1, PartAbove
<1>11. (x[h] + p) * Weight(h) = x[h] * Weight(h) + Weight(h) * p /\ x[h] * Weight(h) \in Nat
  BY <1>3, <1>4
<1>12. Value(z) = Value(x) + Pow2[k]
  <2>1. PICK u, v, c, d : u = x[h] * Weight(h) /\ v = Pow2[k] /\ c = Part(x, h) /\ d = (x[h] + p) * Weight(h)
    OBVIOUS
  <2>2. u \in Nat /\ v \in Nat /\ c \in Nat /\ d = u + v
    BY <1>3, <1>9, <1>11, <2>1
  <2>3. Value(z) + (c + u) = Value(x) + (c + d)
    BY <1>7, <1>9, <1>10, <2>1
  <2> QED
    BY <1>7, <2>1, <2>2, <2>3
<1> QED
  BY <1>1, <1>6, <1>12

\* The product that RSA_get_prime_N looks at for bit k of what it makes, and
\* the number with that bit.
BitProduct(N, y, n, h) == Mul(Slice(N, 0, h + 1), Slice(y, 0, h + 1), Zero(n)).res
Extended(N, y, n, k) ==
  LET h == k \div ByteBits
  IN  IF Bit(BitProduct(N, y, n, h)[h], k % ByteBits) = 1 THEN y ELSE WithBit(y, k)

\* The numbers it goes through.
Primes(f, N, n, bits) ==
  \A k \in 0 .. bits : f[k] = IF k <= 1 THEN One(n) ELSE Extended(N, f[k - 1], n, k - 1)

\* RSA_get_prime_N as a run through these numbers.
LEMMA PrimeRun ==
  ASSUME NEW n \in Nat \ {0}, NEW N \in Number(n), NEW bits \in Nat
  PROVE  \E f : Primes(f, N, n, bits) /\ PrimeN(N, bits) = f[bits]
<1> DEFINE S == [0 .. n - 1 -> Nat]
           D == [p \in S \X (1 .. bits) |-> IF p[2] <= 1 THEN One(n) ELSE Extended(N, p[1], n, p[2] - 1)]
<1>1. One(n) \in S
  BY DEF One, Zero
<1>2. ASSUME NEW y \in S, NEW k \in Nat
      PROVE  Extended(N, y, n, k) \in S
  <2>1. WithBit(y, k) \in S
    <3>1. PICK h, v : h = k \div ByteBits /\ v = Pow2[k % ByteBits]
      OBVIOUS
    <3>2. v \in Nat
      BY <3>1, BitsSplit
    <3>3. WithBit(y, k) = [y EXCEPT ![h] = @ + v]
      BY <3>1 DEF WithBit
    <3>4. DOMAIN y = 0 .. n - 1 /\ \A j \in 0 .. n - 1 : y[j] \in Nat
      OBVIOUS
    <3>5. WithBit(y, k) = [j \in 0 .. n - 1 |-> IF j = h THEN y[j] + v ELSE y[j]]
      BY <3>3, <3>4
    <3>6. \A j \in 0 .. n - 1 : y[j] + v \in Nat
      BY <3>2, <3>4
    <3> QED
      BY <3>4, <3>5, <3>6
  <2> QED
    BY <2>1 DEF Extended
<1>3. ASSUME NEW y \in S, NEW k \in 1 .. bits
      PROVE  /\ D[<<y, k>>] = IF k <= 1 THEN One(n) ELSE Extended(N, y, n, k - 1)
             /\ D[<<y, k>>] \in S
  <2>1. D[<<y, k>>] = IF k <= 1 THEN One(n) ELSE Extended(N, y, n, k - 1)
    OBVIOUS
  <2>2. k - 1 \in Nat
    OBVIOUS
  <2> HIDE DEF D, S
  <2> QED
    BY <1>1, <1>2, <2>1, <2>2
<1> HIDE DEF D, S
<1>4. Steps(D, S, bits)
  BY <1>3 DEF Steps
<1>5. PICK f \in [0 .. bits -> S] : Follows(f, One(n), D, bits)
  BY <1>1, <1>4, Recursion
<1>6. ASSUME NEW k \in 0 .. bits
      PROVE  f[k] = IF k <= 1 THEN One(n) ELSE Extended(N, f[k - 1], n, k - 1)
  <2>1. CASE k = 0
    BY <1>5, <2>1 DEF Follows
  <2>2. CASE k # 0
    <3>1. k \in 1 .. bits /\ k - 1 \in 0 .. bits
      BY <2>2
    <3>2. f[k - 1] \in S /\ f[k] = D[<<f[k - 1], k>>]
      BY <1>5, <3>1 DEF Follows
    <3> QED
      BY <1>3, <3>1, <3>2
  <2> QED
    BY <2>1, <2>2
<1>7. Bytes(N) = n
  <2>1. n \in Nat
    OBVIOUS
  <2> QED
    BY <2>1, NumberDef
<1> DEFINE n0 == Bytes(N)
           prime[k \in 0 .. bits] ==
             IF k <= 1 THEN One(n0)
             ELSE LET at == (k - 1) \div ByteBits
                      low == Mul(Slice(N, 0, at + 1), Slice(prime[k - 1], 0, at + 1), Zero(n0)).res
                  IN  IF Bit(low[at], (k - 1) % ByteBits) = 1 THEN prime[k - 1]
                      ELSE [prime[k - 1] EXCEPT ![at] = @ + Pow2[(k - 1) % ByteBits]]
<1>8. PrimeN(N, bits) = prime[bits]
  BY Zenon DEF PrimeN
<1> DEFINE Next0(g, k) ==
             IF k <= 1 THEN One(n0)
             ELSE LET at == (k - 1) \div ByteBits
                      low == Mul(Slice(N, 0, at + 1), Slice(g[k - 1], 0, at + 1), Zero(n0)).res
                  IN  IF Bit(low[at], (k - 1) % ByteBits) = 1 THEN g[k - 1]
                      ELSE [g[k - 1] EXCEPT ![at] = @ + Pow2[(k - 1) % ByteBits]]
<1>9. ASSUME NEW g, NEW k
      PROVE  Next0(g, k) = IF k <= 1 THEN One(n) ELSE Extended(N, g[k - 1], n, k - 1)
  BY <1>7 DEF Extended, BitProduct, WithBit
<1>10. f = [k \in 0 .. bits |-> Next0(f, k)]
  <2> HIDE DEF Next0
  <2>1. f = [k \in 0 .. bits |-> f[k]]
    BY <1>5
  <2> QED
    BY <1>6, <1>9, <2>1
<1>11. prime = [k \in 0 .. bits |-> Next0(prime, k)]
  BY <1>10, Zenon
<1> HIDE DEF prime, Next0, n0
<1>12. Primes(prime, N, n, bits)
  <2>1. ASSUME NEW k \in 0 .. bits
        PROVE  prime[k] = IF k <= 1 THEN One(n) ELSE Extended(N, prime[k - 1], n, k - 1)
    <3>1. prime[k] = Next0(prime, k)
      BY <1>11, Zenon
    <3> QED
      BY <1>9, <3>1
  <2> QED
    BY <2>1 DEF Primes
<1> QED
  BY <1>8, <1>12

\* Setting the bit or not keeps the number below the next power of two.
LEMMA ExtendedType ==
  ASSUME NEW n \in Nat \ {0}, NEW N \in Number(n), NEW y \in Number(n), NEW k \in Nat, k < ByteBits * n,
         Value(y) < Pow2[k]
  PROVE  Extended(N, y, n, k) \in Number(n) /\ Value(Extended(N, y, n, k)) < Pow2[k + 1]
<1>1. Value(y) \in Nat /\ Pow2[k + 1] = 2 * Pow2[k] /\ Pow2[k] \in Nat \ {0}
  <2>1. n \in Nat
    OBVIOUS
  <2>2. Value(y) \in Nat
    BY <2>1, NumberDef
  <2> QED
    BY <2>2, Pow2Def
<1>2. WithBit(y, k) \in Number(n) /\ Value(WithBit(y, k)) = Value(y) + Pow2[k]
  <2>1. n \in Nat
    OBVIOUS
  <2> QED
    BY <2>1, WithBitIs
<1>3. Extended(N, y, n, k) = y \/ Extended(N, y, n, k) = WithBit(y, k)
  BY DEF Extended
<1> QED
  BY <1>1, <1>2, <1>3

\* Each of the numbers has no more bits than have been looked at.
LEMMA PrimesType ==
  ASSUME NEW n \in Nat \ {0}, NEW N \in Number(n), NEW bits \in Nat, bits <= ByteBits * n,
         NEW f, Primes(f, N, n, bits), NEW k \in 0 .. bits
  PROVE  f[k] \in Number(n) /\ (k > 0 => Value(f[k]) < Pow2[k])
<1> DEFINE T == {l \in 0 .. bits : f[l] \in Number(n) /\ (l > 0 => Value(f[l]) < Pow2[l])}
<1>1. 0 \in T
  <2>1. f[0] = One(n) /\ 0 \in 0 .. bits
    BY DEF Primes
  <2> QED
    BY <2>1, OneIs
<1>2. ASSUME NEW l \in 0 .. bits - 1, l \in T
      PROVE  l + 1 \in T
  <2>1. l \in Nat /\ l + 1 \in 0 .. bits /\ (l + 1) - 1 = l /\ l < ByteBits * n
    BY ByteBitsAssumption
  <2>2. CASE l = 0
    <3>1. f[l + 1] = One(n)
      BY <2>1, <2>2 DEF Primes
    <3>2. Pow2[1] = 2
      <4>1. Pow2[0 + 1] = 2 * Pow2[0] /\ Pow2[0] = 1
        BY Pow2Def
      <4> QED
        BY <4>1
    <3>3. f[l + 1] \in Number(n) /\ Value(f[l + 1]) = 1
      BY <3>1, OneIs
    <3> QED
      BY <2>1, <2>2, <3>2, <3>3
  <2>3. CASE l # 0
    <3>1. f[l + 1] = Extended(N, f[l], n, l)
      <4>1. ~(l + 1 <= 1)
        BY <2>1, <2>3
      <4> QED
        BY <2>1, <4>1 DEF Primes
    <3>2. f[l] \in Number(n) /\ Value(f[l]) < Pow2[l]
      BY <1>2, <2>1, <2>3
    <3>3. f[l + 1] \in Number(n) /\ Value(f[l + 1]) < Pow2[l + 1]
      BY <2>1, <3>1, <3>2, ExtendedType
    <3> QED
      BY <2>1, <3>3
  <2> QED
    BY <2>2, <2>3
<1> HIDE DEF T
<1>3. \A l \in 0 .. bits : l \in T
  BY <1>1, <1>2, Upward
<1> QED
  BY <1>3 DEF T

\* N' is an array of the length of N.
LEMMA PrimeType ==
  ASSUME NEW N \in Moduli, NEW n, n = Bytes(N), NEW bits, bits = Bitwidth(N)
  PROVE  PrimeN(N, bits) \in Number(n)
<1>1. n \in Nat \ {0} /\ N \in Number(n) /\ n \in Nat
  BY KeysAssumption
<1>2. bits \in Nat /\ bits <= ByteBits * n
  BY <1>1, BitwidthBounded
<1>3. PICK f : Primes(f, N, n, bits) /\ PrimeN(N, bits) = f[bits]
  BY <1>1, <1>2, PrimeRun
<1> QED
  BY <1>1, <1>2, <1>3, PrimesType

\* What MG_mul goes through: the product, q, q * N, and their sum.
MgProduct(c, x, y) == Mul(x, y, Zero(BuffBytes(c)))
MgQuotient(c, x, y) == Mul(Mod2Pow(MgProduct(c, x, y).res, c.rBits), c.prime, Zero(BuffBytes(c)))
MgMultiple(c, x, y) == Mul(Mod2Pow(MgQuotient(c, x, y).res, c.rBits), c.N, Zero(BuffBytes(c)))
MgSum(c, x, y) == Plus(MgMultiple(c, x, y).res, MgProduct(c, x, y).res)
MgShifted(c, x, y) == RightShift(MgSum(c, x, y).res, c.rBits)

\* MG_mul in these terms.
LEMMA MgMulDef ==
  ASSUME NEW c, NEW x, NEW y
  PROVE  /\ MgMul(c, x, y).res = Resize(Reduced(MgShifted(c, x, y), c.N), Bytes(c.N))
         /\ MgMul(c, x, y).ok <=> ~(\/ MgProduct(c, x, y).flag \/ MgQuotient(c, x, y).flag
                                    \/ MgMultiple(c, x, y).flag \/ MgSum(c, x, y).flag)
  BY DEF MgMul, MgProduct, MgQuotient, MgMultiple, MgSum, MgShifted, Reduced

\* A context whose arrays are as long as N.
IsContext(c) ==
  /\ c.N \in Moduli /\ c.rBits = Bitwidth(c.N)
  /\ c.prime \in Number(Bytes(c.N)) /\ c.conv \in Number(Bytes(c.N))

\* The sizes of a context.
LEMMA ContextSizes ==
  ASSUME NEW c, IsContext(c)
  PROVE  /\ Bytes(c.N) \in Nat \ {0} /\ c.N \in Number(Bytes(c.N))
         /\ c.rBits \in Nat /\ c.rBits <= ByteBits * Bytes(c.N)
         /\ BuffBytes(c) \in Nat \ {0}
<1>1. Bytes(c.N) \in Nat \ {0} /\ c.N \in Number(Bytes(c.N)) /\ c.rBits = Bitwidth(c.N)
  BY KeysAssumption DEF IsContext
<1>2. c.rBits \in Nat /\ c.rBits <= ByteBits * Bytes(c.N)
  BY <1>1, BitwidthBounded
<1>3. Ceil(c.rBits) \in Nat
  <2>1. ByteBits \in Nat \ {0}
    BY ByteBitsAssumption
  <2>2. c.rBits + ByteBits - 1 \in Nat
    BY <1>2, <2>1
  <2> QED
    BY <2>2, Quotient DEF Ceil
<1>4. BuffBytes(c) \in Nat \ {0}
  BY <1>1, <1>3 DEF BuffBytes
<1> QED
  BY <1>1, <1>2, <1>4

\* What MG_mul leaves is an array of the length of N, whatever its arguments.
LEMMA MgMulType ==
  ASSUME NEW c, IsContext(c), NEW g \in Nat, NEW x \in Number(g), NEW h \in Nat, NEW y \in Number(h)
  PROVE  MgMul(c, x, y).res \in Number(Bytes(c.N))
<1>1. PICK n, k, bits : n = Bytes(c.N) /\ k = BuffBytes(c) /\ bits = c.rBits
  OBVIOUS
<1>2. /\ n \in Nat /\ c.N \in Number(n) /\ bits \in Nat /\ k \in Nat
      /\ c.prime \in Number(n)
  BY <1>1, ContextSizes DEF IsContext
<1>3. MgProduct(c, x, y) \in Result(k)
  BY <1>1, <1>2, MulIs DEF MgProduct
<1>4. Mod2Pow(MgProduct(c, x, y).res, bits) \in Number(k)
  <2>1. MgProduct(c, x, y).res \in Number(k)
    BY <1>3 DEF Result
  <2> QED
    BY <1>2, <2>1, Mod2PowType
<1>5. MgQuotient(c, x, y) \in Result(k)
  BY <1>1, <1>2, <1>4, MulIs DEF MgQuotient
<1>6. Mod2Pow(MgQuotient(c, x, y).res, bits) \in Number(k)
  <2>1. MgQuotient(c, x, y).res \in Number(k)
    BY <1>5 DEF Result
  <2> QED
    BY <1>2, <2>1, Mod2PowType
<1>7. MgMultiple(c, x, y) \in Result(k)
  BY <1>1, <1>2, <1>6, MulIs DEF MgMultiple
<1>8. MgSum(c, x, y).res \in Number(k)
  <2>1. PICK u, v : u = MgMultiple(c, x, y).res /\ v = MgProduct(c, x, y).res
    OBVIOUS
  <2>2. u \in Number(k) /\ v \in Number(k)
    BY <1>3, <1>7, <2>1 DEF Result
  <2>3. k \in 0 .. k
    BY <1>2
  <2>4. Plus(u, v).res \in Number(k)
    BY <1>2, <2>2, <2>3, PlusIs
  <2> QED
    BY <2>1, <2>4 DEF MgSum
<1>9. MgShifted(c, x, y) \in Number(k)
  BY <1>1, <1>2, <1>8, RightShiftType DEF MgShifted
<1>10. Reduced(MgShifted(c, x, y), c.N) \in Number(k)
  <2>1. Reduces(MgShifted(c, x, y), c.N, k)
    BY <1>2, <1>9, ReducedIs
  <2> QED
    BY <2>1 DEF Reduces
<1> QED
  BY <1>1, <1>2, <1>10, MgMulDef, ResizeType

\* The array of a value, in as many bytes as asked for.
LEMMA ToBytesType ==
  ASSUME NEW v \in Nat, NEW n \in Nat
  PROVE  ToBytes(v, n) \in Number(n)
<1>1. ASSUME NEW k \in 0 .. n - 1
      PROVE  (v \div Weight(k)) % Base \in Byte
  <2>1. Weight(k) \in Nat \ {0} /\ Base \in Nat /\ Base >= 2
    BY Weights
  <2>2. v \div Weight(k) \in Nat
    BY <2>1, DivDef
  <2>3. PICK q : q = v \div Weight(k)
    OBVIOUS
  <2>4. q % Base \in Nat /\ q % Base < Base
    BY <2>1, <2>2, <2>3, DivDef
  <2>5. PICK r : r = q % Base
    OBVIOUS
  <2>6. r \in Byte
    BY <2>1, <2>4, <2>5 DEF Byte
  <2> QED
    BY <2>3, <2>5, <2>6
<1> QED
  BY <1>1 DEF ToBytes, Number

\* Zero bytes.
LEMMA ZeroType ==
  ASSUME NEW n \in Nat
  PROVE  Zero(n) \in Number(n)
<1>1. 0 \in Byte
  BY Weights DEF Byte
<1> QED
  BY <1>1 DEF Zero, Number

----------------------------------------------------------------------------
(* Types.                                                                    *)

\* The context and the arrays are numbers of the length of N, and the message
\* one of some length.
DataInv ==
  /\ IsContext(ctx)
  /\ mem \in [Slots -> Number(NBytes)]
  /\ ptr \in [Pointers -> Slots]
  /\ \E g \in Nat : msg \in Number(g)
  /\ e \in Exponents \cup {0}
  /\ i \in Nat
  /\ stopped \in {"no", "pool", "overflow", "remainder"}
  /\ calls \in 0 .. MaxCalls

\* It holds of the zeroed arrays.
LEMMA DataInit == Init => DataInv
<1> SUFFICES ASSUME Init
             PROVE  DataInv
  OBVIOUS
<1>1. PICK N \in Moduli : ctx = [N |-> N, rBits |-> Bitwidth(N), prime |-> Zero(Bytes(N)),
                                 conv |-> Zero(Bytes(N))]
  BY DEF Init
<1>2. Bytes(N) \in Nat
  BY KeysAssumption
<1>3. Zero(Bytes(N)) \in Number(Bytes(N))
  BY <1>2, ZeroType
<1>4. IsContext(ctx)
  BY <1>1, <1>3 DEF IsContext
<1>5. mem \in [Slots -> Number(NBytes)]
  BY <1>1, <1>3 DEF Init, NBytes
<1>6. msg \in Number(1) /\ 1 \in Nat
  BY ZeroType DEF Init
<1>7. ptr \in [Pointers -> Slots]
  BY DEF Init, Pointers, Slots
<1>8. e = 0 /\ i = 0 /\ stopped = "no" /\ calls = 0
  BY DEF Init
<1>9. calls \in 0 .. MaxCalls
  BY <1>8, InputsAssumption
<1> QED
  BY <1>4, <1>5, <1>6, <1>7, <1>8, <1>9 DEF DataInv

\* The arguments that MG_mul is called with.
LEMMA OperandTypes ==
  ASSUME DataInv, pc \in MulPoints
  PROVE  /\ \E g \in Nat : Operands[1] \in Number(g)
         /\ \E h \in Nat : Operands[2] \in Number(h)
<1>1. PICK g \in Nat : msg \in Number(g)
  BY DEF DataInv
<1>2. PICK n : n = NBytes
  OBVIOUS
<1>3. n \in Nat /\ ctx.conv \in Number(n) /\ mem \in [Slots -> Number(n)] /\ ptr \in [Pointers -> Slots]
  BY <1>2, ContextSizes DEF DataInv, NBytes, IsContext
<1>4. At("buff") \in Number(n) /\ At("buff2") \in Number(n)
  BY <1>3 DEF At, Pointers
<1>5. One(1) \in Number(1) /\ 1 \in Nat
  BY OneIs
<1>6. CASE pc = "toMont"
  <2>1. Operands[1] = msg /\ Operands[2] = ctx.conv
    BY <1>6 DEF Operands
  <2> QED
    BY <1>1, <1>3, <2>1
<1>7. CASE pc = "square"
  <2>1. Operands[1] = At("buff") /\ Operands[2] = At("buff")
    BY <1>7 DEF Operands
  <2> QED
    BY <1>3, <1>4, <2>1
<1>8. CASE pc = "multiply"
  <2>1. Operands[1] = At("buff") /\ Operands[2] = At("buff2")
    BY <1>8 DEF Operands
  <2> QED
    BY <1>3, <1>4, <2>1
<1>9. CASE pc = "fromMont"
  <2>1. Operands[1] = At("buff2") /\ Operands[2] = One(1)
    BY <1>9 DEF Operands
  <2> QED
    BY <1>3, <1>4, <1>5, <2>1
<1> QED
  BY <1>6, <1>7, <1>8, <1>9 DEF MulPoints

\* The context stays one.
LEMMA ContextKept ==
  ASSUME PoolInv, DataInv, [Next]_vars
  PROVE  IsContext(ctx')
<1>1. /\ ctx.N \in Moduli /\ ctx.rBits = Bitwidth(ctx.N)
      /\ ctx = [N |-> ctx.N, rBits |-> ctx.rBits, prime |-> ctx.prime, conv |-> ctx.conv]
  BY DEF PoolInv, ContextInv, Key
<1>2. PICK n : n = Bytes(ctx.N)
  OBVIOUS
<1>3. n \in Nat /\ ctx.prime \in Number(n) /\ ctx.conv \in Number(n)
  BY <1>2, ContextSizes DEF DataInv, IsContext
<1>4. ASSUME NEW v \in Number(n), ctx' = [ctx EXCEPT !.prime = v]
      PROVE  IsContext(ctx')
  <2>1. ctx' = [N |-> ctx.N, rBits |-> ctx.rBits, prime |-> v, conv |-> ctx.conv]
    BY <1>1, <1>4
  <2> QED
    BY <1>1, <1>2, <1>3, <2>1 DEF IsContext
<1>5. ASSUME NEW v \in Number(n), ctx' = [ctx EXCEPT !.conv = v]
      PROVE  IsContext(ctx')
  <2>1. ctx' = [N |-> ctx.N, rBits |-> ctx.rBits, prime |-> ctx.prime, conv |-> v]
    BY <1>1, <1>5
  <2> QED
    BY <1>1, <1>2, <1>3, <2>1 DEF IsContext
<1>6. ASSUME ctx' = ctx
      PROVE  IsContext(ctx')
  BY <1>6 DEF DataInv
<1>7. CASE PrimeReturns
  <2>1. PrimeN(ctx.N, ctx.rBits) \in Number(n)
    BY <1>1, <1>2, PrimeType
  <2> QED
    BY <1>4, <1>7, <2>1 DEF PrimeReturns
<1>8. CASE ConvReturns
  <2>1. PICK r, d : r = RBytes(ctx.rBits) /\ d = ConvDivision(ctx.N, ctx.rBits)
    OBVIOUS
  <2>2. ctx' = ctx \/ ctx' = [ctx EXCEPT !.conv = Resize(d.rest, n)]
    BY <1>2, <1>8, <2>1 DEF ConvReturns, NBytes
  <2>3. d.rest \in Number(r) /\ r \in Nat
    <3>1. PICK x : x = LeftShift(One(r), 2 * ctx.rBits)
      OBVIOUS
    <3>2. r \in Nat \ {0} /\ x \in Number(r) /\ ctx.N \in Number(n) /\ r \in Nat
      BY <1>1, <1>2, <2>1, <3>1, RSquared
    <3>3. Div(x, ctx.N, r).rest \in Number(r)
      BY <1>3, <3>2, RestType
    <3>4. d = Div(x, ctx.N, r)
      BY <2>1, <3>1 DEF ConvDivision
    <3> QED
      BY <3>2, <3>3, <3>4
  <2>4. Resize(d.rest, n) \in Number(n)
    BY <1>3, <2>3, ResizeType
  <2> QED
    BY <1>5, <1>6, <2>2, <2>4
<1>9. CASE UNCHANGED vars
  BY <1>6, <1>9 DEF vars
<1>10. CASE PrimeBegins \/ ConvBegins \/ DivisionBegins \/ MulBegins \/ MulReturns
            \/ DebugBegins \/ DebugReturns \/ ExpModReturns
  BY <1>6, <1>10 DEF PrimeBegins, ConvBegins, DivisionBegins, MulBegins, MulReturns,
                     DebugBegins, DebugReturns, ExpModReturns
<1>11. CASE \E m \in Messages, x \in Exponents : ExpMod(m, x)
  BY <1>6, <1>11 DEF ExpMod
<1> QED
  BY <1>7, <1>8, <1>9, <1>10, <1>11 DEF Next

\* Every step writes numbers of the length of N to the arrays.
LEMMA DataStep == PoolInv /\ DataInv /\ [Next]_vars => DataInv'
<1> SUFFICES ASSUME PoolInv, DataInv, [Next]_vars
             PROVE  DataInv'
  OBVIOUS
<1>1. PICK n : n = NBytes
  OBVIOUS
<1>2. /\ n \in Nat /\ n \in Nat \ {0} /\ NBytes' = n /\ IsContext(ctx)'
      /\ Zero(n) \in Number(n)
  <2>1. n \in Nat \ {0} /\ n \in Nat
    BY <1>1, ContextSizes DEF DataInv, NBytes
  <2>2. IsContext(ctx') /\ NBytes' = n
    BY <1>1, ContextKept, KeyKept DEF PoolInv
  <2> QED
    BY <2>1, <2>2, ZeroType DEF IsContext, Bytes
<1>3. /\ mem \in [Slots -> Number(n)] /\ ptr \in [Pointers -> Slots]
      /\ e \in Exponents \cup {0} /\ i \in Nat
      /\ stopped \in {"no", "pool", "overflow", "remainder"} /\ calls \in 0 .. MaxCalls
  BY <1>1 DEF DataInv
<1>4. \A p \in Pointers : ptr[p] \in Slots /\ At(p) \in Number(n)
  BY <1>3 DEF At
<1>5. ASSUME msg' = msg
      PROVE  (\E g \in Nat : msg \in Number(g))'
  BY <1>5 DEF DataInv, Number, Byte
\* What is left to show of a step.
<1>6. ASSUME mem' \in [Slots -> Number(n)], ptr' \in [Pointers -> Slots],
             (\E g \in Nat : msg \in Number(g))', e' \in Exponents \cup {0}, i' \in Nat,
             stopped' \in {"no", "pool", "overflow", "remainder"}, calls' \in 0 .. MaxCalls
      PROVE  DataInv'
  BY <1>2, <1>6 DEF DataInv, Number, Byte
<1>7. CASE PrimeBegins \/ PrimeReturns \/ ConvBegins \/ DivisionBegins \/ ConvReturns
           \/ MulBegins \/ DebugBegins \/ UNCHANGED vars
  <2>1. /\ mem' = mem /\ ptr' = ptr /\ msg' = msg /\ e' = e /\ i' = i /\ calls' = calls
        /\ stopped' \in {stopped, "pool", "remainder"}
    BY <1>7 DEF PrimeBegins, PrimeReturns, ConvBegins, DivisionBegins, ConvReturns, MulBegins,
                DebugBegins, vars, data, Take
  <2> QED
    BY <1>3, <1>5, <1>6, <2>1
<1>8. ASSUME NEW m \in Messages, NEW x \in Exponents, ExpMod(m, x)
      PROVE  DataInv'
  <2>1. /\ msg' = ToBytes(m, n) /\ e' = x /\ i' = 0 /\ calls < MaxCalls /\ calls' = calls + 1
        /\ ptr' = [buff |-> "pool1", buff1 |-> "pool2", buff2 |-> "res"]
        /\ mem' = [mem EXCEPT !["pool1"] = Zero(n), !["pool2"] = Zero(n)]
        /\ stopped' \in {stopped, "pool"}
    BY <1>1, <1>8 DEF ExpMod, Take
  <2>2. mem' \in [Slots -> Number(n)] /\ ptr' \in [Pointers -> Slots]
    BY <1>2, <1>3, <2>1 DEF Slots, Pointers
  <2>3. (\E g \in Nat : msg \in Number(g))'
    <3>1. m \in Nat
      BY InputsAssumption
    <3>2. msg' \in Number(n)
      BY <1>2, <2>1, <3>1, ToBytesType
    <3> QED
      BY <1>2, <3>2 DEF Number, Byte
  <2>4. calls' \in 0 .. MaxCalls
    BY <1>3, <2>1, InputsAssumption
  <2> QED
    BY <1>3, <1>6, <2>1, <2>2, <2>3, <2>4
<1>9. CASE MulReturns
  <2>1. pc \in MulPoints
    BY <1>9 DEF MulReturns, PoolInv
  <2>2. PICK r : r = MgMul(ctx, Operands[1], Operands[2])
    OBVIOUS
  <2>3. r.res \in Number(n)
    <3>1. PICK g \in Nat : Operands[1] \in Number(g)
      BY <2>1, OperandTypes
    <3>2. PICK h \in Nat : Operands[2] \in Number(h)
      BY <2>1, OperandTypes
    <3>3. IsContext(ctx)
      BY DEF DataInv
    <3> QED
      BY <1>1, <2>2, <3>1, <3>2, <3>3, MgMulType DEF NBytes
  <2>4. msg' = msg /\ e' = e /\ calls' = calls /\ stopped' \in {stopped, "overflow"}
        /\ i' \in {i, i + 1}
    BY <1>9 DEF MulReturns, NextBit
  <2>5. mem' \in [Slots -> Number(n)] /\ ptr' \in [Pointers -> Slots]
    <3>1. \/ mem' = mem /\ ptr' = ptr
          \/ mem' = [mem EXCEPT ![ptr["buff"]] = r.res] /\ ptr' = ptr
          \/ AfterSquare(r.res)
          \/ AfterMultiply(r.res)
          \/ mem' = [mem EXCEPT ![ptr["buff1"]] = r.res] /\ Swap("buff1", "buff2")
      BY <1>9, <2>2 DEF MulReturns
    <3> QED
      BY <1>1, <1>2, <1>3, <1>4, <2>3, <3>1 DEF AfterSquare, AfterMultiply, Swap, Pointers
  <2>6. i' \in Nat
    BY <1>3, <2>4
  <2> QED
    BY <1>3, <1>5, <1>6, <2>4, <2>5, <2>6
<1>10. CASE DebugReturns
  <2>1. /\ mem' = [mem EXCEPT ![ptr["buff2"]] = At("buff"), ![ptr["buff1"]] = Zero(n)]
        /\ i' = 1 /\ ptr' = ptr /\ msg' = msg /\ e' = e /\ stopped' = stopped /\ calls' = calls
    BY <1>1, <1>10 DEF DebugReturns, NextBit
  <2>2. mem' \in [Slots -> Number(n)]
    BY <1>2, <1>3, <1>4, <2>1 DEF Pointers
  <2> QED
    BY <1>3, <1>5, <1>6, <2>1, <2>2
<1>11. CASE ExpModReturns
  <2>1. /\ mem' = [mem EXCEPT !["res"] = At("buff2")]
        /\ i' = i /\ ptr' = ptr /\ msg' = msg /\ e' = e /\ stopped' = stopped /\ calls' = calls
    BY <1>11 DEF ExpModReturns
  <2>2. mem' \in [Slots -> Number(n)]
    BY <1>3, <1>4, <2>1 DEF Pointers
  <2> QED
    BY <1>3, <1>5, <1>6, <2>1, <2>2
<1> QED
  BY <1>7, <1>8, <1>9, <1>10, <1>11 DEF Next

\* The invariants together.
Typed == PoolInv /\ HeldInv /\ DataInv

\* They hold at first.
LEMMA TypedInit == Init => Typed
  BY PoolInit, HeldInit, DataInit DEF Typed

\* They are inductive.
LEMMA TypedStep == Typed /\ [Next]_vars => Typed'
  BY PoolStep, HeldStep, DataStep DEF Typed

\* The types of the context, of the pools, of the arrays and of the pointers, in
\* every call with every key: no product, shift, division or bit that is set
\* leaves a byte that is none.
THEOREM TypeCorrect == Spec => []TypeOK
<1>1. Typed => TypeOK
  <2> SUFFICES ASSUME Typed
               PROVE  TypeOK
    BY DEF Typed
  <2>1. PoolInv /\ HeldInv /\ DataInv
    BY DEF Typed
  <2>2. PICK n, r, g : n = NBytes /\ r = Remainder /\ g = Scratch
    OBVIOUS
  <2>3. n \in Nat /\ r \in Nat /\ g \in Nat
    BY <2>1, <2>2, Needs DEF PoolInv
  <2>4. Tidy(pool) /\ Tidy(debug)
    <3>1. Tidy(PoolOf(pc, n, r, g)) /\ 3 \in Nat
      BY <2>3, PoolOfIsTidy
    <3>2. Tidy(Alloc(PoolOf(pc, n, r, g), 3, g))
      BY <2>3, <3>1, AllocIsTidy
    <3> QED
      BY <2>1, <2>2, <3>1, <3>2 DEF HeldInv
  <2>5. PoolOK(pool) /\ PoolOK(debug)
    BY <2>4 DEF Tidy, Pools, PoolOK
  <2> QED
    BY <2>1, <2>5 DEF TypeOK, PoolInv, DataInv, IsContext, NBytes
<1> QED
  BY <1>1, TypedInit, TypedStep, PTL DEF Spec

----------------------------------------------------------------------------
(* Congruences.                                                              *)

\* u and v leave the same rest when divided by d.
Cong(u, v, d) == \E t \in Int : u = v + t * d

\* A number and its rest.
LEMMA CongMod ==
  ASSUME NEW d \in Nat \ {0}, NEW u \in Int
  PROVE  u % d \in Nat /\ u % d < d /\ Cong(u, u % d, d)
<1>1. PICK q, r : q = u \div d /\ r = u % d
  OBVIOUS
<1>2. q \in Int /\ r \in Nat /\ r < d /\ u = d * q + r
  BY <1>1
<1>3. u = r + q * d
  BY <1>2
<1> QED
  BY <1>1, <1>2, <1>3 DEF Cong

\* Only one number below d leaves a given rest.
LEMMA CongSmall ==
  ASSUME NEW d \in Nat \ {0}, NEW u \in Nat, NEW v \in Nat, u < d, v < d, Cong(u, v, d)
  PROVE  u = v
<1>1. PICK t \in Int : u = v + t * d
  BY DEF Cong
<1>2. CASE t >= 1
  <2>1. PICK s \in Nat : t = 1 + s
    <3>1. t - 1 \in Nat /\ t = 1 + (t - 1)
      BY <1>2
    <3> QED
      BY <3>1
  <2>2. t * d = d + s * d /\ s * d \in Nat
    BY <2>1
  <2> QED
    BY <1>1, <2>2
<1>3. CASE t <= -1
  <2>1. PICK s \in Nat : t = -1 - s
    <3>1. -1 - t \in Nat /\ t = -1 - (-1 - t)
      BY <1>3
    <3> QED
      BY <3>1
  <2>2. t * d = -d - s * d /\ s * d \in Nat
    BY <2>1
  <2> QED
    BY <1>1, <2>2
<1>4. CASE t = 0
  BY <1>1, <1>4
<1> QED
  BY <1>2, <1>3, <1>4

\* It is an equivalence.
LEMMA CongEquivalence ==
  ASSUME NEW d \in Nat, NEW u \in Int, NEW v \in Int
  PROVE  /\ Cong(u, u, d)
         /\ Cong(u, v, d) => Cong(v, u, d)
         /\ \A w \in Int : Cong(u, v, d) /\ Cong(v, w, d) => Cong(u, w, d)
<1>1. Cong(u, u, d)
  <2>1. u = u + 0 * d /\ 0 \in Int
    OBVIOUS
  <2> QED
    BY <2>1 DEF Cong
<1>2. ASSUME Cong(u, v, d)
      PROVE  Cong(v, u, d)
  <2>1. PICK t \in Int : u = v + t * d
    BY <1>2 DEF Cong
  <2>2. -t \in Int /\ (-t) * d = -(t * d) /\ t * d \in Int
    OBVIOUS
  <2>3. v = u + (-t) * d
    BY <2>1, <2>2
  <2> QED
    BY <2>2, <2>3 DEF Cong
<1>3. ASSUME NEW w \in Int, Cong(u, v, d), Cong(v, w, d)
      PROVE  Cong(u, w, d)
  <2>1. PICK t \in Int, s \in Int : u = v + t * d /\ v = w + s * d
    BY <1>3 DEF Cong
  <2>2. t + s \in Int /\ (t + s) * d = t * d + s * d /\ t * d \in Int /\ s * d \in Int
    OBVIOUS
  <2>3. u = w + (t + s) * d
    BY <2>1, <2>2
  <2> QED
    BY <2>2, <2>3 DEF Cong
<1> QED
  BY <1>1, <1>2, <1>3

\* Sums respect it.
LEMMA CongSum ==
  ASSUME NEW d \in Nat, NEW u \in Int, NEW v \in Int, NEW x \in Int, NEW y \in Int,
         Cong(u, v, d), Cong(x, y, d)
  PROVE  Cong(u + x, v + y, d)
<1>1. PICK t \in Int, s \in Int : u = v + t * d /\ x = y + s * d
  BY DEF Cong
<1>2. t + s \in Int /\ (t + s) * d = t * d + s * d /\ t * d \in Int /\ s * d \in Int
  OBVIOUS
<1>3. u + x = (v + y) + (t + s) * d
  BY <1>1, <1>2
<1> QED
  BY <1>2, <1>3 DEF Cong

\* Products respect it.
LEMMA CongProduct ==
  ASSUME NEW d \in Nat, NEW u \in Int, NEW v \in Int, NEW x \in Int, NEW y \in Int,
         Cong(u, v, d), Cong(x, y, d)
  PROVE  Cong(u * x, v * y, d)
<1>1. PICK t \in Int, s \in Int : u = v + t * d /\ x = y + s * d
  BY DEF Cong
<1>2. PICK p : p = v * s + (t * y + t * (d * s))
  OBVIOUS
<1>3. p \in Int /\ p * d = (v * s) * d + ((t * y) * d + (t * (d * s)) * d)
  BY <1>2
<1>4. (v + t * d) * (y + s * d) = v * y + ((v * s) * d + ((t * y) * d + (t * (d * s)) * d))
  OBVIOUS
<1>5. u * x = v * y + p * d
  BY <1>1, <1>3, <1>4
<1> QED
  BY <1>3, <1>5 DEF Cong

\* A rest of 0 is a multiple, also of what is negative.
LEMMA CongZero ==
  ASSUME NEW d \in Nat \ {0}, NEW u \in Int, NEW v \in Int
  PROVE  (u - v) % d = 0 <=> Cong(u, v, d)
<1>1. PICK w : w = u - v
  OBVIOUS
<1>2. w \in Int
  BY <1>1
<1>3. ASSUME w % d = 0
      PROVE  Cong(u, v, d)
  <2>1. PICK t \in Int : w = (w % d) + t * d
    BY <1>2, CongMod DEF Cong
  <2>2. u = v + t * d
    BY <1>1, <1>3, <2>1
  <2> QED
    BY <2>2 DEF Cong
<1>4. ASSUME Cong(u, v, d)
      PROVE  w % d = 0
  <2>1. PICK t \in Int : u = v + t * d
    BY <1>4 DEF Cong
  <2>2. w = t * d + 0
    BY <1>1, <2>1
  <2>3. 0 \in Nat /\ 0 < d
    OBVIOUS
  <2> QED
    BY <1>2, <2>2, <2>3, DivIs
<1> QED
  BY <1>1, <1>3, <1>4

\* What has an inverse can be cancelled.
LEMMA CongCancel ==
  ASSUME NEW d \in Nat, NEW r \in Int, NEW s \in Int, Cong(s * r, 1, d),
         NEW u \in Int, NEW v \in Int, Cong(u * r, v * r, d)
  PROVE  Cong(u, v, d)
<1>1. \A w \in Int : Cong(w * (s * r), w, d)
  <2> TAKE w \in Int
  <2>1. s * r \in Int /\ 1 \in Int
    OBVIOUS
  <2>2. Cong(w, w, d)
    BY CongEquivalence
  <2>3. Cong(w * (s * r), w * 1, d)
    BY <2>1, <2>2, CongProduct
  <2> QED
    BY <2>3
<1>2. Cong((u * r) * s, (v * r) * s, d)
  <2>1. u * r \in Int /\ v * r \in Int
    OBVIOUS
  <2>2. Cong(s, s, d)
    BY CongEquivalence
  <2> QED
    BY <2>1, <2>2, CongProduct
<1>3. (u * r) * s = u * (s * r) /\ (v * r) * s = v * (s * r)
  OBVIOUS
<1>4. PICK c1, c2 : c1 = u * (s * r) /\ c2 = v * (s * r)
  OBVIOUS
<1>5. c1 \in Int /\ c2 \in Int /\ Cong(c1, c2, d) /\ Cong(c1, u, d) /\ Cong(c2, v, d)
  BY <1>1, <1>2, <1>3, <1>4
<1>6. Cong(u, c1, d)
  BY <1>5, CongEquivalence
<1>7. Cong(u, c2, d)
  BY <1>5, <1>6, CongEquivalence
<1> QED
  BY <1>5, <1>7, CongEquivalence

----------------------------------------------------------------------------
(* Powers modulo N.                                                          *)

\* The remainders of the powers of x by n.
PowerRun(f, x, n, k) == f[0] = 1 % n /\ \A j \in 1 .. k : f[j] = (f[j - 1] * x) % n

\* The recursive definition of PowMod is such a run of remainders.
LEMMA PowModRun ==
  ASSUME NEW x \in Nat, NEW n \in Nat \ {0}, NEW k \in Nat
  PROVE  \E f \in [0 .. k -> Nat] : PowerRun(f, x, n, k) /\ PowMod(x, k, n) = f[k]
<1> DEFINE D == [p \in Nat \X (1 .. k) |-> (p[1] * x) % n]
<1>1. 1 % n \in Nat
  BY CongMod
<1>2. ASSUME NEW v \in Nat, NEW j \in 1 .. k
      PROVE  D[<<v, j>>] = (v * x) % n /\ D[<<v, j>>] \in Nat
  <2>1. v * x \in Int
    OBVIOUS
  <2>2. (v * x) % n \in Nat
    BY <2>1, CongMod
  <2> QED
    BY <2>2
<1> HIDE DEF D
<1>3. Steps(D, Nat, k)
  BY <1>2 DEF Steps
<1>4. PICK f \in [0 .. k -> Nat] : Follows(f, 1 % n, D, k)
  BY <1>1, <1>3, Recursion
<1>5. ASSUME NEW j \in 1 .. k
      PROVE  f[j] = (f[j - 1] * x) % n
  <2>1. j - 1 \in 0 .. k
    OBVIOUS
  <2>2. f[j - 1] \in Nat /\ f[j] = D[<<f[j - 1], j>>]
    BY <1>4, <2>1 DEF Follows
  <2> QED
    BY <1>2, <2>2
<1>6. f[0] = 1 % n
  BY <1>4 DEF Follows
<1> DEFINE pow[j \in 0 .. k] == IF j = 0 THEN 1 % n ELSE (pow[j - 1] * x) % n
<1>7. PowMod(x, k, n) = pow[k]
  BY Zenon DEF PowMod
<1>8. f = [j \in 0 .. k |-> IF j = 0 THEN 1 % n ELSE (f[j - 1] * x) % n]
  <2>1. \A j \in 0 .. k : f[j] = IF j = 0 THEN 1 % n ELSE (f[j - 1] * x) % n
    <3> TAKE j \in 0 .. k
    <3>1. CASE j = 0
      BY <1>6, <3>1
    <3>2. CASE j # 0
      <4>1. j \in 1 .. k
        BY <3>2
      <4> QED
        BY <1>5, <3>2, <4>1
    <3> QED
      BY <3>1, <3>2
  <2>2. f = [j \in 0 .. k |-> f[j]]
    OBVIOUS
  <2> QED
    BY <2>1, <2>2, Zenon
<1>9. pow = [j \in 0 .. k |-> IF j = 0 THEN 1 % n ELSE (pow[j - 1] * x) % n]
  BY <1>8, Zenon
<1> HIDE DEF pow
<1>10. \A j \in 0 .. k : pow[j] = IF j = 0 THEN 1 % n ELSE (pow[j - 1] * x) % n
  BY <1>9, Zenon
<1> DEFINE T == {j \in 0 .. k : pow[j] = f[j]}
<1>11. k \in T
  <2>1. 0 \in T
    BY <1>6, <1>10
  <2>2. ASSUME NEW j \in 0 .. k - 1, j \in T
        PROVE  j + 1 \in T
    <3>1. j + 1 \in 0 .. k /\ j + 1 \in 1 .. k /\ (j + 1) - 1 = j /\ j + 1 # 0
      OBVIOUS
    <3>2. pow[j + 1] = (pow[j] * x) % n
      BY <1>10, <3>1
    <3>3. f[j + 1] = (f[j] * x) % n
      BY <1>5, <3>1
    <3> QED
      BY <2>2, <3>1, <3>2, <3>3
  <2> HIDE DEF T
  <2> QED
    BY <2>1, <2>2, FromZero
<1> QED
  BY <1>4, <1>5, <1>6, <1>7, <1>11 DEF PowerRun

\* The powers are below n, and each is its predecessor times x.
LEMMA PowModIs ==
  ASSUME NEW x \in Nat, NEW n \in Nat \ {0}
  PROVE  /\ PowMod(x, 0, n) = 1 % n
         /\ \A k \in Nat : /\ PowMod(x, k, n) \in Nat /\ PowMod(x, k, n) < n
                           /\ PowMod(x, k + 1, n) = (PowMod(x, k, n) * x) % n
<1>1. PowMod(x, 0, n) = 1 % n
  <2>1. 0 \in Nat
    OBVIOUS
  <2>2. PICK f \in [0 .. 0 -> Nat] : PowerRun(f, x, n, 0) /\ PowMod(x, 0, n) = f[0]
    BY <2>1, PowModRun
  <2> QED
    BY <2>2 DEF PowerRun
<1>2. ASSUME NEW k \in Nat
      PROVE  PowMod(x, k + 1, n) = (PowMod(x, k, n) * x) % n
  <2>1. k + 1 \in Nat /\ k + 1 \in 1 .. k + 1 /\ (k + 1) - 1 = k /\ k \in 0 .. k
    OBVIOUS
  <2>2. PICK f \in [0 .. k -> Nat] : PowerRun(f, x, n, k) /\ PowMod(x, k, n) = f[k]
    BY PowModRun
  <2>3. PICK g \in [0 .. k + 1 -> Nat] : PowerRun(g, x, n, k + 1) /\ PowMod(x, k + 1, n) = g[k + 1]
    BY <2>1, PowModRun
  <2> DEFINE T == {j \in 0 .. k : g[j] = f[j]}
  <2>4. k \in T
    <3>1. 0 \in T
      BY <2>2, <2>3 DEF PowerRun
    <3>2. ASSUME NEW j \in 0 .. k - 1, j \in T
          PROVE  j + 1 \in T
      <4>1. j + 1 \in 0 .. k /\ j + 1 \in 1 .. k /\ j + 1 \in 1 .. k + 1 /\ (j + 1) - 1 = j
        OBVIOUS
      <4>2. f[j + 1] = (f[j] * x) % n
        BY <2>2, <4>1 DEF PowerRun
      <4>3. g[j + 1] = (g[j] * x) % n
        BY <2>3, <4>1 DEF PowerRun
      <4> QED
        BY <3>2, <4>1, <4>2, <4>3
    <3> HIDE DEF T
    <3> QED
      BY <3>1, <3>2, FromZero
  <2>5. g[k + 1] = (g[k] * x) % n
    BY <2>1, <2>3 DEF PowerRun
  <2> QED
    BY <2>2, <2>3, <2>4, <2>5
<1> DEFINE S == {k \in Nat : PowMod(x, k, n) \in Nat /\ PowMod(x, k, n) < n}
<1>3. ASSUME NEW k \in Nat
      PROVE  k \in S
  <2>1. 0 \in S
    <3>1. 1 \in Int /\ 0 \in Nat
      OBVIOUS
    <3>2. 1 % n \in Nat /\ 1 % n < n
      BY <3>1, CongMod
    <3> QED
      BY <1>1, <3>1, <3>2
  <2>2. ASSUME NEW j \in 0 .. k - 1, j \in S
        PROVE  j + 1 \in S
    <3>1. PowMod(x, j, n) \in Nat /\ j \in Nat /\ j + 1 \in Nat
      BY <2>2
    <3>2. PICK v : v = PowMod(x, j, n) * x
      OBVIOUS
    <3>3. v \in Int /\ PowMod(x, j + 1, n) = v % n
      BY <1>2, <3>1, <3>2
    <3>4. v % n \in Nat /\ v % n < n
      BY <3>3, CongMod
    <3> QED
      BY <3>1, <3>3, <3>4
  <2> HIDE DEF S
  <2> QED
    BY <2>1, <2>2, FromZero
<1> QED
  BY <1>1, <1>2, <1>3

\* A power of a sum of exponents is a product of powers.
LEMMA PowModSum ==
  ASSUME NEW x \in Nat, NEW n \in Nat \ {0}, NEW j \in Nat, NEW k \in Nat
  PROVE  Cong(PowMod(x, j, n) * PowMod(x, k, n), PowMod(x, j + k, n), n)
<1> DEFINE P(l) == PowMod(x, l, n)
<1>1. /\ P(0) = 1 % n
      /\ \A l \in Nat : P(l) \in Nat /\ P(l) < n /\ P(l + 1) = (P(l) * x) % n
  BY PowModIs
<1> HIDE DEF P
<1>2. ASSUME NEW l \in Nat
      PROVE  Cong(P(l) * x, P(l + 1), n)
  <2>1. P(l) * x \in Int
    BY <1>1
  <2> QED
    BY <1>1, <2>1, CongMod
<1> DEFINE T == {l \in Nat : Cong(P(j) * P(l), P(j + l), n)}
<1>3. 0 \in T
  <2>1. Cong(1, P(0), n) /\ 1 \in Int /\ P(0) \in Int /\ P(j) \in Int /\ Cong(P(j), P(j), n)
    <3>1. 1 \in Int /\ n \in Nat /\ 0 \in Nat
      OBVIOUS
    <3>2. Cong(1, 1 % n, n)
      BY <3>1, CongMod
    <3>3. P(0) \in Int /\ P(j) \in Int
      BY <1>1, <3>1
    <3> QED
      BY <1>1, <3>1, <3>2, <3>3, CongEquivalence
  <2>2. Cong(P(0), 1, n)
    BY <2>1, CongEquivalence
  <2>3. Cong(P(j) * P(0), P(j) * 1, n)
    BY <2>1, <2>2, CongProduct
  <2>4. P(j) * 1 = P(j) /\ j + 0 = j
    BY <2>1
  <2> QED
    BY <2>3, <2>4
<1>4. ASSUME NEW l \in 0 .. k - 1, l \in T
      PROVE  l + 1 \in T
  <2>1. l \in Nat /\ l + 1 \in Nat /\ j + l \in Nat /\ j + (l + 1) = (j + l) + 1
    OBVIOUS
  <2>2. PICK p1, p2, p3, p4, p5 : /\ p1 = P(j) /\ p2 = P(l) /\ p3 = P(l + 1) /\ p4 = P(j + l)
                                  /\ p5 = P(j + (l + 1))
    OBVIOUS
  <2>3. p1 \in Int /\ p2 \in Int /\ p3 \in Int /\ p4 \in Int /\ p5 \in Int /\ x \in Int /\ n \in Nat
    <3>1. j + (l + 1) \in Nat
      BY <2>1
    <3> QED
      BY <1>1, <2>1, <2>2, <3>1
  <2>4. Cong(p1 * p2, p4, n) /\ Cong(p2 * x, p3, n) /\ Cong(p4 * x, p5, n)
    BY <1>2, <1>4, <2>1, <2>2
  <2>5. Cong(p1, p1, n) /\ Cong(x, x, n)
    BY <2>3, CongEquivalence
  <2>6. PICK c1, c2, c3 : c1 = p1 * p3 /\ c2 = p1 * (p2 * x) /\ c3 = p4 * x
    OBVIOUS
  <2>7. c1 \in Int /\ c2 \in Int /\ c3 \in Int
    BY <2>3, <2>6
  <2>8. Cong(c1, c2, n)
    <3>1. p2 * x \in Int
      BY <2>3
    <3>2. Cong(p3, p2 * x, n)
      BY <2>3, <2>4, <3>1, CongEquivalence
    <3> QED
      BY <2>3, <2>5, <2>6, <3>1, <3>2, CongProduct
  <2>9. Cong(c2, c3, n)
    <3>1. p1 * p2 \in Int /\ c2 = (p1 * p2) * x
      BY <2>3, <2>6
    <3> QED
      BY <2>3, <2>4, <2>5, <2>6, <3>1, CongProduct
  <2>10. Cong(c1, c3, n)
    BY <2>3, <2>7, <2>8, <2>9, CongEquivalence
  <2>11. Cong(c1, p5, n)
    BY <2>3, <2>4, <2>6, <2>7, <2>10, CongEquivalence
  <2> QED
    BY <2>1, <2>2, <2>6, <2>11
<1> HIDE DEF T
<1>5. k \in T
  BY <1>3, <1>4, FromZero
<1> QED
  BY <1>5 DEF T, P

\* Dividing by a product: one more byte of the remainder.
LEMMA ModStep ==
  ASSUME NEW v \in Nat, NEW w \in Nat \ {0}, NEW d \in Nat \ {0}
  PROVE  v % (d * w) = (v % w) + ((v \div w) % d) * w
<1>1. PICK q, r : q = v \div w /\ r = v % w
  OBVIOUS
<1>2. q \in Nat /\ r \in Nat /\ v = q * w + r /\ r < w
  BY <1>1, DivDef
<1>3. PICK t, s : t = q \div d /\ s = q % d
  OBVIOUS
<1>4. t \in Nat /\ s \in Nat /\ q = t * d + s /\ s < d
  BY <1>2, <1>3, DivDef
<1>5. PICK dw, sw : dw = d * w /\ sw = s * w
  OBVIOUS
<1>6. dw \in Nat \ {0} /\ sw \in Nat /\ w \in Nat /\ d \in Nat
  BY <1>4, <1>5
<1>7. sw + w <= dw
  <2>1. s + 1 <= d /\ w > 0
    BY <1>4
  <2>2. (s + 1) * w <= d * w
    BY <1>4, <2>1
  <2>3. (s + 1) * w = sw + w
    BY <1>4, <1>5
  <2> QED
    BY <1>5, <2>2, <2>3
<1>8. v = t * dw + (sw + r)
  BY <1>2, <1>4, <1>5, <1>6
<1>9. sw + r \in Nat /\ sw + r < dw /\ v \in Int /\ t \in Int
  BY <1>2, <1>4, <1>6, <1>7
<1>10. v % dw = sw + r
  BY <1>6, <1>8, <1>9, DivIs
<1> QED
  BY <1>1, <1>2, <1>3, <1>5, <1>6, <1>10

\* The bytes of a number that has room in them stand for it.
LEMMA ToBytesIs ==
  ASSUME NEW v \in Nat, NEW n \in Nat, v < Weight(n)
  PROVE  ToBytes(v, n) \in Number(n) /\ Value(ToBytes(v, n)) = v
<1>1. PICK z : z = ToBytes(v, n)
  OBVIOUS
<1>2. z \in Number(n)
  BY <1>1, ToBytesType
<1>3. Digits(z, n) /\ Value(z) = Part(z, n)
  BY <1>2, NumberDef
<1> DEFINE T == {k \in 0 .. n : Part(z, k) = v % Weight(k)}
<1>4. 0 \in T
  <2>1. Part(z, 0) = 0
    BY <1>3, PartDef
  <2>2. v % 1 = 0
    OBVIOUS
  <2> QED
    BY <2>1, <2>2, Weights
<1>5. ASSUME NEW k \in 0 .. n - 1, k \in T
      PROVE  k + 1 \in T
  <2>1. Part(z, k + 1) = Part(z, k) + z[k] * Weight(k)
    BY <1>3, PartStep
  <2>2. z[k] = (v \div Weight(k)) % Base
    BY <1>1 DEF ToBytes
  <2>3. k \in Nat /\ Weight(k) \in Nat \ {0} /\ Weight(k + 1) = Base * Weight(k) /\ Base \in Nat \ {0}
    BY Weights
  <2>4. v % (Base * Weight(k)) = (v % Weight(k)) + ((v \div Weight(k)) % Base) * Weight(k)
    BY <2>3, ModStep
  <2>5. k + 1 \in 0 .. n
    OBVIOUS
  <2> QED
    BY <1>5, <2>1, <2>2, <2>3, <2>4, <2>5
<1> HIDE DEF T
<1>6. n \in T
  BY <1>4, <1>5, FromZero
<1>7. v % Weight(n) = v
  BY Weights, SmallMod
<1> QED
  BY <1>1, <1>2, <1>3, <1>6, <1>7 DEF T

\* A copy into a shorter array that has room for the value keeps it.
LEMMA ResizeKeeps ==
  ASSUME NEW n \in Nat, NEW x \in Number(n), NEW l \in 0 .. n, Value(x) < Weight(l)
  PROVE  Resize(x, l) \in Number(l) /\ Value(Resize(x, l)) = Value(x)
<1>1. l \in Nat /\ DOMAIN x = 0 .. n - 1 /\ Digits(x, n)
  BY NumberDef
<1>2. Resize(x, l) \in Number(l)
  BY <1>1, ResizeType
<1>3. Value(Resize(x, l)) = Part(Resize(x, l), l)
  BY <1>1, <1>2, NumberDef
<1>4. Value(x) = Part(x, l)
  BY FitsBelow
<1>5. Digits(x, l)
  BY <1>1 DEF Digits
<1>6. Agree(x, Resize(x, l), l)
  BY <1>1 DEF Agree, Resize
<1>7. l \in 0 .. l
  BY <1>1
<1>8. \A k \in 0 .. l : Part(Resize(x, l), k) = Part(x, k)
  BY <1>1, <1>5, <1>6, PartSame
<1> QED
  BY <1>2, <1>3, <1>4, <1>7, <1>8

\* u + 1 is a multiple of p, and v agrees with u modulo 2 * p: the bit of v that
\* p counts says whether u + 1 is also a multiple of 2 * p, and if it is not, u
\* with an odd multiple of p added is.
LEMMA BitDecides ==
  ASSUME NEW p \in Nat \ {0}, NEW u \in Nat, NEW v \in Nat, NEW s \in Nat, s % 2 = 1,
         Cong(u + 1, 0, p), Cong(v, u, 2 * p)
  PROVE  /\ (v \div p) % 2 = 1 => Cong(u + 1, 0, 2 * p)
         /\ (v \div p) % 2 # 1 => Cong((u + s * p) + 1, 0, 2 * p)
<1>1. PICK t \in Int : u + 1 = 0 + t * p
  BY DEF Cong
<1>2. PICK a_1 \in Int : v = u + a_1 * (2 * p)
  BY DEF Cong
<1>3. PICK tp, ap, sp : tp = t * p /\ ap = a_1 * p /\ sp = s * p
  OBVIOUS
<1>4. tp \in Int /\ ap \in Int /\ sp \in Nat
  BY <1>3
<1>5. a_1 * (2 * p) = 2 * ap
  BY <1>3
<1>6. v = ((t - 1) + 2 * a_1) * p + (p - 1)
  <2>1. ((t - 1) + 2 * a_1) * p = (tp - p) + 2 * ap
    BY <1>3
  <2> QED
    BY <1>1, <1>2, <1>3, <1>4, <1>5, <2>1
<1>7. v \div p = (t - 1) + 2 * a_1
  <2>1. (t - 1) + 2 * a_1 \in Int /\ p - 1 \in Nat /\ p - 1 < p /\ v \in Int
    OBVIOUS
  <2> QED
    BY <1>6, <2>1, DivIs
<1>8. ASSUME (v \div p) % 2 = 1
      PROVE  Cong(u + 1, 0, 2 * p)
  <2>1. PICK h \in Int : t = 2 * h
    <3>1. ((t - 1) + 2 * a_1) % 2 = 1
      BY <1>7, <1>8
    <3>2. t % 2 = 0
      BY <3>1
    <3>3. t = 2 * (t \div 2) /\ t \div 2 \in Int
      BY <3>2
    <3> QED
      BY <3>3
  <2>2. u + 1 = 0 + h * (2 * p)
    BY <1>1, <2>1
  <2> QED
    BY <2>2 DEF Cong
<1>9. ASSUME (v \div p) % 2 # 1
      PROVE  Cong((u + s * p) + 1, 0, 2 * p)
  <2>1. PICK h \in Int : t + s = 2 * h
    <3>1. ((t - 1) + 2 * a_1) % 2 # 1
      BY <1>7, <1>9
    <3>2. (t + s) % 2 = 0
      BY <3>1
    <3>3. t + s = 2 * ((t + s) \div 2) /\ (t + s) \div 2 \in Int
      BY <3>2
    <3> QED
      BY <3>3
  <2>2. (t + s) * p = tp + sp
    BY <1>3
  <2>3. (u + s * p) + 1 = (t + s) * p
    BY <1>1, <1>3, <1>4, <2>2
  <2>4. (t + s) * p = 0 + h * (2 * p)
    BY <2>1
  <2>5. (u + s * p) + 1 = 0 + h * (2 * p)
    BY <2>3, <2>4
  <2> QED
    BY <2>5 DEF Cong
<1> QED
  BY <1>8, <1>9

\* A divisor's divisor.
LEMMA CongDivides ==
  ASSUME NEW d \in Nat, NEW h \in Nat, NEW u \in Int, NEW v \in Int, Cong(u, v, d * h)
  PROVE  Cong(u, v, d) /\ Cong(u, v, h)
<1>1. PICK t \in Int : u = v + t * (d * h)
  BY DEF Cong
<1>2. t * (d * h) = (t * h) * d /\ t * (d * h) = (t * d) * h /\ t * h \in Int /\ t * d \in Int
  OBVIOUS
<1>3. u = v + (t * h) * d /\ u = v + (t * d) * h
  BY <1>1, <1>2
<1> QED
  BY <1>2, <1>3 DEF Cong

\* The low bytes of a number are congruent to it.
LEMMA SliceCong ==
  ASSUME NEW n \in Nat, NEW x \in Number(n), NEW g \in 0 .. n
  PROVE  /\ Slice(x, 0, g) \in Number(g) /\ Value(Slice(x, 0, g)) \in Nat /\ Value(x) \in Nat
         /\ Cong(Value(x), Value(Slice(x, 0, g)), Weight(g))
<1>1. 0 \in Nat /\ g \in Nat /\ 0 + g = g /\ g <= n /\ n - g \in Nat /\ g + (n - g) = n
  OBVIOUS
<1>2. /\ Slice(x, 0, g) \in Number(g)
      /\ Part(x, 0 + g) = Part(x, 0) + Weight(0) * Value(Slice(x, 0, g))
  BY <1>1, SliceNumber
<1>3. /\ Value(Slice(x, 0, g)) \in Nat /\ Value(x) \in Nat
      /\ Digits(x, n) /\ Value(x) = Part(x, n)
  BY <1>1, <1>2, NumberDef
<1>4. Part(x, g) = Value(Slice(x, 0, g))
  <2>1. Part(x, 0) = 0
    BY <1>3, PartDef
  <2> QED
    BY <1>1, <1>2, <1>3, <2>1, Weights
<1>5. PICK z : z = Slice(x, g, n - g)
  OBVIOUS
<1>6. Digits(z, n - g) /\ Part(x, g + (n - g)) = Part(x, g) + Weight(g) * Part(z, n - g)
  BY <1>1, <1>3, <1>5, PartSplit
<1>7. PICK t : t = Part(z, n - g)
  OBVIOUS
<1>8. t \in Nat
  BY <1>1, <1>6, <1>7, PartDef
<1>9. Weight(g) \in Nat /\ Weight(g) * t = t * Weight(g) /\ t \in Int
  <2>1. Weight(g) \in Nat
    BY <1>1, Weights
  <2> QED
    BY <1>8, <2>1
<1>10. Value(x) = Value(Slice(x, 0, g)) + t * Weight(g)
  BY <1>1, <1>3, <1>4, <1>6, <1>7, <1>9
<1> QED
  BY <1>2, <1>3, <1>9, <1>10 DEF Cong

\* The product that RSA_get_prime_N looks at has the low bits of N times what it
\* has made so far.
LEMMA BitProductIs ==
  ASSUME NEW n \in Nat \ {0}, NEW N \in Number(n), NEW y \in Number(n), NEW k \in Nat, k < ByteBits * n,
         NEW h, h = k \div ByteBits
  PROVE  /\ BitProduct(N, y, n, h) \in Number(n)
         /\ Cong(Value(BitProduct(N, y, n, h)), Value(N) * Value(y), Pow2[k + 1])
<1>1. PICK s : s = k % ByteBits
  OBVIOUS
<1>2. n \in Nat /\ h \in 0 .. n - 1 /\ s \in 0 .. ByteBits - 1 /\ k = h * ByteBits + s /\ h \in Nat
  <2>1. n \in Nat
    OBVIOUS
  <2> QED
    BY <1>1, <2>1, BitPlace
<1>3. PICK g : g = h + 1
  OBVIOUS
<1>4. g \in 0 .. n /\ g \in Nat /\ n - g \in Nat /\ g + (n - g) = n
  <2>1. n \in Nat /\ h \in Nat /\ h + 1 <= n
    BY <1>2
  <2>2. g \in Nat /\ g <= n
    BY <1>3, <2>1
  <2> QED
    BY <2>1, <2>2
<1>5. PICK u, v : u = Slice(N, 0, g) /\ v = Slice(y, 0, g)
  OBVIOUS
<1>6. PICK cN, cy, cu, cv : cN = Value(N) /\ cy = Value(y) /\ cu = Value(u) /\ cv = Value(v)
  OBVIOUS
<1>7. /\ u \in Number(g) /\ v \in Number(g) /\ cu \in Nat /\ cv \in Nat /\ cN \in Nat /\ cy \in Nat
      /\ Cong(cN, cu, Weight(g)) /\ Cong(cy, cv, Weight(g))
  BY <1>2, <1>4, <1>5, <1>6, SliceCong
<1>8. PICK low : low = BitProduct(N, y, n, h)
  OBVIOUS
<1>9. low = Mul(u, v, Zero(n)).res
  BY <1>3, <1>5, <1>8 DEF BitProduct
<1>10. Mul(u, v, Zero(n)) \in Result(n) /\ Value(Mul(u, v, Zero(n)).res) = (cu * cv) % Weight(n)
  BY <1>2, <1>4, <1>6, <1>7, MulIs
<1>11. low \in Number(n) /\ Value(low) \in Nat
  <2>1. low \in Number(n)
    BY <1>9, <1>10 DEF Result
  <2> QED
    BY <1>2, <2>1, NumberDef
<1>12. PICK cl, p, q : cl = Value(low) /\ p = cu * cv /\ q = cN * cy
  OBVIOUS
<1>13. cl \in Int /\ p \in Int /\ q \in Int /\ cN \in Int /\ cy \in Int /\ cu \in Int /\ cv \in Int
  BY <1>7, <1>11, <1>12
<1>14. /\ Weight(g) \in Nat /\ Weight(n - g) \in Nat /\ Weight(n) \in Nat \ {0}
       /\ Weight(n) = Weight(g) * Weight(n - g)
  BY <1>2, <1>4, Weights, WeightSum
<1>15. Cong(q, p, Weight(g))
  BY <1>7, <1>12, <1>13, <1>14, CongProduct
<1>16. Cong(p, cl, Weight(g))
  <2>1. Cong(p, p % Weight(n), Weight(n))
    BY <1>13, <1>14, CongMod
  <2>2. Cong(p, cl, Weight(g) * Weight(n - g))
    BY <1>9, <1>10, <1>12, <1>14, <2>1
  <2> QED
    BY <1>13, <1>14, <2>2, CongDivides
<1>17. Cong(cl, q, Weight(g))
  BY <1>13, <1>14, <1>15, <1>16, CongEquivalence
<1>18. PICK l : l = ByteBits * g - (k + 1)
  OBVIOUS
<1>19. l \in Nat /\ ByteBits * g = (k + 1) + l /\ k + 1 \in Nat
  <2>1. PICK hb : hb = h * ByteBits
    OBVIOUS
  <2>2. hb \in Nat /\ ByteBits * g = hb + ByteBits /\ ByteBits \in Nat
    BY <1>2, <1>3, <2>1, ByteBitsAssumption
  <2> QED
    BY <1>2, <1>18, <2>1, <2>2
<1>20. Weight(g) = Pow2[k + 1] * Pow2[l] /\ Pow2[k + 1] \in Nat /\ Pow2[l] \in Nat
  BY <1>19, PowerSum, Pow2Def DEF Weight
<1>21. Cong(cl, q, Pow2[k + 1])
  BY <1>13, <1>17, <1>20, CongDivides
<1> QED
  BY <1>6, <1>8, <1>11, <1>12, <1>21

\* y makes N * y = -1 modulo 2^k.
Inverts(N, y, k) == Cong(Value(N) * Value(y) + 1, 0, Pow2[k])

\* The bit that RSA_get_prime_N sets, or does not, makes it so for one more bit.
LEMMA PrimeBit ==
  ASSUME NEW n \in Nat \ {0}, NEW N \in Number(n), Value(N) % 2 = 1, NEW y \in Number(n),
         NEW k \in Nat, k < ByteBits * n, Value(y) < Pow2[k], Inverts(N, y, k)
  PROVE  Inverts(N, Extended(N, y, n, k), k + 1)
<1>1. PICK h : h = k \div ByteBits
  OBVIOUS
<1>2. PICK low : low = BitProduct(N, y, n, h)
  OBVIOUS
<1>3. low \in Number(n) /\ Cong(Value(low), Value(N) * Value(y), Pow2[k + 1])
  BY <1>1, <1>2, BitProductIs
<1>4. n \in Nat
  OBVIOUS
<1>5. Bit(low[h], k % ByteBits) = (Value(low) \div Pow2[k]) % 2
  BY <1>1, <1>3, <1>4, BitOfNumber
<1>6. PICK cN, cy, cl, p, u : cN = Value(N) /\ cy = Value(y) /\ cl = Value(low) /\ p = Pow2[k] /\ u = cN * cy
  OBVIOUS
<1>7. cN \in Nat /\ cy \in Nat /\ cl \in Nat /\ u \in Nat /\ p \in Nat \ {0} /\ Pow2[k + 1] = 2 * p
  <2>1. cN \in Nat /\ cy \in Nat /\ cl \in Nat
    BY <1>3, <1>4, <1>6, NumberDef
  <2>2. p \in Nat \ {0} /\ Pow2[k + 1] = 2 * p
    BY <1>6, Pow2Def
  <2>3. u \in Nat
    BY <1>6, <2>1
  <2> QED
    BY <2>1, <2>2, <2>3
<1>8. Cong(u + 1, 0, p) /\ Cong(cl, u, 2 * p) /\ cN % 2 = 1
  BY <1>3, <1>6, <1>7 DEF Inverts
<1>9. /\ (cl \div p) % 2 = 1 => Cong(u + 1, 0, 2 * p)
      /\ (cl \div p) % 2 # 1 => Cong((u + cN * p) + 1, 0, 2 * p)
  BY <1>7, <1>8, BitDecides
<1>10. Extended(N, y, n, k) = IF (cl \div p) % 2 = 1 THEN y ELSE WithBit(y, k)
  BY <1>1, <1>2, <1>5, <1>6 DEF Extended
<1>11. CASE (cl \div p) % 2 = 1
  BY <1>6, <1>7, <1>9, <1>10, <1>11 DEF Inverts
<1>12. CASE (cl \div p) % 2 # 1
  <2>1. Value(WithBit(y, k)) = cy + p
    BY <1>4, <1>6, WithBitIs
  <2>2. cN * (cy + p) + 1 = (u + cN * p) + 1
    BY <1>6, <1>7
  <2>3. Cong(cN * (cy + p) + 1, 0, 2 * p)
    BY <1>9, <1>12, <2>2
  <2> QED
    BY <1>6, <1>7, <1>10, <1>12, <2>1, <2>3 DEF Inverts
<1> QED
  BY <1>11, <1>12

\* So RSA_get_prime_N makes the number that MG_mul needs.
LEMMA PrimeIs ==
  ASSUME NEW N \in Moduli, Value(N) % 2 = 1, NEW bits, bits = Bitwidth(N)
  PROVE  Value(PrimeN(N, bits)) < Pow2[bits] /\ Inverts(N, PrimeN(N, bits), bits)
<1>1. PICK n : n = Bytes(N)
  OBVIOUS
<1>2. n \in Nat \ {0} /\ n \in Nat /\ N \in Number(n)
  BY <1>1, KeysAssumption
<1>3. bits \in Nat /\ bits <= ByteBits * n /\ bits # 0
  <2>1. Bitwidth(N) \in 0 .. ByteBits * n /\ (Value(N) # 0 => Bitwidth(N) # 0)
    BY <1>2, BitwidthIs
  <2>2. Value(N) # 0
    OBVIOUS
  <2>3. ByteBits * n \in Nat
    BY <1>2, ByteBitsAssumption
  <2> QED
    BY <2>1, <2>2, <2>3
<1>4. PICK f : Primes(f, N, n, bits) /\ PrimeN(N, bits) = f[bits]
  BY <1>2, <1>3, PrimeRun
<1>5. ASSUME NEW k \in 0 .. bits
      PROVE  f[k] \in Number(n) /\ (k > 0 => Value(f[k]) < Pow2[k])
  BY <1>2, <1>3, <1>4, PrimesType
<1> DEFINE T == {k \in 1 .. bits : Inverts(N, f[k], k)}
<1>6. 1 \in T
  <2>1. f[1] = One(n) /\ 1 \in 1 .. bits
    BY <1>3, <1>4 DEF Primes
  <2>2. Value(f[1]) = 1
    BY <1>2, <2>1, OneIs
  <2>3. Pow2[1] = 2
    <3>1. 0 \in Nat /\ 0 + 1 = 1
      OBVIOUS
    <3> QED
      BY <3>1, Pow2Def
  <2>4. PICK cN : cN = Value(N)
    OBVIOUS
  <2>5. cN \in Nat /\ cN % 2 = 1
    BY <1>2, <2>4, NumberDef
  <2>6. cN * 1 + 1 = 0 + ((cN + 1) \div 2) * 2 /\ (cN + 1) \div 2 \in Int
    BY <2>5
  <2>7. Cong(cN * 1 + 1, 0, 2)
    BY <2>6 DEF Cong
  <2> QED
    BY <2>1, <2>2, <2>3, <2>4, <2>7 DEF Inverts
<1>7. ASSUME NEW k \in 1 .. bits - 1, k \in T
      PROVE  k + 1 \in T
  <2>1. k \in 0 .. bits /\ k > 0 /\ k \in Nat /\ k + 1 \in 1 .. bits /\ k + 1 \in 0 .. bits /\ ~(k + 1 <= 1)
        /\ (k + 1) - 1 = k
    BY <1>3
  <2>2. k < ByteBits * n
    <3>1. ByteBits * n \in Nat
      BY <1>2, ByteBitsAssumption
    <3> QED
      BY <1>3, <3>1
  <2>3. f[k] \in Number(n) /\ Value(f[k]) < Pow2[k]
    BY <1>5, <2>1
  <2>4. f[k + 1] = Extended(N, f[k], n, k)
    BY <1>4, <2>1 DEF Primes
  <2>5. Inverts(N, Extended(N, f[k], n, k), k + 1)
    BY <1>2, <1>7, <2>1, <2>2, <2>3, PrimeBit
  <2> QED
    BY <2>1, <2>4, <2>5
<1>8. bits \in T
  <2>1. 1 \in Nat /\ bits \in 1 .. bits
    BY <1>3
  <2> HIDE DEF T
  <2>2. \A k \in 1 .. bits : k \in T
    BY <1>3, <1>6, <1>7, <2>1, Upward
  <2> QED
    BY <2>1, <2>2
<1>9. bits \in 0 .. bits /\ bits > 0
  BY <1>3
<1> QED
  BY <1>4, <1>5, <1>8, <1>9

\* Montgomery's reduction of v: m * d + v is a multiple of r, and t is what is
\* left of it.
Reduction(r, d, v, m, s, t) ==
  /\ m \in Nat /\ m < r
  /\ s \in Nat /\ s = m * d + v
  /\ t \in Nat /\ t * r = s /\ t < d + r
  /\ v < r => t <= d

\* It is one where p makes d * p = -1 modulo r.
LEMMA ReductionIs ==
  ASSUME NEW r \in Nat \ {0}, NEW d \in Nat \ {0}, NEW p \in Nat, Cong(d * p + 1, 0, r),
         NEW v \in Nat, v < r * r, NEW m, m = ((v % r) * p) % r, NEW s, s = m * d + v, NEW t, t = s \div r
  PROVE  Reduction(r, d, v, m, s, t)
<1>1. PICK c : c = v % r
  OBVIOUS
<1>2. PICK q : q = c * p
  OBVIOUS
<1>3. c \in Nat /\ c < r /\ v = (v \div r) * r + c /\ v \div r \in Nat
  BY <1>1, DivDef
<1>4. q \in Nat
  BY <1>2, <1>3
<1>5. m \in Nat /\ m < r /\ q = (q \div r) * r + m /\ q \div r \in Nat
  <2>1. m = q % r
    BY <1>1, <1>2
  <2> QED
    BY <1>4, <2>1, DivDef
<1>6. PICK b_1 \in Nat : v = b_1 * r + c
  BY <1>3
<1>7. PICK a_1 \in Nat : q = a_1 * r + m
  BY <1>5
<1>8. PICK g \in Int : d * p + 1 = 0 + g * r
  BY DEF Cong
<1>9. PICK z : z = (c * g + b_1) - a_1 * d
  OBVIOUS
<1>10. z \in Int
  BY <1>3, <1>9
<1>11. m * d + v = z * r
  <2>1. m = c * p - a_1 * r
    BY <1>2, <1>3, <1>5, <1>7
  <2>2. m * d = (c * p - a_1 * r) * d
    BY <2>1
  <2>3. (c * p - a_1 * r) * d = c * (d * p) - (a_1 * d) * r
    BY <1>3
  <2>4. d * p = g * r - 1 /\ d * p \in Int
    BY <1>8
  <2>5. c * (d * p) = c * (g * r - 1)
    BY <2>4
  <2>6. c * (g * r - 1) = (c * g) * r - c
    BY <1>3
  <2>7. ((c * g + b_1) - a_1 * d) * r = ((c * g) * r + b_1 * r) - (a_1 * d) * r
    BY <1>3
  <2>8. PICK h1, h2, h3 : h1 = (c * g) * r /\ h2 = b_1 * r /\ h3 = (a_1 * d) * r
    OBVIOUS
  <2>9. h1 \in Int /\ h2 \in Int /\ h3 \in Int
    BY <1>3, <2>8
  <2>10. m * d = (h1 - c) - h3 /\ v = h2 + c /\ z * r = (h1 + h2) - h3
    BY <1>6, <1>9, <2>2, <2>3, <2>5, <2>6, <2>7, <2>8
  <2>11. PICK y1, y2 : y1 = m * d /\ y2 = z * r
    OBVIOUS
  <2>12. y1 + v = y2
    <3>1. y1 = (h1 - c) - h3 /\ v = h2 + c /\ y2 = (h1 + h2) - h3 /\ c \in Int
      BY <1>3, <2>10, <2>11
    <3> QED
      BY <2>9, <3>1
  <2> QED
    BY <2>11, <2>12
<1>12. PICK md, rd, rr : md = m * d /\ rd = r * d /\ rr = r * r
  OBVIOUS
<1>13. md \in Nat /\ rd \in Nat /\ rr \in Nat /\ s = md + v /\ v < rr
  BY <1>5, <1>12
<1>14. md + d <= rd
  <2>1. (m + 1) * d <= r * d
    <3>1. m + 1 <= r /\ m + 1 \in Nat
      BY <1>5
    <3> QED
      BY <3>1
  <2>2. (m + 1) * d = md + d
    BY <1>5, <1>12
  <2> QED
    BY <1>12, <2>1, <2>2
<1>15. s = z * r /\ s \in Nat
  BY <1>11, <1>13
<1>16. t = z
  <2>1. s = z * r + 0 /\ 0 \in Nat /\ 0 < r /\ s \in Int
    <3>1. z * r \in Int
      BY <1>10
    <3> QED
      BY <1>15, <3>1
  <2> QED
    BY <1>10, <2>1, DivIs
<1>17. t \in Nat
  <2>1. ASSUME z < 0
        PROVE  FALSE
    <3>1. z * r <= (0 - 1) * r
      <4>1. z <= 0 - 1
        BY <1>10, <2>1
      <4> QED
        BY <1>10, <4>1
    <3>2. (0 - 1) * r < 0
      OBVIOUS
    <3>3. z * r \in Nat
      BY <1>15
    <3> QED
      BY <3>1, <3>2, <3>3
  <2> QED
    BY <1>10, <1>16, <2>1
<1>18. t < d + r
  <2>1. ASSUME t >= d + r
        PROVE  FALSE
    <3>1. t * r >= (d + r) * r
      BY <1>17, <2>1
    <3>2. (d + r) * r = rd + rr
      BY <1>12
    <3>3. t * r = md + v
      BY <1>13, <1>15, <1>16
    <3> QED
      BY <1>13, <1>14, <3>1, <3>2, <3>3
  <2> QED
    BY <1>17, <2>1
<1>19. ASSUME v < r
       PROVE  t <= d
  <2>1. ASSUME t >= d + 1
        PROVE  FALSE
    <3>1. t * r >= (d + 1) * r
      BY <1>17, <2>1
    <3>2. (d + 1) * r = rd + r
      BY <1>12
    <3>3. t * r = md + v
      BY <1>13, <1>15, <1>16
    <3> QED
      BY <1>13, <1>14, <1>19, <3>1, <3>2, <3>3
  <2> QED
    BY <1>17, <2>1
<1> QED
  BY <1>5, <1>15, <1>16, <1>17, <1>18, <1>19 DEF Reduction

\* Once d has been taken off, if it can be, z is less than r, and v divided by r
\* modulo d.
IsReduced(z, r, d, v) == z \in Nat /\ z < r /\ Cong(z * r, v, d) /\ (v < r => z < d)

\* Montgomery's reduction: the sum of v and the multiple of d, shifted by R and
\* reduced once.
LEMMA ReductionResult ==
  ASSUME NEW r \in Nat \ {0}, NEW d \in Nat \ {0}, d <= r, NEW v \in Nat, NEW m, NEW s, NEW t,
         Reduction(r, d, v, m, s, t), NEW z, z = IF t >= d THEN t - d ELSE t
  PROVE  IsReduced(z, r, d, v)
<1>1. /\ m \in Nat /\ m < r /\ s = m * d + v /\ t \in Nat /\ t * r = s /\ t < d + r
      /\ v < r => t <= d
  BY DEF Reduction
<1>2. z \in Nat /\ z < r /\ (v < r => z < d)
  BY <1>1
<1>3. Cong(z * r, v, d)
  <2>1. CASE t >= d
    <3>1. z * r = t * r - d * r
      BY <1>1, <2>1
    <3>2. z * r = v + (m - r) * d
      <4>1. (m - r) * d = m * d - r * d /\ r * d = d * r
        BY <1>1
      <4>2. m * d \in Int /\ d * r \in Int
        BY <1>1
      <4> QED
        BY <1>1, <3>1, <4>1, <4>2
    <3>3. m - r \in Int
      BY <1>1
    <3> QED
      BY <3>2, <3>3 DEF Cong
  <2>2. CASE ~(t >= d)
    <3>1. z * r = v + m * d
      <4>1. m * d \in Int
        BY <1>1
      <4> QED
        BY <1>1, <2>2, <4>1
    <3> QED
      BY <1>1, <3>1 DEF Cong
  <2> QED
    BY <2>1, <2>2
<1> QED
  BY <1>2, <1>3 DEF IsReduced

\* The buffers of MG_mul have room for twice the square of R.
LEMMA Room ==
  ASSUME NEW c, IsContext(c), NEW r, r = Pow2[c.rBits], NEW k, k = BuffBytes(c), NEW n, n = Bytes(c.N)
  PROVE  /\ r \in Nat \ {0} /\ k \in Nat /\ n \in 0 .. k
         /\ 2 * (r * r) <= Weight(k) /\ r <= Weight(n)
         /\ (c.rBits + ByteBits - 1) \div ByteBits < k
<1>1. n \in Nat \ {0} /\ n \in Nat /\ c.rBits \in Nat /\ c.rBits <= ByteBits * n /\ k \in Nat
  BY ContextSizes
<1>2. PICK q : q = (c.rBits + ByteBits - 1) \div ByteBits
  OBVIOUS
<1>3. q \in Int
  <2>1. c.rBits + ByteBits - 1 \in Nat
    BY <1>1, ByteBitsAssumption
  <2> QED
    BY <1>2, <2>1, ByteBitsAssumption, DivDef
<1>4. k = n + 1 + IF n < q THEN q ELSE n
  BY <1>2 DEF BuffBytes, Ceil
<1>5. q < k /\ n + n + 1 <= k /\ n \in 0 .. k
  BY <1>1, <1>3, <1>4
<1>6. PICK w : w = Weight(n)
  OBVIOUS
<1>7. w \in Nat /\ r \in Nat \ {0} /\ r <= w
  <2>1. ByteBits * n \in Nat
    BY <1>1, ByteBitsAssumption
  <2>2. Pow2[c.rBits] \in Nat \ {0} /\ Pow2[ByteBits * n] \in Nat \ {0} /\ Pow2[c.rBits] <= Pow2[ByteBits * n]
    BY <1>1, <2>1, PowerMonotone
  <2> QED
    BY <1>6, <2>2 DEF Weight
<1>8. Weight(n + n + 1) = Base * (w * w) /\ Base \in Nat /\ Base >= 2
  <2>1. n + n \in Nat
    BY <1>1
  <2>2. Weight(n + n) = w * w /\ Weight((n + n) + 1) = Base * Weight(n + n)
    BY <1>1, <1>6, <2>1, WeightSum, Weights
  <2> QED
    BY <2>2, Weights
<1>9. Weight(n + n + 1) <= Weight(k)
  <2>1. PICK l : l = n + n + 1
    OBVIOUS
  <2>2. l \in Nat /\ l <= k
    BY <1>1, <1>5, <2>1
  <2>3. ByteBits * l \in Nat /\ ByteBits * k \in Nat /\ ByteBits * l <= ByteBits * k
    BY <1>1, <2>2, ByteBitsAssumption
  <2>4. Pow2[ByteBits * l] <= Pow2[ByteBits * k]
    BY <2>3, PowerMonotone
  <2> QED
    BY <2>1, <2>4 DEF Weight
<1>10. r * r <= w * w
  <2>1. r * r <= r * w
    BY <1>7
  <2>2. r * w <= w * w
    BY <1>7
  <2>3. r * r \in Nat /\ r * w \in Nat /\ w * w \in Nat
    BY <1>7
  <2> QED
    BY <2>1, <2>2, <2>3
<1>11. 2 * (r * r) <= Base * (w * w)
  <2>1. PICK p1, p2 : p1 = r * r /\ p2 = w * w
    OBVIOUS
  <2>2. p1 \in Nat /\ p2 \in Nat /\ p1 <= p2
    BY <1>7, <1>10, <2>1
  <2>3. 2 * p2 <= Base * p2
    BY <1>8, <2>2
  <2> QED
    BY <1>8, <2>1, <2>2, <2>3
<1>12. 2 * (r * r) <= Weight(k)
  <2>1. Weight(k) \in Nat /\ r * r \in Nat /\ w * w \in Nat
    BY <1>1, <1>7, Weights
  <2>2. Base * (w * w) \in Nat
    BY <1>8, <2>1
  <2> QED
    BY <1>8, <1>9, <1>11, <2>1, <2>2
<1> QED
  BY <1>1, <1>2, <1>5, <1>6, <1>7, <1>12

\* The context of a usual key, once RSA_get_prime_N has been called.
IsPrimed(c) ==
  /\ IsContext(c)
  /\ Value(c.N) % 2 = 1 /\ c.rBits % ByteBits = 0
  /\ Value(c.prime) < Pow2[c.rBits] /\ Inverts(c.N, c.prime, c.rBits)

\* Its modulus and its R.
LEMMA PrimedSizes ==
  ASSUME NEW c, IsPrimed(c), NEW r, r = Pow2[c.rBits], NEW d, d = Value(c.N)
  PROVE  /\ r \in Nat \ {0} /\ d \in Nat \ {0} /\ d < r
         /\ c.rBits \in Nat \ {0} /\ c.rBits >= ByteBits
<1>1. PICK n : n = Bytes(c.N)
  OBVIOUS
<1>2. n \in Nat /\ c.N \in Number(n) /\ c.rBits \in Nat /\ c.rBits = Bitwidth(c.N)
  BY <1>1, ContextSizes DEF IsPrimed, IsContext
<1>3. d \in Nat /\ d < r /\ (d # 0 => c.rBits # 0)
  BY <1>2, BitwidthIs, NumberDef
<1>4. d # 0
  BY DEF IsPrimed
<1>5. PICK b_1 : b_1 = c.rBits
  OBVIOUS
<1>6. b_1 >= ByteBits
  <2>1. b_1 \in Nat /\ b_1 # 0 /\ b_1 % ByteBits = 0
    BY <1>2, <1>3, <1>4, <1>5 DEF IsPrimed
  <2>2. ASSUME b_1 < ByteBits
        PROVE  FALSE
    <3>1. b_1 % ByteBits = b_1
      BY <2>1, <2>2, SmallMod, ByteBitsAssumption
    <3> QED
      BY <2>1, <3>1
  <2> QED
    BY <2>1, <2>2, ByteBitsAssumption
<1> QED
  BY <1>2, <1>3, <1>4, <1>5, <1>6, Pow2Def

\* MG_mul leaves its arguments' product divided by R modulo N in less than R, and
\* reports no overflow.
MgIsRight(c, x, y) ==
  /\ MgMul(c, x, y).ok
  /\ MgMul(c, x, y).res \in Number(Bytes(c.N))
  /\ IsReduced(Value(MgMul(c, x, y).res), Pow2[c.rBits], Value(c.N), Value(x) * Value(y))

\* It does, in the context of a usual key and for arguments less than R.
LEMMA MgMulIs ==
  ASSUME NEW c, IsPrimed(c), NEW g \in Nat, NEW x \in Number(g), NEW h \in Nat, NEW y \in Number(h),
         Value(x) < Pow2[c.rBits], Value(y) < Pow2[c.rBits]
  PROVE  MgIsRight(c, x, y)
<1>1. PICK n, k, bits, r, d, p : /\ n = Bytes(c.N) /\ k = BuffBytes(c) /\ bits = c.rBits
                                 /\ r = Pow2[c.rBits] /\ d = Value(c.N) /\ p = Value(c.prime)
  OBVIOUS
<1>2. IsContext(c) /\ bits % ByteBits = 0 /\ p < r /\ Cong(d * p + 1, 0, r)
  BY <1>1 DEF IsPrimed, Inverts
<1>3. /\ n \in Nat /\ c.N \in Number(n) /\ c.prime \in Number(n)
      /\ r \in Nat \ {0} /\ d \in Nat \ {0} /\ d < r
      /\ bits \in Nat \ {0} /\ bits \in Nat /\ bits >= ByteBits
      /\ k \in Nat /\ n \in 0 .. k
      /\ 2 * (r * r) <= Weight(k) /\ r <= Weight(n)
      /\ (bits + ByteBits - 1) \div ByteBits < k
  <2>1. n \in Nat /\ c.N \in Number(n) /\ c.prime \in Number(n)
    BY <1>1, <1>2, ContextSizes DEF IsContext
  <2>2. r \in Nat \ {0} /\ d \in Nat \ {0} /\ d < r /\ bits \in Nat \ {0} /\ bits >= ByteBits
    BY <1>1, PrimedSizes
  <2>3. k \in Nat /\ n \in 0 .. k /\ 2 * (r * r) <= Weight(k) /\ r <= Weight(n)
    BY <1>1, <1>2, Room
  <2>4. (bits + ByteBits - 1) \div ByteBits < k
    BY <1>1, <1>2, Room
  <2> QED
    BY <2>1, <2>2, <2>3, <2>4
<1>4. p \in Nat
  BY <1>1, <1>3, NumberDef
<1>5. PICK cx, cy : cx = Value(x) /\ cy = Value(y)
  OBVIOUS
<1>6. cx \in Nat /\ cy \in Nat /\ cx < r /\ cy < r
  BY <1>1, <1>5, NumberDef
<1>7. PICK v, rr, W : v = cx * cy /\ rr = r * r /\ W = Weight(k)
  OBVIOUS
<1>8. v \in Nat /\ rr \in Nat /\ W \in Nat \ {0} /\ v < rr /\ 2 * rr <= W
  <2>1. v \in Nat /\ v < rr
    BY <1>3, <1>6, <1>7, ProductBound
  <2>2. rr \in Nat /\ W \in Nat \ {0}
    BY <1>3, <1>7, Weights
  <2> QED
    BY <1>3, <1>7, <2>1, <2>2
<1>9. PICK A, B, C, S, Z : /\ A = MgProduct(c, x, y) /\ B = MgQuotient(c, x, y) /\ C = MgMultiple(c, x, y)
                           /\ S = MgSum(c, x, y) /\ Z = MgShifted(c, x, y)
  OBVIOUS
<1>10. A.res \in Number(k) /\ ~A.flag /\ Value(A.res) = v
  <2>1. Value(x) * Value(y) < Weight(k)
    BY <1>5, <1>7, <1>8
  <2>2. /\ Mul(x, y, Zero(k)) \in Result(k) /\ ~Mul(x, y, Zero(k)).flag
        /\ Value(Mul(x, y, Zero(k)).res) = Value(x) * Value(y)
    BY <1>3, <2>1, SmallProduct
  <2>3. A = Mul(x, y, Zero(k))
    BY <1>1, <1>9 DEF MgProduct
  <2> QED
    BY <1>5, <1>7, <2>2, <2>3 DEF Result
<1>11. PICK L1, l1 : L1 = Mod2Pow(A.res, bits) /\ l1 = v % r
  OBVIOUS
<1>12. L1 \in Number(k) /\ Value(L1) = l1 /\ l1 \in Nat /\ l1 < r
  <2>1. Mod2Pow(A.res, bits) \in Number(k) /\ Value(Mod2Pow(A.res, bits)) = Value(A.res) % Pow2[bits]
    BY <1>2, <1>3, <1>10, Mod2PowIs
  <2>2. v % r \in Nat /\ v % r < r
    BY <1>3, <1>8, DivDef
  <2> QED
    BY <1>1, <1>10, <1>11, <2>1, <2>2
<1>13. PICK q : q = l1 * p
  OBVIOUS
<1>14. q \in Nat /\ q < rr
  BY <1>2, <1>3, <1>4, <1>7, <1>12, <1>13, ProductBound
<1>15. B.res \in Number(k) /\ ~B.flag /\ Value(B.res) = q
  <2>1. Value(L1) * Value(c.prime) < Weight(k)
    BY <1>1, <1>7, <1>8, <1>12, <1>13, <1>14
  <2>2. /\ Mul(L1, c.prime, Zero(k)) \in Result(k) /\ ~Mul(L1, c.prime, Zero(k)).flag
        /\ Value(Mul(L1, c.prime, Zero(k)).res) = Value(L1) * Value(c.prime)
    BY <1>3, <1>12, <2>1, SmallProduct
  <2>3. B = Mul(L1, c.prime, Zero(k))
    BY <1>1, <1>9, <1>11 DEF MgQuotient
  <2> QED
    BY <1>1, <1>12, <1>13, <2>2, <2>3 DEF Result
<1>16. PICK L2, m : L2 = Mod2Pow(B.res, bits) /\ m = q % r
  OBVIOUS
<1>17. L2 \in Number(k) /\ Value(L2) = m /\ m \in Nat /\ m < r
  <2>1. Mod2Pow(B.res, bits) \in Number(k) /\ Value(Mod2Pow(B.res, bits)) = Value(B.res) % Pow2[bits]
    BY <1>2, <1>3, <1>15, Mod2PowIs
  <2>2. q % r \in Nat /\ q % r < r
    BY <1>3, <1>14, DivDef
  <2> QED
    BY <1>1, <1>15, <1>16, <2>1, <2>2
<1>18. PICK md : md = m * d
  OBVIOUS
<1>19. md \in Nat /\ md < rr
  BY <1>3, <1>7, <1>17, <1>18, ProductBound
<1>20. C.res \in Number(k) /\ ~C.flag /\ Value(C.res) = md
  <2>1. Value(L2) * Value(c.N) < Weight(k)
    BY <1>1, <1>7, <1>8, <1>17, <1>18, <1>19
  <2>2. /\ Mul(L2, c.N, Zero(k)) \in Result(k) /\ ~Mul(L2, c.N, Zero(k)).flag
        /\ Value(Mul(L2, c.N, Zero(k)).res) = Value(L2) * Value(c.N)
    BY <1>3, <1>17, <2>1, SmallProduct
  <2>3. C = Mul(L2, c.N, Zero(k))
    BY <1>1, <1>9, <1>16 DEF MgMultiple
  <2> QED
    BY <1>1, <1>17, <1>18, <2>2, <2>3 DEF Result
<1>21. PICK s : s = md + v
  OBVIOUS
<1>22. S.res \in Number(k) /\ ~S.flag /\ Value(S.res) = s
  <2>1. k \in 0 .. k
    BY <1>3
  <2>2. /\ Plus(C.res, A.res).res \in Number(k)
        /\ Part(C.res, k) + Part(A.res, k) < Weight(k) =>
             /\ Value(Plus(C.res, A.res).res) = Value(C.res) + Part(A.res, k)
             /\ ~Plus(C.res, A.res).flag
    BY <1>3, <1>10, <1>20, <2>1, PlusIs
  <2>3. Part(C.res, k) = md /\ Part(A.res, k) = v
    BY <1>3, <1>10, <1>20, NumberDef
  <2>4. md + v < W
    BY <1>8, <1>19
  <2>5. S = Plus(C.res, A.res)
    BY <1>9 DEF MgSum
  <2> QED
    BY <1>7, <1>20, <1>21, <2>2, <2>3, <2>4, <2>5
<1>23. PICK t : t = s \div r
  OBVIOUS
<1>24. Z \in Number(k) /\ Value(Z) = t
  <2>1. RightShift(S.res, bits) \in Number(k) /\ Value(RightShift(S.res, bits)) = Value(S.res) \div Pow2[bits]
    BY <1>3, <1>22, RightShiftIs
  <2>2. Z = RightShift(S.res, bits)
    BY <1>1, <1>9 DEF MgShifted
  <2> QED
    BY <1>1, <1>22, <1>23, <2>1, <2>2
<1>25. Reduction(r, d, v, m, s, t)
  <2>1. v < r * r
    BY <1>7, <1>8
  <2>2. m = ((v % r) * p) % r
    BY <1>11, <1>13, <1>16
  <2>3. s = m * d + v
    BY <1>18, <1>21
  <2> QED
    BY <1>2, <1>3, <1>4, <1>8, <1>23, <2>1, <2>2, <2>3, ReductionIs
<1>26. PICK z : z = IF t >= d THEN t - d ELSE t
  OBVIOUS
<1>27. IsReduced(z, r, d, v)
  <2>1. d <= r
    BY <1>3
  <2> QED
    BY <1>3, <1>8, <1>25, <1>26, <2>1, ReductionResult
<1>28. PICK Q : Q = Reduced(Z, c.N)
  OBVIOUS
<1>29. Q \in Number(k) /\ Value(Q) = z
  <2>1. Reduces(Z, c.N, k)
    BY <1>3, <1>24, ReducedIs
  <2>2. /\ Q \in Number(k)
        /\ t >= d => Value(Q) = t - d
        /\ t < d => Value(Q) = t
    BY <1>1, <1>24, <1>28, <2>1 DEF Reduces
  <2>3. t \in Nat
    BY <1>25 DEF Reduction
  <2> QED
    BY <1>3, <1>26, <2>2, <2>3
<1>30. Resize(Q, n) \in Number(n) /\ Value(Resize(Q, n)) = z
  <2>1. Value(Q) < Weight(n)
    <3>1. z \in Nat /\ z < r
      BY <1>27 DEF IsReduced
    <3>2. Weight(n) \in Nat
      BY <1>3, Weights
    <3> QED
      BY <1>3, <1>29, <3>1, <3>2
  <2>2. Resize(Q, n) \in Number(n) /\ Value(Resize(Q, n)) = Value(Q)
    BY <1>3, <1>29, <2>1, ResizeKeeps
  <2> QED
    BY <1>29, <2>2
<1>31. MgMul(c, x, y).res = Resize(Q, n) /\ MgMul(c, x, y).ok
  <2>1. MgMul(c, x, y).res = Resize(Q, n)
    BY <1>1, <1>9, <1>28, MgMulDef
  <2>2. MgMul(c, x, y).ok <=> ~(A.flag \/ B.flag \/ C.flag \/ S.flag)
    BY <1>9, MgMulDef
  <2> QED
    BY <1>10, <1>15, <1>20, <1>22, <2>1, <2>2
<1> QED
  BY <1>1, <1>5, <1>7, <1>27, <1>30, <1>31 DEF MgIsRight

\* RSA_get_MG_conv_const leaves R^2 modulo N, and finds nothing in the bytes of
\* the remainder above those of N.
LEMMA ConvIs ==
  ASSUME NEW N \in Moduli, Value(N) # 0, NEW bits, bits = Bitwidth(N), NEW n, n = Bytes(N),
         NEW rest, rest = ConvDivision(N, bits).rest
  PROVE  /\ \A k \in DOMAIN rest : k >= n => rest[k] = 0
         /\ Resize(rest, n) \in Number(n)
         /\ Value(Resize(rest, n)) = Pow2[2 * bits] % Value(N)
<1>1. PICK g : g = RBytes(bits)
  OBVIOUS
<1>2. PICK x : x = LeftShift(One(g), 2 * bits)
  OBVIOUS
<1>3. /\ g \in Nat \ {0} /\ g \in Nat /\ bits \in Nat
      /\ x \in Number(g) /\ Value(x) = Pow2[2 * bits]
      /\ N \in Number(n) /\ n \in Nat \ {0} /\ n \in Nat /\ Value(N) \in Nat
  BY <1>1, <1>2, RSquared
<1>4. g <= g
  BY <1>3
<1>5. rest = Div(x, N, g).rest
  BY <1>1, <1>2 DEF ConvDivision
<1>6. rest \in Number(g) /\ Value(rest) = Pow2[2 * bits] % Value(N)
  BY <1>3, <1>4, <1>5, LongDivIs, RestType
<1>7. PICK d, v : d = Value(N) /\ v = Value(rest)
  OBVIOUS
<1>8. v \in Nat /\ v < d /\ d < Weight(n) /\ d \in Nat /\ Weight(n) \in Nat
  <2>1. 2 * bits \in Nat
    BY <1>3
  <2>2. Pow2[2 * bits] \in Nat
    BY <2>1, Pow2Def
  <2>3. d \in Nat \ {0}
    BY <1>3, <1>7
  <2>4. v = Pow2[2 * bits] % d
    BY <1>6, <1>7
  <2>5. v \in Nat /\ v < d
    BY <2>2, <2>3, <2>4, DivDef
  <2>6. d < Weight(n) /\ Weight(n) \in Nat
    BY <1>3, <1>7, NumberDef, Weights
  <2> QED
    BY <2>3, <2>5, <2>6
<1>9. v < Weight(n)
  BY <1>8
<1>10. DOMAIN rest = 0 .. g - 1
  BY <1>3, <1>6, NumberDef
<1>11. CASE n <= g
  <2>1. n \in 0 .. g /\ g - n \in Nat /\ n + (g - n) <= g
    BY <1>3, <1>11
  <2>2. PICK z : z = Slice(rest, n, g - n)
    OBVIOUS
  <2>3. Value(z) = 0
    BY <1>3, <1>6, <1>7, <1>9, <2>1, <2>2, ZeroAbove
  <2>4. z \in Number(g - n) /\ \A j \in 0 .. (g - n) - 1 : z[j] = rest[n + j]
    <3>1. PICK l : l = g - n
      OBVIOUS
    <3>2. l \in Nat /\ n + l <= g
      BY <2>1, <3>1
    <3>3. Slice(rest, n, l) \in Number(l) /\ \A j \in 0 .. l - 1 : Slice(rest, n, l)[j] = rest[n + j]
      BY <1>3, <1>6, <3>2, SliceNumber
    <3> QED
      BY <2>2, <3>1, <3>3
  <2>5. IsZero(z) /\ DOMAIN z = 0 .. (g - n) - 1
    BY <2>1, <2>3, <2>4, ZeroValue, NumberDef
  <2>6. ASSUME NEW k \in DOMAIN rest, k >= n
        PROVE  rest[k] = 0
    <3>1. k - n \in 0 .. (g - n) - 1 /\ n + (k - n) = k
      BY <1>3, <1>10, <2>6
    <3> QED
      BY <2>4, <2>5, <3>1 DEF IsZero
  <2>7. Resize(rest, n) \in Number(n) /\ Value(Resize(rest, n)) = Value(rest)
    BY <1>3, <1>6, <1>7, <1>9, <2>1, ResizeKeeps
  <2> QED
    BY <1>6, <2>6, <2>7
<1>12. CASE ~(n <= g)
  <2>1. g <= n
    BY <1>3, <1>12
  <2>2. Resize(rest, n) \in Number(n) /\ Value(Resize(rest, n)) = Value(rest)
    BY <1>3, <1>6, <2>1, ResizeIs
  <2>3. \A k \in DOMAIN rest : ~(k >= n)
    BY <1>3, <1>10, <2>1
  <2> QED
    BY <1>6, <2>2, <2>3
<1> QED
  BY <1>11, <1>12

\* R has an inverse modulo N.
LEMMA Invertible ==
  ASSUME NEW c, IsPrimed(c)
  PROVE  \E s \in Int : Cong(s * Pow2[c.rBits], 1, Value(c.N))
<1>1. PICK r, d, p : r = Pow2[c.rBits] /\ d = Value(c.N) /\ p = Value(c.prime)
  OBVIOUS
<1>2. r \in Nat /\ d \in Nat
  <2>1. r \in Nat \ {0} /\ d \in Nat \ {0}
    BY <1>1, PrimedSizes
  <2> QED
    BY <2>1
<1>3. p \in Nat
  <2>1. Bytes(c.N) \in Nat /\ c.prime \in Number(Bytes(c.N))
    BY ContextSizes DEF IsPrimed, IsContext
  <2> QED
    BY <1>1, <2>1, NumberDef
<1>4. Cong(d * p + 1, 0, r)
  BY <1>1 DEF IsPrimed, Inverts
<1>5. PICK s \in Int : d * p + 1 = 0 + s * r
  BY <1>4 DEF Cong
<1>6. s * r = 1 + p * d
  BY <1>2, <1>3, <1>5
<1>7. Cong(s * r, 1, d)
  BY <1>3, <1>6 DEF Cong
<1> QED
  BY <1>1, <1>5, <1>7

\* A product of congruent numbers, one after the other.
LEMMA CongTimes ==
  ASSUME NEW d \in Nat, NEW u \in Int, NEW v \in Int, NEW w \in Int, Cong(u, v, d)
  PROVE  Cong(u * w, v * w, d)
<1>1. Cong(w, w, d)
  BY CongEquivalence
<1> QED
  BY <1>1, CongProduct

\* If z stands for the product of what stands for pj and for pk, it stands for
\* their product pl: the factors r that come with them cancel but for one.
LEMMA Representatives ==
  ASSUME NEW d \in Nat, NEW r \in Nat, NEW s \in Int, Cong(s * r, 1, d),
         NEW pj \in Int, NEW pk \in Int, NEW pl \in Int, Cong(pj * pk, pl, d),
         NEW u \in Int, NEW v \in Int, Cong(u, pj * r, d), Cong(v, pk * r, d),
         NEW z \in Int, Cong(z * r, u * v, d)
  PROVE  Cong(z, pl * r, d)
<1>1. PICK jr, kr, lr : jr = pj * r /\ kr = pk * r /\ lr = pl * r
  OBVIOUS
<1>2. PICK uv, p, q, zr, jk : uv = u * v /\ p = jr * kr /\ q = lr * r /\ zr = z * r /\ jk = pj * pk
  OBVIOUS
<1>3. jr \in Int /\ kr \in Int /\ lr \in Int
  BY <1>1
<1>4. uv \in Int /\ p \in Int /\ q \in Int /\ zr \in Int /\ jk \in Int /\ r \in Int
  BY <1>2, <1>3
<1>5. Cong(uv, p, d)
  BY <1>1, <1>2, <1>3, CongProduct
<1>6. Cong(p, q, d)
  <2>1. PICK r2 : r2 = r * r
    OBVIOUS
  <2>2. r2 \in Int
    BY <2>1
  <2>3. Cong(jk * r2, pl * r2, d)
    BY <1>2, <1>4, <2>2, CongTimes
  <2>4. p = jk * r2 /\ q = pl * r2
    BY <1>1, <1>2, <2>1
  <2> QED
    BY <2>3, <2>4
<1>7. Cong(zr, q, d)
  <2>1. Cong(zr, uv, d)
    BY <1>2
  <2>2. Cong(zr, p, d)
    BY <1>4, <1>5, <2>1, CongEquivalence
  <2> QED
    BY <1>4, <1>6, <2>2, CongEquivalence
<1>8. Cong(z * r, lr * r, d)
  BY <1>2, <1>7
<1> QED
  BY <1>1, <1>3, <1>4, <1>8, CongCancel

----------------------------------------------------------------------------
(* The exponentiation.                                                     *)

Modulus == Value(ctx.N)
R == Pow2[ctx.rBits]
Power(k) == PowMod(Value(msg), k, Modulus)

\* x is less than R and stands for msg^k.
StandsFor(x, k) == Value(x) < R /\ Cong(Value(x), Power(k) * R, Modulus)

\* The numbers of a context and of a message.
LEMMA PowerSizes ==
  ASSUME IsPrimed(ctx), Value(msg) \in Nat
  PROVE  /\ R \in Nat \ {0} /\ R \in Nat /\ Modulus \in Nat \ {0} /\ Modulus \in Nat /\ Modulus < R
         /\ \A k \in Nat : Power(k) \in Nat /\ Power(k) \in Int /\ Power(k) < Modulus
<1>1. R \in Nat \ {0} /\ Modulus \in Nat \ {0} /\ Modulus < R
  BY PrimedSizes DEF R, Modulus
<1>2. \A k \in Nat : Power(k) \in Nat /\ Power(k) < Modulus
  BY <1>1, PowModIs DEF Power
<1> QED
  BY <1>1, <1>2

\* The result of MG_mul.
MgResult(x, y) == MgMul(ctx, x, y).res

\* The product of what stands for two powers stands for that of the sum of the
\* exponents.
LEMMA PowersMultiply ==
  ASSUME IsPrimed(ctx), Value(msg) \in Nat, NEW g \in Nat, NEW x \in Number(g), NEW h \in Nat, NEW y \in Number(h),
         NEW j \in Nat, NEW k \in Nat, StandsFor(x, j), StandsFor(y, k)
  PROVE  MgIsRight(ctx, x, y) /\ StandsFor(MgResult(x, y), j + k)
<1>1. PICK r, d, u, v, z : /\ r = R /\ d = Modulus /\ u = Value(x) /\ v = Value(y)
                           /\ z = Value(MgResult(x, y))
  OBVIOUS
<1>2. PICK pj, pk, pl : pj = Power(j) /\ pk = Power(k) /\ pl = Power(j + k)
  OBVIOUS
<1>3. d \in Nat /\ r \in Nat /\ pj \in Int /\ pk \in Int /\ pl \in Int /\ u \in Int /\ v \in Int
  <2>1. j + k \in Nat
    OBVIOUS
  <2>2. d \in Nat /\ r \in Nat /\ pj \in Int /\ pk \in Int /\ pl \in Int
    BY <1>1, <1>2, <2>1, PowerSizes
  <2>3. u \in Nat /\ v \in Nat
    BY <1>1, NumberDef
  <2> QED
    BY <2>2, <2>3
<1>4. MgIsRight(ctx, x, y)
  BY MgMulIs DEF StandsFor, R
<1>5. IsReduced(z, r, d, u * v)
  BY <1>1, <1>4 DEF MgIsRight, MgResult, R, Modulus
<1>6. z \in Int /\ z < r /\ Cong(z * r, u * v, d)
  BY <1>5 DEF IsReduced
<1>7. PICK s \in Int : Cong(s * r, 1, d)
  BY <1>1, Invertible DEF R, Modulus
<1>8. Cong(pj * pk, pl, d)
  <2>1. Modulus \in Nat \ {0}
    BY PowerSizes
  <2> QED
    BY <1>1, <1>2, <2>1, PowModSum DEF Power
<1>9. Cong(u, pj * r, d) /\ Cong(v, pk * r, d)
  BY <1>1, <1>2 DEF StandsFor
<1>10. Cong(z, pl * r, d)
  BY <1>3, <1>6, <1>7, <1>8, <1>9, Representatives
<1> QED
  BY <1>1, <1>2, <1>4, <1>6, <1>10 DEF StandsFor

\* The constant that RSA_get_MG_conv_const makes.
IsConverter(c) ==
  Value(c.conv) < Pow2[c.rBits] /\ Cong(Value(c.conv), Pow2[c.rBits] * Pow2[c.rBits], Value(c.N))

\* Multiplying by it makes a message stand for its first power.
LEMMA MessageStands ==
  ASSUME IsPrimed(ctx), IsConverter(ctx), NEW g \in Nat, msg \in Number(g), Value(msg) < R
  PROVE  MgIsRight(ctx, msg, ctx.conv) /\ StandsFor(MgResult(msg, ctx.conv), 1)
<1>1. PICK r, d, u, v, z : /\ r = R /\ d = Modulus /\ u = Value(msg) /\ v = Value(ctx.conv)
                           /\ z = Value(MgResult(msg, ctx.conv))
  OBVIOUS
<1>2. Bytes(ctx.N) \in Nat /\ ctx.conv \in Number(Bytes(ctx.N))
  BY ContextSizes DEF IsPrimed, IsContext
<1>3. u \in Nat /\ u \in Int /\ v \in Int
  <2>1. u \in Nat /\ v \in Nat
    BY <1>1, <1>2, NumberDef
  <2> QED
    BY <2>1
<1>4. d \in Nat \ {0} /\ d \in Nat /\ r \in Nat /\ r \in Int /\ \A k \in Nat : Power(k) \in Nat
  <2>1. Value(msg) \in Nat
    BY <1>1, <1>3
  <2>2. R \in Nat /\ Modulus \in Nat \ {0} /\ Modulus \in Nat /\ \A k \in Nat : Power(k) \in Nat
    BY <2>1, PowerSizes
  <2> QED
    BY <1>1, <2>2
<1>5. MgIsRight(ctx, msg, ctx.conv)
  BY <1>2, MgMulIs DEF R, IsConverter
<1>6. IsReduced(z, r, d, u * v)
  BY <1>1, <1>5 DEF MgIsRight, MgResult, R, Modulus
<1>7. z \in Int /\ z < r /\ Cong(z * r, u * v, d)
  BY <1>6 DEF IsReduced
<1>8. PICK s \in Int : Cong(s * r, 1, d)
  BY <1>1, Invertible DEF R, Modulus
<1>9. Cong(v, r * r, d)
  BY <1>1 DEF IsConverter, R, Modulus
<1>10. PICK p : p = Power(1)
  OBVIOUS
<1>11. p \in Int /\ Cong(u, p, d)
  <2>1. PICK h : h = Power(0)
    OBVIOUS
  <2>2. h = 1 % d /\ p = (h * u) % d /\ h \in Nat /\ p \in Int
    <3>1. 0 \in Nat /\ 1 \in Nat /\ 0 + 1 = 1
      OBVIOUS
    <3>2. Power(0) = 1 % d /\ Power(0 + 1) = (Power(0) * u) % d
      BY <1>1, <1>3, <1>4, <3>1, PowModIs DEF Power
    <3>3. h \in Nat /\ p \in Nat
      BY <1>4, <1>10, <2>1, <3>1
    <3> QED
      BY <1>10, <2>1, <3>1, <3>2, <3>3
  <2>3. 1 \in Int /\ h \in Int
    BY <2>2
  <2>4. Cong(1, h, d)
    BY <1>4, <2>2, <2>3, CongMod
  <2>5. Cong(1 * u, h * u, d)
    BY <1>3, <1>4, <2>3, <2>4, CongTimes
  <2>6. 1 * u = u /\ h * u \in Int
    BY <1>3, <2>3
  <2>7. Cong(h * u, p, d)
    BY <1>4, <2>2, <2>6, CongMod
  <2> QED
    BY <1>3, <1>4, <2>2, <2>5, <2>6, <2>7, CongEquivalence
<1>12. Cong(z, p * r, d)
  <2>1. PICK zr, uv, q, pr, rr : zr = z * r /\ uv = u * v /\ q = pr * r /\ pr = p * r /\ rr = r * r
    OBVIOUS
  <2>2. zr \in Int /\ uv \in Int /\ pr \in Int /\ rr \in Int
    BY <1>3, <1>4, <1>7, <1>11, <2>1
  <2>3. q \in Int
    BY <1>4, <2>1, <2>2
  <2>4. Cong(uv, p * rr, d)
    BY <1>3, <1>4, <1>9, <1>11, <2>1, <2>2, CongProduct
  <2>5. p * rr = q
    BY <1>4, <1>11, <2>1
  <2>6. Cong(zr, q, d)
    <3>1. Cong(zr, uv, d) /\ Cong(uv, q, d)
      BY <1>7, <2>1, <2>4, <2>5
    <3> QED
      BY <1>4, <2>2, <2>3, <3>1, CongEquivalence
  <2> QED
    BY <1>4, <1>7, <1>8, <2>1, <2>2, <2>6, CongCancel
<1> QED
  BY <1>1, <1>5, <1>7, <1>10, <1>12 DEF StandsFor

\* Multiplying by 1 leaves the power itself.
LEMMA PowerIsLeft ==
  ASSUME IsPrimed(ctx), Value(msg) \in Nat, NEW g \in Nat, NEW x \in Number(g), NEW k \in Nat, StandsFor(x, k)
  PROVE  MgIsRight(ctx, x, One(1)) /\ Value(MgResult(x, One(1))) = Power(k)
<1>1. PICK r, d, u, z, p : /\ r = R /\ d = Modulus /\ u = Value(x) /\ p = Power(k)
                           /\ z = Value(MgResult(x, One(1)))
  OBVIOUS
<1>2. /\ d \in Nat \ {0} /\ d \in Nat /\ r \in Nat /\ r \in Int /\ r > 1
      /\ p \in Nat /\ p \in Int /\ p < d /\ u \in Nat /\ u \in Int /\ u < r
  <2>1. R \in Nat \ {0} /\ Modulus \in Nat \ {0} /\ Modulus < R /\ Power(k) \in Nat /\ Power(k) < Modulus
    BY PowerSizes
  <2>2. u \in Nat /\ u < r
    BY <1>1, NumberDef DEF StandsFor
  <2> QED
    BY <1>1, <2>1, <2>2
<1>3. 1 \in Nat \ {0} /\ 1 \in Nat
  OBVIOUS
<1>4. One(1) \in Number(1) /\ Value(One(1)) = 1
  BY <1>3, OneIs
<1>5. MgIsRight(ctx, x, One(1))
  <2>1. Value(One(1)) < Pow2[ctx.rBits] /\ Value(x) < Pow2[ctx.rBits]
    BY <1>1, <1>2, <1>4 DEF R
  <2> QED
    BY <1>3, <1>4, <2>1, MgMulIs
<1>6. u * 1 = u
  BY <1>2
<1>7. IsReduced(z, r, d, u)
  BY <1>1, <1>4, <1>5, <1>6 DEF MgIsRight, MgResult, R, Modulus
<1>8. z \in Nat /\ z \in Int /\ Cong(z * r, u, d) /\ z < d
  BY <1>2, <1>7 DEF IsReduced
<1>9. PICK s \in Int : Cong(s * r, 1, d)
  BY <1>1, Invertible DEF R, Modulus
<1>10. Cong(z, p, d)
  <2>1. PICK zr, pr : zr = z * r /\ pr = p * r
    OBVIOUS
  <2>2. zr \in Int /\ pr \in Int
    BY <1>2, <1>8, <2>1
  <2>3. Cong(u, pr, d)
    BY <1>1, <2>1 DEF StandsFor
  <2>4. Cong(zr, pr, d)
    BY <1>2, <1>8, <2>1, <2>2, <2>3, CongEquivalence
  <2> QED
    BY <1>2, <1>8, <1>9, <2>1, <2>4, CongCancel
<1>11. z = p
  BY <1>2, <1>8, <1>10, CongSmall
<1> QED
  BY <1>1, <1>5, <1>11

\* The places before the context is ready, and those of a call of RSA_exp_mod.
Setup == {"start", "prime", "primed", "conv", "division"}
InCall == MulPoints \cup {"debug", "debugging", "finish"}

\* No assertion has failed; the context has what MG_mul needs, and once it is ready
\* what RSA_exp_mod needs.
PrimedInv ==
  /\ stopped = "no"
  /\ pc \notin {"start", "prime"} => IsPrimed(ctx)
  /\ pc \in Setup => calls = 0
  /\ pc \notin Setup => IsConverter(ctx)

\* In a call the message is less than R, the exponent odd, and the pointers are those
\* of three arrays.
CallInv ==
  pc \in InCall =>
    /\ Value(msg) < R
    /\ e \in Exponents /\ e % 2 = 1
    /\ ptr["buff"] # ptr["buff1"] /\ ptr["buff"] # ptr["buff2"] /\ ptr["buff1"] # ptr["buff2"]

\* What the arrays stand for, from the first product to the result.
LadderInv ==
  /\ pc \in {"debug", "debugging"} => StandsFor(At("buff"), 1)
  /\ pc \in {"square", "multiply"} =>
       /\ i \in 1 .. EBits
       /\ StandsFor(At("buff2"), e % Pow2[i])
       /\ StandsFor(At("buff"), IF pc = "square" THEN Pow2[i - 1] ELSE Pow2[i])
       /\ pc = "multiply" => Bit(e, i) = 1
  /\ pc = "fromMont" => StandsFor(At("buff2"), e)
  /\ pc = "finish" => Value(At("buff2")) = Power(e)
  /\ pc = "ready" /\ calls > 0 => Value(mem["res"]) = Power(e)

\* An odd exponent is between the powers of two of its highest bit and of the next.
LEMMA EBitsIs ==
  ASSUME e \in Exponents, e % 2 = 1
  PROVE  EBits \in 0 .. 63 /\ EBits \in Nat /\ e \in Nat /\ Pow2[EBits] <= e /\ e < Pow2[EBits + 1]
<1>1. PICK x : x = e
  OBVIOUS
<1>2. x \in Nat /\ x % 2 = 1 /\ \E k \in 0 .. 63 : x < Pow2[k + 1]
  BY <1>1, InputsAssumption
<1>3. x \in Nat \ {0}
  BY <1>2
<1>4. PICK j \in Nat : Pow2[j] <= x /\ x < Pow2[j + 1]
  BY <1>3, HighestBit
<1>5. PICK k \in 0 .. 63 : x < Pow2[k + 1]
  BY <1>2
<1>6. j \in 0 .. 63
  <2>1. ASSUME j > k
        PROVE  FALSE
    <3>1. k + 1 \in Nat /\ k + 1 <= j
      BY <2>1
    <3>2. Pow2[k + 1] \in Nat /\ Pow2[j] \in Nat /\ Pow2[k + 1] <= Pow2[j]
      BY <3>1, PowerMonotone
    <3> QED
      BY <1>2, <1>4, <1>5, <3>2
  <2> QED
    BY <1>4, <2>1
<1>7. \E l \in 0 .. 63 : Pow2[l] <= e /\ e < Pow2[l + 1]
  BY <1>1, <1>4, <1>6
<1>8. EBits \in 0 .. 63 /\ Pow2[EBits] <= e /\ e < Pow2[EBits + 1]
  BY <1>7 DEF EBits
<1> QED
  BY <1>1, <1>2, <1>8

\* One more bit of an exponent.
LEMMA BitAdds ==
  ASSUME NEW x \in Nat, NEW k \in Nat
  PROVE  /\ x % Pow2[k] \in Nat /\ Bit(x, k) \in 0 .. 1
         /\ x % Pow2[k + 1] = (x % Pow2[k]) + Bit(x, k) * Pow2[k]
<1>1. PICK w : w = Pow2[k]
  OBVIOUS
<1>2. w \in Nat \ {0} /\ Pow2[k + 1] = 2 * w /\ 2 \in Nat \ {0}
  BY <1>1, Pow2Def
<1>3. x % (2 * w) = (x % w) + ((x \div w) % 2) * w
  BY <1>2, ModStep
<1>4. x % w \in Nat /\ x \div w \in Nat
  BY <1>2, DivDef
<1>5. (x \div w) % 2 \in 0 .. 1
  BY <1>4
<1> QED
  BY <1>1, <1>2, <1>3, <1>4, <1>5 DEF Bit

\* What a call of MG_mul makes at its place.
MulMakes(z) ==
  /\ pc = "toMont" => StandsFor(z, 1)
  /\ pc = "square" => StandsFor(z, Pow2[i])
  /\ pc = "multiply" => StandsFor(z, e % Pow2[i + 1])
  /\ pc = "fromMont" => Value(z) = Power(e)

\* Its arguments are less than R, and what they stand for is multiplied.
LEMMA MulIsRight ==
  ASSUME DataInv, PrimedInv, CallInv, LadderInv, pc \in MulPoints, NEW r, r = MgMul(ctx, Operands[1], Operands[2])
  PROVE  r.ok /\ MulMakes(r.res)
<1>1. /\ IsPrimed(ctx) /\ IsConverter(ctx) /\ Value(msg) < R
      /\ e \in Exponents /\ e % 2 = 1
  BY DEF PrimedInv, CallInv, Setup, InCall, MulPoints
<1>2. PICK g \in Nat : msg \in Number(g)
  BY DEF DataInv
<1>3. Value(msg) \in Nat
  BY <1>2, NumberDef
<1>4. PICK n : n = NBytes
  OBVIOUS
<1>5. n \in Nat /\ At("buff") \in Number(n) /\ At("buff2") \in Number(n)
  <2>1. n \in Nat
    BY <1>1, <1>4, ContextSizes DEF NBytes, IsPrimed
  <2>2. At("buff") \in Number(n) /\ At("buff2") \in Number(n)
    BY <1>4 DEF At, DataInv, Pointers
  <2> QED
    BY <2>1, <2>2
<1>6. EBits \in Nat /\ e \in Nat
  BY <1>1, EBitsIs
<1>7. PICK x, y : x = At("buff") /\ y = At("buff2")
  OBVIOUS
<1>8. CASE pc = "toMont"
  <2>1. Operands[1] = msg /\ Operands[2] = ctx.conv
    BY <1>8 DEF Operands
  <2>2. MgIsRight(ctx, msg, ctx.conv) /\ StandsFor(MgResult(msg, ctx.conv), 1)
    BY <1>1, <1>2, MessageStands
  <2> QED
    BY <1>8, <2>1, <2>2 DEF MgIsRight, MgResult, MulMakes
<1>9. CASE pc = "square"
  <2>1. Operands[1] = x /\ Operands[2] = x
    BY <1>7, <1>9 DEF Operands
  <2>2. i \in 1 .. EBits /\ StandsFor(x, Pow2[i - 1])
    BY <1>7, <1>9 DEF LadderInv
  <2>3. i - 1 \in Nat /\ i - 1 + 1 = i
    BY <1>6, <2>2
  <2>4. Pow2[i - 1] \in Nat /\ Pow2[i - 1] + Pow2[i - 1] = Pow2[i]
    <3>1. Pow2[i - 1] \in Nat /\ Pow2[i - 1 + 1] = 2 * Pow2[i - 1]
      BY <2>3, Pow2Def
    <3> QED
      BY <2>3, <3>1
  <2>5. PICK j : j = Pow2[i - 1]
    OBVIOUS
  <2>6. MgIsRight(ctx, x, x) /\ StandsFor(MgResult(x, x), j + j)
    BY <1>1, <1>3, <1>5, <1>7, <2>2, <2>4, <2>5, PowersMultiply
  <2> QED
    BY <1>9, <2>1, <2>4, <2>5, <2>6 DEF MgIsRight, MgResult, MulMakes
<1>10. CASE pc = "multiply"
  <2>1. Operands[1] = x /\ Operands[2] = y
    BY <1>7, <1>10 DEF Operands
  <2>2. i \in 1 .. EBits /\ StandsFor(x, Pow2[i]) /\ StandsFor(y, e % Pow2[i]) /\ Bit(e, i) = 1
    BY <1>7, <1>10 DEF LadderInv
  <2>3. i \in Nat
    BY <1>6, <2>2
  <2>4. PICK j, k : j = Pow2[i] /\ k = e % Pow2[i]
    OBVIOUS
  <2>5. j \in Nat /\ k \in Nat /\ e % Pow2[i + 1] = j + k
    <3>1. /\ e % Pow2[i] \in Nat
          /\ e % Pow2[i + 1] = (e % Pow2[i]) + Bit(e, i) * Pow2[i]
      BY <1>6, <2>3, BitAdds
    <3>2. Pow2[i] \in Nat
      BY <2>3, Pow2Def
    <3> QED
      BY <2>2, <2>4, <3>1, <3>2
  <2>6. MgIsRight(ctx, x, y) /\ StandsFor(MgResult(x, y), j + k)
    BY <1>1, <1>3, <1>5, <1>7, <2>2, <2>4, <2>5, PowersMultiply
  <2> QED
    BY <1>10, <2>1, <2>5, <2>6 DEF MgIsRight, MgResult, MulMakes
<1>11. CASE pc = "fromMont"
  <2>1. Operands[1] = y /\ Operands[2] = One(1)
    BY <1>7, <1>11 DEF Operands
  <2>2. StandsFor(y, e)
    BY <1>7, <1>11 DEF LadderInv
  <2>3. MgIsRight(ctx, y, One(1)) /\ Value(MgResult(y, One(1))) = Power(e)
    BY <1>1, <1>3, <1>5, <1>6, <1>7, <2>2, PowerIsLeft
  <2> QED
    BY <1>11, <2>1, <2>3 DEF MgIsRight, MgResult, MulMakes
<1> QED
  BY <1>8, <1>9, <1>10, <1>11 DEF MulPoints

\* The three parts together.
PowerInv == PrimedInv /\ CallInv /\ LadderInv

\* No assertion fails in a step, and the context stays what it has been made.
LEMMA PrimedStep ==
  ASSUME UsualKeys, PoolInv, PoolInv', DataInv, DataInv', PowerInv, [Next]_vars
  PROVE  PrimedInv'
<1>1. /\ stopped = "no" /\ IsContext(ctx) /\ IsContext(ctx')
      /\ pc \notin {"start", "prime"} => IsPrimed(ctx)
      /\ pc \in Setup => calls = 0
      /\ pc \notin Setup => IsConverter(ctx)
      /\ ctx = [N |-> ctx.N, rBits |-> ctx.rBits, prime |-> ctx.prime, conv |-> ctx.conv]
  BY DEF PowerInv, PrimedInv, DataInv, PoolInv, ContextInv, Key
<1>2. stopped' # "pool"
  BY DEF PoolInv
<1>3. PICK N, bits, r : N = ctx.N /\ bits = ctx.rBits /\ r = Pow2[bits]
  OBVIOUS
<1>4. /\ N \in Moduli /\ bits = Bitwidth(N) /\ Value(N) % 2 = 1 /\ bits % ByteBits = 0
  BY <1>1, <1>3 DEF UsualKeys, IsContext
\* Where the context is not touched.
<1>5. ASSUME ctx' = ctx, stopped' = "no", calls' = calls, pc \notin {"start", "prime"}, pc' \notin {"start", "prime"},
             pc \in Setup <=> pc' \in Setup
      PROVE  PrimedInv'
  BY <1>1, <1>5 DEF PrimedInv
<1>6. CASE PrimeBegins
  <2>1. pc' = "prime" /\ stopped' = "no" /\ calls' = calls /\ pc = "start"
    BY <1>1, <1>2, <1>6 DEF PrimeBegins, Take
  <2> QED
    BY <1>1, <2>1 DEF PrimedInv, Setup
<1>7. CASE PrimeReturns
  <2>1. PICK p : p = PrimeN(N, bits)
    OBVIOUS
  <2>2. ctx' = [ctx EXCEPT !.prime = p] /\ pc' = "primed" /\ pc = "prime" /\ stopped' = stopped /\ calls' = calls
    BY <1>3, <1>7, <2>1 DEF PrimeReturns
  <2>3. ctx' = [N |-> N, rBits |-> bits, prime |-> p, conv |-> ctx.conv]
    BY <1>1, <1>3, <2>2
  <2>4. Value(p) < Pow2[bits] /\ Inverts(N, p, bits)
    BY <1>4, <2>1, PrimeIs
  <2>5. IsPrimed(ctx')
    BY <1>1, <1>4, <2>3, <2>4 DEF IsPrimed
  <2> QED
    BY <1>1, <2>2, <2>5 DEF PrimedInv, Setup
<1>8. CASE ConvBegins \/ DivisionBegins
  <2>1. ctx' = ctx /\ stopped' = "no" /\ calls' = calls /\ pc \in {"primed", "conv"} /\ pc' \in {"conv", "division"}
    BY <1>1, <1>2, <1>8 DEF ConvBegins, DivisionBegins, Take
  <2> QED
    BY <1>5, <2>1 DEF Setup
<1>9. CASE ConvReturns
  <2>1. PICK n, rest : n = Bytes(N) /\ rest = ConvDivision(N, bits).rest
    OBVIOUS
  <2>2. Value(N) # 0
    BY <1>4
  <2>3. /\ \A k \in DOMAIN rest : k >= n => rest[k] = 0
        /\ Resize(rest, n) \in Number(n)
        /\ Value(Resize(rest, n)) = Pow2[2 * bits] % Value(N)
    BY <1>4, <2>1, <2>2, ConvIs
  <2>4. PICK c : c = Resize(rest, n)
    OBVIOUS
  <2>5. pc = "division" /\ pc' = "ready" /\ stopped' = "no" /\ ctx' = [ctx EXCEPT !.conv = c]
    BY <1>1, <1>3, <1>9, <2>1, <2>3, <2>4 DEF ConvReturns, NBytes
  <2>6. ctx' = [N |-> N, rBits |-> bits, prime |-> ctx.prime, conv |-> c]
    BY <1>1, <1>3, <2>5
  <2>7. IsPrimed(ctx)
    BY <1>1, <2>5
  <2>8. IsPrimed(ctx')
    BY <1>1, <1>3, <2>6, <2>7 DEF IsPrimed
  <2>9. PICK d, rr : d = Value(N) /\ rr = r * r
    OBVIOUS
  <2>10. d \in Nat \ {0} /\ d < r /\ r \in Nat /\ bits \in Nat
    <3>1. r \in Nat \ {0} /\ d \in Nat \ {0} /\ d < r /\ bits \in Nat \ {0}
      BY <1>3, <2>7, <2>9, PrimedSizes
    <3> QED
      BY <3>1
  <2>11. Pow2[2 * bits] = rr /\ rr \in Int
    <3>1. 2 * bits = bits + bits
      BY <2>10
    <3>2. Pow2[bits + bits] = r * r
      BY <1>3, <2>10, PowerSum
    <3> QED
      BY <2>9, <2>10, <3>1, <3>2
  <2>12. PICK v : v = Value(c)
    OBVIOUS
  <2>13. v = rr % d
    BY <2>3, <2>4, <2>9, <2>11, <2>12
  <2>14. v \in Nat /\ v < d /\ Cong(rr, v, d)
    BY <2>10, <2>11, <2>13, CongMod
  <2>15. Cong(v, rr, d) /\ v < r
    <3>1. v \in Int /\ d \in Nat
      BY <2>10, <2>14
    <3>2. Cong(v, rr, d)
      BY <2>11, <2>14, <3>1, CongEquivalence
    <3> QED
      BY <2>10, <2>14, <3>2
  <2>16. IsConverter(ctx')
    BY <1>3, <2>6, <2>9, <2>12, <2>15 DEF IsConverter
  <2> QED
    BY <2>5, <2>8, <2>16 DEF PrimedInv, Setup
<1>10. ASSUME NEW m \in Messages, NEW x \in Exponents, ExpMod(m, x)
       PROVE  PrimedInv'
  <2>1. ctx' = ctx /\ stopped' = "no" /\ pc = "ready" /\ pc' = "toMont"
    BY <1>1, <1>2, <1>10 DEF ExpMod, Take
  <2>2. IsPrimed(ctx) /\ IsConverter(ctx)
    BY <1>1, <2>1 DEF Setup
  <2> QED
    BY <2>1, <2>2 DEF PrimedInv, Setup
<1>11. CASE MulBegins
  <2>1. ctx' = ctx /\ stopped' = "no" /\ pc \in MulPoints /\ pc' = pc /\ calls' = calls
    BY <1>1, <1>2, <1>11 DEF MulBegins, Take
  <2> QED
    BY <1>5, <2>1 DEF Setup, MulPoints
<1>12. CASE MulReturns
  <2>1. PICK s : s = MgMul(ctx, Operands[1], Operands[2])
    OBVIOUS
  <2>2. pc \in MulPoints
    BY <1>12 DEF MulReturns, PoolInv
  <2>3. s.ok
    BY <2>1, <2>2, MulIsRight DEF PowerInv
  <2>4. ctx' = ctx /\ stopped' = "no" /\ calls' = calls /\ pc' \in {"debug", "multiply", "square", "fromMont", "finish"}
    BY <1>1, <1>12, <2>1, <2>3 DEF MulReturns, NextBit
  <2> QED
    BY <1>5, <2>2, <2>4 DEF Setup, MulPoints
<1>13. CASE DebugBegins
  <2>1. ctx' = ctx /\ stopped' = "no" /\ calls' = calls /\ pc = "debug" /\ pc' = "debugging"
    BY <1>1, <1>2, <1>13 DEF DebugBegins
  <2> QED
    BY <1>5, <2>1 DEF Setup
<1>14. CASE DebugReturns
  <2>1. ctx' = ctx /\ stopped' = "no" /\ calls' = calls /\ pc = "debugging" /\ pc' \in {"square", "fromMont"}
    BY <1>1, <1>14 DEF DebugReturns, NextBit
  <2> QED
    BY <1>5, <2>1 DEF Setup
<1>15. CASE ExpModReturns
  <2>1. ctx' = ctx /\ stopped' = "no" /\ calls' = calls /\ pc = "finish" /\ pc' = "ready"
    BY <1>1, <1>15 DEF ExpModReturns
  <2> QED
    BY <1>5, <2>1 DEF Setup
<1>16. CASE UNCHANGED vars
  BY <1>1, <1>16 DEF vars, PrimedInv
<1> QED
  BY <1>6, <1>7, <1>8, <1>9, <1>10, <1>11, <1>12, <1>13, <1>14, <1>15, <1>16 DEF Next

\* The arguments of the call stay, and the swaps keep the pointers apart.
LEMMA CallStep ==
  ASSUME UsualKeys, PoolInv, DataInv, DataInv', PowerInv, PrimedInv', [Next]_vars
  PROVE  CallInv'
<1>1. /\ stopped = "no" /\ stopped' = "no" /\ IsContext(ctx)
      /\ ptr \in [Pointers -> Slots]
  BY DEF PowerInv, PrimedInv, DataInv
<1>2. ASSUME pc' \notin InCall
      PROVE  CallInv'
  BY <1>2 DEF CallInv, InCall, MulPoints
\* Where only the pointers change.
<1>3. ASSUME pc \in InCall, ctx' = ctx, msg' = msg, e' = e,
             \/ ptr' = ptr
             \/ Swap("buff", "buff1")
             \/ Swap("buff1", "buff2")
      PROVE  CallInv'
  <2>1. /\ Value(msg) < R /\ e \in Exponents /\ e % 2 = 1
        /\ ptr["buff"] # ptr["buff1"] /\ ptr["buff"] # ptr["buff2"] /\ ptr["buff1"] # ptr["buff2"]
    BY <1>3 DEF PowerInv, CallInv
  <2>2. ptr'["buff"] # ptr'["buff1"] /\ ptr'["buff"] # ptr'["buff2"] /\ ptr'["buff1"] # ptr'["buff2"]
    <3>1. CASE ptr' = ptr
      BY <2>1, <3>1
    <3>2. CASE Swap("buff", "buff1")
      BY <1>1, <2>1, <3>2 DEF Swap, Pointers
    <3>3. CASE Swap("buff1", "buff2")
      BY <1>1, <2>1, <3>3 DEF Swap, Pointers
    <3> QED
      BY <1>3, <3>1, <3>2, <3>3
  <2>3. (Value(msg) < R)'
    BY <1>3, <2>1 DEF R
  <2> QED
    BY <1>3, <2>1, <2>2, <2>3 DEF CallInv
<1>4. CASE PrimeBegins \/ PrimeReturns \/ ConvBegins \/ DivisionBegins \/ ConvReturns \/ ExpModReturns
  <2>1. pc' \in {"prime", "primed", "conv", "division", "ready"}
    BY <1>1, <1>4 DEF PrimeBegins, PrimeReturns, ConvBegins, DivisionBegins, ConvReturns, ExpModReturns, Take
  <2> QED
    BY <1>2, <2>1 DEF InCall, MulPoints
<1>5. ASSUME NEW m \in Messages, NEW x \in Exponents, ExpMod(m, x)
      PROVE  CallInv'
  <2>1. /\ ctx' = ctx /\ msg' = ToBytes(m, NBytes) /\ e' = x /\ x % 2 = 1 /\ m < Weight(NBytes)
        /\ ptr' = [buff |-> "pool1", buff1 |-> "pool2", buff2 |-> "res"]
    BY <1>5 DEF ExpMod
  <2>2. NBytes \in Nat /\ m \in Nat
    BY <1>1, ContextSizes, InputsAssumption DEF NBytes
  <2>3. Value(ToBytes(m, NBytes)) = m
    BY <2>1, <2>2, ToBytesIs
  <2>4. m < Pow2[ctx.rBits]
    BY <1>1, <2>1 DEF UsualKeys, IsContext, NBytes
  <2>5. (Value(msg) < R)'
    BY <2>1, <2>3, <2>4 DEF R
  <2> QED
    BY <2>1, <2>5 DEF CallInv
<1>6. CASE MulBegins \/ DebugBegins \/ DebugReturns
  <2>1. pc \in InCall /\ ctx' = ctx /\ msg' = msg /\ e' = e /\ ptr' = ptr
    BY <1>6 DEF MulBegins, DebugBegins, DebugReturns, data, InCall, MulPoints
  <2> QED
    BY <1>3, <2>1
<1>7. CASE MulReturns
  <2>1. pc \in InCall
    BY <1>7 DEF MulReturns, PoolInv, InCall
  <2>2. ctx' = ctx /\ msg' = msg /\ e' = e
    BY <1>7 DEF MulReturns
  <2>3. ptr' = ptr \/ Swap("buff", "buff1") \/ Swap("buff1", "buff2")
    BY <1>7 DEF MulReturns, AfterSquare, AfterMultiply
  <2> QED
    BY <1>3, <2>1, <2>2, <2>3
<1>8. CASE UNCHANGED vars
  <2>1. pc' = pc /\ ctx' = ctx /\ msg' = msg /\ e' = e /\ ptr' = ptr
    BY <1>8 DEF vars, data
  <2> QED
    BY <1>2, <1>3, <2>1
<1> QED
  BY <1>4, <1>5, <1>6, <1>7, <1>8 DEF Next

\* What LadderInv says of place p with bit k in hand and u, v where buff and buff2
\* point.
LadderAt(p, k, u, v) ==
  /\ p \in {"debug", "debugging"} => StandsFor(u, 1)
  /\ p \in {"square", "multiply"} =>
       /\ k \in 1 .. EBits
       /\ StandsFor(v, e % Pow2[k])
       /\ StandsFor(u, IF p = "square" THEN Pow2[k - 1] ELSE Pow2[k])
       /\ p = "multiply" => Bit(e, k) = 1
  /\ p = "fromMont" => StandsFor(v, e)
  /\ p = "finish" => Value(v) = Power(e)

\* The arguments of the call are as they were.
SameCall == ctx' = ctx /\ msg' = msg /\ e' = e

\* It is enough to look at the arrays that the pointers are left with.
LEMMA LadderMoves ==
  ASSUME SameCall, NEW u, NEW v, mem'[ptr'["buff"]] = u, mem'[ptr'["buff2"]] = v,
         LadderAt(pc', i', u, v), pc' # "ready"
  PROVE  LadderInv'
<1>1. ctx' = ctx /\ msg' = msg /\ e' = e
  BY DEF SameCall
<1>2. EBits' = EBits
  BY <1>1 DEF EBits
<1>3. At("buff")' = u /\ At("buff2")' = v
  BY DEF At
<1>4. ASSUME NEW x, NEW k
      PROVE  /\ (StandsFor(x, k))' <=> StandsFor(x, k)
             /\ (Power(k))' = Power(k)
  BY <1>1 DEF StandsFor, R, Power, Modulus
<1>5. ASSUME pc' \in {"debug", "debugging"}
      PROVE  StandsFor(At("buff"), 1)'
  <2>1. StandsFor(u, 1)
    BY <1>5 DEF LadderAt
  <2> QED
    BY <1>1, <1>3, <2>1 DEF StandsFor, R, Power, Modulus
<1>6. ASSUME pc' \in {"square", "multiply"}
      PROVE  (/\ i \in 1 .. EBits
              /\ StandsFor(At("buff2"), e % Pow2[i])
              /\ StandsFor(At("buff"), IF pc = "square" THEN Pow2[i - 1] ELSE Pow2[i])
              /\ pc = "multiply" => Bit(e, i) = 1)'
  <2>1. /\ i' \in 1 .. EBits
        /\ StandsFor(v, e % Pow2[i'])
        /\ StandsFor(u, IF pc' = "square" THEN Pow2[i' - 1] ELSE Pow2[i'])
        /\ pc' = "multiply" => Bit(e, i') = 1
    BY <1>6 DEF LadderAt
  <2>2. StandsFor(At("buff2"), e % Pow2[i])'
    BY <1>1, <1>3, <2>1 DEF StandsFor, R, Power, Modulus
  <2>3. StandsFor(At("buff"), IF pc = "square" THEN Pow2[i - 1] ELSE Pow2[i])'
    BY <1>1, <1>3, <2>1 DEF StandsFor, R, Power, Modulus
  <2> QED
    BY <1>1, <1>2, <2>1, <2>2, <2>3
<1>7. ASSUME pc' = "fromMont"
      PROVE  StandsFor(At("buff2"), e)'
  <2>1. StandsFor(v, e)
    BY <1>7 DEF LadderAt
  <2> QED
    BY <1>1, <1>3, <2>1 DEF StandsFor, R, Power, Modulus
<1>8. ASSUME pc' = "finish"
      PROVE  (Value(At("buff2")) = Power(e))'
  <2>1. Value(v) = Power(e)
    BY <1>8 DEF LadderAt
  <2> QED
    BY <1>1, <1>3, <2>1 DEF Power, Modulus
<1> QED
  BY <1>5, <1>6, <1>7, <1>8 DEF LadderInv

\* The loop goes on, or leaves with all bits of e done.
LEMMA LoopGoesOn ==
  ASSUME e \in Exponents, e % 2 = 1, NEW k \in 1 .. EBits + 1, NextBit(k), NEW u, NEW v,
         StandsFor(v, e % Pow2[k]), StandsFor(u, Pow2[k - 1])
  PROVE  LadderAt(pc', i', u, v) /\ pc' # "ready"
<1>1. EBits \in Nat /\ e \in Nat /\ e < Pow2[EBits + 1]
  BY EBitsIs
<1>2. CASE k <= EBits
  <2>1. pc' = "square" /\ i' = k
    BY <1>2 DEF NextBit
  <2>2. k \in 1 .. EBits
    BY <1>1, <1>2
  <2> QED
    BY <2>1, <2>2 DEF LadderAt
<1>3. CASE ~(k <= EBits)
  <2>1. pc' = "fromMont"
    BY <1>3 DEF NextBit
  <2>2. k = EBits + 1 /\ k \in Nat
    BY <1>1, <1>3
  <2>3. e % Pow2[k] = e
    BY <1>1, <2>2, Pow2Def, SmallMod
  <2> QED
    BY <2>1, <2>3 DEF LadderAt
<1> QED
  BY <1>2, <1>3

\* One turn of the loop at a time: what the arrays stand for.
LEMMA LadderStep ==
  ASSUME UsualKeys, PoolInv, DataInv, PowerInv, PrimedInv', [Next]_vars
  PROVE  LadderInv'
<1>1. /\ stopped = "no" /\ stopped' = "no" /\ PrimedInv /\ CallInv /\ LadderInv
      /\ ptr \in [Pointers -> Slots]
  BY DEF PowerInv, PrimedInv, DataInv
<1>2. PICK n : n = NBytes
  OBVIOUS
<1>3. mem \in [Slots -> Number(n)]
  BY <1>2 DEF DataInv
<1>4. ASSUME pc' \notin InCall, pc' # "ready" \/ calls' = 0
      PROVE  LadderInv'
  BY <1>4 DEF LadderInv, InCall, MulPoints
<1>5. ASSUME pc \in InCall
      PROVE  /\ e \in Exponents /\ e % 2 = 1
             /\ ptr["buff"] # ptr["buff1"] /\ ptr["buff"] # ptr["buff2"] /\ ptr["buff1"] # ptr["buff2"]
             /\ EBits \in Nat /\ e \in Nat
  BY <1>1, <1>5, EBitsIs DEF CallInv
<1>6. CASE PrimeBegins \/ PrimeReturns \/ ConvBegins \/ DivisionBegins \/ ConvReturns
  <2>1. pc \in Setup /\ pc' \in Setup \cup {"ready"} /\ calls' = calls
    BY <1>1, <1>6 DEF PrimeBegins, PrimeReturns, ConvBegins, DivisionBegins, ConvReturns, Take, Setup
  <2>2. calls' = 0 /\ pc' \notin InCall
    BY <1>1, <2>1 DEF PrimedInv, Setup, InCall, MulPoints
  <2> QED
    BY <1>4, <2>2
<1>7. ASSUME NEW m \in Messages, NEW x \in Exponents, ExpMod(m, x)
      PROVE  LadderInv'
  <2>1. pc' = "toMont"
    BY <1>1, <1>7 DEF ExpMod, Take
  <2> QED
    BY <2>1 DEF LadderInv
<1>8. CASE MulBegins \/ DebugBegins
  <2>1. /\ SameCall /\ mem' = mem /\ ptr' = ptr /\ i' = i
        /\ pc' = pc \/ (pc = "debug" /\ pc' = "debugging")
        /\ pc' # "ready"
    BY <1>1, <1>8 DEF MulBegins, DebugBegins, data, Take, SameCall, MulPoints
  <2>2. LadderAt(pc', i', At("buff"), At("buff2"))
    BY <1>1, <2>1 DEF LadderInv, LadderAt
  <2>3. mem'[ptr'["buff"]] = At("buff") /\ mem'[ptr'["buff2"]] = At("buff2")
    BY <2>1 DEF At
  <2> QED
    BY <2>1, <2>2, <2>3, LadderMoves
<1>9. CASE DebugReturns
  <2>1. pc = "debugging" /\ SameCall /\ ptr' = ptr /\ NextBit(1)
        /\ mem' = [mem EXCEPT ![ptr["buff2"]] = At("buff"), ![ptr["buff1"]] = Zero(NBytes)]
    BY <1>9 DEF DebugReturns, SameCall
  <2>2. PICK u : u = At("buff")
    OBVIOUS
  <2>3. StandsFor(u, 1)
    BY <1>1, <2>1, <2>2 DEF LadderInv
  <2>4. mem'[ptr'["buff"]] = u /\ mem'[ptr'["buff2"]] = u
    BY <1>1, <1>3, <1>5, <2>1, <2>2 DEF At, Pointers, InCall
  <2>5. 1 \in 1 .. EBits + 1 /\ Pow2[1 - 1] = 1 /\ e % Pow2[1] = 1
    <3>1. EBits \in Nat /\ e % 2 = 1
      BY <1>5, <2>1 DEF InCall
    <3>2. 0 \in Nat /\ 0 + 1 = 1 /\ 1 - 1 = 0
      OBVIOUS
    <3>3. Pow2[0] = 1 /\ Pow2[0 + 1] = 2 * Pow2[0]
      BY <3>2, Pow2Def
    <3>4. Pow2[1] = 2
      BY <3>2, <3>3
    <3>5. 1 \in 1 .. EBits + 1
      BY <3>1
    <3> QED
      BY <3>1, <3>2, <3>3, <3>4, <3>5
  <2>6. e \in Exponents /\ e % 2 = 1
    BY <1>5, <2>1 DEF InCall
  <2>7. LadderAt(pc', i', u, u) /\ pc' # "ready"
    <3>1. StandsFor(u, e % Pow2[1]) /\ StandsFor(u, Pow2[1 - 1])
      BY <2>3, <2>5
    <3> QED
      BY <2>1, <2>5, <2>6, <3>1, LoopGoesOn
  <2> QED
    BY <2>1, <2>4, <2>7, LadderMoves
<1>10. CASE MulReturns
  <2>1. pc \in MulPoints /\ pc \in InCall
    BY <1>10 DEF MulReturns, PoolInv, InCall
  <2>2. PICK s : s = MgMul(ctx, Operands[1], Operands[2])
    OBVIOUS
  <2>3. s.ok /\ MulMakes(s.res)
    BY <1>1, <2>1, <2>2, MulIsRight
  <2>4. PICK z, u, v : z = s.res /\ u = At("buff") /\ v = At("buff2")
    OBVIOUS
  <2>5. /\ SameCall
        /\ \/ /\ pc = "toMont"
              /\ mem' = [mem EXCEPT ![ptr["buff"]] = z]
              /\ pc' = "debug"
              /\ ptr' = ptr
           \/ /\ pc = "square"
              /\ AfterSquare(z)
              /\ IF Bit(e, i) = 1 THEN pc' = "multiply" /\ i' = i ELSE NextBit(i + 1)
           \/ /\ pc = "multiply"
              /\ AfterMultiply(z)
              /\ NextBit(i + 1)
           \/ /\ pc = "fromMont"
              /\ mem' = [mem EXCEPT ![ptr["buff1"]] = z]
              /\ Swap("buff1", "buff2")
              /\ pc' = "finish"
    BY <1>10, <2>2, <2>3, <2>4 DEF MulReturns, SameCall
  <2>6. /\ e \in Exponents /\ e % 2 = 1 /\ EBits \in Nat /\ e \in Nat
        /\ ptr["buff"] # ptr["buff1"] /\ ptr["buff"] # ptr["buff2"] /\ ptr["buff1"] # ptr["buff2"]
    BY <1>5, <2>1
  <2>7. CASE pc = "toMont"
    <3>1. pc' = "debug" /\ mem'[ptr'["buff"]] = z
      BY <1>1, <1>3, <2>5, <2>7 DEF Pointers
    <3>2. StandsFor(z, 1)
      BY <2>3, <2>4, <2>7 DEF MulMakes
    <3>3. PICK w : w = mem'[ptr'["buff2"]]
      OBVIOUS
    <3>4. LadderAt(pc', i', z, w) /\ pc' # "ready"
      BY <3>1, <3>2 DEF LadderAt
    <3> QED
      BY <2>5, <3>1, <3>3, <3>4, LadderMoves
  <2>8. CASE pc = "square"
    <3>1. /\ AfterSquare(z)
          /\ IF Bit(e, i) = 1 THEN pc' = "multiply" /\ i' = i ELSE NextBit(i + 1)
      BY <2>5, <2>8
    <3>2. mem'[ptr'["buff"]] = z /\ mem'[ptr'["buff2"]] = v
      BY <1>1, <1>3, <2>4, <2>6, <3>1 DEF AfterSquare, Swap, At, Pointers
    <3>3. StandsFor(z, Pow2[i]) /\ i \in 1 .. EBits /\ StandsFor(v, e % Pow2[i])
      BY <1>1, <2>3, <2>4, <2>8 DEF MulMakes, LadderInv
    <3>4. CASE Bit(e, i) = 1
      <4>1. pc' = "multiply" /\ i' = i
        BY <3>1, <3>4
      <4>2. LadderAt(pc', i', z, v) /\ pc' # "ready"
        BY <3>3, <3>4, <4>1 DEF LadderAt
      <4> QED
        BY <2>5, <3>2, <4>2, LadderMoves
    <3>5. CASE Bit(e, i) # 1
      <4>1. PICK k : k = i + 1
        OBVIOUS
      <4>2. i \in Nat /\ k \in 1 .. EBits + 1 /\ k - 1 = i
        BY <2>6, <3>3, <4>1
      <4>3. NextBit(k)
        BY <3>1, <3>5, <4>1
      <4>4. e % Pow2[k] = e % Pow2[i]
        <5>1. /\ e % Pow2[i] \in Nat /\ Bit(e, i) \in 0 .. 1
              /\ e % Pow2[i + 1] = (e % Pow2[i]) + Bit(e, i) * Pow2[i]
          BY <2>6, <4>2, BitAdds
        <5>2. Bit(e, i) = 0 /\ Pow2[i] \in Nat
          BY <3>5, <4>2, <5>1, Pow2Def
        <5> QED
          BY <4>1, <5>1, <5>2
      <4>5. LadderAt(pc', i', z, v) /\ pc' # "ready"
        BY <2>6, <3>3, <4>2, <4>3, <4>4, LoopGoesOn
      <4> QED
        BY <2>5, <3>2, <4>5, LadderMoves
    <3> QED
      BY <3>4, <3>5
  <2>9. CASE pc = "multiply"
    <3>1. AfterMultiply(z) /\ NextBit(i + 1)
      BY <2>5, <2>9
    <3>2. mem'[ptr'["buff"]] = u /\ mem'[ptr'["buff2"]] = z
      BY <1>1, <1>3, <2>4, <2>6, <3>1 DEF AfterMultiply, Swap, At, Pointers
    <3>3. StandsFor(z, e % Pow2[i + 1]) /\ i \in 1 .. EBits /\ StandsFor(u, Pow2[i])
      BY <1>1, <2>3, <2>4, <2>9 DEF MulMakes, LadderInv
    <3>4. PICK k : k = i + 1
      OBVIOUS
    <3>5. k \in 1 .. EBits + 1 /\ k - 1 = i
      BY <2>6, <3>3, <3>4
    <3>6. LadderAt(pc', i', u, z) /\ pc' # "ready"
      BY <2>6, <3>1, <3>3, <3>4, <3>5, LoopGoesOn
    <3> QED
      BY <2>5, <3>2, <3>6, LadderMoves
  <2>10. CASE pc = "fromMont"
    <3>1. mem' = [mem EXCEPT ![ptr["buff1"]] = z] /\ Swap("buff1", "buff2") /\ pc' = "finish"
      BY <2>5, <2>10
    <3>2. mem'[ptr'["buff2"]] = z
      BY <1>1, <1>3, <3>1 DEF Swap, Pointers
    <3>3. Value(z) = Power(e)
      BY <2>3, <2>4, <2>10 DEF MulMakes
    <3>4. PICK w : w = mem'[ptr'["buff"]]
      OBVIOUS
    <3>5. LadderAt(pc', i', w, z) /\ pc' # "ready"
      BY <3>1, <3>3 DEF LadderAt
    <3> QED
      BY <2>5, <3>2, <3>4, <3>5, LadderMoves
  <2> QED
    BY <2>1, <2>7, <2>8, <2>9, <2>10 DEF MulPoints
<1>11. CASE ExpModReturns
  <2>1. /\ pc = "finish" /\ pc' = "ready" /\ SameCall
        /\ mem' = [mem EXCEPT !["res"] = At("buff2")]
    BY <1>11 DEF ExpModReturns, SameCall
  <2>2. mem'["res"] = At("buff2")
    BY <1>3, <2>1 DEF Slots
  <2>3. Value(At("buff2")) = Power(e)
    BY <1>1, <2>1 DEF LadderInv
  <2>4. (Value(mem["res"]) = Power(e))'
    BY <2>1, <2>2, <2>3 DEF SameCall, Power, Modulus
  <2> QED
    BY <2>1, <2>4 DEF LadderInv
<1>12. CASE UNCHANGED vars
  BY <1>1, <1>12 DEF vars, data, LadderInv, StandsFor, R, Power, Modulus, At, EBits
<1> QED
  BY <1>6, <1>7, <1>8, <1>9, <1>10, <1>11, <1>12 DEF Next

\* All the invariants.
Correct == Typed /\ PowerInv

\* They hold at first.
LEMMA CorrectInit == UsualKeys /\ Init => Correct
<1> SUFFICES ASSUME UsualKeys, Init
             PROVE  Correct
  OBVIOUS
<1>1. Typed
  BY TypedInit
<1>2. pc = "start" /\ stopped = "no" /\ calls = 0
  BY DEF Init
<1>3. PrimedInv /\ CallInv /\ LadderInv
  BY <1>2 DEF PrimedInv, CallInv, LadderInv, Setup, InCall, MulPoints
<1> QED
  BY <1>1, <1>3 DEF Correct, PowerInv

\* They are inductive.
LEMMA CorrectStep == UsualKeys /\ Correct /\ [Next]_vars => Correct'
<1> SUFFICES ASSUME UsualKeys, Correct, [Next]_vars
             PROVE  Correct'
  OBVIOUS
<1>1. Typed /\ Typed' /\ PowerInv
  BY TypedStep DEF Correct
<1>2. PoolInv /\ PoolInv' /\ DataInv /\ DataInv'
  BY <1>1 DEF Typed
<1>3. PrimedInv'
  BY <1>1, <1>2, PrimedStep
<1>4. CallInv'
  BY <1>1, <1>2, <1>3, CallStep
<1>5. LadderInv'
  BY <1>1, <1>2, <1>3, LadderStep
<1> QED
  BY <1>1, <1>3, <1>4, <1>5 DEF Correct, PowerInv

\* The invariant of the exponentiation.
LEMMA CorrectInductive == UsualKeys /\ Spec => []Correct
<1>1. UsualKeys /\ Init => Correct
  BY CorrectInit
<1>2. UsualKeys /\ Correct /\ [Next]_vars => Correct'
  BY CorrectStep
<1>3. UsualKeys => UsualKeys'
  BY DEF UsualKeys
<1> QED
  BY <1>1, <1>2, <1>3, PTL DEF Spec

\* With a usual key no product or sum of MG_mul overflows its buffer, and the
\* remainder of R^2 has no byte beyond those of N: the assertions of RSA_exp_mod and
\* RSA_get_MG_conv_const never fail (tls_crypto_rsa.cpp:54, 113, 125, 131, 136).
THEOREM NothingOverflows == UsualKeys /\ Spec => []ArithmeticHolds
<1>1. Correct => ArithmeticHolds
  BY DEF Correct, PowerInv, PrimedInv, ArithmeticHolds
<1> QED
  BY <1>1, CorrectInductive, PTL

\* Standing for a power is what the run calls representing it.
LEMMA StandsRepresents ==
  ASSUME IsPrimed(ctx), Value(msg) \in Nat, NEW g \in Nat, NEW x \in Number(g), NEW k \in Nat, StandsFor(x, k)
  PROVE  Represents(x, k)
<1>1. PICK d, u, v : d = Modulus /\ u = Value(x) /\ v = Power(k) * R
  OBVIOUS
<1>2. d \in Nat \ {0} /\ u \in Int /\ v \in Int
  <2>1. Power(k) \in Int /\ R \in Int /\ d \in Nat \ {0}
    BY <1>1, PowerSizes
  <2>2. u \in Nat
    BY <1>1, NumberDef
  <2> QED
    BY <1>1, <2>1, <2>2
<1>3. Cong(u, v, d)
  BY <1>1 DEF StandsFor
<1>4. (u - v) % d = 0
  BY <1>2, <1>3, CongZero
<1> QED
  BY <1>1, <1>4 DEF Represents, Power, Modulus, R

\* The loop's invariant, for every usual key, every message below R and every odd
\* exponent of 64 bits: buff2 stands for msg to the low i bits of e, and buff for
\* msg to the power that bit i counts, or its root (tls_crypto_rsa.cpp:124-134).
THEOREM LoopInvariant == UsualKeys /\ Spec => []LadderHolds
<1>1. ASSUME Correct
      PROVE  LadderHolds
  <2>1. CASE pc \in {"square", "multiply"}
    <3>1. IsPrimed(ctx) /\ e \in Exponents /\ e % 2 = 1
      BY <1>1, <2>1 DEF Correct, PowerInv, PrimedInv, CallInv, InCall, MulPoints
    <3>2. PICK g \in Nat : msg \in Number(g)
      BY <1>1 DEF Correct, Typed, DataInv
    <3>3. Value(msg) \in Nat
      BY <3>2, NumberDef
    <3>4. PICK n : n = NBytes
      OBVIOUS
    <3>5. n \in Nat /\ At("buff") \in Number(n) /\ At("buff2") \in Number(n)
      <4>1. n \in Nat
        BY <3>1, <3>4, ContextSizes DEF NBytes, IsPrimed
      <4>2. At("buff") \in Number(n) /\ At("buff2") \in Number(n)
        BY <1>1, <3>4 DEF At, Correct, Typed, DataInv, Pointers
      <4> QED
        BY <4>1, <4>2
    <3>6. /\ i \in 1 .. EBits
          /\ StandsFor(At("buff2"), e % Pow2[i])
          /\ StandsFor(At("buff"), IF pc = "square" THEN Pow2[i - 1] ELSE Pow2[i])
      BY <1>1, <2>1 DEF Correct, PowerInv, LadderInv
    <3>7. PICK j, k : j = (IF pc = "square" THEN Pow2[i - 1] ELSE Pow2[i]) /\ k = e % Pow2[i]
      OBVIOUS
    <3>8. j \in Nat /\ k \in Nat
      <4>1. EBits \in Nat /\ e \in Nat
        BY <3>1, EBitsIs
      <4>2. i \in Nat /\ i - 1 \in Nat
        BY <3>6, <4>1
      <4>3. Pow2[i] \in Nat /\ Pow2[i - 1] \in Nat
        BY <4>2, Pow2Def
      <4>4. e % Pow2[i] \in Nat
        BY <4>1, <4>2, BitAdds
      <4> QED
        BY <3>7, <4>3, <4>4
    <3>9. Represents(At("buff2"), k)
      BY <3>1, <3>3, <3>5, <3>6, <3>7, <3>8, StandsRepresents
    <3>10. Represents(At("buff"), j)
      BY <3>1, <3>3, <3>5, <3>6, <3>7, <3>8, StandsRepresents
    <3> QED
      BY <3>7, <3>9, <3>10 DEF LadderHolds
  <2> QED
    BY <2>1 DEF LadderHolds
<1> QED
  BY <1>1, CorrectInductive, PTL

\* RSA_exp_mod leaves msg^e mod N in res, for every usual key of any length, every
\* message below R, every odd exponent of 64 bits and any number of calls with one
\* context (tls_crypto_rsa.cpp:103-142).
THEOREM ExponentiationIsRight == UsualKeys /\ Spec => []ExpIsPower
<1>1. Correct => ExpIsPower
  BY DEF Correct, PowerInv, LadderInv, ExpIsPower, Power, Modulus
<1> QED
  BY <1>1, CorrectInductive, PTL
=============================================================================
