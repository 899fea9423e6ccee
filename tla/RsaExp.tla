------------------------------- MODULE RsaExp -------------------------------
(***************************************************************************)
(* algorithm/tls_crypto_rsa.cpp with the Montgomery context of             *)
(* tools/long_number.cpp: RSA_MG_ctx_init, RSA_exp_mod and the MG_mul they *)
(* are built on, over the byte arithmetic of module LongNumber.            *)
(*                                                                         *)
(* RSA_exp_mod works on three arrays of N_bytes (two in the pool, and the  *)
(* caller's res) through three pointers that it swaps; every call it makes *)
(* takes its scratch memory from the context's pool.  A function that has  *)
(* its memory and has not returned is a state of its own, so that the pool *)
(* is seen at its fullest.                                                 *)
(***************************************************************************)
EXTENDS LongNumber, MemoryPool

CONSTANTS
  Moduli,        \* the arrays N of the keys
  Messages,      \* values of msg
  Exponents,     \* values of e
  MaxCalls       \* bound: calls of RSA_exp_mod with one context

ASSUME KeysAssumption ==
  \A N \in Moduli : Bytes(N) \in Nat \ {0} /\ N \in Number(Bytes(N))
\* e is a size_t of 64 bits.
ASSUME InputsAssumption ==
  /\ Messages \subseteq Nat /\ Exponents \subseteq Nat /\ MaxCalls \in Nat
  /\ \A x \in Exponents : \E k \in 0 .. 63 : x < Pow2[k + 1]

\* What RSA_exp_mod needs of its caller and does not check: an odd modulus whose
\* bits are whole bytes, as those of RSA keys are, and a message of no more bits.
\* It is assumed only where a theorem says so.
UsualKeys ==
  \A N \in Moduli :
    /\ Value(N) % 2 = 1 /\ Bitwidth(N) % ByteBits = 0
    /\ \A m \in Messages : m < Weight(Bytes(N)) => m < Pow2[Bitwidth(N)]

VARIABLES
  pc,        \* where the code is
  ctx,       \* the MG_CONTEXT: N, R_bits, N_prime, mg_const
  pool,      \* its memory pool
  debug,     \* the pool of RSA_exp_mod_debug_check
  inMul,     \* MG_mul has been entered at pc
  mem,       \* the three arrays
  ptr,       \* the three pointers
  msg, e,    \* the call's arguments
  i,         \* the loop's index, the bit of e in hand
  stopped,   \* the assertion that has failed: "no" if none has
  calls

data == <<mem, ptr, msg, e, i>>
vars == <<pc, ctx, pool, debug, inMul, data, stopped, calls>>

Slots == {"pool1", "pool2", "res"}
Pointers == {"buff", "buff1", "buff2"}

NBytes == Bytes(ctx.N)
Ceil(bits) == (bits + ByteBits - 1) \div ByteBits
One(n) == [Zero(n) EXCEPT ![0] = 1]

\* buff_bytes of MG_mul, and a byte more than N_bytes and the larger of
\* N_bytes and R's bytes, of which MG_ctx_init makes the pool 8 times.
BuffBytesOfOne(c) == Bytes(c.N) + 1

BuffBytes(c) ==
  LET n == Bytes(c.N) IN n + 1 + IF n < Ceil(c.rBits) THEN Ceil(c.rBits) ELSE n

\* R_bytes of RSA_get_MG_conv_const
RBytes(bits) == (2 * bits + 1 + ByteBits - 1) \div ByteBits

\* What the assertion behind the division is written for: R_bytes - N_bytes does
\* not wrap, that is, fewer than half of N's bytes are leading zeros.
ASSUME RemainderCoversKey == \A N \in Moduli : Bytes(N) <= RBytes(Bitwidth(N))

\* RSA_get_prime_N: bit by bit the number that makes N * N' = -1 modulo 2^bits.
PrimeN(N, bits) ==
  LET n == Bytes(N)
      prime[k \in 0 .. bits] ==
        IF k <= 1 THEN One(n)
        ELSE LET at == (k - 1) \div ByteBits
                 low == Mul(Slice(N, 0, at + 1), Slice(prime[k - 1], 0, at + 1), Zero(n)).res
             IN  IF Bit(low[at], (k - 1) % ByteBits) = 1 THEN prime[k - 1]
                 ELSE [prime[k - 1] EXCEPT ![at] = @ + Pow2[(k - 1) % ByteBits]]
  IN  prime[bits]

\* RSA_get_MG_conv_const: R^2 mod N by a long division.
ConvDivision(N, bits) ==
  LET n == RBytes(bits) IN Div(LeftShift(One(n), 2 * bits), N, n)

\* MG_mul: what it leaves in res, and its return value, which is FALSE when
\* one of the calls it makes reports an overflow.
MgMulWithoutReduction(c, x, y) ==
  LET n == BuffBytes(c)
      T == Mul(x, y, Zero(n))
      q == Mul(Mod2Pow(T.res, c.rBits), c.prime, Zero(n))
      mN == Mul(Mod2Pow(q.res, c.rBits), c.N, Zero(n))
      sum == Plus(mN.res, T.res)
  IN  [ok |-> ~(T.flag \/ q.flag \/ mN.flag \/ sum.flag),
       res |-> Resize(RightShift(sum.res, c.rBits), Bytes(c.N))]

MgMul(c, x, y) ==
  LET n == BuffBytes(c)
      T == Mul(x, y, Zero(n))
      q == Mul(Mod2Pow(T.res, c.rBits), c.prime, Zero(n))
      mN == Mul(Mod2Pow(q.res, c.rBits), c.N, Zero(n))
      sum == Plus(mN.res, T.res)
      t == RightShift(sum.res, c.rBits)
  IN  [ok |-> ~(T.flag \/ q.flag \/ mN.flag \/ sum.flag),
       res |-> Resize(IF Compare(t, c.N) # -1 THEN Dec(t, c.N).res ELSE t, Bytes(c.N))]

Init ==
  /\ pc = "start"
  /\ ctx \in {[N |-> N, rBits |-> Bitwidth(N), prime |-> Zero(Bytes(N)),
               conv |-> Zero(Bytes(N))] : N \in Moduli}
  /\ pool = NewPool(8 * BuffBytes(ctx))     \* MG_ctx_init
  /\ debug = NewPool(0)
  /\ inMul = FALSE
  /\ mem = [s \in Slots |-> Zero(NBytes)]
  /\ ptr = [p \in Pointers |-> "res"]
  /\ msg = Zero(1)
  /\ e = 0
  /\ i = 0
  /\ stopped = "no"
  /\ calls = 0

\* mem_pool_alloc, whose assertion stops the program.
Take(k, size, next) ==
  IF Fits(pool, k, size)
  THEN pool' = Alloc(pool, k, size) /\ pc' = next /\ UNCHANGED stopped
  ELSE stopped' = "pool" /\ UNCHANGED <<pool, pc>>

Running == stopped = "no"

----------------------------------------------------------------------------
(* RSA_MG_ctx_init.                                                        *)

PrimeBegins ==
  /\ Running /\ pc = "start"
  /\ Take(1, NBytes, "prime")
  /\ UNCHANGED <<ctx, debug, inMul, data, calls>>

PrimeReturns ==
  /\ Running /\ pc = "prime"
  /\ ctx' = [ctx EXCEPT !.prime = PrimeN(ctx.N, ctx.rBits)]
  /\ pool' = Free(pool, 1, NBytes)
  /\ pc' = "primed"
  /\ UNCHANGED <<debug, inMul, data, stopped, calls>>

ConvBegins ==
  /\ Running /\ pc = "primed"
  /\ Take(2, RBytes(ctx.rBits), "conv")
  /\ UNCHANGED <<ctx, debug, inMul, data, calls>>

\* long_number_div takes a third buffer for its remainder, and gives it back
\* unless it returns early.
DivisionBegins ==
  /\ Running /\ pc = "conv"
  /\ Take(1, RBytes(ctx.rBits), "division")
  /\ UNCHANGED <<ctx, debug, inMul, data, calls>>

ConvReturns ==
  /\ Running /\ pc = "division"
  /\ LET d == ConvDivision(ctx.N, ctx.rBits)
         freed == IF d.leak = 0 THEN Free(pool, 1, RBytes(ctx.rBits)) ELSE pool
         high == {k \in DOMAIN d.rest : k >= NBytes}
     IN  IF \E k \in high : d.rest[k] # 0
         THEN stopped' = "remainder" /\ UNCHANGED <<ctx, pool, pc>>
         ELSE /\ ctx' = [ctx EXCEPT !.conv = Resize(d.rest, NBytes)]
              /\ pool' = Free(freed, 2, RBytes(ctx.rBits))
              /\ pc' = "ready"
              /\ UNCHANGED stopped
  /\ UNCHANGED <<debug, inMul, data, calls>>

----------------------------------------------------------------------------
(* RSA_exp_mod.                                                            *)

ToBytes(v, n) == [k \in 0 .. n - 1 |-> (v \div Weight(k)) % Base]

\* The highest bit of e that is set.
EBits == CHOOSE k \in 0 .. 63 : Pow2[k] <= e /\ e < Pow2[k + 1]

ExpMod(m, x) ==
  /\ Running /\ pc = "ready" /\ calls < MaxCalls
  /\ m < Weight(NBytes)
  /\ x % 2 = 1                            \* assert(e != 0 && (e & 0x01) != 0)
  /\ calls' = calls + 1
  /\ msg' = ToBytes(m, NBytes)
  /\ e' = x
  /\ i' = 0
  /\ Take(1, 2 * NBytes, "toMont")
  /\ ptr' = [buff |-> "pool1", buff1 |-> "pool2", buff2 |-> "res"]
  /\ mem' = [mem EXCEPT !["pool1"] = Zero(NBytes), !["pool2"] = Zero(NBytes)]
  /\ UNCHANGED <<ctx, debug, inMul>>

\* The places MG_mul is called from.
MulPoints == {"toMont", "square", "multiply", "fromMont"}

At(p) == mem[ptr[p]]

Operands ==
  CASE pc = "toMont" -> <<msg, ctx.conv>>
    [] pc = "square" -> <<At("buff"), At("buff")>>
    [] pc = "multiply" -> <<At("buff"), At("buff2")>>
    [] pc = "fromMont" -> <<At("buff2"), One(1)>>

MulBegins ==
  /\ Running /\ pc \in MulPoints /\ ~inMul
  /\ Take(3, BuffBytes(ctx), pc)
  /\ inMul' = (stopped' = "no")
  /\ UNCHANGED <<ctx, debug, data, calls>>

Swap(p, q) == ptr' = [ptr EXCEPT ![p] = ptr[q], ![q] = ptr[p]]

\* MG_mul returns true with its product r: what RSA_exp_mod does with it.
AfterSquareOverrun(r) ==
  /\ mem' = [mem EXCEPT ![ptr["buff1"]] = r, ![ptr["buff"]] = Zero(NBytes + 1)]
  /\ Swap("buff", "buff1")

AfterSquareForgetsSwap(r) ==
  /\ mem' = [mem EXCEPT ![ptr["buff1"]] = r]
  /\ UNCHANGED ptr

AfterSquare(r) ==
  /\ mem' = [mem EXCEPT ![ptr["buff1"]] = r, ![ptr["buff"]] = Zero(NBytes)]
  /\ Swap("buff", "buff1")

AfterMultiply(r) ==
  /\ mem' = [mem EXCEPT ![ptr["buff1"]] = r, ![ptr["buff2"]] = Zero(NBytes)]
  /\ Swap("buff1", "buff2")

\* The loop goes on with the next bit of e, or ends.
NextBit(k) ==
  /\ i' = k
  /\ pc' = IF k <= EBits THEN "square" ELSE "fromMont"

MulReturns ==
  /\ Running /\ inMul
  /\ LET r == MgMul(ctx, Operands[1], Operands[2]) IN
     IF ~r.ok
     THEN stopped' = "overflow" /\ UNCHANGED <<pool, mem, ptr, i, pc>>
     ELSE /\ pool' = Free(pool, 3, BuffBytes(ctx))
          /\ UNCHANGED stopped
          /\ \/ /\ pc = "toMont"
                /\ mem' = [mem EXCEPT ![ptr["buff"]] = r.res]
                /\ pc' = "debug"
                /\ UNCHANGED <<ptr, i>>
             \/ /\ pc = "square"
                /\ AfterSquare(r.res)
                /\ IF Bit(e, i) = 1 THEN pc' = "multiply" /\ UNCHANGED i
                   ELSE NextBit(i + 1)
             \/ /\ pc = "multiply"
                /\ AfterMultiply(r.res)
                /\ NextBit(i + 1)
             \/ /\ pc = "fromMont"
                /\ mem' = [mem EXCEPT ![ptr["buff1"]] = r.res]
                /\ Swap("buff1", "buff2")
                /\ pc' = "finish"
                /\ UNCHANGED i
  /\ inMul' = FALSE
  /\ UNCHANGED <<ctx, debug, msg, e, calls>>

\* RSA_exp_mod_debug_check: a pool of its own for a buffer of N_bytes + 1 and
\* three (with that of the division) of msg_bytes more.
DebugBegins ==
  /\ Running /\ pc = "debug"
  /\ LET big == Bytes(msg) + NBytes + 1
         p == Alloc(NewPool(4 * big), 1, NBytes + 1)
     IN  IF Fits(p, 3, big)
         THEN debug' = Alloc(p, 3, big) /\ pc' = "debugging" /\ UNCHANGED stopped
         ELSE stopped' = "pool" /\ UNCHANGED <<debug, pc>>
  /\ UNCHANGED <<ctx, pool, inMul, data, calls>>

\* It deletes its pool; then buff2 = buff, buff1 = 0, and the loop begins.
DebugReturns ==
  /\ Running /\ pc = "debugging"
  /\ debug' = NewPool(0)
  /\ mem' = [mem EXCEPT ![ptr["buff2"]] = At("buff"), ![ptr["buff1"]] = Zero(NBytes)]
  /\ NextBit(1)
  /\ UNCHANGED <<ctx, pool, inMul, ptr, msg, e, stopped, calls>>

\* The result is copied to res unless it is there.
ExpModReturns ==
  /\ Running /\ pc = "finish"
  /\ mem' = [mem EXCEPT !["res"] = At("buff2")]
  /\ pool' = Free(pool, 1, 2 * NBytes)
  /\ pc' = "ready"
  /\ UNCHANGED <<ctx, debug, inMul, ptr, msg, e, i, stopped, calls>>

Next ==
  \/ PrimeBegins \/ PrimeReturns
  \/ ConvBegins \/ DivisionBegins \/ ConvReturns
  \/ \E m \in Messages, x \in Exponents : ExpMod(m, x)
  \/ MulBegins \/ MulReturns
  \/ DebugBegins \/ DebugReturns
  \/ ExpModReturns

Spec == Init /\ [][Next]_vars

----------------------------------------------------------------------------
(* Properties.                                                             *)

PoolOK(p) == /\ p.max \in Nat
             /\ p.usage \in Nat
             /\ p.held \in Seq([at : Nat, size : Nat])

\* Types of the context, the arrays and the pointers of RSA_exp_mod.
TypeOK ==
  /\ pc \in MulPoints \cup {"start", "prime", "primed", "conv", "division", "ready",
                             "debug", "debugging", "finish"}
  /\ ctx.N \in Moduli
  /\ ctx.rBits = Bitwidth(ctx.N)
  /\ ctx.prime \in Number(NBytes)
  /\ ctx.conv \in Number(NBytes)
  /\ PoolOK(pool) /\ PoolOK(debug)
  /\ inMul \in BOOLEAN
  /\ mem \in [Slots -> Number(NBytes)]
  /\ ptr \in [Pointers -> Slots]
  /\ e \in Exponents \cup {0}
  /\ i \in Nat
  /\ stopped \in {"no", "pool", "overflow", "remainder"}
  /\ calls \in 0 .. MaxCalls

\* The pool that MG_ctx_init makes, of a size it has from N alone, is large
\* enough for every allocation of the initialisation and of any number of
\* exponentiations, nested calls included; and so is the pool of the debug
\* check: the assertion of mem_pool_alloc (memory_pool.cpp:19) never fails.
PoolSuffices == stopped # "pool"

\* None of the other assertions fails: no product or sum of MG_mul overflows
\* its buffer (tls_crypto_rsa.cpp:113, 125, 131, 136), and the remainder of
\* R^2 by N has no byte beyond those of N (tls_crypto_rsa.cpp:54).
ArithmeticHolds == stopped \notin {"overflow", "remainder"}

\* No two buffers that are held overlap, and once a call has returned none is
\* held: giving back by size never cuts off a buffer that is in use, and a
\* context can be used for any number of calls (memory_pool.cpp:29-37).
BuffersApart ==
  /\ Stacked(pool) /\ Stacked(debug)
  /\ Running /\ pc \in {"start", "primed", "ready"} => pool.usage = 0 /\ pool.held = <<>>

PowMod(x, k, n) ==
  LET pow[j \in 0 .. k] == IF j = 0 THEN 1 % n ELSE (pow[j - 1] * x) % n
  IN  pow[k]

\* x stands for the power msg^k in Montgomery's representation.
Represents(x, k) ==
  (Value(x) - PowMod(Value(msg), k, Value(ctx.N)) * Pow2[ctx.rBits]) % Value(ctx.N) = 0

\* The loop's invariant: with i in hand, buff2 stands for msg to the low i bits
\* of e, and buff for msg to 2^(i-1), or to 2^i after the squaring
\* (tls_crypto_rsa.cpp:124-134).
LadderHolds ==
  pc \in {"square", "multiply"} =>
    /\ Represents(At("buff2"), e % Pow2[i])
    /\ Represents(At("buff"), IF pc = "square" THEN Pow2[i - 1] ELSE Pow2[i])

\* RSA_exp_mod leaves msg^e mod N in res, reduced, whatever buffer its last
\* swap has left the result in (tls_crypto_rsa.cpp:103-142).
ExpIsPower ==
  Running /\ pc = "ready" /\ calls > 0 =>
    Value(mem["res"]) = PowMod(Value(msg), e, Value(ctx.N))
=============================================================================
