----------------------------- MODULE LongNumber -----------------------------
(***************************************************************************)
(* tools/long_number.cpp: arithmetic on big-endian byte arrays.  A number  *)
(* of n bytes is a function on 0 .. n-1; index i stands for the byte that  *)
(* the code writes as a[a_bytes - 1 - i], so index 0 is the least          *)
(* significant one.  Operators return what the code leaves in the array    *)
(* it writes to, in flag what it returns, and in before whether it has     *)
(* also changed the byte in front of the array.                            *)
(*                                                                         *)
(* Each loop that carries something from byte to byte is a recursive       *)
(* function of its index; the other loops are functions of all bytes.      *)
(***************************************************************************)
EXTENDS Integers, FiniteSets

CONSTANT ByteBits        \* bits of a byte: 8 in the code

ASSUME ByteBitsAssumption == ByteBits \in Nat \ {0}

\* The powers of two.
Pow2[k \in Nat] == IF k = 0 THEN 1 ELSE 2 * Pow2[k - 1]

\* What byte k of an array counts.
Weight(k) == Pow2[ByteBits * k]

Base == Pow2[ByteBits]
Top == Base - 1                          \* 0xFF
Byte == 0 .. Base - 1
Number(n) == [0 .. n - 1 -> Byte]
Zero(n) == [i \in 0 .. n - 1 |-> 0]

Bytes(a) == Cardinality(DOMAIN a)
Lower(m, n) == IF m < n THEN m ELSE n
Low(x) == x % Base                       \* x & 0xFF
Shl(x, s) == (x * Pow2[s]) % Base         \* x << s kept in a byte
Shr(x, s) == x \div Pow2[s]
Bit(x, s) == (x \div Pow2[s]) % 2

\* The integer that an array of bytes stands for.
Value(x) ==
  LET sum[n \in 0 .. Bytes(x)] == IF n = 0 THEN 0 ELSE sum[n - 1] + x[n - 1] * Weight(n - 1)
  IN  sum[Bytes(x)]

\* n bytes of a from byte k on: the array &a[a_bytes - k - n] seen alone.
Slice(a, k, n) == [i \in 0 .. n - 1 |-> a[k + i]]

\* memcpy into an array of n bytes aligned at its least significant end.
Resize(a, n) == [i \in 0 .. n - 1 |-> IF i \in DOMAIN a THEN a[i] ELSE 0]

IsZero(a) == \A i \in DOMAIN a : a[i] = 0

\* The bits at or below the highest one that is set.
Bitwidth(a) ==
  Cardinality({k \in 0 .. ByteBits * Bytes(a) - 1 :
    \E j \in k .. ByteBits * Bytes(a) - 1 : Bit(a[j \div ByteBits], j % ByteBits) = 1})

\* long_number_compare: widths first, then the bytes from the highest down.
Compare(a, b) ==
  LET differ == {i \in DOMAIN a \cap DOMAIN b : a[i] # b[i]}
      highest == CHOOSE i \in differ : \A j \in differ : j <= i
  IN  IF Bitwidth(a) # Bitwidth(b) THEN IF Bitwidth(a) > Bitwidth(b) THEN 1 ELSE -1
      ELSE IF differ = {} THEN 0
      ELSE IF a[highest] > b[highest] THEN 1 ELSE -1

----------------------------------------------------------------------------
\* long_number_left_shift, for fewer bits than the array has.
LeftShiftNoCarry(a, bits) ==
  LET bytes == bits \div ByteBits
      s == bits % ByteBits
  IN  [i \in DOMAIN a |-> IF i < bytes THEN 0 ELSE Shl(a[i - bytes], s)]

LeftShift(a, bits) ==
  LET bytes == bits \div ByteBits
      s == bits % ByteBits
  IN  [i \in DOMAIN a |->
         IF i < bytes THEN 0
         ELSE IF i = bytes THEN Shl(a[0], s)
         ELSE Shl(a[i - bytes], s) + Shr(a[i - bytes - 1], ByteBits - s)]

\* long_number_right_shift.  It works upwards in place and reads byte
\* bytes + i for the bits that go down into byte i - 1 after it has written
\* byte i: with bytes = 0 that is the byte it has just shifted.
RightShift(a, bits) ==
  LET bytes == bits \div ByteBits
      s == bits % ByteBits
      kept == Bytes(a) - bytes
      above(i) == IF bytes = 0 THEN Shr(a[i], s) ELSE a[bytes + i]
  IN  [i \in DOMAIN a |->
         IF i >= kept THEN 0
         ELSE IF i = kept - 1 THEN Shr(a[bytes + i], s)
         ELSE Shr(a[bytes + i], s) + Shl(above(i + 1), ByteBits - s)]

\* long_number_plus: the sum of the low bytes, then a loop that looks for the
\* byte the carry belongs in.  It leaves at the first byte that is not 0xFF
\* without adding to it, and steps over one that is by adding to the next,
\* which behind the highest byte is a[-1], the byte in front of the array.
Plus(a, b) ==
  LET n == Bytes(b)
      carry[i \in 0 .. n] ==
        IF i = 0 THEN 0 ELSE (carry[i - 1] + a[i - 1] + b[i - 1]) \div Base
      reached[i \in n .. Bytes(a)] ==
        IF i = n THEN carry[n] # 0
        ELSE reached[i - 1] /\ Top = (IF i - 1 = n THEN a[n] ELSE Low(a[i - 1] + 1))
  IN  [res |-> [i \in DOMAIN a |->
                  IF i < n THEN Low(carry[i] + a[i] + b[i])
                  ELSE IF i > n /\ reached[i] THEN Low(a[i] + 1)
                  ELSE a[i]],
       flag |-> reached[Bytes(a)],
       before |-> reached[Bytes(a)] /\ Bytes(a) > n]

\* Row i of long_number_mul: x times the first width bytes of b is added to
\* res from byte i on, and the carry that is left to the bytes above.
RowWithoutCarry(r, x, i, b, width) ==
  LET n == Lower(width, Bytes(r.res) - i)
      carry[j \in 0 .. n] ==
        IF j = 0 THEN 0 ELSE (carry[j - 1] + x * b[j - 1] + r.res[i + j - 1]) \div Base
  IN  [res |-> [k \in DOMAIN r.res |->
                  IF k \in i .. i + n - 1
                  THEN Low(carry[k - i] + x * b[k - i] + r.res[k])
                  ELSE r.res[k]],
       flag |-> r.flag, before |-> r.before]

Row(r, x, i, b, width) ==
  LET n == Lower(width, Bytes(r.res) - i)
      carry[j \in 0 .. n] ==
        IF j = 0 THEN 0 ELSE (carry[j - 1] + x * b[j - 1] + r.res[i + j - 1]) \div Base
      rest == Bytes(r.res) - i - n
      high == Plus(Slice(r.res, i + n, rest), [k \in 0 .. 0 |-> carry[n]])
      spills == carry[n] # 0
  IN  [res |-> [k \in DOMAIN r.res |->
                  IF k < i THEN r.res[k]
                  ELSE IF k < i + n THEN Low(carry[k - i] + x * b[k - i] + r.res[k])
                  ELSE IF spills THEN high.res[k - i - n]
                  ELSE r.res[k]],
       flag |-> IF ~spills THEN r.flag ELSE IF rest > 0 THEN high.flag ELSE TRUE,
       before |-> r.before \/ (spills /\ rest > 0 /\ high.before)]

\* long_number_mul adds the product of the two to res.
Mul(a, b, res) ==
  LET long == IF Bytes(a) < Bytes(b) THEN b ELSE a
      short == IF Bytes(a) < Bytes(b) THEN a ELSE b
      width == Lower(Bytes(short), Bytes(res))
      row[i \in 0 .. Lower(Bytes(long), Bytes(res))] ==
        IF i = 0 THEN [res |-> res, flag |-> FALSE, before |-> FALSE]
        ELSE Row(row[i - 1], long[i - 1], i - 1, short, width)
  IN  row[Lower(Bytes(long), Bytes(res))]

\* long_number_dec: a - b, with the last borrow taken from the bytes above b.
DecLosesBorrow(a, b) ==
  LET n == Lower(Bytes(a), Bytes(b))
      borrow[i \in 0 .. n] ==
        IF i = 0 THEN 0 ELSE IF a[i - 1] < b[i - 1] + borrow[i - 1] THEN 1 ELSE 0
  IN  [res |-> [i \in DOMAIN a |-> IF i < n THEN Low(a[i] - b[i] - borrow[i]) ELSE a[i]],
       flag |-> borrow[n] = 1]

Dec(a, b) ==
  LET n == Lower(Bytes(a), Bytes(b))
      borrow[i \in 0 .. n] ==
        IF i = 0 THEN 0 ELSE IF a[i - 1] < b[i - 1] + borrow[i - 1] THEN 1 ELSE 0
      reached(i) == borrow[n] = 1 /\ \A j \in n .. i - 1 : a[j] = 0
  IN  [res |-> [i \in DOMAIN a |->
                  IF i < n THEN Low(a[i] - b[i] - borrow[i])
                  ELSE IF reached(i) THEN Low(a[i] - 1)
                  ELSE a[i]],
       flag |-> reached(Bytes(a))]

\* long_number_divu8: the quotient in place, the remainder returned.
DivU8(a, d) ==
  LET n == Bytes(a)
      rem[i \in 0 .. n] ==   \* the remainder when the bytes from i up are done
        IF i = n THEN 0 ELSE (rem[i + 1] * Base + a[i]) % d
  IN  [res |-> [i \in DOMAIN a |-> Low((rem[i + 1] * Base + a[i]) \div d)],
       flag |-> rem[0]]

\* long_number_div: bit by bit from the highest; quotient in a, rest in res.
DivKeepsEqual(a, b, n) ==
  LET width == Bitwidth(a)
      rest[k \in 0 .. width] ==
        IF k = 0 THEN Zero(Bytes(a))
        ELSE LET i == width - k
                 next == [LeftShift(rest[k - 1], 1) EXCEPT
                            ![0] = @ + Bit(a[i \div ByteBits], i % ByteBits)]
             IN  IF Compare(next, b) = 1 THEN Dec(next, b).res ELSE next
  IN  [quot |-> Zero(Bytes(a)), rest |-> Resize(rest[width], n), leak |-> 0]

Div(a, b, n) ==
  LET width == Bitwidth(a)
      bitAt(k) == Bit(a[(width - k) \div ByteBits], (width - k) % ByteBits)
      next(r, k) == [LeftShift(r, 1) EXCEPT ![0] = @ + bitAt(k)]
      rest[k \in 0 .. width] ==
        IF k = 0 THEN Zero(Bytes(a))
        ELSE LET r == next(rest[k - 1], k)
             IN  IF Compare(r, b) # -1 THEN Dec(r, b).res ELSE r
      quotBit(i) ==
        IF i < width /\ Compare(next(rest[width - i - 1], width - i), b) # -1 THEN 1 ELSE 0
      quotByte(i) ==
        LET sum[s \in 0 .. ByteBits] ==
              IF s = 0 THEN 0 ELSE sum[s - 1] + quotBit(ByteBits * i + s - 1) * Pow2[s - 1]
        IN  sum[ByteBits]
  IN  IF Compare(a, b) = -1
      THEN [quot |-> Zero(Bytes(a)), rest |-> Resize(a, n), leak |-> Bytes(a)]
      ELSE [quot |-> [i \in DOMAIN a |-> quotByte(i)],
            rest |-> Resize(rest[width], n), leak |-> 0]

\* long_number_mod_2pow.  When bits are not whole bytes the memset stops one
\* byte short of the masked byte.
Mod2PowMasksAll(a, bits) ==
  LET bytes == (bits + ByteBits - 1) \div ByteBits
  IN  [i \in DOMAIN a |->
         IF i = bytes - 1 THEN a[i] % Pow2[bits % ByteBits] ELSE IF i < bytes THEN a[i] ELSE 0]

Mod2Pow(a, bits) ==
  LET bytes == (bits + ByteBits - 1) \div ByteBits
      s == bits % ByteBits
  IN  [i \in DOMAIN a |->
         IF s # 0 /\ i = bytes - 1 THEN a[i] % Pow2[s]
         ELSE IF i < bytes \/ (s # 0 /\ i = bytes) THEN a[i]
         ELSE 0]
=============================================================================
