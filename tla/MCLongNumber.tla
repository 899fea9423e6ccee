---------------------------- MODULE MCLongNumber ----------------------------
(* Every pair of numbers of up to three bytes of two bits each, as inputs   *)
(* of one arithmetic operation, against the integers they stand for.        *)
EXTENDS LongNumber

CONSTANTS MaxBytes, Operations

ASSUME MaxBytesAssumption == MaxBytes \in Nat

VARIABLES op, a, b, done, out

opVars == <<op, a, b, done, out>>

Numbers == UNION {Number(n) : n \in 1 .. MaxBytes}
None == [res |-> <<>>, flag |-> FALSE]

\* The inputs the callers give: dec wants the longer array first, div a
\* divisor that is not 0 and a result as long as the longer of the two.
Inputs ==
  /\ op \in Operations
  /\ a \in Numbers
  /\ b \in Numbers
  /\ op = "dec" => Bytes(a) >= Bytes(b)
  /\ op = "div" => ~IsZero(b)
  /\ op \in {"shift", "mod2pow", "divu8"} => Bytes(b) = 1
  /\ op \in {"divu8", "mod2pow"} => b[0] # 0
  /\ op = "mod2pow" => (b[0] + ByteBits - 1) \div ByteBits < Bytes(a)

OpInit == Inputs /\ done = FALSE /\ out = None

Longer == IF Bytes(a) < Bytes(b) THEN Bytes(b) ELSE Bytes(a)

Answer ==
  CASE op = "compare" -> [res |-> <<>>, flag |-> Compare(a, b)]
    [] op = "mul" -> Mul(a, b, Zero(Bytes(a) + Bytes(b)))
    [] op = "dec" -> Dec(a, b)
    [] op = "div" -> [res |-> Div(a, b, Longer), flag |-> FALSE]
    [] op = "divu8" -> DivU8(a, b[0])
    [] op = "shift" -> [res |-> [l |-> LeftShift(a, b[0]), r |-> RightShift(a, b[0])],
                        flag |-> Bitwidth(a)]
    [] op = "mod2pow" -> [res |-> Mod2Pow(a, b[0]), flag |-> FALSE]

Compute ==
  /\ ~done
  /\ done' = TRUE
  /\ out' = Answer
  /\ UNCHANGED <<op, a, b>>

OpNext == Compute
OpSpec == OpInit /\ [][OpNext]_opVars

Done(o) == op = o /\ done
Sign(x, y) == IF x > y THEN 1 ELSE IF x < y THEN -1 ELSE 0

----------------------------------------------------------------------------
\* long_number_mul into zeroed memory that has room for it is the product, and
\* reports no overflow (long_number.cpp:112-141), although the addition it
\* relies on for the carry of a row drops a carry into a byte that is not full
\* and, where all bytes above are full, changes the byte in front of the result
\* (91-104): neither happens here.
Multiplies ==
  Done("mul") => Value(out.res) = Value(a) * Value(b) /\ ~out.flag /\ ~out.before

\* long_number_compare orders arrays of different lengths as the numbers they
\* hold (long_number.cpp:47-65); long_number_dec is subtraction modulo the size
\* of a, and says when it borrowed from beyond it (162-185).
Subtracts ==
  /\ Done("compare") => out.flag = Sign(Value(a), Value(b))
  /\ Done("dec") => /\ Value(out.res) = (Value(a) - Value(b)) % Weight(Bytes(a))
                    /\ out.flag = (Value(a) < Value(b))

\* long_number_div leaves quotient and remainder, also where one of the two is
\* padded with zero bytes (long_number.cpp:209-238), and so does divu8.
Divides ==
  /\ Done("div") => /\ Value(out.res.quot) = Value(a) \div Value(b)
                    /\ Value(out.res.rest) = Value(a) % Value(b)
  /\ Done("divu8") => /\ Value(out.res) = Value(a) \div b[0]
                      /\ out.flag = Value(a) % b[0]

\* Shifts by fewer bits than the array has are multiplication and division by
\* a power of two, the right one for a byte or more (long_number.cpp:67-89),
\* and the bit width is that of the value (30-45).
Shifts ==
  Done("shift") =>
    /\ b[0] < ByteBits * Bytes(a) =>
         Value(out.res.l) = (Value(a) * Pow2[b[0]]) % Weight(Bytes(a))
    /\ b[0] < ByteBits * Bytes(a) /\ (b[0] >= ByteBits \/ b[0] = 0) =>
         Value(out.res.r) = Value(a) \div Pow2[b[0]]
    /\ Pow2[out.flag] > Value(a)
    /\ Value(a) > 0 => Pow2[out.flag - 1] <= Value(a)

\* long_number_mod_2pow keeps exactly the low bits where they are whole bytes,
\* and never changes those (long_number.cpp:240-256).
KeepsLowBits ==
  Done("mod2pow") =>
    /\ b[0] % ByteBits = 0 => Value(out.res) = Value(a) % Pow2[b[0]]
    /\ Value(out.res) % Pow2[b[0]] = Value(a) % Pow2[b[0]]
=============================================================================
