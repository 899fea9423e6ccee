-------------------------------- MODULE Aes --------------------------------
(***************************************************************************)
(* The block cipher of algorithm/tls_crypto_aes.cpp, over a field of 2^Bits *)
(* elements.  A byte is the set of its bits that are 1, so that the sum in  *)
(* the field is the symmetric difference.  A block is a 4 x 4 matrix:        *)
(* m[<<i, j>>] is the byte the code writes as m[i * 4 + j].                 *)
(***************************************************************************)
EXTENDS Integers, FiniteSetsExt

CONSTANTS
  Bits,           \* bits of a byte, 8 in the code
  Reduction,      \* the bits of 0x1B
  SBox,           \* s_box: a permutation of the bytes
  Rounds          \* 10

Byte == SUBSET (0 .. Bits - 1)
Block == [(0 .. 3) \X (0 .. 3) -> Byte]

ASSUME FieldAssumption == Bits \in Nat \ {0} /\ Reduction \in Byte /\ Rounds \in Nat \ {0}
ASSUME SBoxAssumption == SBox \in [Byte -> Byte] /\ Range(SBox) = Byte

SBoxInverse == [v \in Byte |-> CHOOSE x \in Byte : SBox[x] = v]

\* byte_plus_2: times x, modulo the field's polynomial.
Twice(v) ==
  LET shifted == {b + 1 : b \in v}
  IN  IF Bits - 1 \in v THEN SymDiff(shifted \ {Bits}, Reduction) ELSE shifted

\* byte_plus: b, doubled i times, for each bit i of a; the factors have no more
\* than four bits.
Times(a, b) ==
  LET part(i, doubled) == IF i \in a THEN doubled ELSE {}
      two == Twice(b)
      four == Twice(two)
  IN  SymDiff(SymDiff(part(0, b), part(1, two)), SymDiff(part(2, four), part(3, Twice(four))))

\* The rows of the two mul_ matrices are rotations of their first ones:
\* 2 3 1 1, and 0E 0B 0D 09.
Suffix == <<{1}, {0, 1}, {0}, {0}>>
SuffixInverse == <<{1, 2, 3}, {0, 1, 3}, {0, 2, 3}, {0, 3}>>

\* mat_mul with a matrix of rotated rows on the left, as in aes_suffix_mat
\* and aes_suffix_inverse.
MatMul(row, m) ==
  [p \in DOMAIN m |->
     LET term(k) == Times(row[((k - p[1]) % 4) + 1], m[<<k, p[2]>>])
     IN  SymDiff(SymDiff(term(0), term(1)), SymDiff(term(2), term(3)))]

Substitute(box, m) == [p \in DOMAIN m |-> box[m[p]]]
Plus(m, n) == [p \in DOMAIN m |-> SymDiff(m[p], n[p])]
Transposed(m) == [p \in DOMAIN m |-> m[<<p[2], p[1]>>]]

\* line_right_shift of line i by 4 - i, and by i.
LineShift(m) == [p \in DOMAIN m |-> m[<<p[1], (p[2] + p[1]) % 4>>]]
LineShiftInverseUnturned(m) == [p \in DOMAIN m |-> m[<<p[1], (p[2] + p[1]) % 4>>]]

LineShiftInverse(m) == [p \in DOMAIN m |-> m[<<p[1], (p[2] - p[1]) % 4>>]]

\* rcon: the first byte of line r is x to the power r, the others are 0.
Rcon ==
  LET power[r \in 0 .. Rounds - 1] == IF r = 0 THEN {0} ELSE Twice(power[r - 1])
  IN  power

\* aes_key_extend: four bytes for each of 4 * (Rounds + 1) lines; the first of
\* every four is turned, substituted and given a constant (key_extend_T).
KeyExtend(key) ==
  LET line[i \in 0 .. 4 * Rounds + 3] ==
        IF i < 4 THEN [j \in 0 .. 3 |-> key[<<i, j>>]]
        ELSE [j \in 0 .. 3 |->
          LET last == line[i - 1]
              turned == SymDiff(SBox[last[(j + 1) % 4]],
                                IF j = 0 THEN Rcon[i \div 4 - 1] ELSE {})
          IN  SymDiff(line[i - 4][j], IF i % 4 = 0 THEN turned ELSE last[j])]
  IN  line

RoundKey(lines, i) == [p \in (0 .. 3) \X (0 .. 3) |-> lines[4 * i + p[2]][p[1]]]

Encrypto(data, key) ==
  LET lines == KeyExtend(key)
      stat[i \in 0 .. Rounds] ==
        IF i = 0 THEN Plus(Transposed(data), RoundKey(lines, 0))
        ELSE LET moved == LineShift(Substitute(SBox, stat[i - 1]))
             IN  Plus(IF i = Rounds THEN moved ELSE MatMul(Suffix, moved), RoundKey(lines, i))
  IN  Transposed(stat[Rounds])

\* The rounds' keys go through aes_suffix_inverse, that of the last round too.
Decrypto(data, key) ==
  LET lines == KeyExtend(key)
      stat[i \in 0 .. Rounds] ==
        IF i = 0 THEN Plus(Transposed(data), RoundKey(lines, Rounds))
        ELSE LET moved == LineShiftInverse(Substitute(SBoxInverse, stat[i - 1]))
             IN  Plus(IF i = Rounds THEN moved ELSE MatMul(SuffixInverse, moved),
                      MatMul(SuffixInverse, RoundKey(lines, Rounds - i)))
  IN  Transposed(stat[Rounds])
=============================================================================
