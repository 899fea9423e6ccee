-------------------------- MODULE LongNumberProofs --------------------------
(* What the operators of LongNumber compute, as integers, for every width of *)
(* a byte and numbers of every length.                                       *)
EXTENDS MCLongNumber, FiniteSetTheorems, WellFoundedInduction, TLAPS

----------------------------------------------------------------------------
(* Induction and recursion, with sets and functions for the predicates and   *)
(* the steps.                                                                *)

\* A set of natural numbers has a least element.
LEMMA Least ==
  ASSUME NEW T, T \subseteq Nat, T # {}
  PROVE  \E m \in T : \A k \in T : m <= k
<1>1. PICK m \in T : \A k \in T : <<k, m>> \notin OpToRel(<, Nat)
  BY WFMin, NatLessThanWellFounded, Zenon
<1>2. \A k \in T : ~(k < m)
  BY <1>1, Zenon DEF OpToRel
<1> QED
  BY <1>2

\* What holds at m and goes from each number to the next holds up to n.
LEMMA Upward ==
  ASSUME NEW m \in Nat, NEW n \in Nat, NEW T, m \in T,
         \A k \in m .. n - 1 : k \in T => k + 1 \in T
  PROVE  \A k \in m .. n : k \in T
<1> DEFINE Other == {k \in m .. n : k \notin T}
<1>1. SUFFICES ASSUME Other # {} PROVE FALSE
  OBVIOUS
<1>2. Other \subseteq Nat
  OBVIOUS
<1>3. PICK k \in Other : \A j \in Other : k <= j
  <2> HIDE DEF Other
  <2> QED
    BY <1>1, <1>2, Least
<1>4. k - 1 \in m .. n - 1 /\ k - 1 \notin Other
  BY <1>3
<1>5. k - 1 \in T
  BY <1>4
<1>6. (k - 1) + 1 \in T
  BY <1>4, <1>5
<1> QED
  BY <1>3, <1>6

\* What holds at 0 and goes from each number to the next holds at n.
LEMMA FromZero ==
  ASSUME NEW n \in Nat, NEW T, 0 \in T, \A k \in 0 .. n - 1 : k \in T => k + 1 \in T
  PROVE  n \in T
<1>1. \A k \in 0 .. n : k \in T
  BY Upward
<1> QED
  BY <1>1

\* What holds at n and goes from each number to the one before holds down to m.
LEMMA Downward ==
  ASSUME NEW m \in Nat, NEW n \in Nat, NEW T, n \in T,
         \A k \in m + 1 .. n : k \in T => k - 1 \in T
  PROVE  \A k \in m .. n : k \in T
<1> DEFINE Other == {j \in 0 .. n - m : n - j \notin T}
<1>1. SUFFICES ASSUME NEW k \in m .. n, k \notin T PROVE FALSE
  OBVIOUS
<1>2. n - k \in Other
  BY <1>1
<1>3. PICK j \in Other : \A h \in Other : j <= h
  <2>1. Other \subseteq Nat
    OBVIOUS
  <2> HIDE DEF Other
  <2> QED
    BY <1>2, <2>1, Least
<1>4. j # 0
  BY <1>3
<1>5. j - 1 \in 0 .. n - m /\ j - 1 \notin Other
  BY <1>3, <1>4
<1>6. n - (j - 1) \in T /\ n - (j - 1) \in m + 1 .. n
  BY <1>3, <1>4, <1>5
<1>7. (n - (j - 1)) - 1 \in T
  BY <1>6
<1> QED
  BY <1>3, <1>7

\* The function D takes a value in S and the index of the next one to a value
\* in S, and f begins with c and has each value from the one before by D.
Steps(D, S, n) == \A v \in S, k \in 1 .. n : D[<<v, k>>] \in S
Follows(f, c, D, n) == f[0] = c /\ \A k \in 1 .. n : f[k] = D[<<f[k - 1], k>>]

\* A function may be defined by what it is at 0 and by a step.
LEMMA Recursion ==
  ASSUME NEW n \in Nat, NEW S, NEW c \in S, NEW D, Steps(D, S, n)
  PROVE  \E f \in [0 .. n -> S] : Follows(f, c, D, n)
<1> USE DEF Steps
<1> DEFINE Is(f, k) == Follows(f, c, D, k)
           T == {k \in 0 .. n : \E f \in [0 .. k -> S] : Is(f, k)}
<1>1. 0 \in T
  <2> DEFINE f == [i \in 0 .. 0 |-> c]
  <2>1. f \in [0 .. 0 -> S] /\ Is(f, 0) /\ 0 \in 0 .. n
    BY DEF Follows
  <2> HIDE DEF f, Is
  <2> QED
    BY <2>1
<1>2. ASSUME NEW k \in 0 .. n - 1, k \in T PROVE k + 1 \in T
  <2>1. PICK f \in [0 .. k -> S] : Is(f, k)
    BY <1>2
  <2> DEFINE g == [i \in 0 .. k + 1 |-> IF i = k + 1 THEN D[<<f[k], k + 1>>] ELSE f[i]]
  <2>2. (\A i \in 0 .. k : g[i] = f[i]) /\ g[k + 1] = D[<<f[k], k + 1>>]
    OBVIOUS
  <2>3. g \in [0 .. k + 1 -> S]
    <3>1. f[k] \in S /\ k + 1 \in 1 .. n
      OBVIOUS
    <3>2. D[<<f[k], k + 1>>] \in S
      BY <3>1
    <3>3. ASSUME NEW i \in 0 .. k + 1 PROVE g[i] \in S
      <4>1. i \in 0 .. k \/ i = k + 1
        OBVIOUS
      <4> HIDE DEF g
      <4> QED
        BY <2>2, <3>2, <4>1
    <3> QED
      BY <3>3
  <2> HIDE DEF g
  <2>4. ASSUME NEW i \in 1 .. k + 1 PROVE g[i] = D[<<g[i - 1], i>>]
    <3>1. CASE i = k + 1
      <4>1. (k + 1) - 1 = k /\ k \in 0 .. k
        OBVIOUS
      <4>2. g[k] = f[k]
        BY <2>2, <4>1
      <4> QED
        BY <2>2, <3>1, <4>1, <4>2
    <3>2. CASE i \in 1 .. k
      BY <2>1, <2>2, <3>2 DEF Follows
    <3> QED
      BY <3>1, <3>2
  <2>5. Is(g, k + 1)
    BY <2>1, <2>2, <2>4 DEF Follows
  <2> HIDE DEF Is
  <2> QED
    BY <2>3, <2>5
<1> HIDE DEF T
<1>3. n \in T
  BY <1>1, <1>2, Upward
<1> QED
  BY <1>3 DEF T

\* There is only one such function.
Equal(f, g, n) == \A k \in 0 .. n : f[k] = g[k]

\* Two functions that follow the same steps are equal as far as both go.
LEMMA OneFunction ==
  ASSUME NEW n \in Nat, NEW D, NEW c, NEW f, NEW g, Follows(f, c, D, n), Follows(g, c, D, n)
  PROVE  Equal(f, g, n)
<1> USE DEF Follows, Equal
<1> DEFINE T == {k \in 0 .. n : f[k] = g[k]}
<1>1. 0 \in T
  OBVIOUS
<1>2. ASSUME NEW k \in 0 .. n - 1, k \in T PROVE k + 1 \in T
  <2>1. k + 1 \in 1 .. n /\ k + 1 \in 0 .. n /\ (k + 1) - 1 = k
    OBVIOUS
  <2>2. f[k + 1] = D[<<f[(k + 1) - 1], k + 1>>] /\ g[k + 1] = D[<<g[(k + 1) - 1], k + 1>>]
    BY <2>1
  <2>3. f[k + 1] = g[k + 1]
    BY <1>2, <2>1, <2>2
  <2> QED
    BY <2>1, <2>3
<1> HIDE DEF T
<1>3. \A k \in 0 .. n : k \in T
  BY <1>1, <1>2, Upward
<1> QED
  BY <1>3 DEF T

----------------------------------------------------------------------------
(* Powers of two and the weights of bytes.                                   *)

\* Pow2 is the function that its definition describes.
LEMMA Pow2Def ==
  /\ Pow2 \in [Nat -> Nat \ {0}]
  /\ Pow2[0] = 1
  /\ \A n \in Nat : Pow2[n + 1] = 2 * Pow2[n]
<1> DEFINE P == Nat \ {0}
           D == [p \in P \X Nat |-> 2 * p[1]]
           Chain(n) == CHOOSE f \in [0 .. n -> P] : Follows(f, 1, D, n)
           F == [n \in Nat |-> Chain(n)[n]]
<1>1. ASSUME NEW v \in P, NEW k \in Nat PROVE D[<<v, k>>] = 2 * v /\ D[<<v, k>>] \in P
  OBVIOUS
<1> HIDE DEF D
<1>2. ASSUME NEW n \in Nat PROVE Chain(n) \in [0 .. n -> P] /\ Follows(Chain(n), 1, D, n)
  <2>1. 1 \in P /\ Steps(D, P, n)
    <3>1. 1 \in P
      OBVIOUS
    <3> HIDE DEF P
    <3>2. \A k \in 1 .. n : k \in Nat
      OBVIOUS
    <3>3. \A v \in P, k \in 1 .. n : D[<<v, k>>] \in P
      BY <1>1, <3>2
    <3> QED
      BY <3>1, <3>3 DEF Steps
  <2> HIDE DEF P
  <2>2. \E f \in [0 .. n -> P] : Follows(f, 1, D, n)
    BY <2>1, Recursion
  <2> QED
    BY <2>2
<1> HIDE DEF Chain
<1>3. ASSUME NEW n \in Nat
      PROVE  F[n] \in P /\ F[n + 1] = 2 * F[n]
  <2> DEFINE f == Chain(n)
             g == Chain(n + 1)
  <2>1. f \in [0 .. n -> P] /\ Follows(f, 1, D, n)
    BY <1>2
  <2>2. g \in [0 .. n + 1 -> P] /\ Follows(g, 1, D, n + 1)
    <3>1. n + 1 \in Nat
      OBVIOUS
    <3> HIDE DEF Chain
    <3> QED
      BY <1>2, <3>1
  <2> HIDE DEF f, g
  <2>3. Follows(g, 1, D, n)
    BY <2>2 DEF Follows
  <2>4. f[n] = g[n]
    <3>1. Equal(f, g, n)
      BY <2>1, <2>3, OneFunction
    <3>2. n \in 0 .. n
      OBVIOUS
    <3> QED
      BY <3>1, <3>2 DEF Equal
  <2>5. g[n + 1] = D[<<g[n], n + 1>>] /\ g[n] \in P /\ f[n] \in P
    <3>1. n + 1 \in 1 .. n + 1 /\ (n + 1) - 1 = n /\ n \in 0 .. n + 1 /\ n \in 0 .. n
      OBVIOUS
    <3> QED
      BY <2>1, <2>2, <3>1 DEF Follows
  <2>6. g[n + 1] = 2 * f[n]
    BY <1>1, <2>4, <2>5
  <2>7. F[n] = f[n] /\ F[n + 1] = g[n + 1]
    BY DEF f, g
  <2> QED
    BY <2>5, <2>6, <2>7
<1>4. F[0] = 1
  BY <1>2 DEF Follows
<1>5. F = [k \in Nat |-> IF k = 0 THEN 1 ELSE 2 * F[k - 1]]
  <2> DEFINE K(k) == IF k = 0 THEN 1 ELSE 2 * F[k - 1]
             L(k) == Chain(k)[k]
  <2>1. ASSUME NEW k \in Nat PROVE L(k) = K(k)
    <3>1. L(k) = F[k]
      OBVIOUS
    <3> HIDE DEF F, L
    <3>2. CASE k = 0
      BY <1>4, <3>1, <3>2
    <3>3. CASE k # 0
      <4>1. k - 1 \in Nat /\ (k - 1) + 1 = k
        BY <3>3
      <4>2. F[(k - 1) + 1] = 2 * F[k - 1]
        BY <1>3, <4>1
      <4> QED
        BY <3>1, <3>3, <4>1, <4>2
    <3> QED
      BY <3>2, <3>3
  <2>2. F = [k \in Nat |-> L(k)]
    OBVIOUS
  <2> HIDE DEF F, L, K
  <2>3. F = [k \in Nat |-> K(k)]
    BY <2>1, <2>2
  <2> QED
    BY <2>3 DEF K
<1> HIDE DEF F
<1>6. Pow2 = [k \in Nat |-> IF k = 0 THEN 1 ELSE 2 * Pow2[k - 1]]
  BY <1>5, Zenon DEF Pow2
<1>7. Pow2[0] = 1
  BY <1>6
<1>8. ASSUME NEW n \in Nat PROVE Pow2[n + 1] = 2 * Pow2[n]
  <2>1. Pow2[n + 1] = IF n + 1 = 0 THEN 1 ELSE 2 * Pow2[(n + 1) - 1]
    BY <1>6
  <2> QED
    BY <2>1
<1>9. ASSUME NEW n \in Nat PROVE Pow2[n] \in P
  <2> DEFINE T == {k \in Nat : Pow2[k] \in P}
  <2>1. 0 \in T
    BY <1>7
  <2>2. ASSUME NEW k \in 0 .. n - 1, k \in T PROVE k + 1 \in T
    BY <1>8, <2>2
  <2> HIDE DEF T
  <2>3. n \in T
    BY <2>1, <2>2, Upward
  <2> QED
    BY <2>3 DEF T
<1>10. Pow2 \in [Nat -> P]
  BY <1>6, <1>9
<1> QED
  BY <1>7, <1>8, <1>10

\* Powers multiply as their exponents add.
LEMMA PowerSum ==
  ASSUME NEW m \in Nat, NEW n \in Nat
  PROVE  Pow2[m + n] = Pow2[m] * Pow2[n]
<1> DEFINE T == {k \in Nat : Pow2[m + k] = Pow2[m] * Pow2[k]}
<1>1. 0 \in T
  BY Pow2Def
<1>2. ASSUME NEW k \in 0 .. n - 1, k \in T PROVE k + 1 \in T
  <2>1. Pow2[m + k] = Pow2[m] * Pow2[k]
    BY <1>2
  <2>2. /\ Pow2[(m + k) + 1] = 2 * Pow2[m + k] /\ Pow2[k + 1] = 2 * Pow2[k]
        /\ Pow2[m] \in Int /\ Pow2[k] \in Int /\ (m + k) + 1 = m + (k + 1)
    BY Pow2Def
  <2> QED
    BY <2>1, <2>2
<1> HIDE DEF T
<1>3. n \in T
  BY <1>1, <1>2, Upward
<1> QED
  BY <1>3 DEF T

\* A greater exponent makes a multiple, and a greater power.
LEMMA PowerOrder ==
  ASSUME NEW m \in Nat, NEW n \in Nat, m < n
  PROVE  Pow2[n] = Pow2[m] * Pow2[n - m] /\ Pow2[n - m] >= 2 /\ Pow2[m] < Pow2[n]
<1>1. n - m \in Nat /\ (n - m) - 1 \in Nat /\ m + (n - m) = n
  OBVIOUS
<1>2. Pow2[n] = Pow2[m] * Pow2[n - m]
  BY <1>1, PowerSum
<1>3. Pow2[((n - m) - 1) + 1] = 2 * Pow2[(n - m) - 1]
  BY <1>1, Pow2Def
<1>4. /\ Pow2[m] \in Nat \ {0} /\ Pow2[n] \in Nat \ {0} /\ Pow2[(n - m) - 1] \in Nat \ {0}
      /\ Pow2[n - m] \in Nat \ {0} /\ ((n - m) - 1) + 1 = n - m
  BY <1>1, Pow2Def
<1>5. Pow2[n - m] >= 2
  BY <1>3, <1>4
<1>6. Pow2[m] < Pow2[m] * Pow2[n - m]
  BY <1>4, <1>5
<1> QED
  BY <1>2, <1>5, <1>6

\* A larger exponent gives a larger power.
LEMMA PowerMonotone ==
  ASSUME NEW m \in Nat, NEW n \in Nat, m <= n
  PROVE  Pow2[m] \in Nat \ {0} /\ Pow2[n] \in Nat \ {0} /\ Pow2[m] <= Pow2[n]
<1>1. Pow2[m] \in Nat \ {0} /\ Pow2[n] \in Nat \ {0}
  BY Pow2Def
<1>2. CASE m = n
  BY <1>1, <1>2
<1>3. CASE m < n
  <2>1. Pow2[m] < Pow2[n]
    BY <1>3, PowerOrder
  <2> QED
    BY <1>1, <2>1
<1> QED
  BY <1>1, <1>2, <1>3

\* Byte k + 1 counts Base times as much as byte k.
LEMMA Weights ==
  /\ Base \in Nat /\ Base >= 2
  /\ Weight(0) = 1
  /\ \A k \in Nat : Weight(k) \in Nat \ {0} /\ Weight(k + 1) = Base * Weight(k)
<1>1. ByteBits \in Nat /\ ByteBits > 0
  BY ByteBitsAssumption
<1>2. Base \in Nat /\ Base >= 2
  <2>1. Pow2[ByteBits - 0] >= 2
    BY <1>1, PowerOrder
  <2>2. Pow2[ByteBits] \in Nat /\ ByteBits - 0 = ByteBits
    BY <1>1, Pow2Def
  <2> QED
    BY <2>1, <2>2 DEF Base
<1>3. Weight(0) = 1
  BY <1>1, Pow2Def DEF Weight
<1>4. ASSUME NEW k \in Nat PROVE Weight(k) \in Nat \ {0} /\ Weight(k + 1) = Base * Weight(k)
  <2>1. ByteBits * k \in Nat /\ ByteBits * (k + 1) = ByteBits + ByteBits * k
    BY <1>1
  <2> QED
    BY <1>1, <2>1, Pow2Def, PowerSum DEF Weight, Base
<1> QED
  BY <1>2, <1>3, <1>4

----------------------------------------------------------------------------
(* The integer that the lowest n bytes of an array stand for.                *)

Part(x, n) ==
  LET sum[k \in 0 .. n] == IF k = 0 THEN 0 ELSE sum[k - 1] + x[k - 1] * Weight(k - 1)
  IN  sum[n]

\* The entries 0 .. n-1 of x are natural numbers.
Digits(x, n) == \A k \in 0 .. n - 1 : x[k] \in Nat

\* The value of an array is that of all its bytes.
LEMMA ValueIsPart ==
  ASSUME NEW x
  PROVE  Value(x) = Part(x, Bytes(x))
  BY Zenon DEF Value, Part

\* Part adds one byte after the other.
LEMMA PartDef ==
  ASSUME NEW x, NEW n \in Nat, Digits(x, n)
  PROVE  /\ Part(x, 0) = 0
         /\ \A k \in 0 .. n : Part(x, k) \in Nat
         /\ \A k \in 0 .. n - 1 : Part(x, k + 1) = Part(x, k) + x[k] * Weight(k)
<1> DEFINE D == [p \in Nat \X (1 .. n) |-> p[1] + x[p[2] - 1] * Weight(p[2] - 1)]
<1>1. ASSUME NEW v \in Nat, NEW k \in 1 .. n
      PROVE  D[<<v, k>>] = v + x[k - 1] * Weight(k - 1) /\ D[<<v, k>>] \in Nat
  <2>1. D[<<v, k>>] = v + x[k - 1] * Weight(k - 1)
    OBVIOUS
  <2>2. x[k - 1] \in Nat /\ Weight(k - 1) \in Nat
    <3>1. k - 1 \in 0 .. n - 1 /\ k - 1 \in Nat
      OBVIOUS
    <3> QED
      BY <3>1, Weights DEF Digits
  <2> QED
    BY <2>1, <2>2
<1> HIDE DEF D
<1>2. ASSUME NEW m \in 0 .. n
      PROVE  \E f \in [0 .. m -> Nat] : Follows(f, 0, D, m) /\ Part(x, m) = f[m]
  <2> DEFINE sum[k \in 0 .. m] == IF k = 0 THEN 0 ELSE sum[k - 1] + x[k - 1] * Weight(k - 1)
  <2>1. Steps(D, Nat, m) /\ m \in Nat
    BY <1>1 DEF Steps
  <2>2. PICK f \in [0 .. m -> Nat] : Follows(f, 0, D, m)
    BY <2>1, Recursion
  <2>3. f = [k \in 0 .. m |-> IF k = 0 THEN 0 ELSE f[k - 1] + x[k - 1] * Weight(k - 1)]
    <3>1. ASSUME NEW k \in 1 .. m PROVE f[k] = f[k - 1] + x[k - 1] * Weight(k - 1)
      <4>1. k \in 1 .. n /\ f[k - 1] \in Nat
        OBVIOUS
      <4> QED
        BY <1>1, <2>2, <4>1 DEF Follows
    <3> QED
      BY <2>2, <3>1 DEF Follows
  <2>4. sum = [k \in 0 .. m |-> IF k = 0 THEN 0 ELSE sum[k - 1] + x[k - 1] * Weight(k - 1)]
    BY <2>3, Zenon
  <2>5. Part(x, m) = sum[m]
    BY Zenon DEF Part
  <2> HIDE DEF sum
  <2>6. sum[0] = 0 /\ \A k \in 1 .. m : sum[k] = sum[k - 1] + x[k - 1] * Weight(k - 1)
    BY <2>1, <2>4
  <2> DEFINE T == {k \in 0 .. m : sum[k] = f[k]}
  <2>7. m \in T
    <3>1. 0 \in T
      BY <2>1, <2>2, <2>6 DEF Follows
    <3>2. ASSUME NEW k \in 0 .. m - 1, k \in T PROVE k + 1 \in T
      <4>1. k + 1 \in 1 .. m /\ k + 1 \in 0 .. m /\ (k + 1) - 1 = k
        BY <2>1
      <4>2. sum[k + 1] = sum[k] + x[k] * Weight(k)
        BY <2>6, <4>1
      <4>3. f[k + 1] = f[k] + x[k] * Weight(k)
        BY <2>3, <4>1
      <4> QED
        BY <3>2, <4>1, <4>2, <4>3
    <3>3. \A k \in 0 .. m - 1 : k \in T => k + 1 \in T
      BY <3>2
    <3> HIDE DEF T
    <3> QED
      BY <2>1, <3>1, <3>3, FromZero
  <2> QED
    BY <2>2, <2>5, <2>7
<1>3. ASSUME NEW k \in 0 .. n PROVE Part(x, k) \in Nat
  BY <1>2
<1>4. Part(x, 0) = 0
  BY <1>2 DEF Follows
<1>5. ASSUME NEW k \in 0 .. n - 1 PROVE Part(x, k + 1) = Part(x, k) + x[k] * Weight(k)
  <2>1. k \in 0 .. n /\ k + 1 \in 0 .. n /\ k \in Nat /\ k + 1 \in 1 .. k + 1 /\ (k + 1) - 1 = k
        /\ k + 1 \in 1 .. n /\ k \in 0 .. k + 1
    OBVIOUS
  <2>2. PICK f \in [0 .. k -> Nat] : Follows(f, 0, D, k) /\ Part(x, k) = f[k]
    BY <1>2, <2>1
  <2>3. PICK g \in [0 .. k + 1 -> Nat] : Follows(g, 0, D, k + 1) /\ Part(x, k + 1) = g[k + 1]
    BY <1>2, <2>1
  <2>4. Follows(g, 0, D, k)
    BY <2>3 DEF Follows
  <2>5. f[k] = g[k]
    <3> HIDE DEF D
    <3>1. k \in Nat /\ k \in 0 .. k
      BY <2>1
    <3>2. Follows(f, 0, D, k) /\ Follows(g, 0, D, k)
      BY <2>2, <2>4
    <3>3. Equal(f, g, k)
      BY <3>1, <3>2, OneFunction
    <3> QED
      BY <3>1, <3>3 DEF Equal
  <2>6. g[k + 1] = D[<<g[k], k + 1>>] /\ g[k] \in Nat
    BY <2>1, <2>3 DEF Follows
  <2>7. g[k + 1] = g[k] + x[k] * Weight(k)
    BY <1>1, <2>1, <2>6
  <2> QED
    BY <2>2, <2>3, <2>5, <2>7
<1> QED
  BY <1>3, <1>4, <1>5

\* The values before and after one byte.
LEMMA PartStep ==
  ASSUME NEW x, NEW n \in Nat, Digits(x, n), NEW k \in 0 .. n - 1
  PROVE  /\ Part(x, k + 1) = Part(x, k) + x[k] * Weight(k)
         /\ Part(x, k) \in Nat /\ x[k] \in Nat /\ Weight(k) \in Nat \ {0}
<1>1. k \in 0 .. n /\ k \in Nat
  OBVIOUS
<1> QED
  BY <1>1, PartDef, Weights DEF Digits

\* The prefixes of two arrays that agree have one value.
Agree(x, y, n) == \A k \in 0 .. n - 1 : y[k] = x[k]

\* Arrays with the same low bytes have the same values of their prefixes.
LEMMA PartSame ==
  ASSUME NEW x, NEW y, NEW n \in Nat, Digits(x, n), Agree(x, y, n)
  PROVE  \A k \in 0 .. n : Part(y, k) = Part(x, k)
<1> USE DEF Agree
<1> DEFINE T == {k \in 0 .. n : Part(y, k) = Part(x, k)}
<1>1. Digits(y, n)
  BY DEF Digits
<1>2. 0 \in T
  BY <1>1, PartDef
<1>3. ASSUME NEW k \in 0 .. n - 1, k \in T PROVE k + 1 \in T
  <2>1. Part(x, k + 1) = Part(x, k) + x[k] * Weight(k)
    BY PartDef
  <2>2. Part(y, k + 1) = Part(y, k) + y[k] * Weight(k)
    BY <1>1, PartDef
  <2> QED
    BY <1>3, <2>1, <2>2
<1> HIDE DEF T
<1>4. \A k \in 0 .. n : k \in T
  BY <1>2, <1>3, Upward
<1> QED
  BY <1>4 DEF T

\* A carry, or a borrow, that goes from byte to byte accounts for the
\* difference of the two sums.
Carried(x, u, w, n) ==
  /\ Digits(x, n) /\ Digits(u, n)
  /\ \A k \in 0 .. n : w[k] \in Nat
  /\ \A k \in 0 .. n - 1 : x[k] + Base * w[k + 1] = w[k] + u[k]

\* A chain of carries balances the values of the prefixes: what the sums u lose
\* to the bytes x is the carry that is left.
LEMMA Carries ==
  ASSUME NEW x, NEW u, NEW w, NEW n \in Nat, Carried(x, u, w, n)
  PROVE  \A k \in 0 .. n : Part(x, k) + w[k] * Weight(k) = Part(u, k) + w[0]
<1> USE DEF Carried
<1> DEFINE T == {k \in 0 .. n : Part(x, k) + w[k] * Weight(k) = Part(u, k) + w[0]}
<1>1. 0 \in T
  BY PartDef, Weights
<1>2. ASSUME NEW k \in 0 .. n - 1, k \in T PROVE k + 1 \in T
  <2>1. /\ Part(x, k + 1) = Part(x, k) + x[k] * Weight(k)
        /\ Part(u, k + 1) = Part(u, k) + u[k] * Weight(k)
        /\ Part(x, k) \in Nat /\ Part(u, k) \in Nat
    BY PartDef
  <2>2. /\ Weight(k + 1) = Base * Weight(k) /\ Weight(k) \in Nat /\ Base \in Nat
        /\ w[k] \in Nat /\ w[k + 1] \in Nat /\ w[0] \in Nat /\ x[k] \in Nat /\ u[k] \in Nat
    BY Weights DEF Digits
  <2>3. x[k] * Weight(k) + w[k + 1] * (Base * Weight(k)) = (x[k] + Base * w[k + 1]) * Weight(k)
    BY <2>2
  <2>4. (x[k] + Base * w[k + 1]) * Weight(k) = w[k] * Weight(k) + u[k] * Weight(k)
    <3>1. x[k] + Base * w[k + 1] = w[k] + u[k]
      OBVIOUS
    <3>2. (w[k] + u[k]) * Weight(k) = w[k] * Weight(k) + u[k] * Weight(k)
      BY <2>2
    <3> QED
      BY <3>1, <3>2
  <2>5. Part(x, k) + w[k] * Weight(k) = Part(u, k) + w[0]
    BY <1>2
  <2> QED
    BY <2>1, <2>2, <2>3, <2>4, <2>5
<1> HIDE DEF T
<1>3. \A k \in 0 .. n : k \in T
  BY <1>1, <1>2, Upward
<1> QED
  BY <1>3 DEF T

\* Sums and multiples byte by byte make sums and multiples of the values.
Summed(d, x, y, z, n) ==
  Digits(x, n) /\ Digits(y, n) /\ \A k \in 0 .. n - 1 : z[k] = d * x[k] + y[k]

\* The value of a prefix is linear in the bytes.
LEMMA PartSum ==
  ASSUME NEW x, NEW y, NEW z, NEW d \in Nat, NEW n \in Nat, Summed(d, x, y, z, n)
  PROVE  Digits(z, n) /\ \A k \in 0 .. n : Part(z, k) = d * Part(x, k) + Part(y, k)
<1> USE DEF Summed
<1> DEFINE T == {k \in 0 .. n : Part(z, k) = d * Part(x, k) + Part(y, k)}
<1>1. Digits(z, n)
  BY DEF Digits
<1>2. 0 \in T
  BY <1>1, PartDef
<1>3. ASSUME NEW k \in 0 .. n - 1, k \in T PROVE k + 1 \in T
  <2>1. /\ Part(x, k + 1) = Part(x, k) + x[k] * Weight(k)
        /\ Part(y, k + 1) = Part(y, k) + y[k] * Weight(k)
        /\ Part(z, k + 1) = Part(z, k) + z[k] * Weight(k)
        /\ Part(x, k) \in Nat /\ Part(y, k) \in Nat
    BY <1>1, PartDef
  <2>2. Weight(k) \in Nat /\ x[k] \in Nat /\ y[k] \in Nat /\ z[k] = d * x[k] + y[k]
    BY Weights DEF Digits
  <2>3. (d * x[k] + y[k]) * Weight(k) = d * (x[k] * Weight(k)) + y[k] * Weight(k)
    BY <2>2
  <2>4. d * (Part(x, k) + x[k] * Weight(k)) = d * Part(x, k) + d * (x[k] * Weight(k))
    BY <2>1, <2>2
  <2>5. Part(z, k) = d * Part(x, k) + Part(y, k)
    BY <1>3
  <2> QED
    BY <2>1, <2>2, <2>3, <2>4, <2>5
<1> HIDE DEF T
<1>4. \A k \in 0 .. n : k \in T
  BY <1>2, <1>3, Upward
<1> QED
  BY <1>1, <1>4 DEF T

\* The bytes from m on being zero, they add nothing.
LEMMA PartAboveZero ==
  ASSUME NEW x, NEW m \in Nat, NEW n \in Nat, m <= n, Digits(x, n),
         \A k \in m .. n - 1 : x[k] = 0
  PROVE  Part(x, n) = Part(x, m)
<1> DEFINE T == {k \in m .. n : Part(x, k) = Part(x, m)}
<1>1. m \in T
  OBVIOUS
<1>2. ASSUME NEW k \in m .. n - 1, k \in T PROVE k + 1 \in T
  <2>1. Part(x, k + 1) = Part(x, k) + x[k] * Weight(k) /\ Part(x, k) \in Nat
    BY PartDef
  <2>2. Weight(k) \in Nat /\ x[k] = 0
    BY Weights
  <2> QED
    BY <1>2, <2>1, <2>2
<1> HIDE DEF T
<1>3. \A k \in m .. n : k \in T
  BY <1>1, <1>2, Upward
<1> QED
  BY <1>3 DEF T

\* n bytes count less than the byte above them.
LEMMA PartBound ==
  ASSUME NEW x, NEW n \in Nat, \A k \in 0 .. n - 1 : x[k] \in Byte
  PROVE  Digits(x, n) /\ \A k \in 0 .. n : Part(x, k) < Weight(k)
<1> DEFINE T == {k \in 0 .. n : Part(x, k) < Weight(k)}
<1>1. Digits(x, n)
  BY Weights DEF Digits, Byte
<1>2. 0 \in T
  BY <1>1, PartDef, Weights
<1>3. ASSUME NEW k \in 0 .. n - 1, k \in T PROVE k + 1 \in T
  <2>1. Part(x, k + 1) = Part(x, k) + x[k] * Weight(k) /\ Part(x, k) \in Nat
    BY <1>1, PartDef
  <2>2. Weight(k + 1) = Base * Weight(k) /\ Weight(k) \in Nat /\ Base \in Nat
        /\ x[k] \in Nat /\ x[k] + 1 <= Base
    BY Weights DEF Byte
  <2>3. (x[k] + 1) * Weight(k) <= Base * Weight(k)
    BY <2>2
  <2>4. (x[k] + 1) * Weight(k) = x[k] * Weight(k) + Weight(k)
    BY <2>2
  <2> QED
    BY <1>3, <2>1, <2>2, <2>3, <2>4
<1> HIDE DEF T
<1>4. \A k \in 0 .. n : k \in T
  BY <1>2, <1>3, Upward
<1> QED
  BY <1>1, <1>4 DEF T

\* The weights of the bytes of a slice.
LEMMA WeightSum ==
  ASSUME NEW m \in Nat, NEW n \in Nat
  PROVE  Weight(m + n) = Weight(m) * Weight(n)
<1>1. /\ ByteBits * m \in Nat /\ ByteBits * n \in Nat
      /\ ByteBits * (m + n) = ByteBits * m + ByteBits * n
  BY ByteBitsAssumption
<1> QED
  BY <1>1, PowerSum DEF Weight

\* An array is its lowest m bytes and, above them, n more.
LEMMA PartSplit ==
  ASSUME NEW x, NEW m \in Nat, NEW n \in Nat, Digits(x, m + n)
  PROVE  /\ Digits(Slice(x, m, n), n)
         /\ Part(x, m + n) = Part(x, m) + Weight(m) * Part(Slice(x, m, n), n)
<1> DEFINE y == Slice(x, m, n)
           T == {k \in 0 .. n : Part(x, m + k) = Part(x, m) + Weight(m) * Part(y, k)}
<1>1. \A k \in 0 .. n - 1 : y[k] = x[m + k]
  BY DEF Slice
<1>2. Digits(y, n)
  BY <1>1 DEF Digits
<1> HIDE DEF y
<1>3. 0 \in T
  <2>1. Part(y, 0) = 0 /\ Part(x, m) \in Nat /\ Weight(m) \in Nat
    BY <1>2, PartDef, Weights
  <2> QED
    BY <2>1
<1>4. ASSUME NEW k \in 0 .. n - 1, k \in T PROVE k + 1 \in T
  <2>1. Part(y, k + 1) = Part(y, k) + y[k] * Weight(k) /\ Part(y, k) \in Nat
    BY <1>2, PartDef
  <2>2. /\ Part(x, (m + k) + 1) = Part(x, m + k) + x[m + k] * Weight(m + k)
        /\ Part(x, m + k) \in Nat /\ Part(x, m) \in Nat /\ (m + k) + 1 = m + (k + 1)
    <3>1. m + k \in 0 .. (m + n) - 1 /\ m + n \in Nat
      OBVIOUS
    <3> QED
      BY <3>1, PartDef
  <2>3. Weight(m + k) = Weight(m) * Weight(k) /\ Weight(m) \in Nat /\ Weight(k) \in Nat
        /\ y[k] \in Nat /\ x[m + k] = y[k]
    <3>1. k \in Nat
      OBVIOUS
    <3> QED
      BY <1>1, <1>2, <3>1, WeightSum, Weights DEF Digits
  <2>4. Weight(m) * (Part(y, k) + y[k] * Weight(k))
          = Weight(m) * Part(y, k) + y[k] * (Weight(m) * Weight(k))
    BY <2>1, <2>3
  <2>5. Part(x, m + k) = Part(x, m) + Weight(m) * Part(y, k)
    BY <1>4
  <2> QED
    BY <2>1, <2>2, <2>3, <2>4, <2>5
<1> HIDE DEF T
<1>5. n \in T
  BY <1>3, <1>4, FromZero
<1> QED
  BY <1>2, <1>5 DEF T, y

\* An array of n bytes: its length, its bytes and the integer it stands for.
LEMMA NumberDef ==
  ASSUME NEW n \in Nat, NEW x \in Number(n)
  PROVE  /\ DOMAIN x = 0 .. n - 1 /\ Bytes(x) = n
         /\ Digits(x, n) /\ \A k \in 0 .. n - 1 : x[k] \in Byte /\ x[k] \in 0 .. Top
         /\ Value(x) = Part(x, n) /\ Value(x) \in Nat /\ Value(x) < Weight(n)
<1>1. DOMAIN x = 0 .. n - 1 /\ \A k \in 0 .. n - 1 : x[k] \in Byte
  BY DEF Number
<1>2. Bytes(x) = n
  <2>1. Cardinality(0 .. n - 1) = n
    BY FS_Interval
  <2> QED
    BY <1>1, <2>1 DEF Bytes
<1>3. Value(x) = Part(x, n)
  BY <1>2, ValueIsPart
<1>4. Digits(x, n) /\ Part(x, n) < Weight(n)
  BY <1>1, PartBound
<1>5. Part(x, n) \in Nat
  BY <1>4, PartDef
<1> QED
  BY <1>1, <1>2, <1>3, <1>4, <1>5 DEF Byte, Top

\* The bytes up to and including byte q.
LEMMA ByteOfNumber ==
  ASSUME NEW n \in Nat, NEW x \in Number(n), NEW q \in 0 .. n - 1
  PROVE  /\ x[q] \in Nat /\ x[q] < Base /\ q \in Nat
         /\ Part(x, q) \in Nat /\ Part(x, q) < Weight(q) /\ Weight(q) \in Nat \ {0}
         /\ Part(x, q + 1) = Part(x, q) + x[q] * Weight(q)
<1>1. q \in 0 .. n /\ q \in Nat /\ Digits(x, n) /\ x[q] \in Byte
  BY NumberDef
<1>2. \A k \in 0 .. n - 1 : x[k] \in Byte
  BY NumberDef
<1>3. Part(x, q) \in Nat /\ Part(x, q + 1) = Part(x, q) + x[q] * Weight(q)
  BY <1>1, PartDef
<1>4. Part(x, q) < Weight(q)
  BY <1>1, <1>2, PartBound
<1>5. Weight(q) \in Nat \ {0} /\ Base \in Nat
  BY <1>1, Weights
<1> QED
  BY <1>1, <1>3, <1>4, <1>5 DEF Byte

----------------------------------------------------------------------------
(* Quotients, bits and the bit width.                                        *)

\* Quotient and remainder are the only two numbers that make up u.
LEMMA DivIs ==
  ASSUME NEW u \in Int, NEW d \in Nat \ {0}, NEW q \in Int, NEW r \in Nat, u = q * d + r, r < d
  PROVE  u \div d = q /\ u % d = r
<1> QED
  OBVIOUS

\* Every number is its quotient times the divisor, and the remainder.
LEMMA DivDef ==
  ASSUME NEW u \in Nat, NEW d \in Nat \ {0}
  PROVE  /\ u \div d \in Nat /\ u % d \in Nat
         /\ u = (u \div d) * d + (u % d) /\ u % d < d
<1> QED
  OBVIOUS

\* Dividing by one factor after the other.
LEMMA DivTwice ==
  ASSUME NEW u \in Nat, NEW d \in Nat \ {0}, NEW h \in Nat \ {0}
  PROVE  u \div (d * h) = (u \div d) \div h
<1> DEFINE q == u \div d
           r == u % d
           s == q \div h
           t == q % h
<1>1. q \in Nat /\ r \in Nat /\ u = q * d + r /\ r < d
  BY DivDef
<1> HIDE DEF q, r
<1>2. s \in Nat /\ t \in Nat /\ q = s * h + t /\ t + 1 <= h
  BY <1>1, DivDef
<1> HIDE DEF s, t
<1>3. q * d = s * (d * h) + t * d
  BY <1>1, <1>2
<1>4. (t + 1) * d <= d * h
  BY <1>1, <1>2
<1>5. (t + 1) * d = t * d + d
  BY <1>2
<1>6. u = s * (d * h) + (t * d + r) /\ t * d + r < d * h /\ t * d + r \in Nat /\ d * h \in Nat \ {0}
  BY <1>1, <1>2, <1>3, <1>4, <1>5
<1>7. u \div (d * h) = s
  BY <1>2, <1>6, DivIs
<1> QED
  BY <1>7 DEF q, s

\* A number that is not 0 is between two powers of two.
LEMMA HighestBit ==
  ASSUME NEW v \in Nat \ {0}
  PROVE  \E j \in Nat : Pow2[j] <= v /\ v < Pow2[j + 1]
<1> DEFINE T == {k \in Nat : k < Pow2[k]}
           G == {k \in Nat : v < Pow2[k]}
<1>1. v \in T
  <2>1. 0 \in T
    BY Pow2Def
  <2>2. ASSUME NEW k \in 0 .. v - 1, k \in T PROVE k + 1 \in T
    <3>1. k \in Nat /\ k < Pow2[k]
      BY <2>2
    <3>2. Pow2[k + 1] = 2 * Pow2[k] /\ Pow2[k] \in Nat
      BY <3>1, Pow2Def
    <3> QED
      BY <3>1, <3>2
  <2> HIDE DEF T
  <2> QED
    BY <2>1, <2>2, FromZero
<1>2. v \in G /\ G \subseteq Nat
  BY <1>1
<1>3. PICK m \in G : \A k \in G : m <= k
  <2> HIDE DEF G
  <2> QED
    BY <1>2, Least
<1>4. m # 0
  BY <1>3, Pow2Def
<1>5. m - 1 \in Nat /\ m - 1 \notin G /\ (m - 1) + 1 = m
  BY <1>3, <1>4
<1>6. ~(v < Pow2[m - 1]) /\ Pow2[m - 1] \in Nat
  BY <1>5, Pow2Def
<1> QED
  BY <1>3, <1>5, <1>6

\* The bits of a byte above those that its value needs are not set.
LEMMA BitsOfByte ==
  /\ \A k \in Nat : Bit(0, k) = 0
  /\ \A v \in Byte \ {0} : \E j \in 0 .. ByteBits - 1 :
       /\ Bit(v, j) = 1 /\ \A k \in Nat : k > j => Bit(v, k) = 0
       /\ Pow2[j] <= v /\ v < Pow2[j + 1]
<1>1. ASSUME NEW k \in Nat PROVE Bit(0, k) = 0
  <2>1. Pow2[k] \in Nat \ {0}
    BY Pow2Def
  <2>2. 0 \div Pow2[k] = 0
    BY <2>1
  <2> QED
    BY <2>2 DEF Bit
<1>2. ASSUME NEW v \in Byte \ {0} 
      PROVE  \E j \in 0 .. ByteBits - 1 :
               /\ Bit(v, j) = 1 /\ \A k \in Nat : k > j => Bit(v, k) = 0
               /\ Pow2[j] <= v /\ v < Pow2[j + 1]
  <2>1. v \in Nat \ {0} /\ v < Pow2[ByteBits] /\ ByteBits \in Nat
    BY Weights, ByteBitsAssumption DEF Byte, Base
  <2>2. PICK j \in Nat : Pow2[j] <= v /\ v < Pow2[j + 1]
    BY <2>1, HighestBit
  <2>3. j < ByteBits
    <3>1. SUFFICES ASSUME ByteBits <= j PROVE FALSE
      BY <2>1
    <3>2. CASE ByteBits = j
      BY <2>1, <2>2, <3>2, Pow2Def
    <3>3. CASE ByteBits < j
      <4>1. Pow2[ByteBits] < Pow2[j]
        BY <2>1, <3>3, PowerOrder
      <4> QED
        BY <2>1, <2>2, <4>1, Pow2Def
    <3> QED
      BY <2>1, <3>1, <3>2, <3>3
  <2>4. Bit(v, j) = 1
    <3>1. Pow2[j] \in Nat \ {0} /\ Pow2[j + 1] = 2 * Pow2[j]
      BY Pow2Def
    <3>2. v = 1 * Pow2[j] + (v - Pow2[j]) /\ v - Pow2[j] \in Nat /\ v - Pow2[j] < Pow2[j]
      BY <2>1, <2>2, <3>1
    <3>3. v \div Pow2[j] = 1
      BY <2>1, <3>1, <3>2, DivIs
    <3> QED
      BY <3>3 DEF Bit
  <2>5. ASSUME NEW k \in Nat, k > j PROVE Bit(v, k) = 0
    <3>1. Pow2[j + 1] <= Pow2[k]
      <4>1. CASE k = j + 1
        BY <4>1, Pow2Def
      <4>2. CASE k > j + 1
        BY <4>2, PowerOrder, Pow2Def
      <4> QED
        BY <2>5, <4>1, <4>2
    <3>2. Pow2[k] \in Nat \ {0} /\ Pow2[j + 1] \in Nat
      BY Pow2Def
    <3>3. v = 0 * Pow2[k] + v /\ v < Pow2[k]
      BY <2>1, <2>2, <3>1, <3>2
    <3>4. v \div Pow2[k] = 0
      BY <2>1, <3>2, <3>3, DivIs
    <3> QED
      BY <3>4 DEF Bit
  <2> QED
    BY <2>1, <2>2, <2>3, <2>4, <2>5
<1> QED
  BY <1>1, <1>2

\* Where a number that is not 0 has its highest byte that is not 0.
LEMMA HighestByte ==
  ASSUME NEW n \in Nat, NEW x \in Number(n), ~IsZero(x)
  PROVE  \E q \in 0 .. n - 1 : /\ x[q] # 0 /\ \A k \in q + 1 .. n - 1 : x[k] = 0
                               /\ Value(x) = Part(x, q) + x[q] * Weight(q)
<1> DEFINE G == {k \in 0 .. n : \A j \in k .. n - 1 : x[j] = 0}
<1>1. n \in G /\ G \subseteq Nat
  OBVIOUS
<1>2. PICK m \in G : \A k \in G : m <= k
  <2> HIDE DEF G
  <2> QED
    BY <1>1, Least
<1>3. m # 0
  BY <1>2, NumberDef DEF IsZero
<1>4. m - 1 \in 0 .. n - 1 /\ m - 1 \notin G /\ (m - 1) + 1 = m
  BY <1>2, <1>3
<1>5. x[m - 1] # 0 /\ \A k \in m .. n - 1 : x[k] = 0
  BY <1>2, <1>4
<1>6. Value(x) = Part(x, m)
  <2>1. Digits(x, n) /\ Value(x) = Part(x, n)
    BY NumberDef
  <2>2. m \in Nat /\ m <= n
    BY <1>2
  <2> QED
    BY <1>5, <2>1, <2>2, PartAboveZero
<1>7. Part(x, (m - 1) + 1) = Part(x, m - 1) + x[m - 1] * Weight(m - 1)
  BY <1>4, NumberDef, PartDef
<1> QED
  BY <1>4, <1>5, <1>6, <1>7

\* A number is 0 if and only if all its bytes are.
LEMMA ZeroValue ==
  ASSUME NEW n \in Nat, NEW x \in Number(n)
  PROVE  IsZero(x) <=> Value(x) = 0
<1>1. ASSUME IsZero(x) PROVE Value(x) = 0
  <2>1. \A k \in 0 .. n - 1 : x[k] = 0
    BY <1>1, NumberDef DEF IsZero
  <2>2. Digits(x, n) /\ Value(x) = Part(x, n)
    BY NumberDef
  <2>3. Part(x, n) = Part(x, 0)
    BY <2>1, <2>2, PartAboveZero
  <2> QED
    BY <2>2, <2>3, PartDef
<1>2. ASSUME ~IsZero(x) PROVE Value(x) # 0
  <2>1. PICK q \in 0 .. n - 1 : x[q] # 0 /\ Value(x) = Part(x, q) + x[q] * Weight(q)
    BY <1>2, HighestByte
  <2>2. x[q] \in Nat \ {0} /\ Weight(q) \in Nat \ {0} /\ Part(x, q) \in Nat
    BY <2>1, ByteOfNumber
  <2>3. x[q] * Weight(q) >= 1
    BY <2>2
  <2> QED
    BY <2>1, <2>2, <2>3
<1> QED
  BY <1>1, <1>2

\* The bit width is that of the value.
LEMMA BitwidthIs ==
  ASSUME NEW n \in Nat, NEW x \in Number(n)
  PROVE  /\ Bitwidth(x) \in 0 .. ByteBits * n
         /\ Value(x) < Pow2[Bitwidth(x)]
         /\ Value(x) = 0 => Bitwidth(x) = 0
         /\ Value(x) # 0 => Bitwidth(x) # 0 /\ Pow2[Bitwidth(x) - 1] <= Value(x)
<1> DEFINE bits == ByteBits * n
           On(k) == Bit(x[k \div ByteBits], k % ByteBits) = 1
           S == {k \in 0 .. bits - 1 : \E j \in k .. bits - 1 : On(j)}
<1>1. ByteBits \in Nat \ {0} /\ bits \in Nat
  BY ByteBitsAssumption
<1>2. Bitwidth(x) = Cardinality(S)
  BY NumberDef DEF Bitwidth
<1>3. ASSUME NEW k \in 0 .. bits - 1
      PROVE  /\ k \div ByteBits \in 0 .. n - 1 /\ k % ByteBits \in 0 .. ByteBits - 1
             /\ k = (k \div ByteBits) * ByteBits + (k % ByteBits)
  <2>1. /\ k \div ByteBits \in Nat /\ k % ByteBits \in Nat /\ k % ByteBits < ByteBits
        /\ k = (k \div ByteBits) * ByteBits + (k % ByteBits)
    BY <1>1, DivDef
  <2> DEFINE q == k \div ByteBits
  <2>2. q \in Nat /\ q * ByteBits <= k
    BY <1>1, <2>1
  <2> HIDE DEF q
  <2>3. q < n
    <3>1. SUFFICES ASSUME n <= q PROVE FALSE
      BY <2>2
    <3>2. n * ByteBits <= q * ByteBits
      BY <1>1, <2>2, <3>1
    <3> QED
      BY <1>1, <2>2, <3>2
  <2>4. k \div ByteBits \in 0 .. n - 1
    BY <2>2, <2>3 DEF q
  <2>5. k % ByteBits \in 0 .. ByteBits - 1
    BY <1>1, <2>1
  <2> QED
    BY <2>1, <2>4, <2>5
<1>4. CASE IsZero(x)
  <2>1. ASSUME NEW k \in 0 .. bits - 1 PROVE ~On(k)
    <3>1. k % ByteBits \in Nat /\ x[k \div ByteBits] = 0
      BY <1>3, <1>4, NumberDef DEF IsZero
    <3> QED
      BY <3>1, BitsOfByte
  <2> HIDE DEF On, bits
  <2>2. S = {}
    BY <1>1, <2>1
  <2>3. Bitwidth(x) = 0
    BY <1>2, <2>2, FS_EmptySet
  <2> QED
    BY <1>1, <1>4, <2>3, ZeroValue, Pow2Def DEF bits
<1>5. CASE ~IsZero(x)
  <2>1. PICK q \in 0 .. n - 1 : /\ x[q] # 0 /\ \A k \in q + 1 .. n - 1 : x[k] = 0
                                /\ Value(x) = Part(x, q) + x[q] * Weight(q)
    BY <1>5, HighestByte
  <2>2. x[q] \in Byte \ {0}
    BY <2>1, NumberDef
  <2>3. PICK j \in 0 .. ByteBits - 1 :
               /\ Bit(x[q], j) = 1 /\ \A k \in Nat : k > j => Bit(x[q], k) = 0
               /\ Pow2[j] <= x[q] /\ x[q] < Pow2[j + 1]
    BY <2>2, BitsOfByte
  <2> DEFINE top == q * ByteBits + j
  <2>4. top \in 0 .. bits - 1 /\ top \div ByteBits = q /\ top % ByteBits = j
    <3>1. top \in Nat /\ q \in Nat /\ j \in Nat /\ j < ByteBits /\ q + 1 <= n
      BY <1>1
    <3>2. top \div ByteBits = q /\ top % ByteBits = j
      BY <1>1, <3>1, DivIs
    <3>3. (q + 1) * ByteBits <= n * ByteBits /\ (q + 1) * ByteBits = q * ByteBits + ByteBits
      BY <1>1, <3>1
    <3> QED
      BY <1>1, <3>1, <3>2, <3>3
  <2>5. On(top)
    BY <2>3, <2>4
  <2>6. ASSUME NEW k \in top + 1 .. bits - 1 PROVE ~On(k)
    <3> DEFINE p == k \div ByteBits
               s == k % ByteBits
    <3>1. k \in 0 .. bits - 1
      BY <2>4
    <3>2. p \in 0 .. n - 1 /\ s \in 0 .. ByteBits - 1 /\ k = p * ByteBits + s
      BY <1>3, <3>1
    <3> HIDE DEF p, s
    <3>3. q <= p
      <4>1. SUFFICES ASSUME p + 1 <= q PROVE FALSE
        BY <3>2
      <4>2. (p + 1) * ByteBits <= q * ByteBits /\ (p + 1) * ByteBits = p * ByteBits + ByteBits
        BY <1>1, <3>2, <4>1
      <4> QED
        BY <1>1, <3>2, <4>2
    <3>4. CASE p = q
      <4>1. s > j /\ s \in Nat
        BY <1>1, <3>2, <3>4
      <4>2. Bit(x[p], s) = 0
        BY <2>3, <3>4, <4>1
      <4> QED
        BY <4>2 DEF p, s
    <3>5. CASE p > q
      <4>1. x[p] = 0 /\ s \in Nat
        BY <2>1, <3>2, <3>5
      <4>2. Bit(x[p], s) = 0
        BY <4>1, BitsOfByte
      <4> QED
        BY <4>2 DEF p, s
    <3> QED
      BY <3>2, <3>3, <3>4, <3>5
  <2>7. S = 0 .. top
    <3> HIDE DEF On, top, bits
    <3> QED
      BY <1>1, <2>4, <2>5, <2>6
  <2>8. Bitwidth(x) = top + 1
    <3>1. Cardinality(0 .. top) = top + 1
      BY <2>4, FS_Interval
    <3> QED
      BY <1>2, <2>7, <3>1
  <2>9. Weight(q) * Pow2[j] = Pow2[top] /\ Weight(q) * Pow2[j + 1] = Pow2[top + 1]
    <3>1. ByteBits * q \in Nat /\ ByteBits * q + j = top /\ ByteBits * q + (j + 1) = top + 1 /\ j \in Nat
          /\ j + 1 \in Nat
      BY <1>1
    <3>2. Pow2[ByteBits * q + j] = Pow2[ByteBits * q] * Pow2[j]
      BY <3>1, PowerSum
    <3>3. Pow2[ByteBits * q + (j + 1)] = Pow2[ByteBits * q] * Pow2[j + 1]
      BY <3>1, PowerSum
    <3> QED
      BY <3>1, <3>2, <3>3 DEF Weight
  <2>10. /\ Part(x, q) \in Nat /\ Part(x, q) < Weight(q) /\ Weight(q) \in Nat \ {0}
         /\ x[q] \in Nat /\ Pow2[j] \in Nat /\ Pow2[j + 1] \in Nat
    <3>1. j \in Nat /\ j + 1 \in Nat
      BY <1>1
    <3> QED
      BY <3>1, ByteOfNumber, Pow2Def
  <2>11. Weight(q) * Pow2[j] <= Weight(q) * x[q]
    BY <2>3, <2>10
  <2>12. Weight(q) * (x[q] + 1) <= Weight(q) * Pow2[j + 1]
    BY <2>3, <2>10
  <2>13. Weight(q) * (x[q] + 1) = Weight(q) * x[q] + Weight(q) /\ x[q] * Weight(q) = Weight(q) * x[q]
    BY <2>10
  <2>14. Pow2[top] <= Value(x) /\ Value(x) < Pow2[top + 1]
    BY <2>1, <2>9, <2>10, <2>11, <2>12, <2>13
  <2>15. Value(x) # 0 /\ top \in Nat /\ (top + 1) - 1 = top
    BY <1>5, <2>4, ZeroValue
  <2> HIDE DEF top
  <2> QED
    BY <1>1, <2>4, <2>8, <2>14, <2>15
<1> QED
  BY <1>4, <1>5

\* A number that is less than byte l counts is in the bytes below it.
LEMMA FitsBelow ==
  ASSUME NEW m \in Nat, NEW l \in 0 .. m, NEW x \in Number(m), Value(x) < Weight(l)
  PROVE  Value(x) = Part(x, l)
<1> DEFINE y == Slice(x, l, m - l)
<1>1. l \in Nat /\ m - l \in Nat /\ l + (m - l) = m
  OBVIOUS
<1>2. Digits(x, m) /\ Value(x) = Part(x, m)
  BY NumberDef
<1>3. Digits(y, m - l) /\ Part(x, m) = Part(x, l) + Weight(l) * Part(y, m - l)
  BY <1>1, <1>2, PartSplit
<1>4. Part(x, l) \in Nat /\ Part(y, m - l) \in Nat /\ Weight(l) \in Nat \ {0}
  BY <1>1, <1>2, <1>3, PartDef, Weights
<1> HIDE DEF y
<1>5. CASE Part(y, m - l) = 0
  BY <1>2, <1>3, <1>4, <1>5
<1>6. CASE Part(y, m - l) >= 1
  <2>1. Weight(l) * Part(y, m - l) >= Weight(l)
    BY <1>4, <1>6
  <2> QED
    BY <1>2, <1>3, <1>4, <2>1
<1> QED
  BY <1>4, <1>5, <1>6

\* The number of the greater bit width is the greater number.
LEMMA WiderIsGreater ==
  ASSUME NEW m \in Nat, NEW n \in Nat, NEW x \in Number(m), NEW y \in Number(n),
         Bitwidth(x) > Bitwidth(y)
  PROVE  Value(x) > Value(y)
<1> DEFINE v == Bitwidth(x)
           w == Bitwidth(y)
<1>1. v \in Nat /\ w \in Nat
  BY BitwidthIs, ByteBitsAssumption
<1>2. v - 1 \in Nat /\ v # 0 /\ w <= v - 1
  BY <1>1
<1>3. Pow2[v - 1] <= Value(x) /\ Value(y) < Pow2[w]
  BY <1>2, BitwidthIs
<1> HIDE DEF v, w
<1>4. Pow2[w] <= Pow2[v - 1] /\ Pow2[w] \in Nat /\ Pow2[v - 1] \in Nat
  BY <1>1, <1>2, PowerMonotone
<1>5. Value(x) \in Nat /\ Value(y) \in Nat
  BY NumberDef
<1> QED
  BY <1>3, <1>4, <1>5

\* A set of indices that is not empty has a greatest one.
LEMMA Greatest ==
  ASSUME NEW n \in Nat, NEW T, T \subseteq 0 .. n - 1, T # {}
  PROVE  \E h \in T : \A k \in T : k <= h
<1> DEFINE G == {k \in 0 .. n : \A j \in T : j < k}
<1>1. n \in G /\ G \subseteq Nat
  OBVIOUS
<1>2. PICK m \in G : \A k \in G : m <= k
  <2> HIDE DEF G
  <2> QED
    BY <1>1, Least
<1>3. m # 0
  <2>1. PICK j \in T : TRUE
    OBVIOUS
  <2>2. j \in 0 .. n - 1 /\ j < m
    BY <1>2
  <2> QED
    BY <2>2
<1>4. m - 1 \in 0 .. n /\ m - 1 \notin G
  BY <1>2, <1>3
<1>5. PICK j \in T : ~(j < m - 1)
  BY <1>4
<1>6. j < m /\ \A k \in T : k < m
  BY <1>2
<1>7. j = m - 1
  BY <1>4, <1>5, <1>6
<1> QED
  BY <1>6, <1>7

\* The highest byte in which two arrays differ decides which is greater.
LEMMA HighestDecides ==
  ASSUME NEW x, NEW y, NEW n \in Nat, NEW h \in 0 .. n - 1,
         \A k \in 0 .. n - 1 : x[k] \in Byte /\ y[k] \in Byte,
         x[h] > y[h], \A k \in h + 1 .. n - 1 : x[k] = y[k]
  PROVE  Part(x, n) > Part(y, n)
<1> DEFINE T == {k \in h + 1 .. n : Part(x, k) > Part(y, k)}
<1>1. Digits(x, n) /\ Digits(y, n) /\ Part(y, h) < Weight(h)
  <2>1. h \in 0 .. n /\ (\A k \in 0 .. n - 1 : x[k] \in Byte) /\ (\A k \in 0 .. n - 1 : y[k] \in Byte)
    OBVIOUS
  <2> QED
    BY <2>1, PartBound
<1>2. ASSUME NEW k \in 0 .. n - 1
      PROVE  /\ Part(x, k + 1) = Part(x, k) + x[k] * Weight(k) /\ Part(x, k) \in Nat
             /\ Part(y, k + 1) = Part(y, k) + y[k] * Weight(k) /\ Part(y, k) \in Nat
             /\ x[k] \in Nat /\ y[k] \in Nat /\ Weight(k) \in Nat
  BY <1>1, PartStep
<1>3. h + 1 \in T
  <2>1. x[h] \in Nat /\ y[h] \in Nat /\ Weight(h) \in Nat /\ y[h] + 1 <= x[h]
    BY <1>2
  <2>2. (y[h] + 1) * Weight(h) <= x[h] * Weight(h)
    BY <2>1
  <2>3. (y[h] + 1) * Weight(h) = y[h] * Weight(h) + Weight(h)
    BY <2>1
  <2> QED
    BY <1>1, <1>2, <2>1, <2>2, <2>3
<1>4. ASSUME NEW k \in h + 1 .. n - 1, k \in T PROVE k + 1 \in T
  <2>1. k \in 0 .. n - 1 /\ x[k] = y[k] /\ Part(x, k) > Part(y, k)
    BY <1>4
  <2> QED
    BY <1>2, <2>1
<1> HIDE DEF T
<1>5. h + 1 \in Nat /\ n \in h + 1 .. n
  OBVIOUS
<1>6. n \in T
  BY <1>3, <1>4, <1>5, Upward
<1> QED
  BY <1>6 DEF T

\* long_number_compare orders arrays as the numbers they hold.
LEMMA CompareIs ==
  ASSUME NEW m \in Nat, NEW n \in Nat, NEW x \in Number(m), NEW y \in Number(n)
  PROVE  Compare(x, y) = Sign(Value(x), Value(y))
<1>1. Value(x) \in Nat /\ Value(y) \in Nat /\ Bitwidth(x) \in Nat /\ Bitwidth(y) \in Nat
  BY NumberDef, BitwidthIs, ByteBitsAssumption
<1>2. CASE Bitwidth(x) > Bitwidth(y)
  BY <1>1, <1>2, WiderIsGreater DEF Compare, Sign
<1>3. CASE Bitwidth(x) < Bitwidth(y)
  BY <1>1, <1>3, WiderIsGreater DEF Compare, Sign
<1>4. CASE Bitwidth(x) = Bitwidth(y)
  <2> DEFINE l == Lower(m, n)
             differ == {i_1 \in DOMAIN x \cap DOMAIN y : x[i_1] # y[i_1]}
             highest == CHOOSE h \in differ : \A j \in differ : j <= h
  <2>1. l \in Nat /\ l \in 0 .. m /\ l \in 0 .. n /\ (l = m \/ l = n)
    BY DEF Lower
  <2>2. DOMAIN x \cap DOMAIN y = 0 .. l - 1
    BY NumberDef DEF Lower
  <2> HIDE DEF l
  <2>3. Value(x) < Weight(l) /\ Value(y) < Weight(l)
    <3>1. ByteBits * l \in Nat /\ Weight(l) = Pow2[ByteBits * l]
      BY <2>1, ByteBitsAssumption DEF Weight
    <3>2. Bitwidth(x) <= ByteBits * l
      BY <1>4, <2>1, BitwidthIs, ByteBitsAssumption
    <3>3. Pow2[Bitwidth(x)] <= Pow2[ByteBits * l] 
      BY <1>1, <3>1, <3>2, PowerMonotone
    <3>4. Pow2[Bitwidth(x)] \in Nat /\ Pow2[ByteBits * l] \in Nat
      BY <1>1, <3>1, Pow2Def
    <3> QED
      BY <1>1, <1>4, <3>1, <3>3, <3>4, BitwidthIs
  <2>4. Value(x) = Part(x, l) /\ Value(y) = Part(y, l)
    BY <2>1, <2>3, FitsBelow
  <2>5. \A k \in 0 .. l - 1 : x[k] \in Byte /\ y[k] \in Byte /\ x[k] \in Nat /\ y[k] \in Nat
    BY <2>1, NumberDef DEF Digits
  <2>6. Compare(x, y) = IF differ = {} THEN 0 ELSE IF x[highest] > y[highest] THEN 1 ELSE -1
    BY <1>4 DEF Compare
  <2>7. CASE differ = {}
    <3>1. Agree(x, y, l)
      BY <2>2, <2>7 DEF Agree
    <3>2. Digits(x, l)
      BY <2>5 DEF Digits
    <3>3. Part(y, l) = Part(x, l)
      BY <2>1, <3>1, <3>2, PartSame
    <3> QED
      BY <1>1, <2>4, <2>6, <2>7, <3>3 DEF Sign
  <2>8. CASE differ # {}
    <3>1. differ \subseteq 0 .. l - 1
      BY <2>2
    <3>2. \E h \in differ : \A j \in differ : j <= h
      <4> HIDE DEF differ
      <4> QED
        BY <2>1, <2>8, <3>1, Greatest
    <3>3. highest \in differ /\ \A j \in differ : j <= highest
      BY <3>2
    <3> HIDE DEF highest
    <3>4. highest \in 0 .. l - 1 /\ x[highest] # y[highest]
      BY <3>1, <3>3
    <3>5. ASSUME NEW k \in highest + 1 .. l - 1 PROVE x[k] = y[k]
      <4>1. k \in DOMAIN x \cap DOMAIN y /\ ~(k <= highest)
        BY <2>2, <3>4
      <4> QED
        BY <3>3, <4>1
    <3> HIDE DEF differ
    <3>6. CASE x[highest] > y[highest]
      <4>1. Part(x, l) > Part(y, l)
        BY <2>1, <2>5, <3>4, <3>5, <3>6, HighestDecides
      <4> QED
        BY <1>1, <2>4, <2>6, <2>8, <3>6, <4>1 DEF Sign
    <3>7. CASE y[highest] > x[highest]
      <4>1. Part(y, l) > Part(x, l)
        BY <2>1, <2>5, <3>4, <3>5, <3>7, HighestDecides
      <4>2. ~(x[highest] > y[highest])
        BY <2>5, <3>4, <3>7
      <4> QED
        BY <1>1, <2>4, <2>6, <2>8, <4>1, <4>2 DEF Sign
    <3> QED
      BY <2>5, <3>4, <3>6, <3>7
  <2> QED
    BY <2>7, <2>8
<1> QED
  BY <1>1, <1>2, <1>3, <1>4

----------------------------------------------------------------------------
(* Subtraction.                                                              *)

\* The borrows of long_number_dec, and what it makes of them: the last one
\* passes the bytes that are zero.
Passes(w, x, l, j) == w[l] = 1 /\ \A k \in l .. j - 1 : x[k] = 0

Borrows(w, x, y, l, m) ==
  /\ w[0] = 0
  /\ \A j \in 1 .. l : w[j] = IF x[j - 1] < y[j - 1] + w[j - 1] THEN 1 ELSE 0
  /\ Dec(x, y) = [res |-> [j \in 0 .. m - 1 |->
                            IF j < l THEN Low(x[j] - y[j] - w[j])
                            ELSE IF Passes(w, x, l, j) THEN Low(x[j] - 1)
                            ELSE x[j]],
                  flag |-> Passes(w, x, l, m)]

\* long_number_dec in terms of its borrows: the function Dec defines exists.
LEMMA DecDef ==
  ASSUME NEW m \in Nat, NEW n \in Nat, NEW x \in Number(m), NEW y \in Number(n),
         NEW l, l = Lower(m, n)
  PROVE  \E w \in [0 .. l -> 0 .. 1] : Borrows(w, x, y, l, m)
<1> DEFINE n0 == Lower(Bytes(x), Bytes(y))
           D == [p \in (0 .. 1) \X (1 .. l) |-> IF x[p[2] - 1] < y[p[2] - 1] + p[1] THEN 1 ELSE 0]
           w[j \in 0 .. n0] == IF j = 0 THEN 0 ELSE IF x[j - 1] < y[j - 1] + w[j - 1] THEN 1 ELSE 0
<1>1. n0 = l /\ l \in Nat /\ DOMAIN x = 0 .. m - 1 /\ Bytes(x) = m
  BY NumberDef DEF Lower
<1>2. ASSUME NEW v \in 0 .. 1, NEW j \in 1 .. l
      PROVE  D[<<v, j>>] = (IF x[j - 1] < y[j - 1] + v THEN 1 ELSE 0) /\ D[<<v, j>>] \in 0 .. 1
  OBVIOUS
<1>3. Steps(D, 0 .. 1, l)
  BY <1>2 DEF Steps
<1> HIDE DEF D
<1>4. PICK f \in [0 .. l -> 0 .. 1] : Follows(f, 0, D, l)
  <2>1. l \in Nat /\ 0 \in 0 .. 1
    BY <1>1
  <2> HIDE DEF n0
  <2> QED
    BY <1>3, <2>1, Recursion
<1>5. f = [j \in 0 .. n0 |-> IF j = 0 THEN 0 ELSE IF x[j - 1] < y[j - 1] + f[j - 1] THEN 1 ELSE 0]
  <2>1. ASSUME NEW j \in 1 .. l
        PROVE  f[j] = IF x[j - 1] < y[j - 1] + f[j - 1] THEN 1 ELSE 0
    <3>1. f[j - 1] \in 0 .. 1
      BY <1>1
    <3> QED
      BY <1>2, <1>4, <3>1 DEF Follows
  <2> HIDE DEF n0
  <2> QED
    BY <1>1, <1>4, <2>1 DEF Follows
<1>6. w = [j \in 0 .. n0 |-> IF j = 0 THEN 0 ELSE IF x[j - 1] < y[j - 1] + w[j - 1] THEN 1 ELSE 0]
  BY <1>5, Zenon
<1>7. Dec(x, y) =
        [res |-> [j \in DOMAIN x |->
                    IF j < n0 THEN Low(x[j] - y[j] - w[j])
                    ELSE IF w[n0] = 1 /\ \A k \in n0 .. j - 1 : x[k] = 0 THEN Low(x[j] - 1)
                    ELSE x[j]],
         flag |-> w[n0] = 1 /\ \A k \in n0 .. Bytes(x) - 1 : x[k] = 0]
  BY Zenon DEF Dec
<1> HIDE DEF w, n0
<1>8. w \in [0 .. l -> 0 .. 1] /\ w[0] = 0
      /\ \A j \in 1 .. l : w[j] = IF x[j - 1] < y[j - 1] + w[j - 1] THEN 1 ELSE 0
  BY <1>1, <1>6
<1> QED
  BY <1>1, <1>7, <1>8 DEF Passes, Borrows

\* One byte of a subtraction.
LEMMA BorrowStep ==
  ASSUME NEW h \in 0 .. Base - 1, NEW k \in 0 .. Base - 1, NEW v \in 0 .. 1
  PROVE  /\ Low(h - k - v) \in 0 .. Base - 1
         /\ h + Base * (IF h < k + v THEN 1 ELSE 0) = v + (Low(h - k - v) + k)
<1> DEFINE t == h - k - v
<1>1. Base \in Nat \ {0}
  BY Weights
<1>2. CASE h < k + v
  <2>1. t \in Int /\ t + Base \in Nat /\ t + Base < Base /\ -1 \in Int
    BY <1>1, <1>2
  <2>2. t = (-1) * Base + (t + Base)
    BY <1>1, <2>1
  <2>3. t % Base = t + Base
    <3> HIDE DEF t
    <3> QED
      BY <1>1, <2>1, <2>2, DivIs
  <2> QED
    BY <1>1, <1>2, <2>1, <2>3 DEF Low
<1>3. CASE ~(h < k + v)
  <2>1. t \in Nat /\ t < Base
    BY <1>1, <1>3
  <2>2. t % Base = t
    BY <1>1, <2>1
  <2> QED
    BY <1>1, <1>3, <2>1, <2>2 DEF Low
<1> QED
  BY <1>2, <1>3

\* long_number_dec subtracts modulo the size of x, where the bytes of y beyond
\* that of x play no part, and reports the borrow.
LEMMA DecIs ==
  ASSUME NEW m \in Nat, NEW n \in Nat, NEW x \in Number(m), NEW y \in Number(n),
         NEW l, l = Lower(m, n)
  PROVE  /\ Dec(x, y).res \in Number(m)
         /\ Dec(x, y).flag = (Value(x) < Part(y, l))
         /\ Value(x) >= Part(y, l) => Value(Dec(x, y).res) = Value(x) - Part(y, l)
         /\ Value(x) < Part(y, l) => Value(Dec(x, y).res) = Value(x) - Part(y, l) + Weight(m)
<1> DEFINE res == Dec(x, y).res
           flag == Dec(x, y).flag
<1>1. l \in Nat /\ l \in 0 .. m /\ l \in 0 .. n /\ m \in 0 .. m
  BY DEF Lower
<1>2. PICK w \in [0 .. l -> 0 .. 1] : Borrows(w, x, y, l, m)
  BY DecDef
<1>3. /\ w[0] = 0
      /\ \A j \in 1 .. l : w[j] = IF x[j - 1] < y[j - 1] + w[j - 1] THEN 1 ELSE 0
      /\ res = [j \in 0 .. m - 1 |-> IF j < l THEN Low(x[j] - y[j] - w[j])
                                     ELSE IF Passes(w, x, l, j) THEN Low(x[j] - 1) ELSE x[j]]
      /\ flag = Passes(w, x, l, m)
  BY <1>2 DEF Borrows
<1>4. Base \in Nat /\ Base >= 2
  BY Weights
<1> HIDE DEF res, flag
<1> DEFINE c == [k \in 0 .. m |-> IF k <= l THEN w[k] ELSE IF Passes(w, x, l, k) THEN 1 ELSE 0]
           z == [k \in 0 .. m - 1 |-> IF k < l THEN y[k] ELSE 0]
           u == [k \in 0 .. m - 1 |-> 1 * z[k] + res[k]]
<1>5. (\A k \in 0 .. m : c[k] \in 0 .. 1) /\ c[0] = 0
  BY <1>1, <1>3
<1>6. ASSUME NEW k \in 0 .. m - 1
      PROVE  /\ x[k] \in Nat /\ x[k] < Base /\ z[k] \in Nat
             /\ res[k] \in Byte /\ res[k] \in Nat
             /\ x[k] + Base * c[k + 1] = c[k] + u[k]
  <2>1. x[k] \in Nat /\ x[k] < Base
    BY ByteOfNumber
  <2>2. u[k] = 1 * z[k] + res[k]
    OBVIOUS
  <2>3. CASE k < l
    <3>1. y[k] \in 0 .. Base - 1
      <4>1. k \in 0 .. n - 1
        BY <1>1, <2>3
      <4> QED
        BY <1>4, <4>1, ByteOfNumber
    <3>2. c[k] = w[k] /\ c[k + 1] = w[k + 1] /\ w[k] \in 0 .. 1 /\ z[k] = y[k]
      BY <1>1, <2>3
    <3>3. w[k + 1] = IF x[k] < y[k] + w[k] THEN 1 ELSE 0
      <4>1. k + 1 \in 1 .. l /\ (k + 1) - 1 = k
        BY <1>1, <2>3
      <4> QED
        BY <1>3, <4>1
    <3>4. res[k] = Low(x[k] - y[k] - w[k])
      BY <1>3, <2>3
    <3>5. /\ Low(x[k] - y[k] - w[k]) \in 0 .. Base - 1
          /\ x[k] + Base * (IF x[k] < y[k] + w[k] THEN 1 ELSE 0) = w[k] + (Low(x[k] - y[k] - w[k]) + y[k])
      <4>1. x[k] \in 0 .. Base - 1 /\ w[k] \in 0 .. 1
        BY <1>4, <2>1, <3>2
      <4> QED
        BY <3>1, <4>1, BorrowStep
    <3>6. res[k] \in 0 .. Base - 1 /\ x[k] + Base * w[k + 1] = w[k] + (res[k] + y[k])
      BY <3>3, <3>4, <3>5
    <3> HIDE DEF c, u, z
    <3> QED
      BY <1>4, <2>1, <2>2, <3>1, <3>2, <3>6 DEF Byte
  <2>4. CASE ~(k < l)
    <3>1. z[k] = 0 /\ l <= k /\ k + 1 > l /\ k + 1 \in 0 .. m
      BY <1>1, <2>4
    <3>2. Passes(w, x, l, k + 1) <=> Passes(w, x, l, k) /\ x[k] = 0
      BY <1>1, <3>1 DEF Passes
    <3>3. c[k] = IF Passes(w, x, l, k) THEN 1 ELSE 0
      <4>1. CASE k = l
        <5>1. Passes(w, x, l, k) <=> w[l] = 1
          BY <1>1, <4>1 DEF Passes
        <5>2. c[k] = w[l] /\ w[l] \in 0 .. 1
          BY <1>1, <4>1
        <5> QED
          BY <5>1, <5>2
      <4>2. CASE k > l
        BY <1>1, <4>2
      <4> QED
        BY <1>1, <3>1, <4>1, <4>2
    <3>4. c[k + 1] = IF Passes(w, x, l, k + 1) THEN 1 ELSE 0
      BY <1>1, <3>1
    <3>5. res[k] = IF Passes(w, x, l, k) THEN Low(x[k] - 1) ELSE x[k]
      BY <1>3, <2>4
    <3> HIDE DEF c, u, z
    <3>6. /\ res[k] \in 0 .. Base - 1
          /\ x[k] + Base * c[k + 1] = c[k] + (res[k] + 0)
      <4>1. CASE Passes(w, x, l, k)
        <5>1. /\ Low(x[k] - 0 - 1) \in 0 .. Base - 1
              /\ x[k] + Base * (IF x[k] < 0 + 1 THEN 1 ELSE 0) = 1 + (Low(x[k] - 0 - 1) + 0)
          <6>1. x[k] \in 0 .. Base - 1 /\ 0 \in 0 .. Base - 1 /\ 1 \in 0 .. 1
            BY <1>4, <2>1
          <6> QED
            BY <6>1, BorrowStep
        <5>2. x[k] - 0 - 1 = x[k] - 1 /\ c[k] = 1 /\ (x[k] < 0 + 1 <=> x[k] = 0)
          BY <2>1, <3>3, <4>1
        <5>3. c[k + 1] = IF x[k] = 0 THEN 1 ELSE 0
          BY <3>2, <3>4, <4>1
        <5>4. res[k] = Low(x[k] - 0 - 1)
          BY <3>5, <4>1, <5>2
        <5> QED
          BY <5>1, <5>2, <5>3, <5>4
      <4>2. CASE ~Passes(w, x, l, k)
        <5>1. c[k] = 0 /\ c[k + 1] = 0 /\ res[k] = x[k]
          BY <3>2, <3>3, <3>4, <3>5, <4>2
        <5> QED
          BY <1>4, <2>1, <5>1
      <4> QED
        BY <4>1, <4>2
    <3> QED
      BY <1>4, <2>1, <2>2, <3>1, <3>6 DEF Byte
  <2> QED
    BY <2>3, <2>4
<1>7. res \in Number(m)
  BY <1>3, <1>6 DEF Number
<1>8. Digits(x, m) /\ Digits(res, m) /\ Digits(z, m)
  BY <1>6 DEF Digits
<1>9. Digits(u, m) /\ Part(u, m) = 1 * Part(z, m) + Part(res, m)
  <2>1. Summed(1, z, res, u, m)
    BY <1>8 DEF Summed
  <2> HIDE DEF u, z
  <2> QED
    BY <1>1, <2>1, PartSum
<1>10. Part(z, m) = Part(y, l)
  <2>1. Part(z, m) = Part(z, l)
    <3>1. \A k \in l .. m - 1 : z[k] = 0
      BY <1>1
    <3> HIDE DEF z
    <3> QED
      BY <1>1, <1>8, <3>1, PartAboveZero
  <2>2. Digits(y, l)
    BY <1>1, NumberDef DEF Digits
  <2>3. Agree(y, z, l)
    BY <1>1 DEF Agree
  <2> HIDE DEF z
  <2>4. Part(z, l) = Part(y, l)
    BY <1>1, <2>2, <2>3, PartSame
  <2> QED
    BY <2>1, <2>4
<1>11. flag = (c[m] = 1)
  <2>1. CASE l = m
    BY <1>1, <1>3, <2>1 DEF Passes
  <2>2. CASE l < m
    <3>1. c[m] = IF Passes(w, x, l, m) THEN 1 ELSE 0
      BY <1>1, <2>2
    <3> HIDE DEF c
    <3>2. Passes(w, x, l, m) <=> c[m] = 1
      BY <3>1
    <3> QED
      BY <1>3, <3>2 DEF Passes
  <2> QED
    BY <1>1, <2>1, <2>2
<1>12. Part(x, m) + c[m] * Weight(m) = Part(u, m) + c[0]
  <2>1. Carried(x, u, c, m)
    <3>1. \A k \in 0 .. m - 1 : x[k] + Base * c[k + 1] = c[k] + u[k]
      BY <1>6
    <3>2. \A k \in 0 .. m : c[k] \in Nat
      BY <1>5
    <3> HIDE DEF c, u
    <3> QED
      BY <1>8, <1>9, <3>1, <3>2 DEF Carried
  <2> HIDE DEF c, u
  <2> QED
    BY <1>1, <2>1, Carries
<1>13. /\ Value(x) = Part(x, m) /\ Value(x) \in Nat /\ Value(x) < Weight(m)
       /\ Value(res) = Part(res, m) /\ Value(res) \in Nat /\ Value(res) < Weight(m)
       /\ Weight(m) \in Nat /\ Part(y, l) \in Nat
  BY <1>1, <1>7, NumberDef, PartDef, Weights
<1>14. c[m] \in 0 .. 1 /\ c[0] = 0
  BY <1>1, <1>5
<1> HIDE DEF c, u, z
<1>15. Value(x) + c[m] * Weight(m) = Value(res) + Part(y, l)
  BY <1>9, <1>10, <1>12, <1>13, <1>14
<1>16. CASE c[m] = 0
  BY <1>7, <1>11, <1>13, <1>15, <1>16 DEF res, flag
<1>17. CASE c[m] = 1
  BY <1>7, <1>11, <1>13, <1>15, <1>17 DEF res, flag
<1> QED
  BY <1>14, <1>16, <1>17

----------------------------------------------------------------------------
(* Addition.                                                                 *)

\* The carries w of long_number_plus, which bytes its second loop reaches, and
\* what it makes of the two.
Full(x, n, k) == Top = IF k = n THEN x[n] ELSE Low(x[k] + 1)

Adds(w, v, x, y, n, m) ==
  /\ w[0] = 0
  /\ \A j \in 1 .. n : w[j] = (w[j - 1] + x[j - 1] + y[j - 1]) \div Base
  /\ v[n] <=> w[n] # 0
  /\ \A j \in n + 1 .. m : v[j] <=> v[j - 1] /\ Full(x, n, j - 1)
  /\ Plus(x, y) = [res |-> [j \in 0 .. m - 1 |->
                              IF j < n THEN Low(w[j] + x[j] + y[j])
                              ELSE IF j > n /\ v[j] THEN Low(x[j] + 1)
                              ELSE x[j]],
                   flag |-> v[m], before |-> v[m] /\ m > n]

\* long_number_plus in terms of its carries and of how far its loop gets.
LEMMA PlusDef ==
  ASSUME NEW m \in Nat, NEW n \in 0 .. m, NEW x \in Number(m), NEW y \in Number(n)
  PROVE  \E w \in [0 .. n -> Nat], v \in [n .. m -> BOOLEAN] : Adds(w, v, x, y, n, m)
<1> DEFINE n0 == Bytes(y)
           m0 == Bytes(x)
           D == [p \in Nat \X (1 .. n) |-> (p[1] + x[p[2] - 1] + y[p[2] - 1]) \div Base]
           w[j \in 0 .. n0] ==
             IF j = 0 THEN 0 ELSE (w[j - 1] + x[j - 1] + y[j - 1]) \div Base
           v[j \in n0 .. m0] ==
             IF j = n0 THEN w[n0] # 0
             ELSE v[j - 1] /\ Top = (IF j - 1 = n0 THEN x[n0] ELSE Low(x[j - 1] + 1))
<1>1. n0 = n /\ m0 = m /\ n \in Nat /\ DOMAIN x = 0 .. m - 1
  BY NumberDef
<1>2. ASSUME NEW h \in Nat, NEW j \in 1 .. n
      PROVE  /\ D[<<h, j>>] = (h + x[j - 1] + y[j - 1]) \div Base
             /\ D[<<h, j>>] \in Nat
  <2>1. D[<<h, j>>] = (h + x[j - 1] + y[j - 1]) \div Base
    OBVIOUS
  <2>2. j - 1 \in 0 .. n - 1 /\ j - 1 \in 0 .. m - 1
    BY <1>1
  <2>3. x[j - 1] \in Nat /\ y[j - 1] \in Nat /\ Base \in Nat \ {0}
    <3>1. (\A k \in 0 .. m - 1 : x[k] \in Nat) /\ (\A k \in 0 .. n - 1 : y[k] \in Nat)
      BY <1>1, ByteOfNumber
    <3> QED
      BY <2>2, <3>1, Weights
  <2> QED
    BY <2>1, <2>3
<1>3. Steps(D, Nat, n)
  BY <1>2 DEF Steps
<1> HIDE DEF D
<1>4. PICK f \in [0 .. n -> Nat] : Follows(f, 0, D, n)
  BY <1>1, <1>3, Recursion
<1>5. f = [j \in 0 .. n0 |-> IF j = 0 THEN 0 ELSE (f[j - 1] + x[j - 1] + y[j - 1]) \div Base]
  <2>1. ASSUME NEW j \in 1 .. n PROVE f[j] = (f[j - 1] + x[j - 1] + y[j - 1]) \div Base
    <3>1. f[j - 1] \in Nat
      BY <1>1
    <3> QED
      BY <1>2, <1>4, <3>1 DEF Follows
  <2> HIDE DEF n0
  <2> QED
    BY <1>1, <1>4, <2>1 DEF Follows
<1>6. w = [j \in 0 .. n0 |-> IF j = 0 THEN 0 ELSE (w[j - 1] + x[j - 1] + y[j - 1]) \div Base]
  BY <1>5, Zenon
<1>7. Plus(x, y) =
        [res |-> [j \in DOMAIN x |->
                    IF j < n0 THEN Low(w[j] + x[j] + y[j])
                    ELSE IF j > n0 /\ v[j] THEN Low(x[j] + 1)
                    ELSE x[j]],
         flag |-> v[m0], before |-> v[m0] /\ m0 > n0]
  BY Zenon DEF Plus
<1> HIDE DEF w
<1> DEFINE g == [j \in n0 .. m0 |->
                   w[n0] # 0 /\ \A k \in n0 .. j - 1 : Full(x, n0, k)]
<1>8. g = [j \in n0 .. m0 |->
             IF j = n0 THEN w[n0] # 0
             ELSE g[j - 1] /\ Top = (IF j - 1 = n0 THEN x[n0] ELSE Low(x[j - 1] + 1))]
  <2>1. ASSUME NEW j \in n0 .. m0
        PROVE  (w[n0] # 0 /\ \A k \in n0 .. j - 1 : Full(x, n0, k)) <=>
               (IF j = n0 THEN w[n0] # 0
                ELSE g[j - 1] /\ Top = (IF j - 1 = n0 THEN x[n0] ELSE Low(x[j - 1] + 1)))
    <3>1. n0 \in Nat /\ m0 \in Nat
      BY <1>1
    <3> HIDE DEF n0, m0
    <3>2. CASE j = n0
      BY <3>1, <3>2
    <3>3. CASE j # n0
      <4>1. j - 1 \in n0 .. m0 /\ (j - 1) - 1 = j - 2
        BY <3>1, <3>3
      <4>2. g[j - 1] <=> w[n0] # 0 /\ \A k \in n0 .. j - 2 : Full(x, n0, k)
        BY <4>1
      <4>3. (\A k \in n0 .. j - 1 : Full(x, n0, k)) <=>
            (\A k \in n0 .. j - 2 : Full(x, n0, k)) /\ Full(x, n0, j - 1)
        BY <3>1, <4>1
      <4> QED
        BY <3>3, <4>2, <4>3 DEF Full
    <3> QED
      BY <3>2, <3>3
  <2> HIDE DEF n0, m0
  <2> QED
    BY <2>1
<1> HIDE DEF g
<1>9. v = [j \in n0 .. m0 |->
             IF j = n0 THEN w[n0] # 0
             ELSE v[j - 1] /\ Top = (IF j - 1 = n0 THEN x[n0] ELSE Low(x[j - 1] + 1))]
  BY <1>8, Zenon
<1> HIDE DEF v, n0, m0
<1>10. w[0] = 0 /\ \A j \in 1 .. n : w[j] = (w[j - 1] + x[j - 1] + y[j - 1]) \div Base
  BY <1>1, <1>6
<1>11. w \in [0 .. n -> Nat]
  <2> DEFINE T == {k \in 0 .. n : w[k] \in Nat}
  <2>1. 0 \in T
    BY <1>1, <1>10
  <2>2. ASSUME NEW k \in 0 .. n - 1, k \in T PROVE k + 1 \in T
    <3>1. k + 1 \in 1 .. n /\ k + 1 \in 0 .. n /\ (k + 1) - 1 = k /\ w[k] \in Nat
      BY <1>1, <2>2
    <3>2. D[<<w[k], k + 1>>] = (w[k] + x[k] + y[k]) \div Base /\ D[<<w[k], k + 1>>] \in Nat
      BY <1>2, <3>1
    <3> QED
      BY <1>10, <3>1, <3>2
  <2> HIDE DEF T
  <2>3. \A k \in 0 .. n : k \in T
    BY <1>1, <2>1, <2>2, Upward
  <2>4. w = [j \in 0 .. n |-> w[j]]
    BY <1>1, <1>6
  <2> QED
    BY <2>3, <2>4 DEF T
<1>12. v[n] <=> w[n] # 0
  <2> DEFINE B(j) == IF j = n THEN w[n] # 0
                     ELSE v[j - 1] /\ Top = (IF j - 1 = n THEN x[n] ELSE Low(x[j - 1] + 1))
  <2>1. v = [j \in n .. m |-> B(j)] /\ n \in n .. m
    BY <1>1, <1>9
  <2>2. B(n) <=> w[n] # 0
    OBVIOUS
  <2> HIDE DEF B
  <2>3. v[n] = B(n)
    BY <2>1
  <2> QED
    BY <2>2, <2>3, Zenon
<1>13. ASSUME NEW j \in n + 1 .. m PROVE v[j] <=> v[j - 1] /\ Full(x, n, j - 1)
  <2>1. j \in n .. m /\ j # n
    BY <1>1
  <2> QED
    BY <1>1, <1>9, <2>1 DEF Full
<1>14. v \in [n .. m -> BOOLEAN]
  <2> DEFINE B(j) == IF j = n THEN w[n] # 0
                     ELSE v[j - 1] /\ Top = (IF j - 1 = n THEN x[n] ELSE Low(x[j - 1] + 1))
  <2>1. \A j \in n .. m : B(j) \in BOOLEAN
    OBVIOUS
  <2>2. v = [j \in n .. m |-> B(j)]
    BY <1>1, <1>9
  <2> HIDE DEF B
  <2> QED
    BY <2>1, <2>2
<1>15. Plus(x, y) = [res |-> [j \in 0 .. m - 1 |->
                                IF j < n THEN Low(w[j] + x[j] + y[j])
                                ELSE IF j > n /\ v[j] THEN Low(x[j] + 1)
                                ELSE x[j]],
                     flag |-> v[m], before |-> v[m] /\ m > n]
  BY <1>1, <1>7
<1>16. Adds(w, v, x, y, n, m)
  BY <1>10, <1>12, <1>13, <1>15 DEF Adds
<1> QED
  BY <1>11, <1>14, <1>16

\* A sum of bytes is what stays in the byte and what is carried.
LEMMA CarryStep ==
  ASSUME NEW t \in Nat
  PROVE  Low(t) \in Byte /\ Low(t) \in Nat /\ t \div Base \in Nat /\ t = Low(t) + Base * (t \div Base)
<1>1. Base \in Nat \ {0}
  BY Weights
<1> QED
  BY <1>1, DivDef DEF Low, Byte

\* Two arrays that agree from byte n on differ by what is below it.
LEMMA PartAbove ==
  ASSUME NEW m \in Nat, NEW n \in 0 .. m, NEW x, NEW y, Digits(x, m), Digits(y, m),
         \A k \in n .. m - 1 : y[k] = x[k]
  PROVE  Part(y, m) + Part(x, n) = Part(x, m) + Part(y, n)
<1> DEFINE T == {k \in n .. m : Part(y, k) + Part(x, n) = Part(x, k) + Part(y, n)}
<1>1. Part(x, n) \in Nat /\ Part(y, n) \in Nat /\ n \in Nat
  BY PartDef
<1>2. n \in T
  BY <1>1
<1>3. ASSUME NEW k \in n .. m - 1, k \in T PROVE k + 1 \in T
  <2>1. k \in 0 .. m - 1 /\ y[k] = x[k]
    OBVIOUS
  <2>2. /\ Part(x, k + 1) = Part(x, k) + x[k] * Weight(k) /\ Part(x, k) \in Nat
        /\ Part(y, k + 1) = Part(y, k) + y[k] * Weight(k) /\ Part(y, k) \in Nat
        /\ x[k] \in Nat /\ Weight(k) \in Nat
    BY <2>1, PartStep
  <2>3. x[k] * Weight(k) \in Nat
    BY <2>2
  <2> QED
    BY <1>1, <1>3, <2>1, <2>2, <2>3
<1> HIDE DEF T
<1>4. m \in T
  <2>1. m \in n .. m
    OBVIOUS
  <2> QED
    BY <1>1, <1>2, <1>3, <2>1, Upward
<1> QED
  BY <1>4 DEF T

\* long_number_plus adds y to the low bytes of x.  A carry out of them is
\* reported where x has no more bytes; it is lost where the next one is not
\* full.
LEMMA PlusIs ==
  ASSUME NEW m \in Nat, NEW n \in 0 .. m, NEW x \in Number(m), NEW y \in Number(n)
  PROVE  LET low == Part(x, n) + Part(y, n) IN
         /\ Plus(x, y).res \in Number(m) /\ Plus(x, y).flag \in BOOLEAN
         /\ Plus(x, y).before <=> Plus(x, y).flag /\ m > n
         /\ low < Weight(n) => /\ Value(Plus(x, y).res) = Value(x) + Part(y, n)
                               /\ ~Plus(x, y).flag
         /\ m = n => /\ Value(Plus(x, y).res) = low % Weight(n)
                     /\ Plus(x, y).flag <=> low >= Weight(n)
         /\ m > n /\ low >= Weight(n) /\ x[n] # Top =>
              Value(Plus(x, y).res) = Value(x) + Part(y, n) - Weight(n) /\ ~Plus(x, y).flag
<1> DEFINE res == Plus(x, y).res
           flag == Plus(x, y).flag
           low == Part(x, n) + Part(y, n)
<1>1. n \in Nat /\ m \in n .. m
  OBVIOUS
<1>2. PICK w \in [0 .. n -> Nat], v \in [n .. m -> BOOLEAN] : Adds(w, v, x, y, n, m)
  BY PlusDef
<1>3. /\ w[0] = 0
      /\ \A j \in 1 .. n : w[j] = (w[j - 1] + x[j - 1] + y[j - 1]) \div Base
      /\ v[n] <=> w[n] # 0
      /\ \A j \in n + 1 .. m : v[j] <=> v[j - 1] /\ Full(x, n, j - 1)
      /\ res = [j \in 0 .. m - 1 |->
                  IF j < n THEN Low(w[j] + x[j] + y[j])
                  ELSE IF j > n /\ v[j] THEN Low(x[j] + 1) ELSE x[j]]
      /\ flag = v[m]
  BY <1>2 DEF Adds
<1>18. Plus(x, y).before <=> flag /\ m > n
  <2>1. PICK s : s = [j \in 0 .. m - 1 |->
                        IF j < n THEN Low(w[j] + x[j] + y[j])
                        ELSE IF j > n /\ v[j] THEN Low(x[j] + 1) ELSE x[j]]
    OBVIOUS
  <2>2. Plus(x, y) = [res |-> s, flag |-> v[m], before |-> v[m] /\ m > n]
    BY <1>2, <2>1 DEF Adds
  <2>3. PICK g, d : g = v[m] /\ d = (v[m] /\ m > n)
    OBVIOUS
  <2>4. Plus(x, y) = [res |-> s, flag |-> g, before |-> d]
    BY <2>2, <2>3
  <2>5. Plus(x, y).flag = g /\ Plus(x, y).before = d
    BY <2>4
  <2> QED
    BY <2>3, <2>5
<1> HIDE DEF res, flag
<1>4. ASSUME NEW k \in 0 .. m - 1 PROVE x[k] \in Nat /\ x[k] \in Byte
  BY NumberDef, ByteOfNumber
<1>5. ASSUME NEW k \in 0 .. n - 1 PROVE y[k] \in Nat /\ x[k] \in Nat /\ w[k] \in Nat /\ k \in 0 .. m - 1
  <2>1. k \in 0 .. m - 1 /\ k \in 0 .. n
    BY <1>1
  <2>2. y[k] \in Nat
    BY <1>1, ByteOfNumber
  <2>3. x[k] \in Nat
    BY <1>4, <2>1
  <2> QED
    BY <2>1, <2>2, <2>3
<1>6. ASSUME NEW k \in 0 .. n - 1
      PROVE  res[k] \in Byte /\ res[k] + Base * w[k + 1] = w[k] + (x[k] + y[k])
  <2>1. w[k + 1] = (w[k] + x[k] + y[k]) \div Base
    <3>1. k + 1 \in 1 .. n /\ (k + 1) - 1 = k
      BY <1>1
    <3> QED
      BY <1>3, <3>1
  <2>2. res[k] = Low(w[k] + x[k] + y[k])
    BY <1>3, <1>5
  <2> DEFINE t == w[k] + x[k] + y[k]
  <2>3. t \in Nat /\ t = w[k] + (x[k] + y[k])
    BY <1>5
  <2> HIDE DEF t
  <2>4. Low(t) \in Byte /\ Low(t) \in Nat /\ t \div Base \in Nat /\ t = Low(t) + Base * (t \div Base)
    BY <2>3, CarryStep
  <2> QED
    BY <2>1, <2>2, <2>3, <2>4 DEF t
<1>7. res \in Number(m)
  <2>1. ASSUME NEW k \in 0 .. m - 1 PROVE res[k] \in Byte
    <3>1. CASE k < n
      BY <1>1, <1>6, <3>1
    <3>2. CASE ~(k < n)
      <4>1. x[k] + 1 \in Nat /\ x[k] \in Byte
        BY <1>4
      <4>2. res[k] = Low(x[k] + 1) \/ res[k] = x[k]
        BY <1>3, <3>2
      <4> QED
        BY <4>1, <4>2, CarryStep
    <3> QED
      BY <3>1, <3>2
  <2> QED
    BY <1>3, <2>1 DEF Number
<1>8. Digits(x, m) /\ Digits(res, m) /\ Digits(x, n) /\ Digits(y, n) /\ Digits(res, n)
  <2>1. Digits(x, m) /\ Digits(res, m) /\ Digits(y, n)
    BY <1>1, <1>7, NumberDef
  <2> QED
    BY <1>1, <2>1 DEF Digits
<1>9. Part(res, n) + w[n] * Weight(n) = low
  <2> DEFINE u == [k \in 0 .. n - 1 |-> 1 * x[k] + y[k]]
  <2>1. Summed(1, x, y, u, n)
    BY <1>8 DEF Summed
  <2>2. \A k \in 0 .. n - 1 : u[k] = x[k] + y[k]
    BY <1>5
  <2> HIDE DEF u
  <2>3. Digits(u, n) /\ Part(u, n) = 1 * Part(x, n) + Part(y, n)
    BY <1>1, <2>1, PartSum
  <2>4. Carried(res, u, w, n)
    BY <1>6, <1>8, <2>2, <2>3 DEF Carried
  <2>5. Part(res, n) + w[n] * Weight(n) = Part(u, n) + w[0]
    BY <1>1, <2>4, Carries
  <2>6. Part(x, n) \in Nat /\ Part(y, n) \in Nat
    BY <1>1, <1>8, PartDef
  <2> QED
    BY <1>3, <2>3, <2>5, <2>6
<1>10. /\ Part(res, n) \in Nat /\ Part(res, n) < Weight(n) /\ Weight(n) \in Nat \ {0}
       /\ Part(x, n) \in Nat /\ Part(x, n) < Weight(n)
       /\ Part(y, n) \in Nat /\ Part(y, n) < Weight(n) /\ w[n] \in Nat
  <2>1. \A k \in 0 .. n - 1 : x[k] \in Byte
    BY <1>4, <1>5
  <2>2. \A k \in 0 .. n - 1 : y[k] \in Byte
    BY <1>1, NumberDef
  <2>3. \A k \in 0 .. n - 1 : res[k] \in Byte
    BY <1>6
  <2>4. n \in 0 .. n
    BY <1>1
  <2>5. Part(x, n) < Weight(n) /\ Part(y, n) < Weight(n) /\ Part(res, n) < Weight(n)
    BY <1>1, <2>1, <2>2, <2>3, <2>4, PartBound
  <2>6. Part(res, n) \in Nat /\ Part(x, n) \in Nat /\ Part(y, n) \in Nat
    BY <1>1, <1>8, <2>4, PartDef
  <2> QED
    BY <1>1, <2>4, <2>5, <2>6, Weights
<1> HIDE DEF low
<1>11. w[n] = (IF low < Weight(n) THEN 0 ELSE 1) /\ low \in Nat
  <2>1. CASE w[n] = 0
    BY <1>9, <1>10, <2>1 DEF low
  <2>2. CASE w[n] = 1
    BY <1>9, <1>10, <2>2 DEF low
  <2>3. CASE w[n] >= 2
    <3>1. w[n] * Weight(n) >= 2 * Weight(n)
      <4>1. PICK d \in Nat : w[n] = d + 2
        <5>1. w[n] \in Nat
          BY <1>10
        <5>2. w[n] - 2 \in Nat /\ w[n] = (w[n] - 2) + 2
          BY <2>3, <5>1
        <5> QED
          BY <5>2
      <4>2. (d + 2) * Weight(n) = d * Weight(n) + 2 * Weight(n) /\ d * Weight(n) >= 0
        BY <1>10
      <4> QED
        BY <1>10, <4>1, <4>2
    <3> QED
      BY <1>9, <1>10, <3>1 DEF low
  <2> QED
    BY <1>10, <2>1, <2>2, <2>3
<1>12. Value(x) = Part(x, m) /\ Value(x) \in Nat /\ Value(res) = Part(res, m) /\ Value(res) \in Nat
  BY <1>7, NumberDef
<1>13. ASSUME \A k \in n + 1 .. m : ~v[k]
       PROVE  Value(res) + Part(x, n) = Value(x) + Part(res, n)
  <2>1. \A k \in n .. m - 1 : res[k] = x[k]
    BY <1>1, <1>3, <1>13
  <2> QED
    BY <1>8, <1>12, <2>1, PartAbove
<1>14. ASSUME low < Weight(n)
       PROVE  Value(res) = Value(x) + Part(y, n) /\ ~flag
  <2> DEFINE T == {k \in n .. m : ~v[k]}
  <2>1. n \in T
    BY <1>1, <1>3, <1>11, <1>14
  <2>2. ASSUME NEW k \in n .. m - 1, k \in T PROVE k + 1 \in T
    <3>1. k + 1 \in n + 1 .. m /\ (k + 1) - 1 = k /\ ~v[k]
      BY <1>1, <2>2
    <3> QED
      BY <1>1, <1>3, <3>1
  <2> HIDE DEF T
  <2>3. \A k \in n .. m : k \in T
    BY <1>1, <2>1, <2>2, Upward
  <2>4. \A k \in n .. m : ~v[k]
    BY <2>3 DEF T
  <2>5. Value(res) + Part(x, n) = Value(x) + Part(res, n)
    BY <1>1, <1>13, <2>4
  <2>6. ~flag
    BY <1>1, <1>3, <2>4
  <2>7. w[n] = 0
    BY <1>11, <1>14
  <2>8. Part(res, n) = low
    BY <1>9, <1>10, <2>7
  <2>9. Value(res) + Part(x, n) = Value(x) + (Part(x, n) + Part(y, n))
    BY <2>5, <2>8 DEF low
  <2>10. Value(res) = Value(x) + Part(y, n)
    <3>1. /\ Part(x, n) \in Int /\ Part(y, n) \in Int
          /\ Value(x) \in Int /\ Value(res) \in Int
      BY <1>10, <1>12
    <3>2. PICK e, f, g, h : e = Value(res) /\ f = Part(x, n) /\ g = Part(y, n) /\ h = Value(x)
      OBVIOUS
    <3>3. e + f = h + (f + g) /\ e \in Int /\ f \in Int /\ g \in Int /\ h \in Int
      BY <2>9, <3>1, <3>2
    <3>4. e = h + g
      BY <3>3
    <3> QED
      BY <3>2, <3>4
  <2> QED
    BY <2>6, <2>10
<1>15. ASSUME m = n PROVE Value(res) = low % Weight(n) /\ (flag <=> low >= Weight(n))
  <2>1. low = w[n] * Weight(n) + Value(res) /\ Value(res) < Weight(n)
    BY <1>9, <1>10, <1>12, <1>15
  <2>2. low % Weight(n) = Value(res)
    <3>1. low \in Int /\ w[n] \in Int /\ Weight(n) \in Nat \ {0} /\ Value(res) \in Nat
      BY <1>10, <1>11, <1>12
    <3> QED
      BY <2>1, <3>1, DivIs
  <2>3. flag <=> low >= Weight(n)
    BY <1>3, <1>10, <1>11, <1>15
  <2> QED
    BY <2>2, <2>3
<1>16. ASSUME m > n, low >= Weight(n), x[n] # Top
       PROVE  Value(res) = Value(x) + Part(y, n) - Weight(n) /\ ~flag
  <2> DEFINE T == {k \in n + 1 .. m : ~v[k]}
  <2>1. n + 1 \in T
    <3>1. n + 1 \in n + 1 .. m /\ (n + 1) - 1 = n /\ ~Full(x, n, n)
      BY <1>1, <1>16 DEF Full
    <3> QED
      BY <1>1, <1>3, <3>1
  <2>2. ASSUME NEW k \in n + 1 .. m - 1, k \in T PROVE k + 1 \in T
    <3>1. k + 1 \in n + 1 .. m /\ (k + 1) - 1 = k /\ ~v[k]
      BY <1>1, <2>2
    <3> QED
      BY <1>1, <1>3, <3>1
  <2> HIDE DEF T
  <2>3. \A k \in n + 1 .. m : k \in T
    <3>1. n + 1 \in Nat
      BY <1>1
    <3> QED
      BY <2>1, <2>2, <3>1, Upward
  <2>4. \A k \in n + 1 .. m : ~v[k]
    BY <2>3 DEF T
  <2>5. Value(res) + Part(x, n) = Value(x) + Part(res, n)
    BY <1>13, <2>4
  <2>6. ~flag
    BY <1>1, <1>3, <1>16, <2>4
  <2>7. w[n] = 1
    BY <1>10, <1>11, <1>16
  <2>8. Part(res, n) + Weight(n) = low
    BY <1>9, <1>10, <2>7
  <2>9. PICK e, f, g, h, q, d : /\ e = Value(res) /\ f = Part(x, n) /\ g = Part(y, n) /\ h = Value(x)
                                /\ q = Part(res, n) /\ d = Weight(n)
    OBVIOUS
  <2>10. e \in Nat /\ f \in Nat /\ g \in Nat /\ h \in Nat /\ q \in Nat /\ d \in Nat
    BY <1>10, <1>12, <2>9
  <2>11. e + f = h + q /\ q + d = f + g
    BY <2>5, <2>8, <2>9 DEF low
  <2>12. e = h + g - d
    BY <2>10, <2>11
  <2> QED
    BY <2>6, <2>9, <2>12
<1>17. flag \in BOOLEAN
  BY <1>1, <1>3
<1> QED
  BY <1>7, <1>14, <1>15, <1>16, <1>17, <1>18 DEF res, flag, low

----------------------------------------------------------------------------
(* Shifts.                                                                   *)

\* A byte that is shifted by part of its bits, p being the power of two and g
\* that of the bits that are left.
LEMMA ShiftStep ==
  ASSUME NEW p \in Nat \ {0}, NEW g \in Nat \ {0}, p * g = Base, NEW h \in 0 .. Base - 1
  PROVE  /\ (h * p) % Base = (h % g) * p /\ (h % g) * p \in Nat
         /\ (h % g) * p + p <= Base
         /\ h \div g \in Nat /\ h \div g < p
         /\ h * p = (h % g) * p + Base * (h \div g)
<1> DEFINE q == h \div g
           r == h % g
<1>1. Base \in Nat \ {0} /\ h \in Nat /\ h < Base
  BY Weights
<1>2. q \in Nat /\ r \in Nat /\ h = q * g + r /\ r + 1 <= g
  BY <1>1, DivDef
<1> HIDE DEF q, r
<1>3. (q * g) * p = q * Base
  BY <1>2
<1>4. h * p = q * Base + r * p
  BY <1>2, <1>3
<1>5. (r + 1) * p <= g * p /\ (r + 1) * p = r * p + p /\ g * p = Base
  BY <1>2
<1>6. r * p \in Nat /\ r * p < Base
  BY <1>2, <1>5
<1>7. (h * p) % Base = r * p
  <2>1. h * p \in Int /\ q \in Int
    BY <1>1, <1>2
  <2> QED
    BY <1>1, <1>4, <1>6, <2>1, DivIs
<1>8. q < p
  <2>1. SUFFICES ASSUME p <= q PROVE FALSE
    BY <1>2
  <2>2. p * g <= q * g
    BY <1>2, <2>1
  <2> QED
    BY <1>1, <1>2, <2>2
<1>9. q * Base = Base * q
  BY <1>1, <1>2
<1> QED
  BY <1>2, <1>4, <1>5, <1>6, <1>7, <1>8, <1>9 DEF q, r

\* A number of bits is whole bytes and less than one byte.
LEMMA BitsSplit ==
  ASSUME NEW bits \in Nat, NEW k, k = bits \div ByteBits, NEW s, s = bits % ByteBits
  PROVE  /\ k \in Nat /\ s \in Nat /\ s < ByteBits /\ bits = k * ByteBits + s
         /\ Pow2[bits] = Weight(k) * Pow2[s] /\ Pow2[s] * Pow2[ByteBits - s] = Base
         /\ Pow2[s] \in Nat \ {0} /\ Pow2[ByteBits - s] \in Nat \ {0} /\ Pow2[bits] \in Nat \ {0}
<1>1. ByteBits \in Nat \ {0}
  BY ByteBitsAssumption
<1>2. k \in Nat /\ s \in Nat /\ s < ByteBits /\ bits = k * ByteBits + s
  BY <1>1, DivDef
<1>3. ByteBits * k \in Nat /\ ByteBits * k + s = bits /\ ByteBits - s \in Nat /\ s + (ByteBits - s) = ByteBits
  BY <1>1, <1>2
<1>4. Pow2[ByteBits * k + s] = Pow2[ByteBits * k] * Pow2[s]
  BY <1>2, <1>3, PowerSum
<1>5. Pow2[s + (ByteBits - s)] = Pow2[s] * Pow2[ByteBits - s]
  BY <1>2, <1>3, PowerSum
<1> QED
  BY <1>2, <1>3, <1>4, <1>5, Pow2Def DEF Weight, Base

\* long_number_left_shift multiplies by a power of two, in the bytes it has.
LEMMA LeftShiftIs ==
  ASSUME NEW m \in Nat, NEW x \in Number(m), NEW bits \in Nat
  PROVE  /\ LeftShift(x, bits) \in Number(m)
         /\ Value(LeftShift(x, bits)) = (Value(x) * Pow2[bits]) % Weight(m)
<1> DEFINE k == bits \div ByteBits
           s == bits % ByteBits
           p == Pow2[s]
           g == Pow2[ByteBits - s]
           res == LeftShift(x, bits)
<1>1. /\ k \in Nat /\ Pow2[bits] = Weight(k) * p /\ p * g = Base
      /\ p \in Nat \ {0} /\ g \in Nat \ {0} /\ Pow2[bits] \in Nat \ {0}
  BY BitsSplit
<1>2. res = [i_1 \in 0 .. m - 1 |->
               IF i_1 < k THEN 0
               ELSE IF i_1 = k THEN (x[0] * p) % Base
               ELSE ((x[i_1 - k] * p) % Base) + (x[i_1 - k - 1] \div g)]
  BY NumberDef DEF LeftShift, Shl, Shr
<1> HIDE DEF k, s, p, g, res
<1>3. ASSUME NEW h \in 0 .. Base - 1
      PROVE  /\ (h * p) % Base = (h % g) * p /\ (h % g) * p \in Nat
             /\ (h % g) * p + p <= Base
             /\ h \div g \in Nat /\ h \div g < p
             /\ h * p = (h % g) * p + Base * (h \div g)
  BY <1>1, ShiftStep
<1>4. /\ \A j \in 0 .. m - 1 : x[j] \in 0 .. Base - 1 /\ x[j] \in Nat
      /\ Base \in Nat \ {0}
  <2>1. \A j \in 0 .. m - 1 : x[j] \in Nat /\ x[j] < Base
    BY ByteOfNumber
  <2> QED
    BY <2>1, Weights
<1>5. ASSUME NEW j \in 0 .. m - 1 PROVE res[j] \in 0 .. Base - 1
  <2>1. CASE j < k
    BY <1>2, <1>4, <2>1
  <2>2. CASE j = k
    <3>1. 0 \in 0 .. m - 1
      BY <1>1, <2>2
    <3>2. res[j] = (x[0] * p) % Base /\ x[0] \in 0 .. Base - 1
      BY <1>1, <1>2, <1>4, <2>2, <3>1
    <3>3. (x[0] * p) % Base \in Nat /\ ((x[0] * p) % Base) + p <= Base
      BY <1>3, <3>2
    <3>4. p \in Nat \ {0} /\ Base \in Nat
      BY <1>1, <1>4
    <3> QED
      BY <3>2, <3>3, <3>4
  <2>3. CASE j > k
    <3>1. j - k \in 0 .. m - 1 /\ j - k - 1 \in 0 .. m - 1
      BY <1>1, <2>3
    <3>2. res[j] = ((x[j - k] * p) % Base) + (x[j - k - 1] \div g)
          /\ x[j - k] \in 0 .. Base - 1 /\ x[j - k - 1] \in 0 .. Base - 1
      BY <1>1, <1>2, <1>4, <2>3, <3>1
    <3>3. (x[j - k] * p) % Base \in Nat /\ ((x[j - k] * p) % Base) + p <= Base
      BY <1>3, <3>2
    <3>4. x[j - k - 1] \div g \in Nat /\ x[j - k - 1] \div g < p
      BY <1>3, <3>2
    <3> QED
      BY <1>1, <1>4, <3>2, <3>3, <3>4
  <2> QED
    BY <1>1, <2>1, <2>2, <2>3
<1>6. res \in Number(m)
  BY <1>2, <1>5 DEF Number, Byte
<1>7. /\ Value(x) = Part(x, m) /\ Value(x) \in Nat /\ Digits(x, m)
      /\ Value(res) = Part(res, m) /\ Value(res) \in Nat /\ Value(res) < Weight(m) /\ Digits(res, m)
      /\ Weight(m) \in Nat \ {0}
  BY <1>6, NumberDef, Weights
<1>8. CASE m <= k
  <2>1. Value(res) = 0
    <3>1. \A j \in 0 .. m - 1 : res[j] = 0
      BY <1>1, <1>2, <1>8
    <3>2. Part(res, m) = Part(res, 0)
      BY <1>7, <3>1, PartAboveZero
    <3> QED
      BY <1>7, <3>2, PartDef
  <2>2. Weight(k) = Weight(m) * Weight(k - m) /\ Weight(k - m) \in Nat
    <3>1. k - m \in Nat /\ m + (k - m) = k
      BY <1>1, <1>8
    <3>2. Weight(m + (k - m)) = Weight(m) * Weight(k - m)
      BY <3>1, WeightSum
    <3> QED
      BY <3>1, <3>2, Weights
  <2> DEFINE c == Value(x) * (Weight(k - m) * p)
  <2>3. c \in Nat /\ Value(x) * Pow2[bits] = c * Weight(m) + 0
    BY <1>1, <1>7, <2>2
  <2>4. (Value(x) * Pow2[bits]) % Weight(m) = 0
    <3> HIDE DEF c
    <3>1. Value(x) * Pow2[bits] \in Int /\ c \in Int /\ 0 \in Nat /\ 0 < Weight(m)
      BY <1>1, <1>7, <2>3
    <3> QED
      BY <1>7, <2>3, <3>1, DivIs
  <2> QED
    BY <1>6, <2>1, <2>4 DEF res
<1>9. CASE k < m
  <2> DEFINE n == m - k
             y == Slice(res, k, n)
             z == Slice(x, n, k)
             u == [j \in 0 .. n - 1 |-> p * x[j] + 0]
             w == [j \in 0 .. n |-> IF j = 0 THEN 0 ELSE x[j - 1] \div g]
             zero == [j \in 0 .. n - 1 |-> 0]
  <2>1. n \in Nat /\ k + n = m /\ n + k = m /\ n \in 0 .. m /\ k \in 0 .. m /\ n >= 1
    BY <1>1, <1>9
  <2> HIDE DEF n
  <2>2. Digits(y, n) /\ Part(res, m) = Part(res, k) + Weight(k) * Part(y, n)
    <3>1. Digits(res, k + n)
      BY <1>7, <2>1
    <3>2. Digits(y, n) /\ Part(res, k + n) = Part(res, k) + Weight(k) * Part(y, n)
      BY <1>1, <2>1, <3>1, PartSplit
    <3> QED
      BY <2>1, <3>2
  <2>3. Part(res, k) = 0
    <3>1. \A j \in 0 .. k - 1 : res[j] = 0
      BY <1>2, <2>1
    <3>2. Digits(res, k)
      BY <3>1 DEF Digits
    <3>3. Part(res, k) = Part(res, 0)
      BY <1>1, <3>1, <3>2, PartAboveZero
    <3> QED
      BY <1>1, <3>2, <3>3, PartDef
  <2>4. Digits(z, k) /\ Part(x, m) = Part(x, n) + Weight(n) * Part(z, k)
    <3>1. Digits(x, n + k)
      BY <1>7, <2>1
    <3>2. Digits(z, k) /\ Part(x, n + k) = Part(x, n) + Weight(n) * Part(z, k)
      BY <1>1, <2>1, <3>1, PartSplit
    <3> QED
      BY <2>1, <3>2
  <2>5. Digits(x, n)
    BY <1>7, <2>1 DEF Digits
  <2>6. ASSUME NEW j \in 0 .. n - 1
        PROVE y[j] + Base * w[j + 1] = w[j] + u[j] /\ w[j] \in Nat /\ w[j + 1] \in Nat
    <3>1. j \in 0 .. m - 1 /\ j \in 0 .. n /\ j + 1 \in 0 .. n /\ k + j \in 0 .. m - 1 /\ j + 1 # 0
          /\ (k + j) - k = j /\ (j + 1) - 1 = j
      BY <1>1, <2>1
    <3>2. x[j] \in 0 .. Base - 1 /\ x[j] \in Nat
      BY <1>4, <3>1
    <3>3. /\ x[j] * p = ((x[j] * p) % Base) + Base * (x[j] \div g)
          /\ x[j] \div g \in Nat /\ (x[j] * p) % Base \in Nat
      BY <1>3, <3>2
    <3>4. w[j + 1] = x[j] \div g
      BY <3>1
    <3>5. u[j] = p * x[j] + 0
      OBVIOUS
    <3>6. y[j] = res[k + j]
      BY <2>1 DEF Slice
    <3>7. y[j] = ((x[j] * p) % Base) + w[j] /\ w[j] \in Nat
      <4>1. CASE j = 0
        <5>1. res[k + j] = (x[0] * p) % Base /\ w[j] = 0
          BY <1>1, <1>2, <3>1, <4>1
        <5> QED
          BY <3>3, <3>6, <4>1, <5>1
      <4>2. CASE j > 0
        <5>1. j - 1 \in 0 .. m - 1 /\ (k + j) - k - 1 = j - 1 /\ ~(k + j < k) /\ k + j # k
          BY <1>1, <3>1, <4>2
        <5>2. res[k + j] = ((x[j] * p) % Base) + (x[j - 1] \div g)
          BY <1>2, <3>1, <5>1
        <5>3. w[j] = x[j - 1] \div g
          BY <3>1, <4>2
        <5>4. x[j - 1] \div g \in Nat
          BY <1>3, <1>4, <5>1
        <5> QED
          BY <3>6, <5>2, <5>3, <5>4
      <4> QED
        BY <3>1, <4>1, <4>2
    <3>8. p * x[j] = x[j] * p /\ p * x[j] \in Nat
      BY <1>1, <3>2
    <3> HIDE DEF u, w, y
    <3>9. y[j] + Base * w[j + 1] = w[j] + u[j]
      <4> DEFINE lo == (x[j] * p) % Base
                 hi == Base * (x[j] \div g)
      <4>1. lo \in Nat /\ hi \in Nat /\ x[j] * p = lo + hi /\ y[j] = lo + w[j] /\ Base * w[j + 1] = hi
        BY <1>4, <3>3, <3>4, <3>7
      <4> HIDE DEF lo, hi
      <4> QED
        BY <3>5, <3>7, <3>8, <4>1
    <3> QED
      BY <3>3, <3>4, <3>7, <3>9
  <2>7. Digits(u, n) /\ Part(u, n) = p * Part(x, n) + Part(zero, n)
    <3>1. Summed(p, x, zero, u, n)
      BY <2>5 DEF Summed, Digits
    <3>2. n \in 0 .. n
      BY <2>1
    <3> HIDE DEF u, zero
    <3> QED
      BY <1>1, <2>1, <3>1, <3>2, PartSum
  <2>8. Part(zero, n) = 0
    <3>1. Digits(zero, n) /\ \A j \in 0 .. n - 1 : zero[j] = 0
      BY DEF Digits
    <3> HIDE DEF zero
    <3>2. Part(zero, n) = Part(zero, 0)
      BY <2>1, <3>1, PartAboveZero
    <3> QED
      BY <2>1, <3>1, <3>2, PartDef
  <2>9. Part(y, n) + w[n] * Weight(n) = Part(u, n) + w[0]
    <3>1. \A j \in 0 .. n : w[j] \in Nat
      <4>1. 0 \in 0 .. n - 1
        BY <2>1
      <4>2. \A j \in 1 .. n : w[j] \in Nat
        <5>1. ASSUME NEW j \in 1 .. n PROVE w[j] \in Nat
          <6>1. j - 1 \in 0 .. n - 1 /\ (j - 1) + 1 = j
            BY <2>1
          <6>2. w[(j - 1) + 1] \in Nat
            BY <2>6, <6>1
          <6> QED
            BY <6>1, <6>2
        <5> QED
          BY <5>1
      <4>3. w[0] \in Nat
        BY <2>6, <4>1
      <4> HIDE DEF w
      <4> QED
        BY <2>1, <4>2, <4>3
    <3>2. Carried(y, u, w, n)
      BY <2>2, <2>6, <2>7, <3>1 DEF Carried
    <3>3. n \in 0 .. n
      BY <2>1
    <3> HIDE DEF w, u, y
    <3> QED
      BY <2>1, <3>2, <3>3, Carries
  <2>10. w[0] = 0 /\ w[n] \in Nat
    <3>1. n - 1 \in 0 .. n - 1 /\ (n - 1) + 1 = n /\ 0 \in 0 .. n
      BY <2>1
    <3>2. w[(n - 1) + 1] \in Nat
      BY <2>6, <3>1
    <3> QED
      BY <3>1, <3>2
  <2>11. /\ Part(y, n) \in Nat /\ Part(x, n) \in Nat /\ Part(z, k) \in Nat
         /\ Weight(n) \in Nat \ {0} /\ Weight(k) \in Nat \ {0} /\ Weight(m) = Weight(k) * Weight(n)
    <3>1. n \in 0 .. n /\ k \in 0 .. k
      BY <1>1, <2>1
    <3>2. Weight(k + n) = Weight(k) * Weight(n)
      BY <1>1, <2>1, WeightSum
    <3> QED
      BY <1>1, <2>1, <2>2, <2>4, <2>5, <3>1, <3>2, PartDef, Weights
  <2> HIDE DEF u, w, y, z, zero
  <2> DEFINE c == w[n] + p * Part(z, k)
  <2>12. Value(x) * Pow2[bits] = c * Weight(m) + Value(res)
    <3>1. p * Part(x, n) = Part(y, n) + w[n] * Weight(n)
      BY <1>1, <2>7, <2>8, <2>9, <2>10, <2>11
    <3>2. Value(x) * Pow2[bits] = (Weight(k) * p) * (Part(x, n) + Weight(n) * Part(z, k))
      BY <1>1, <1>7, <2>4, <2>11
    <3>3. (Weight(k) * p) * (Part(x, n) + Weight(n) * Part(z, k))
            = Weight(k) * (p * Part(x, n)) + (p * Part(z, k)) * (Weight(k) * Weight(n))
      BY <1>1, <2>11
    <3>4. Weight(k) * (Part(y, n) + w[n] * Weight(n))
            = Weight(k) * Part(y, n) + w[n] * (Weight(k) * Weight(n))
      BY <2>10, <2>11
    <3>5. c * Weight(m) = w[n] * (Weight(k) * Weight(n)) + (p * Part(z, k)) * (Weight(k) * Weight(n))
      BY <1>1, <2>10, <2>11
    <3>6. Value(res) = Weight(k) * Part(y, n)
      BY <1>7, <2>2, <2>3, <2>11
    <3> HIDE DEF c
    <3> QED
      BY <1>1, <1>7, <2>10, <2>11, <3>1, <3>2, <3>3, <3>4, <3>5, <3>6
  <2>13. (Value(x) * Pow2[bits]) % Weight(m) = Value(res)
    <3>1. c \in Int /\ Value(x) * Pow2[bits] \in Int
      BY <1>1, <1>7, <2>10, <2>11
    <3> HIDE DEF c
    <3> QED
      BY <1>7, <2>12, <3>1, DivIs
  <2> QED
    BY <1>6, <2>13 DEF res
<1> QED
  BY <1>1, <1>8, <1>9

\* long_number_right_shift divides by a power of two where it shifts by a byte
\* or more, or not at all.
LEMMA RightShiftIs ==
  ASSUME NEW m \in Nat, NEW x \in Number(m), NEW bits \in Nat, bits >= ByteBits \/ bits = 0
  PROVE  /\ RightShift(x, bits) \in Number(m)
         /\ Value(RightShift(x, bits)) = Value(x) \div Pow2[bits]
<1> DEFINE k == bits \div ByteBits
           s == bits % ByteBits
           p == Pow2[s]
           g == Pow2[ByteBits - s]
           res == RightShift(x, bits)
<1>1. /\ k \in Nat /\ Pow2[bits] = Weight(k) * p /\ p * g = Base
      /\ p \in Nat \ {0} /\ g \in Nat \ {0} /\ Pow2[bits] \in Nat \ {0}
  BY BitsSplit
<1>2. \A h \in Nat : k = 0 => h \div p = h
  <2>1. k = 0 => p = 1
    <3>1. SUFFICES ASSUME k = 0 PROVE p = 1
      OBVIOUS
    <3>2. bits = k * ByteBits + s /\ s \in Nat /\ s < ByteBits
      BY BitsSplit
    <3>3. ByteBits \in Nat
      BY ByteBitsAssumption
    <3> HIDE DEF k, s
    <3>4. k * ByteBits = 0
      BY <3>1, <3>3
    <3>5. s = 0
      BY <3>2, <3>3, <3>4
    <3> QED
      BY <3>5, Pow2Def
  <2> QED
    BY <2>1
<1>3. res = [i_1 \in 0 .. m - 1 |->
               IF i_1 >= m - k THEN 0
               ELSE IF i_1 = m - k - 1 THEN x[k + i_1] \div p
               ELSE (x[k + i_1] \div p)
                    + (((IF k = 0 THEN x[i_1 + 1] \div p ELSE x[k + (i_1 + 1)]) * g) % Base)]
  BY NumberDef DEF RightShift, Shl, Shr
<1> HIDE DEF k, s, p, g, res
<1>4. ASSUME NEW h \in 0 .. Base - 1
      PROVE  /\ (h * g) % Base = (h % p) * g /\ (h % p) * g \in Nat
             /\ (h % p) * g + g <= Base
             /\ h \div p \in Nat /\ h \div p < g
             /\ h \in Nat /\ h = (h \div p) * p + (h % p) /\ h % p \in Nat /\ h % p < p
  <2>1. g * p = Base /\ h \in Nat
    BY <1>1
  <2>2. /\ (h * g) % Base = (h % p) * g /\ (h % p) * g \in Nat
        /\ (h % p) * g + g <= Base
        /\ h \div p \in Nat /\ h \div p < g
    BY <1>1, <2>1, ShiftStep
  <2>3. h = (h \div p) * p + (h % p) /\ h % p \in Nat /\ h % p < p
    BY <1>1, <2>1, DivDef
  <2> QED
    BY <2>1, <2>2, <2>3
<1>5. /\ \A j \in 0 .. m - 1 : x[j] \in 0 .. Base - 1 /\ x[j] \in Nat
      /\ Base \in Nat \ {0}
  <2>1. \A j \in 0 .. m - 1 : x[j] \in Nat /\ x[j] < Base
    BY ByteOfNumber
  <2> QED
    BY <2>1, Weights
<1> DEFINE w == [j \in 0 .. m - k |-> IF j = m - k THEN 0 ELSE x[k + j] % p]
<1>6. ASSUME NEW j \in 0 .. m - k - 1
      PROVE  /\ w[j] = x[k + j] % p /\ w[j] \in Nat /\ w[j] < p /\ w[j + 1] \in Nat
             /\ res[j] = (x[k + j] \div p) + w[j + 1] * g
             /\ res[j] \in 0 .. Base - 1
             /\ x[k + j] \in Nat /\ x[k + j] = (x[k + j] \div p) * p + w[j] /\ x[k + j] \div p \in Nat
  <2>1. k + j \in 0 .. m - 1 /\ j \in 0 .. m - 1 /\ j \in 0 .. m - k /\ j # m - k /\ j + 1 \in 0 .. m - k
    BY <1>1
  <2>2. x[k + j] \in 0 .. Base - 1 /\ x[k + j] \in Nat
    BY <1>5, <2>1
  <2>3. /\ x[k + j] \div p \in Nat /\ x[k + j] \div p < g
        /\ x[k + j] = (x[k + j] \div p) * p + (x[k + j] % p)
        /\ x[k + j] % p \in Nat /\ x[k + j] % p < p
    BY <1>4, <2>2
  <2>4. w[j] = x[k + j] % p
    BY <2>1
  <2>5. /\ w[j + 1] \in Nat /\ res[j] = (x[k + j] \div p) + w[j + 1] * g
        /\ w[j + 1] * g \in Nat /\ w[j + 1] * g + g <= Base
    <3>1. CASE j = m - k - 1
      <4>1. w[j + 1] = 0
        BY <1>1, <2>1, <3>1
      <4>2. res[j] = x[k + j] \div p
        BY <1>1, <1>3, <2>1, <3>1
      <4>3. g <= Base
        <5>1. 0 \in 0 .. Base - 1
          BY <1>5
        <5>2. (0 % p) * g + g <= Base /\ (0 % p) * g \in Nat
          BY <1>4, <5>1
        <5> QED
          BY <1>1, <1>5, <5>2
      <4> HIDE DEF w
      <4> QED
        BY <1>1, <2>3, <4>1, <4>2, <4>3
    <3>2. CASE j # m - k - 1
      <4>1. k + (j + 1) \in 0 .. m - 1 /\ j + 1 # m - k
        BY <1>1, <2>1, <3>2
      <4> DEFINE h == x[k + (j + 1)]
      <4>2. h \in 0 .. Base - 1 /\ h \in Nat
        BY <1>5, <4>1
      <4>3. w[j + 1] = h % p
        BY <2>1, <4>1
      <4>4. res[j] = (x[k + j] \div p) + ((h * g) % Base)
        <5>1. res[j] = (x[k + j] \div p)
                       + (((IF k = 0 THEN x[j + 1] \div p ELSE h) * g) % Base)
          BY <1>1, <1>3, <2>1, <3>2
        <5>2. k = 0 => x[j + 1] \div p = h
          <6>1. CASE k = 0
            <7>1. h = x[j + 1]
              BY <2>1, <6>1
            <7> QED
              BY <1>2, <4>2, <7>1
          <6> QED
            BY <6>1
        <5>3. (IF k = 0 THEN x[j + 1] \div p ELSE h) = h
          BY <5>2
        <5> QED
          BY <5>1, <5>3
      <4> HIDE DEF h, w
      <4>5. (h * g) % Base = (h % p) * g /\ (h % p) * g \in Nat
            /\ (h % p) * g + g <= Base /\ h % p \in Nat
        BY <1>4, <4>2
      <4> QED
        BY <4>3, <4>4, <4>5
    <3> QED
      BY <3>1, <3>2
  <2> HIDE DEF w
  <2>6. res[j] \in 0 .. Base - 1
    <3> DEFINE q == x[k + j] \div p
               r == w[j + 1] * g
    <3>1. q \in Nat /\ q < g /\ r \in Nat /\ r + g <= Base /\ res[j] = q + r /\ g \in Nat /\ Base \in Nat
      BY <1>1, <1>5, <2>3, <2>5
    <3> HIDE DEF q, r
    <3> QED
      BY <3>1
  <2> QED
    BY <2>2, <2>3, <2>4, <2>5, <2>6
<1>7. res \in Number(m)
  <2>1. ASSUME NEW j \in 0 .. m - 1 PROVE res[j] \in 0 .. Base - 1
    <3>1. CASE j >= m - k
      BY <1>1, <1>3, <1>5, <3>1
    <3>2. CASE ~(j >= m - k)
      <4>1. j \in 0 .. m - k - 1
        BY <1>1, <3>2
      <4> QED
        BY <1>6, <4>1
    <3> QED
      BY <3>1, <3>2
  <2> QED
    BY <1>3, <2>1 DEF Number, Byte
<1>8. /\ Value(x) = Part(x, m) /\ Value(x) \in Nat /\ Value(x) < Weight(m) /\ Digits(x, m)
      /\ Value(res) = Part(res, m) /\ Digits(res, m)
      /\ Weight(m) \in Nat \ {0}
  BY <1>7, NumberDef, Weights
<1>9. CASE m <= k
  <2>1. Value(res) = 0
    <3>1. \A j \in 0 .. m - 1 : res[j] = 0
      BY <1>1, <1>3, <1>9
    <3>2. Part(res, m) = Part(res, 0)
      BY <1>8, <3>1, PartAboveZero
    <3> QED
      BY <1>8, <3>2, PartDef
  <2>2. Weight(m) <= Pow2[bits]
    <3>1. k - m \in Nat /\ m + (k - m) = k
      BY <1>1, <1>9
    <3>2. Weight(m + (k - m)) = Weight(m) * Weight(k - m) /\ Weight(k - m) \in Nat \ {0}
      BY <3>1, WeightSum, Weights
    <3>3. Weight(k - m) * p \in Nat \ {0} /\ Pow2[bits] = Weight(m) * (Weight(k - m) * p)
      BY <1>1, <1>8, <3>1, <3>2
    <3> QED
      BY <1>8, <3>3
  <2>3. Value(x) = 0 * Pow2[bits] + Value(x) /\ Value(x) < Pow2[bits]
    BY <1>1, <1>8, <2>2
  <2>4. Value(x) \div Pow2[bits] = 0
    BY <1>1, <1>8, <2>3, DivIs
  <2> QED
    BY <1>7, <2>1, <2>4 DEF res
<1>10. CASE k < m
  <2> DEFINE n == m - k
             y == Slice(x, k, n)
             u == [j \in 0 .. n - 1 |-> p * res[j] + 0]
             zero == [j \in 0 .. n - 1 |-> 0]
  <2>1. n \in Nat /\ k + n = m /\ n \in 0 .. m /\ k \in 0 .. m /\ n >= 1 /\ n = m - k
    BY <1>1, <1>10
  <2> HIDE DEF n
  <2>2. Digits(y, n) /\ Part(x, m) = Part(x, k) + Weight(k) * Part(y, n)
    <3>1. Digits(x, k + n)
      BY <1>8, <2>1
    <3>2. Digits(y, n) /\ Part(x, k + n) = Part(x, k) + Weight(k) * Part(y, n)
      BY <1>1, <2>1, <3>1, PartSplit
    <3> QED
      BY <2>1, <3>2
  <2>3. Value(res) = Part(res, n) /\ Digits(res, n)
    <3>1. \A j \in n .. m - 1 : res[j] = 0
      BY <1>1, <1>3, <2>1
    <3>2. Part(res, m) = Part(res, n)
      BY <1>8, <2>1, <3>1, PartAboveZero
    <3> QED
      BY <1>8, <2>1, <3>2 DEF Digits
  <2>4. ASSUME NEW j \in 0 .. n - 1
        PROVE  y[j] + Base * w[j + 1] = w[j] + u[j] /\ w[j] \in Nat
    <3>1. j \in 0 .. m - k - 1
      BY <2>1
    <3>2. /\ w[j] \in Nat /\ w[j + 1] \in Nat
          /\ res[j] = (x[k + j] \div p) + w[j + 1] * g
          /\ x[k + j] = (x[k + j] \div p) * p + w[j] /\ x[k + j] \div p \in Nat
      BY <1>6, <3>1
    <3>3. y[j] = x[k + j] /\ u[j] = p * res[j] + 0
      BY DEF Slice
    <3> DEFINE q == x[k + j] \div p
    <3>4. q \in Nat /\ x[k + j] = q * p + w[j] /\ res[j] = q + w[j + 1] * g
      BY <3>2
    <3> HIDE DEF q, w, u, y
    <3>5. p * (q + w[j + 1] * g) = q * p + Base * w[j + 1]
      <4>1. p * (q + w[j + 1] * g) = q * p + (p * g) * w[j + 1]
        BY <1>1, <3>2, <3>4
      <4> QED
        BY <1>1, <4>1
    <3>6. q * p \in Nat /\ Base * w[j + 1] \in Nat
      BY <1>1, <1>5, <3>2, <3>4
    <3> QED
      BY <3>2, <3>3, <3>4, <3>5, <3>6
  <2>5. Digits(u, n) /\ Part(u, n) = p * Part(res, n) + Part(zero, n)
    <3>1. Summed(p, res, zero, u, n)
      BY <2>3 DEF Summed, Digits
    <3>2. n \in 0 .. n
      BY <2>1
    <3> HIDE DEF u, zero
    <3> QED
      BY <1>1, <2>1, <3>1, <3>2, PartSum
  <2>6. Part(zero, n) = 0
    <3>1. Digits(zero, n) /\ \A j \in 0 .. n - 1 : zero[j] = 0
      BY DEF Digits
    <3> HIDE DEF zero
    <3>2. Part(zero, n) = Part(zero, 0)
      BY <2>1, <3>1, PartAboveZero
    <3> QED
      BY <2>1, <3>1, <3>2, PartDef
  <2>7. w[n] = 0 /\ w[0] \in Nat /\ w[0] < p
    <3>1. n \in 0 .. m - k /\ 0 \in 0 .. m - k - 1
      BY <1>1, <2>1
    <3>2. w[n] = 0
      BY <2>1, <3>1
    <3> HIDE DEF w
    <3> QED
      BY <1>6, <3>1, <3>2
  <2>8. Part(y, n) + w[n] * Weight(n) = Part(u, n) + w[0]
    <3>1. \A j \in 0 .. n : w[j] \in Nat
      <4>1. \A j \in 0 .. n - 1 : w[j] \in Nat
        BY <2>4
      <4> HIDE DEF w
      <4> QED
        BY <2>1, <2>7, <4>1
    <3>2. Carried(y, u, w, n)
      BY <2>2, <2>4, <2>5, <3>1 DEF Carried
    <3>3. n \in 0 .. n
      BY <2>1
    <3> HIDE DEF w, u, y
    <3> QED
      BY <2>1, <3>2, <3>3, Carries
  <2>9. /\ Part(y, n) \in Nat /\ Part(res, n) \in Nat /\ Part(x, k) \in Nat /\ Part(x, k) < Weight(k)
        /\ Weight(n) \in Nat \ {0} /\ Weight(k) \in Nat \ {0}
    <3>1. n \in 0 .. n /\ k \in 0 .. m - 1
      BY <1>1, <1>10, <2>1
    <3> QED
      BY <1>1, <2>1, <2>2, <2>3, <3>1, PartDef, Weights, ByteOfNumber
  <2> HIDE DEF u, w, y, zero
  <2> DEFINE rem == Part(x, k) + Weight(k) * w[0]
  <2>10. rem \in Nat /\ rem < Pow2[bits]
    <3>1. Weight(k) * (w[0] + 1) <= Weight(k) * p
      BY <1>1, <2>7, <2>9
    <3>2. Weight(k) * (w[0] + 1) = Weight(k) * w[0] + Weight(k)
      BY <2>7, <2>9
    <3> QED
      BY <1>1, <2>7, <2>9, <3>1, <3>2
  <2>11. Value(x) = Value(res) * Pow2[bits] + rem
    <3>1. Part(y, n) = p * Part(res, n) + w[0]
      BY <1>1, <2>5, <2>6, <2>7, <2>8, <2>9
    <3>2. Weight(k) * (p * Part(res, n) + w[0]) = Part(res, n) * (Weight(k) * p) + Weight(k) * w[0]
      BY <1>1, <2>7, <2>9
    <3>3. Part(res, n) * (Weight(k) * p) \in Nat /\ Weight(k) * w[0] \in Nat
      BY <1>1, <2>7, <2>9
    <3> QED
      BY <1>1, <1>8, <2>2, <2>3, <2>9, <3>1, <3>2, <3>3
  <2> HIDE DEF rem
  <2>12. Value(x) \div Pow2[bits] = Value(res)
    <3>1. Value(x) \in Int /\ Value(res) \in Int
      BY <1>8, <2>3, <2>9
    <3> QED
      BY <1>1, <2>10, <2>11, <3>1, DivIs
  <2> QED
    BY <1>7, <2>12 DEF res
<1> QED
  BY <1>1, <1>9, <1>10

----------------------------------------------------------------------------
(* The low bits.                                                             *)

\* What is above and what is below bit s of byte k.
LEMMA LowBits ==
  ASSUME NEW m \in Nat, NEW x \in Number(m), NEW k \in 0 .. m - 1, NEW s \in 0 .. ByteBits - 1
  PROVE  /\ Value(x) % Pow2[k * ByteBits + s] = Part(x, k) + (x[k] % Pow2[s]) * Weight(k)
         /\ \E t \in Nat :
              Value(x) \div Pow2[k * ByteBits + s] = (x[k] \div Pow2[s]) + Pow2[ByteBits - s] * t
<1> DEFINE bits == k * ByteBits + s
           p == Pow2[s]
           g == Pow2[ByteBits - s]
           n == m - (k + 1)
           y == Slice(x, k + 1, n)
           q == x[k] \div p
           r == x[k] % p
           rem == Part(x, k) + r * Weight(k)
<1>1. ByteBits \in Nat \ {0} /\ s \in Nat /\ s < ByteBits /\ k \in Nat
  BY ByteBitsAssumption
<1>2. bits \in Nat /\ bits \div ByteBits = k /\ bits % ByteBits = s
  <2>1. bits \in Nat
    BY <1>1
  <2> QED
    BY <1>1, <2>1, DivIs
<1> HIDE DEF bits
<1>3. /\ Pow2[bits] = Weight(k) * p /\ p * g = Base
      /\ p \in Nat \ {0} /\ g \in Nat \ {0} /\ Pow2[bits] \in Nat \ {0}
  <2>1. PICK e, f : e = bits \div ByteBits /\ f = bits % ByteBits
    OBVIOUS
  <2>2. /\ Pow2[bits] = Weight(e) * Pow2[f] /\ Pow2[f] * Pow2[ByteBits - f] = Base
        /\ Pow2[f] \in Nat \ {0} /\ Pow2[ByteBits - f] \in Nat \ {0} /\ Pow2[bits] \in Nat \ {0}
    BY <1>2, <2>1, BitsSplit
  <2> QED
    BY <1>2, <2>1, <2>2
<1> HIDE DEF p, g
<1>4. /\ x[k] \in Nat /\ Part(x, k) \in Nat /\ Part(x, k) < Weight(k) /\ Weight(k) \in Nat \ {0}
      /\ Part(x, k + 1) = Part(x, k) + x[k] * Weight(k)
  BY ByteOfNumber
<1>5. q \in Nat /\ r \in Nat /\ x[k] = q * p + r /\ r + 1 <= p
  <2>1. PICK u : u = x[k]
    OBVIOUS
  <2>2. u \in Nat /\ p \in Nat \ {0}
    BY <1>3, <1>4, <2>1
  <2>3. u \div p \in Nat /\ u % p \in Nat /\ u = (u \div p) * p + (u % p) /\ u % p < p
    BY <2>2, DivDef
  <2>4. q = u \div p /\ r = u % p
    BY <2>1
  <2> HIDE DEF q, r
  <2> QED
    BY <2>1, <2>2, <2>3, <2>4
<1> HIDE DEF q, r, n, y
<1>6. rem \in Nat /\ rem < Pow2[bits]
  <2>1. (r + 1) * Weight(k) <= p * Weight(k) /\ (r + 1) * Weight(k) = r * Weight(k) + Weight(k)
    BY <1>3, <1>4, <1>5
  <2>2. p * Weight(k) = Weight(k) * p /\ r * Weight(k) \in Nat
    BY <1>3, <1>4, <1>5
  <2> QED
    BY <1>3, <1>4, <2>1, <2>2
<1>7. Digits(y, n) /\ Value(x) = Part(x, k + 1) + Weight(k + 1) * Part(y, n)
      /\ Part(y, n) \in Nat /\ Weight(k + 1) = Base * Weight(k) /\ Base \in Nat
  <2>1. n \in Nat /\ k + 1 \in Nat /\ (k + 1) + n = m /\ n \in 0 .. n
    BY <1>1 DEF n
  <2>2. Digits(x, m) /\ Value(x) = Part(x, m)
    BY NumberDef
  <2>3. Digits(x, (k + 1) + n)
    BY <2>1, <2>2
  <2>4. Digits(y, n) /\ Part(x, (k + 1) + n) = Part(x, k + 1) + Weight(k + 1) * Part(y, n)
    BY <2>1, <2>3, PartSplit DEF y
  <2> QED
    BY <1>1, <2>1, <2>2, <2>4, PartDef, Weights
<1> DEFINE t == Part(y, n)
<1>8. Value(x) = (q + g * t) * Pow2[bits] + rem
  <2>1. x[k] * Weight(k) = q * (Weight(k) * p) + r * Weight(k)
    BY <1>3, <1>4, <1>5
  <2>2. (Base * Weight(k)) * t = (g * t) * (Weight(k) * p)
    <3>1. ((p * g) * Weight(k)) * t = (g * t) * (Weight(k) * p)
      BY <1>3, <1>4, <1>7
    <3> QED
      BY <1>3, <3>1
  <2>3. (q + g * t) * (Weight(k) * p) = q * (Weight(k) * p) + (g * t) * (Weight(k) * p)
    BY <1>3, <1>4, <1>5, <1>7
  <2>4. q * (Weight(k) * p) \in Nat /\ (g * t) * (Weight(k) * p) \in Nat /\ r * Weight(k) \in Nat
    BY <1>3, <1>4, <1>5, <1>7
  <2> HIDE DEF t
  <2>5. Value(x) = (Part(x, k) + x[k] * Weight(k)) + (Base * Weight(k)) * t
    BY <1>4, <1>7 DEF t
  <2>6. PICK e, f, g0, h : e = Part(x, k) /\ f = q * (Weight(k) * p) /\ g0 = (g * t) * (Weight(k) * p) /\ h = r * Weight(k)
    OBVIOUS
  <2>7. e \in Nat /\ f \in Nat /\ g0 \in Nat /\ h \in Nat
    BY <1>4, <2>4, <2>6
  <2>8. Value(x) = (e + (f + h)) + g0 /\ rem = e + h /\ (q + g * t) * Pow2[bits] = f + g0
    BY <1>3, <2>1, <2>2, <2>3, <2>5, <2>6
  <2> QED
    BY <2>7, <2>8
<1>9. q + g * t \in Int /\ Value(x) \in Int /\ t \in Nat
  <2>1. Value(x) \in Int
    BY NumberDef
  <2>2. q \in Nat /\ g \in Nat /\ t \in Nat
    BY <1>3, <1>5, <1>7
  <2> HIDE DEF t
  <2>3. g * t \in Nat
    BY <2>2
  <2> QED
    BY <2>1, <2>2, <2>3
<1> HIDE DEF rem, t
<1>10. Value(x) \div Pow2[bits] = q + g * t /\ Value(x) % Pow2[bits] = rem
  BY <1>3, <1>6, <1>8, <1>9, DivIs
<1> QED
  BY <1>9, <1>10 DEF bits, rem, q, r, g, p

\* Whole bytes.
LEMMA LowBytes ==
  ASSUME NEW m \in Nat, NEW x \in Number(m), NEW k \in 0 .. m - 1
  PROVE  Value(x) % Weight(k) = Part(x, k)
<1>1. ByteBits \in Nat \ {0} /\ 0 \in 0 .. ByteBits - 1 /\ k * ByteBits + 0 = ByteBits * k
  BY ByteBitsAssumption
<1>2. Value(x) % Pow2[k * ByteBits + 0] = Part(x, k) + (x[k] % Pow2[0]) * Weight(k)
  BY <1>1, LowBits
<1>3. x[k] % Pow2[0] = 0
  BY ByteOfNumber, Pow2Def
<1>4. Part(x, k) \in Nat /\ Weight(k) \in Nat
  BY ByteOfNumber
<1>5. Value(x) % Weight(k) = Part(x, k) + 0 * Weight(k)
  BY <1>1, <1>2, <1>3 DEF Weight
<1> QED
  BY <1>4, <1>5

\* long_number_mod_2pow never changes the low bits, and keeps nothing else
\* where they are whole bytes.
LEMMA Mod2PowIs ==
  ASSUME NEW m \in Nat, NEW x \in Number(m), NEW bits \in Nat \ {0},
         (bits + ByteBits - 1) \div ByteBits < m
  PROVE  /\ Mod2Pow(x, bits) \in Number(m)
         /\ Value(Mod2Pow(x, bits)) % Pow2[bits] = Value(x) % Pow2[bits]
         /\ bits % ByteBits = 0 => Value(Mod2Pow(x, bits)) = Value(x) % Pow2[bits]
<1> DEFINE k == bits \div ByteBits
           s == bits % ByteBits
           n == (bits + ByteBits - 1) \div ByteBits
           res == Mod2Pow(x, bits)
<1>1. ByteBits \in Nat \ {0}
  BY ByteBitsAssumption
<1>2. /\ k \in Nat /\ s \in 0 .. ByteBits - 1 /\ bits = k * ByteBits + s
      /\ Pow2[bits] = Weight(k) * Pow2[s] /\ Pow2[s] \in Nat \ {0} /\ Pow2[bits] \in Nat \ {0}
  <2>1. /\ k \in Nat /\ s \in Nat /\ s < ByteBits /\ bits = k * ByteBits + s
        /\ Pow2[bits] = Weight(k) * Pow2[s] /\ Pow2[s] \in Nat \ {0} /\ Pow2[bits] \in Nat \ {0}
    BY BitsSplit
  <2> HIDE DEF k, s
  <2> QED
    BY <1>1, <2>1
<1>3. n < m /\ n = IF s = 0 THEN k ELSE k + 1
  <2>1. n < m
    OBVIOUS
  <2> HIDE DEF k, s
  <2>2. CASE s = 0
    <3>1. /\ bits + ByteBits - 1 = k * ByteBits + (ByteBits - 1)
          /\ ByteBits - 1 \in Nat /\ ByteBits - 1 < ByteBits
          /\ bits + ByteBits - 1 \in Int /\ k \in Int
      BY <1>1, <1>2, <2>2
    <3>2. n = k
      BY <1>1, <3>1, DivIs
    <3> QED
      BY <2>1, <2>2, <3>2
  <2>3. CASE s # 0
    <3>1. /\ (k + 1) * ByteBits = k * ByteBits + ByteBits
          /\ s - 1 \in Nat /\ s - 1 < ByteBits /\ bits + ByteBits - 1 \in Int /\ k + 1 \in Int
      BY <1>1, <1>2, <2>3
    <3>2. bits + ByteBits - 1 = (k + 1) * ByteBits + (s - 1)
      BY <1>1, <1>2, <3>1
    <3>3. PICK u, d, q, r : u = bits + ByteBits - 1 /\ d = ByteBits /\ q = k + 1 /\ r = s - 1
      OBVIOUS
    <3>4. u \in Int /\ d \in Nat \ {0} /\ q \in Int /\ r \in Nat /\ r < d /\ u = q * d + r
      BY <1>1, <3>1, <3>2, <3>3
    <3>5. u \div d = q
      BY <3>4, DivIs
    <3>6. n = k + 1
      BY <3>3, <3>5
    <3> QED
      BY <2>1, <2>3, <3>6
  <2> QED
    BY <2>2, <2>3
<1>4. res = [j \in 0 .. m - 1 |->
               IF s # 0 /\ j = n - 1 THEN x[j] % Pow2[s]
               ELSE IF j < n \/ (s # 0 /\ j = n) THEN x[j]
               ELSE 0]
  BY NumberDef DEF Mod2Pow
<1> HIDE DEF k, s, n, res
<1>5. k \in 0 .. m - 1
  BY <1>2, <1>3
<1>6. ASSUME NEW j \in 0 .. m - 1 PROVE x[j] \in Nat /\ x[j] < Base /\ res[j] \in Byte
  <2>1. x[j] \in Nat /\ x[j] < Base
    BY ByteOfNumber
  <2>2. x[j] % Pow2[s] \in Nat /\ x[j] % Pow2[s] <= x[j]
    <3> DEFINE u == x[j] \div Pow2[s]
               v == x[j] % Pow2[s]
    <3>1. u \in Nat /\ v \in Nat /\ x[j] = u * Pow2[s] + v
      BY <1>2, <2>1, DivDef
    <3> HIDE DEF u, v
    <3>2. u * Pow2[s] >= 0
      BY <1>2, <3>1
    <3>3. v \in Nat /\ v <= x[j]
      BY <1>2, <3>1, <3>2
    <3> QED
      BY <3>3 DEF v
  <2>3. Base \in Nat
    BY Weights
  <2> DEFINE v == x[j] % Pow2[s]
  <2>4. v \in Byte /\ x[j] \in Byte /\ 0 \in Byte
    <3>1. v \in Nat /\ v <= x[j]
      BY <2>2
    <3> HIDE DEF v
    <3> QED
      BY <2>1, <2>3, <3>1 DEF Byte
  <2>5. res[j] = v \/ res[j] = x[j] \/ res[j] = 0
    BY <1>4
  <2> QED
    BY <2>1, <2>4, <2>5
<1>7. res \in Number(m)
  BY <1>4, <1>6 DEF Number
<1>8. Part(res, k) = Part(x, k) /\ Part(x, k) \in Nat
  <2>1. Agree(x, res, k)
    BY <1>2, <1>3, <1>4, <1>5 DEF Agree
  <2>2. Digits(x, k)
    BY <1>5, <1>6 DEF Digits
  <2>3. k \in 0 .. k
    BY <1>2
  <2> QED
    BY <1>2, <2>1, <2>2, <2>3, PartSame, PartDef
<1>9. CASE s = 0
  <2>1. \A j \in k .. m - 1 : res[j] = 0
    BY <1>2, <1>3, <1>4, <1>9
  <2>2. Value(res) = Part(res, m) /\ Digits(res, m)
    BY <1>7, NumberDef
  <2>3. Part(res, m) = Part(res, k)
    <3>1. k <= m
      BY <1>5
    <3> QED
      BY <1>2, <2>1, <2>2, <3>1, PartAboveZero
  <2>4. Value(x) % Weight(k) = Part(x, k) /\ Value(res) % Weight(k) = Part(res, k)
    BY <1>5, <1>7, LowBytes
  <2>5. Pow2[bits] = Weight(k)
    <3>1. Pow2[s] = 1 /\ Weight(k) \in Nat
      BY <1>2, <1>9, Pow2Def, Weights
    <3> QED
      BY <1>2, <3>1
  <2> QED
    BY <1>7, <1>8, <2>2, <2>3, <2>4, <2>5 DEF res
<1>10. CASE s # 0
  <2>1. res[k] = x[k] % Pow2[s]
    BY <1>2, <1>3, <1>4, <1>5, <1>10
  <2>2. res[k] % Pow2[s] = x[k] % Pow2[s]
    <3> DEFINE v == x[k] % Pow2[s]
    <3>1. v \in Nat /\ v < Pow2[s]
      BY <1>2, <1>5, <1>6, DivDef
    <3> HIDE DEF v
    <3>2. v % Pow2[s] = v
      BY <1>2, <3>1
    <3> QED
      BY <2>1, <3>2 DEF v
  <2>3. /\ Value(x) % Pow2[bits] = Part(x, k) + (x[k] % Pow2[s]) * Weight(k)
        /\ Value(res) % Pow2[bits] = Part(res, k) + (res[k] % Pow2[s]) * Weight(k)
    BY <1>2, <1>5, <1>7, LowBits
  <2> QED
    BY <1>7, <1>8, <1>10, <2>2, <2>3 DEF res, s
<1> QED
  BY <1>9, <1>10

----------------------------------------------------------------------------
(* Multiplication.                                                           *)

\* What is added of a multiple of d does not change the remainder.
LEMMA ModOfSum ==
  ASSUME NEW d \in Nat \ {0}, NEW u \in Nat, NEW v \in Nat, NEW t \in Nat, u = v + t * d
  PROVE  u % d = v % d
<1> DEFINE q == v \div d
           r == v % d
<1>1. q \in Nat /\ r \in Nat /\ v = q * d + r /\ r < d
  BY DivDef
<1> HIDE DEF q, r
<1>2. (q + t) * d = q * d + t * d
  BY <1>1
<1>3. u = (q + t) * d + r /\ q + t \in Int /\ u \in Int
  BY <1>1, <1>2
<1>4. u % d = r
  BY <1>1, <1>3, DivIs
<1> QED
  BY <1>4 DEF r

\* t is two bytes: its low byte and the carry.
TwoBytes(t) ==
  /\ Low(t) \in 0 .. Base - 1
  /\ t \div Base \in 0 .. Base - 1
  /\ Low(t) + Base * (t \div Base) = t

\* One byte of a row of a product: the carry is a byte.
LEMMA ProductStep ==
  ASSUME NEW c \in 0 .. Base - 1, NEW h \in 0 .. Base - 1, NEW k \in 0 .. Base - 1,
         NEW r \in 0 .. Base - 1, NEW t, t = c + h * k + r
  PROVE  TwoBytes(t) /\ t = c + (h * k + r)
<1> DEFINE q == t \div Base
<1>1. Base \in Nat \ {0}
  BY Weights
<1>2. h * k <= h * (Base - 1) /\ h * (Base - 1) <= (Base - 1) * (Base - 1) /\ h * k \in Nat
  BY <1>1
<1>3. (Base - 1) * (Base - 1) = Base * Base - 2 * Base + 1
  BY <1>1
<1>4. t \in Nat /\ t < Base * Base /\ t = c + (h * k + r)
  BY <1>1, <1>2, <1>3
<1>5. Low(t) \in Byte /\ Low(t) \in Nat /\ q \in Nat /\ t = Low(t) + Base * q
  BY <1>4, CarryStep
<1> HIDE DEF q
<1>6. q < Base
  <2>1. SUFFICES ASSUME Base <= q PROVE FALSE
    BY <1>1, <1>5
  <2>2. Base * Base <= Base * q
    BY <1>1, <1>5, <2>1
  <2> QED
    BY <1>1, <1>4, <1>5, <2>2
<1>7. q \in 0 .. Base - 1 /\ Low(t) \in 0 .. Base - 1
  BY <1>1, <1>5, <1>6 DEF Byte
<1>8. Low(t) + Base * q = t
  BY <1>5
<1>9. TwoBytes(t)
  BY <1>7, <1>8 DEF TwoBytes, q
<1> QED
  BY <1>4, <1>9

\* The carries w of one row of long_number_mul, and what it makes of them.
Result(m) == [res : Number(m), flag : BOOLEAN, before : BOOLEAN]
High(r, i_1, n, m, c) == Plus(Slice(r.res, i_1 + n, m - i_1 - n), [k \in 0 .. 0 |-> c])

RowCarries(w, r, h, i_1, y, width, n, m) ==
  /\ w[0] = 0
  /\ \A j \in 1 .. n : w[j] = (w[j - 1] + h * y[j - 1] + r.res[i_1 + j - 1]) \div Base
  /\ Row(r, h, i_1, y, width) =
       [res |-> [k \in 0 .. m - 1 |->
                   IF k < i_1 THEN r.res[k]
                   ELSE IF k < i_1 + n THEN Low(w[k - i_1] + h * y[k - i_1] + r.res[k])
                   ELSE IF w[n] # 0 THEN High(r, i_1, n, m, w[n]).res[k - i_1 - n]
                   ELSE r.res[k]],
        flag |-> IF ~(w[n] # 0) THEN r.flag
                 ELSE IF m - i_1 - n > 0 THEN High(r, i_1, n, m, w[n]).flag ELSE TRUE,
        before |-> r.before \/ (w[n] # 0 /\ m - i_1 - n > 0 /\ High(r, i_1, n, m, w[n]).before)]

\* A row of long_number_mul in terms of its carries.
LEMMA RowDef ==
  ASSUME NEW m \in Nat, NEW r \in Result(m), NEW i_1 \in 0 .. m - 1, NEW l \in Nat,
         NEW y \in Number(l), NEW width \in 0 .. l, NEW h \in 0 .. Base - 1,
         NEW n, n = Lower(width, m - i_1)
  PROVE  \E w \in [0 .. n -> 0 .. Base - 1] : RowCarries(w, r, h, i_1, y, width, n, m)
<1> DEFINE n0 == Lower(width, Bytes(r.res) - i_1)
           D == [p \in (0 .. Base - 1) \X (1 .. n) |->
                   (p[1] + h * y[p[2] - 1] + r.res[i_1 + p[2] - 1]) \div Base]
           w[j \in 0 .. n0] ==
             IF j = 0 THEN 0 ELSE (w[j - 1] + h * y[j - 1] + r.res[i_1 + j - 1]) \div Base
<1>1. r.res \in Number(m) /\ r.flag \in BOOLEAN
  BY DEF Result
<1>2. Bytes(r.res) = m /\ DOMAIN r.res = 0 .. m - 1
  BY <1>1, NumberDef
<1>3. n0 = n /\ n \in Nat /\ i_1 + n <= m /\ n <= l
  BY <1>2 DEF Lower
<1>4. Base \in Nat /\ Base >= 2
  BY Weights
<1>5. ASSUME NEW v \in 0 .. Base - 1, NEW j \in 1 .. n
      PROVE  /\ D[<<v, j>>] = (v + h * y[j - 1] + r.res[i_1 + j - 1]) \div Base
             /\ D[<<v, j>>] \in 0 .. Base - 1
  <2>1. D[<<v, j>>] = (v + h * y[j - 1] + r.res[i_1 + j - 1]) \div Base
    OBVIOUS
  <2>2. j - 1 \in 0 .. l - 1 /\ i_1 + j - 1 \in 0 .. m - 1
    BY <1>3
  <2>3. (\A k \in 0 .. m - 1 : r.res[k] \in 0 .. Base - 1) /\ \A k \in 0 .. l - 1 : y[k] \in 0 .. Base - 1
    BY <1>1, NumberDef DEF Byte
  <2>4. y[j - 1] \in 0 .. Base - 1 /\ r.res[i_1 + j - 1] \in 0 .. Base - 1
    BY <2>2, <2>3
  <2>5. (v + h * y[j - 1] + r.res[i_1 + j - 1]) \div Base \in 0 .. Base - 1
    <3>1. PICK c, k, t : c = y[j - 1] /\ k = r.res[i_1 + j - 1] /\ t = v + h * c + k
      OBVIOUS
    <3>2. c \in 0 .. Base - 1 /\ k \in 0 .. Base - 1
      BY <2>4, <3>1
    <3>4. t = v + h * c + k
      BY <3>1
    <3>5. TwoBytes(t)
      BY <3>2, <3>4, ProductStep
    <3>6. t \div Base \in 0 .. Base - 1
      BY <3>5 DEF TwoBytes
    <3> QED
      BY <3>1, <3>6
  <2> QED
    BY <2>1, <2>5
<1> HIDE DEF D
<1>6. Steps(D, 0 .. Base - 1, n) /\ 0 \in 0 .. Base - 1
  <2>1. Steps(D, 0 .. Base - 1, n)
    BY <1>5 DEF Steps
  <2>2. 0 \in 0 .. Base - 1
    BY <1>4
  <2> QED
    BY <2>1, <2>2
<1>7. PICK f \in [0 .. n -> 0 .. Base - 1] : Follows(f, 0, D, n)
  <2>1. n \in Nat
    BY <1>3
  <2> HIDE DEF n0
  <2>2. PICK S : S = 0 .. Base - 1
    OBVIOUS
  <2>3. 0 \in S /\ Steps(D, S, n)
    BY <1>6, <2>2
  <2>4. \E f \in [0 .. n -> S] : Follows(f, 0, D, n)
    BY <2>1, <2>3, Recursion
  <2> QED
    BY <2>2, <2>4
<1>8. f = [j \in 0 .. n0 |->
             IF j = 0 THEN 0 ELSE (f[j - 1] + h * y[j - 1] + r.res[i_1 + j - 1]) \div Base]
  <2> DEFINE K(v, j) == (v + h * y[j - 1] + r.res[i_1 + j - 1]) \div Base
  <2>1. ASSUME NEW j \in 1 .. n PROVE f[j] = K(f[j - 1], j)
    <3>1. f[j - 1] \in 0 .. Base - 1
      <4>1. j - 1 \in 0 .. n
        BY <1>3
      <4> QED
        BY <4>1
    <3> QED
      BY <1>5, <1>7, <3>1 DEF Follows
  <2> HIDE DEF n0, K, w
  <2>2. f = [j \in 0 .. n0 |-> f[j]]
    BY <1>3, <1>7
  <2>3. ASSUME NEW j \in 0 .. n0 PROVE f[j] = IF j = 0 THEN 0 ELSE K(f[j - 1], j)
    <3>1. f[0] = 0
      BY <1>7 DEF Follows
    <3>2. j = 0 \/ j \in 1 .. n
      BY <1>3, <2>3
    <3>3. ASSUME j \in 1 .. n PROVE j # 0
      BY <3>3
    <3> QED
      BY <2>1, <3>1, <3>2, <3>3
  <2>4. f = [j \in 0 .. n0 |-> IF j = 0 THEN 0 ELSE K(f[j - 1], j)]
    BY <2>2, <2>3, Zenon
  <2> QED
    BY <2>4 DEF K
<1>9. w = [j \in 0 .. n0 |->
             IF j = 0 THEN 0 ELSE (w[j - 1] + h * y[j - 1] + r.res[i_1 + j - 1]) \div Base]
  BY <1>8, Zenon
<1>10. Row(r, h, i_1, y, width) =
         [res |-> [k \in DOMAIN r.res |->
                     IF k < i_1 THEN r.res[k]
                     ELSE IF k < i_1 + n0 THEN Low(w[k - i_1] + h * y[k - i_1] + r.res[k])
                     ELSE IF w[n0] # 0
                          THEN Plus(Slice(r.res, i_1 + n0, Bytes(r.res) - i_1 - n0),
                                    [j \in 0 .. 0 |-> w[n0]]).res[k - i_1 - n0]
                     ELSE r.res[k]],
          flag |-> IF ~(w[n0] # 0) THEN r.flag
                   ELSE IF Bytes(r.res) - i_1 - n0 > 0
                        THEN Plus(Slice(r.res, i_1 + n0, Bytes(r.res) - i_1 - n0),
                                  [j \in 0 .. 0 |-> w[n0]]).flag
                        ELSE TRUE,
          before |-> \/ r.before
                     \/ /\ w[n0] # 0
                        /\ Bytes(r.res) - i_1 - n0 > 0
                        /\ Plus(Slice(r.res, i_1 + n0, Bytes(r.res) - i_1 - n0),
                                [j \in 0 .. 0 |-> w[n0]]).before]
  BY Zenon DEF Row
<1> HIDE DEF w, n0
<1>11. w[0] = 0 /\ \A j \in 1 .. n : w[j] = (w[j - 1] + h * y[j - 1] + r.res[i_1 + j - 1]) \div Base
  <2> DEFINE K(j) == (w[j - 1] + h * y[j - 1] + r.res[i_1 + j - 1]) \div Base
  <2>1. 0 \in 0 .. n0 /\ \A j \in 1 .. n : j \in 0 .. n0 /\ j # 0
    BY <1>3
  <2>2. w = [j \in 0 .. n0 |-> IF j = 0 THEN 0 ELSE K(j)]
    BY <1>9
  <2> HIDE DEF K
  <2>3. w[0] = 0 /\ \A j \in 1 .. n : w[j] = K(j)
    BY <2>1, <2>2
  <2> QED
    BY <2>3 DEF K
<1>12. w \in [0 .. n -> 0 .. Base - 1]
  <2> DEFINE T == {k \in 0 .. n : w[k] \in 0 .. Base - 1}
  <2>1. 0 \in T
    BY <1>3, <1>4, <1>11
  <2>2. ASSUME NEW k \in 0 .. n - 1, k \in T PROVE k + 1 \in T
    <3>1. k + 1 \in 1 .. n /\ k + 1 \in 0 .. n /\ (k + 1) - 1 = k /\ w[k] \in 0 .. Base - 1
          /\ i_1 + (k + 1) - 1 = i_1 + k
      BY <1>3, <2>2
    <3>2. D[<<w[k], k + 1>>] = (w[k] + h * y[(k + 1) - 1] + r.res[i_1 + (k + 1) - 1]) \div Base
          /\ D[<<w[k], k + 1>>] \in 0 .. Base - 1
      BY <1>5, <3>1
    <3>3. w[k + 1] = (w[(k + 1) - 1] + h * y[(k + 1) - 1] + r.res[i_1 + (k + 1) - 1]) \div Base
      BY <1>11, <3>1
    <3> QED
      BY <3>1, <3>2, <3>3
  <2> HIDE DEF T
  <2>3. \A k \in 0 .. n : k \in T
    BY <1>3, <2>1, <2>2, Upward
  <2>4. w = [j \in 0 .. n |-> w[j]]
    BY <1>3, <1>9
  <2> QED
    BY <2>3, <2>4 DEF T
<1>13. RowCarries(w, r, h, i_1, y, width, n, m)
  BY <1>2, <1>3, <1>10, <1>11 DEF RowCarries, High
<1> QED
  BY <1>12, <1>13

\* Bytes of an array that are seen alone.
LEMMA SliceNumber ==
  ASSUME NEW m \in Nat, NEW x \in Number(m), NEW k \in Nat, NEW n \in Nat, k + n <= m
  PROVE  /\ Slice(x, k, n) \in Number(n) /\ \A j \in 0 .. n - 1 : Slice(x, k, n)[j] = x[k + j]
         /\ Digits(x, k + n) /\ Digits(x, k)
         /\ Part(x, k + n) = Part(x, k) + Weight(k) * Value(Slice(x, k, n))
<1>1. ASSUME NEW j \in 0 .. n - 1 PROVE Slice(x, k, n)[j] = x[k + j] /\ x[k + j] \in Byte
  <2>1. k + j \in 0 .. m - 1
    OBVIOUS
  <2> QED
    BY <2>1, NumberDef DEF Slice
<1>2. Slice(x, k, n) \in Number(n)
  BY <1>1 DEF Number, Slice
<1>3. Digits(x, k + n) /\ Digits(x, k)
  <2>1. Digits(x, m)
    BY NumberDef
  <2> QED
    BY <2>1 DEF Digits
<1>4. Part(x, k + n) = Part(x, k) + Weight(k) * Part(Slice(x, k, n), n)
  BY <1>3, PartSplit
<1>5. Value(Slice(x, k, n)) = Part(Slice(x, k, n), n)
  BY <1>2, NumberDef
<1> QED
  BY <1>1, <1>2, <1>3, <1>4, <1>5

\* The sum s of the m bytes x, whose value was 0, and of one byte c is c.
TakesByte(s, x, c, m) ==
  /\ s.res \in Number(m) /\ s.flag \in BOOLEAN
  /\ s.before => s.flag
  /\ Value(x) = 0 => Value(s.res) = c /\ ~s.flag

\* A carry of one byte into bytes that are zero.
LEMMA CarryIntoZero ==
  ASSUME NEW m \in Nat \ {0}, NEW x \in Number(m), NEW c \in 0 .. Base - 1
  PROVE  TakesByte(Plus(x, [k \in 0 .. 0 |-> c]), x, c, m)
<1> DEFINE y == [k \in 0 .. 0 |-> c]
           sum == Plus(x, y)
<1>1. y \in Number(1) /\ y[0] = c
  <2>1. 1 - 1 = 0
    OBVIOUS
  <2> QED
    BY <2>1 DEF Number, Byte
<1> HIDE DEF y
<1>2. 1 \in 0 .. m /\ 0 \in 0 .. 1 - 1
  OBVIOUS
<1>3. Base \in Nat /\ Base >= 2 /\ Weight(0) = 1 /\ Weight(1) = Base /\ c \in Nat /\ c < Base
  <2>1. Weight(0 + 1) = Base * Weight(0)
    BY Weights
  <2> QED
    BY <2>1, Weights
<1>4. Part(y, 1) = c
  <2>1. Digits(y, 1)
    BY <1>1, NumberDef
  <2>2. Part(y, 0 + 1) = Part(y, 0) + y[0] * Weight(0) /\ Part(y, 0) = 0
    BY <1>2, <2>1, PartDef, PartStep
  <2> QED
    BY <1>1, <1>3, <2>2
<1>5. sum.res \in Number(m) /\ sum.flag \in BOOLEAN /\ (sum.before => sum.flag)
  BY <1>1, <1>2, PlusIs
<1>6. ASSUME Value(x) = 0 PROVE Value(sum.res) = c /\ ~sum.flag
  <2>1. Value(x) < Weight(1)
    BY <1>3, <1>6
  <2>2. Part(x, 1) = 0
    BY <1>2, <1>6, <2>1, FitsBelow
  <2>3. Part(x, 1) + Part(y, 1) < Weight(1)
    BY <1>3, <1>4, <2>2
  <2>4. Value(sum.res) = Value(x) + Part(y, 1) /\ ~sum.flag
    BY <1>1, <1>2, <2>3, PlusIs
  <2> QED
    BY <1>3, <1>4, <1>6, <2>4
<1>7. TakesByte(sum, x, c, m)
  BY <1>5, <1>6 DEF TakesByte
<1> QED
  BY <1>7 DEF y

\* z is x with h times the low n bytes of y added from byte i on, and w the
\* carries.
Rowed(w, x, z, y, h, i_1, n) ==
  /\ w[0] = 0
  /\ \A j \in 1 .. n : w[j] = (w[j - 1] + h * y[j - 1] + x[i_1 + j - 1]) \div Base
  /\ \A k \in 0 .. i_1 - 1 : z[k] = x[k]
  /\ \A k \in 0 .. n - 1 : z[i_1 + k] = Low(w[k] + h * y[k] + x[i_1 + k])

\* The same, as what every byte of it satisfies.
Carrying(w, x, z, y, h, i_1, n) ==
  \A k \in 0 .. n - 1 :
    /\ x[i_1 + k] \in Nat /\ y[k] \in Nat
    /\ z[i_1 + k] \in 0 .. Base - 1
    /\ z[i_1 + k] + Base * w[k + 1] = w[k] + (h * y[k] + x[i_1 + k])

\* What every byte of a row is made of.
LEMMA RowByte ==
  ASSUME NEW m \in Nat, NEW x \in Number(m), NEW i_1 \in Nat, NEW n \in Nat, i_1 + n <= m,
         NEW l \in Nat, NEW y \in Number(l), n <= l, NEW h \in 0 .. Base - 1,
         NEW w \in [0 .. n -> 0 .. Base - 1], NEW z, Rowed(w, x, z, y, h, i_1, n)
  PROVE  Carrying(w, x, z, y, h, i_1, n)
<1> SUFFICES ASSUME NEW k \in 0 .. n - 1
             PROVE  /\ x[i_1 + k] \in Nat /\ y[k] \in Nat
                    /\ z[i_1 + k] \in 0 .. Base - 1
                    /\ z[i_1 + k] + Base * w[k + 1] = w[k] + (h * y[k] + x[i_1 + k])
  BY Zenon DEF Carrying
<1>1. i_1 + k \in 0 .. m - 1 /\ k \in 0 .. l - 1 /\ k \in 0 .. n /\ k + 1 \in 1 .. n /\ k + 1 \in 0 .. n
      /\ (k + 1) - 1 = k /\ i_1 + (k + 1) - 1 = i_1 + k
  OBVIOUS
<1>2. x[i_1 + k] \in 0 .. Base - 1 /\ y[k] \in 0 .. Base - 1 /\ w[k] \in 0 .. Base - 1 /\ w[k + 1] \in 0 .. Base - 1
  <2>1. (\A j \in 0 .. m - 1 : x[j] \in 0 .. Base - 1) /\ \A j \in 0 .. l - 1 : y[j] \in 0 .. Base - 1
    BY NumberDef DEF Byte
  <2> QED
    BY <1>1, <2>1
<1>3. z[i_1 + k] = Low(w[k] + h * y[k] + x[i_1 + k])
  BY <1>1 DEF Rowed
<1>4. w[k + 1] = (w[k] + h * y[k] + x[i_1 + k]) \div Base
  BY <1>1 DEF Rowed
<1>5. PICK c, q, p, v, d : c = w[k] /\ q = y[k] /\ p = x[i_1 + k] /\ v = z[i_1 + k] /\ d = w[k + 1]
  OBVIOUS
<1>6. /\ c \in 0 .. Base - 1 /\ q \in 0 .. Base - 1 /\ p \in 0 .. Base - 1
      /\ v = Low(c + h * q + p) /\ d = (c + h * q + p) \div Base
  BY <1>2, <1>3, <1>4, <1>5
<1>7. v \in 0 .. Base - 1 /\ v + Base * d = c + (h * q + p)
  <2>1. PICK t : t = c + h * q + p
    OBVIOUS
  <2>2. c \in 0 .. Base - 1 /\ q \in 0 .. Base - 1 /\ p \in 0 .. Base - 1
    BY <1>6
  <2>3. TwoBytes(t) /\ t = c + (h * q + p)
    BY <2>1, <2>2, ProductStep
  <2>4. v = Low(t) /\ d = t \div Base
    BY <1>6, <2>1
  <2>5. PICK lo, up : lo = Low(t) /\ up = t \div Base
    OBVIOUS
  <2>6. lo \in 0 .. Base - 1 /\ lo + Base * up = t
    BY <2>3, <2>5 DEF TwoBytes
  <2> QED
    BY <2>3, <2>4, <2>5, <2>6
<1>8. q \in Nat /\ p \in Nat
  BY <1>6, Weights
<1> QED
  BY <1>5, <1>7, <1>8

\* The sum of a row, at byte i of the result.
LEMMA RowSum ==
  ASSUME NEW wi \in Nat, NEW wn \in Nat, NEW v \in Nat, NEW c \in Nat, NEW h \in Nat,
         NEW p \in Nat, NEW u \in Nat, NEW e \in Nat, v + c * wn = h * p + u
  PROVE  /\ (e + wi * v) + c * (wi * wn) = (e + wi * u) + h * (wi * p)
         /\ h * (wi * p) \in Nat /\ c * (wi * wn) \in Nat
<1>1. wi * (v + c * wn) = wi * v + c * (wi * wn)
  OBVIOUS
<1>2. wi * (h * p + u) = h * (wi * p) + wi * u
  OBVIOUS
<1>3. wi * v \in Nat /\ wi * u \in Nat /\ wi * p \in Nat /\ wi * wn \in Nat
  OBVIOUS
<1>4. h * (wi * p) \in Nat /\ c * (wi * wn) \in Nat
  BY <1>3
<1> QED
  BY <1>1, <1>2, <1>3, <1>4

RowAdds(w, x, z, y, h, i_1, n) ==
  /\ Part(z, i_1 + n) + w[n] * Weight(i_1 + n) = Part(x, i_1 + n) + h * (Weight(i_1) * Part(y, n))
  /\ w[n] \in Nat /\ h * (Weight(i_1) * Part(y, n)) \in Nat /\ w[n] * Weight(i_1 + n) \in Nat

\* What a row adds, as far as it reaches.
LEMMA RowValue ==
  ASSUME NEW m \in Nat, NEW x \in Number(m), NEW i_1 \in Nat, NEW n \in Nat, i_1 + n <= m,
         NEW l \in Nat, NEW y \in Number(l), n <= l, NEW h \in 0 .. Base - 1,
         NEW w \in [0 .. n -> 0 .. Base - 1], NEW z \in Number(m), Rowed(w, x, z, y, h, i_1, n)
  PROVE  RowAdds(w, x, z, y, h, i_1, n)
<1> DEFINE below == Slice(x, i_1, n)
           sums == Slice(z, i_1, n)
           u == [k \in 0 .. n - 1 |-> h * y[k] + below[k]]
<1>1. /\ below \in Number(n) /\ (\A k \in 0 .. n - 1 : below[k] = x[i_1 + k])
      /\ sums \in Number(n) /\ (\A k \in 0 .. n - 1 : sums[k] = z[i_1 + k])
      /\ Part(x, i_1 + n) = Part(x, i_1) + Weight(i_1) * Value(below)
      /\ Part(z, i_1 + n) = Part(z, i_1) + Weight(i_1) * Value(sums)
      /\ Digits(x, i_1)
  BY SliceNumber
<1>2. \A k \in 0 .. n - 1 : u[k] = h * y[k] + below[k]
  OBVIOUS
<1> HIDE DEF below, sums, u
<1>3. n \in 0 .. n /\ i_1 \in 0 .. i_1 /\ h \in Nat /\ w[n] \in Nat /\ \A k \in 0 .. n : w[k] \in Nat
  <2>1. \A k \in 0 .. n : w[k] \in 0 .. Base - 1
    OBVIOUS
  <2>2. n \in 0 .. n /\ i_1 \in 0 .. i_1
    OBVIOUS
  <2>3. ASSUME NEW v \in 0 .. Base - 1 PROVE v \in Nat
    BY Weights
  <2>4. h \in Nat /\ \A k \in 0 .. n : w[k] \in Nat
    BY <2>1, <2>3
  <2> QED
    BY <2>2, <2>4
<1>4. /\ Digits(below, n) /\ Value(below) = Part(below, n) /\ Value(below) \in Nat
      /\ Digits(sums, n) /\ Value(sums) = Part(sums, n) /\ Value(sums) \in Nat
  BY <1>1, NumberDef
<1>5. ASSUME NEW k \in 0 .. n - 1
      PROVE  /\ below[k] \in Nat /\ y[k] \in Nat
             /\ sums[k] + Base * w[k + 1] = w[k] + (h * y[k] + below[k])
  <2>1. /\ x[i_1 + k] \in Nat /\ y[k] \in Nat
        /\ z[i_1 + k] + Base * w[k + 1] = w[k] + (h * y[k] + x[i_1 + k])
    <3>1. Carrying(w, x, z, y, h, i_1, n)
      BY RowByte
    <3> QED
      BY <3>1 DEF Carrying
  <2>2. below[k] = x[i_1 + k] /\ sums[k] = z[i_1 + k]
    BY <1>1
  <2> QED
    BY <2>1, <2>2, Zenon
<1>6. Summed(h, y, below, u, n)
  BY <1>2, <1>5 DEF Summed, Digits
<1>7. Digits(u, n) /\ Part(u, n) = h * Part(y, n) + Part(below, n)
  BY <1>3, <1>6, PartSum
<1>8. Carried(sums, u, w, n)
  <2>1. \A k \in 0 .. n - 1 : sums[k] + Base * w[k + 1] = w[k] + u[k]
    BY <1>2, <1>5
  <2> QED
    BY <1>3, <1>4, <1>7, <2>1 DEF Carried
<1>9. Part(sums, n) + w[n] * Weight(n) = Part(u, n) + w[0] /\ w[0] = 0
  BY <1>3, <1>8, Carries DEF Rowed
<1>10. Part(y, n) \in Nat /\ Part(x, i_1) \in Nat /\ Weight(i_1) \in Nat /\ Weight(n) \in Nat
       /\ Weight(i_1 + n) = Weight(i_1) * Weight(n)
  <2>1. Digits(y, l) /\ n \in 0 .. l
    BY NumberDef
  <2> QED
    BY <1>1, <1>3, <2>1, PartDef, Weights, WeightSum
<1>11. Value(sums) + w[n] * Weight(n) = h * Part(y, n) + Value(below)
  <2>1. w[n] * Weight(n) \in Nat /\ h * Part(y, n) \in Nat
    <3>1. PICK d, e, f, g : d = w[n] /\ e = Weight(n) /\ f = h /\ g = Part(y, n)
      OBVIOUS
    <3>2. d \in Nat /\ e \in Nat /\ f \in Nat /\ g \in Nat
      BY <1>3, <1>10, <3>1
    <3>3. d * e \in Nat /\ f * g \in Nat
      BY <3>2
    <3> QED
      BY <3>1, <3>3
  <2> QED
    BY <1>4, <1>7, <1>9, <2>1
<1>12. Part(z, i_1) = Part(x, i_1)
  <2>1. Agree(x, z, i_1)
    BY DEF Agree, Rowed
  <2> QED
    BY <1>1, <1>3, <2>1, PartSame
<1>13. PICK wi, wn, v, c, p, d, e :
         /\ wi = Weight(i_1) /\ wn = Weight(n) /\ v = Value(sums) /\ c = w[n] /\ p = Part(y, n)
         /\ d = Value(below) /\ e = Part(x, i_1)
  OBVIOUS
<1>14. /\ wi \in Nat /\ wn \in Nat /\ v \in Nat /\ c \in Nat /\ p \in Nat /\ d \in Nat /\ e \in Nat
       /\ v + c * wn = h * p + d
  BY <1>3, <1>4, <1>10, <1>11, <1>13
<1>15. (e + wi * v) + c * (wi * wn) = (e + wi * d) + h * (wi * p)
       /\ h * (wi * p) \in Nat /\ c * (wi * wn) \in Nat
  BY <1>3, <1>14, RowSum
<1>16. /\ Part(x, i_1 + n) = e + wi * d /\ Part(z, i_1 + n) = e + wi * v
       /\ Weight(i_1 + n) = wi * wn
  BY <1>1, <1>10, <1>12, <1>13
<1>17. /\ Part(z, i_1 + n) + w[n] * Weight(i_1 + n) = Part(x, i_1 + n) + h * (Weight(i_1) * Part(y, n))
       /\ w[n] \in Nat /\ h * (Weight(i_1) * Part(y, n)) \in Nat /\ w[n] * Weight(i_1 + n) \in Nat
  BY <1>3, <1>13, <1>15, <1>16
<1> QED
  BY <1>17 DEF RowAdds

\* The bytes above a number that is less than their weight are zero.
LEMMA ZeroAbove ==
  ASSUME NEW m \in Nat, NEW x \in Number(m), NEW s \in 0 .. m, Value(x) < Weight(s)
  PROVE  Value(x) = Part(x, s) /\ Value(Slice(x, s, m - s)) = 0
<1>1. m - s \in Nat /\ s \in Nat /\ s + (m - s) = m /\ s + (m - s) <= m
  OBVIOUS
<1>2. Slice(x, s, m - s) \in Number(m - s)
      /\ Part(x, s + (m - s)) = Part(x, s) + Weight(s) * Value(Slice(x, s, m - s))
  BY <1>1, SliceNumber
<1>3. Value(x) = Part(x, s) /\ Value(x) = Part(x, m) /\ Value(x) \in Nat
  BY FitsBelow, NumberDef
<1>4. Value(Slice(x, s, m - s)) \in Nat /\ Weight(s) \in Nat \ {0}
  BY <1>1, <1>2, NumberDef, Weights
<1>5. ASSUME NEW p \in Nat, NEW q \in Nat \ {0}, NEW v \in Nat, v = v + q * p PROVE p = 0
  <2>1. q * p = 0
    <3>1. q * p \in Nat
      OBVIOUS
    <3> QED
      BY <1>5, <3>1
  <2> QED
    BY <2>1
<1> QED
  BY <1>1, <1>2, <1>3, <1>4, <1>5

\* new is r with a number added whose bytes end below byte s of the m bytes.
Added(new, r, added, s, m) ==
  /\ new \in Result(m) /\ added \in Nat
  /\ s < m /\ Value(r.res) < Weight(s) =>
       Value(new.res) = Value(r.res) + added /\ (~r.flag => ~new.flag)
  /\ s = m \/ Value(r.res) < Weight(s) => (~r.before => ~new.before)
  /\ s = m => Value(new.res) = (Value(r.res) + added) % Weight(m)
  /\ s = m /\ Value(r.res) + added < Weight(m) => (~r.flag => ~new.flag)

\* A row of long_number_mul adds a multiple of y, in the bytes there are, and
\* loses no carry where what is above them is still zero.
LEMMA RowIs ==
  ASSUME NEW m \in Nat, NEW r \in Result(m), NEW i_1 \in 0 .. m - 1, NEW l \in Nat,
         NEW y \in Number(l), NEW width \in 0 .. l, NEW h \in 0 .. Base - 1,
         NEW n, n = Lower(width, m - i_1)
  PROVE  Added(Row(r, h, i_1, y, width), r, h * (Weight(i_1) * Part(y, n)), i_1 + n, m)
<1>1. r.res \in Number(m) /\ r.flag \in BOOLEAN /\ r.before \in BOOLEAN
  BY DEF Result
<1>2. PICK w \in [0 .. n -> 0 .. Base - 1] : RowCarries(w, r, h, i_1, y, width, n, m)
  BY RowDef
<1>3. PICK new, x, z, g, t, hi, s, rest, added :
        /\ new = Row(r, h, i_1, y, width) /\ x = r.res /\ z = new.res /\ g = new.flag
        /\ t = new.before
        /\ hi = High(r, i_1, n, m, w[n]) /\ s = i_1 + n /\ rest = m - s
        /\ added = h * (Weight(i_1) * Part(y, n))
  OBVIOUS
<1>4. n \in Nat /\ s \in Nat /\ s <= m /\ n <= l /\ rest \in Nat /\ i_1 \in Nat /\ s + rest = m
      /\ m - i_1 - n = rest /\ n \in 0 .. l /\ i_1 + n = s /\ s \in 0 .. m
      /\ i_1 + n <= m /\ s + rest <= m /\ m - s = rest
  BY <1>3 DEF Lower
<1>5. x \in Number(m)
  BY <1>1, <1>3
<1>6. w[n] \in 0 .. Base - 1 /\ w[n] \in Nat
  <2>1. n \in 0 .. n
    BY <1>4
  <2>2. w[n] \in 0 .. Base - 1
    BY <2>1
  <2> QED
    BY <2>2, Weights
<1>7. /\ w[0] = 0
      /\ \A j \in 1 .. n : w[j] = (w[j - 1] + h * y[j - 1] + x[i_1 + j - 1]) \div Base
      /\ z = [k \in 0 .. m - 1 |->
                IF k < i_1 THEN x[k]
                ELSE IF k < s THEN Low(w[k - i_1] + h * y[k - i_1] + x[k])
                ELSE IF w[n] # 0 THEN hi.res[k - s]
                ELSE x[k]]
      /\ g = IF ~(w[n] # 0) THEN r.flag ELSE IF rest > 0 THEN hi.flag ELSE TRUE
      /\ t = (r.before \/ (w[n] # 0 /\ rest > 0 /\ hi.before))
      /\ new = [res |-> z, flag |-> g, before |-> t]
  <2>1. /\ w[0] = 0
        /\ \A j \in 1 .. n : w[j] = (w[j - 1] + h * y[j - 1] + r.res[i_1 + j - 1]) \div Base
        /\ Row(r, h, i_1, y, width) =
             [res |-> [k \in 0 .. m - 1 |->
                             IF k < i_1 THEN r.res[k]
                             ELSE IF k < i_1 + n THEN Low(w[k - i_1] + h * y[k - i_1] + r.res[k])
                             ELSE IF w[n] # 0 THEN High(r, i_1, n, m, w[n]).res[k - i_1 - n]
                             ELSE r.res[k]],
              flag |-> IF ~(w[n] # 0) THEN r.flag
                       ELSE IF m - i_1 - n > 0 THEN High(r, i_1, n, m, w[n]).flag ELSE TRUE,
              before |-> \/ r.before
                         \/ w[n] # 0 /\ m - i_1 - n > 0 /\ High(r, i_1, n, m, w[n]).before]
    BY <1>2 DEF RowCarries
  <2>2. ASSUME NEW k \in 0 .. m - 1 PROVE k - i_1 - n = k - s
    <3>1. i_1 \in Nat /\ n \in Nat /\ k \in Nat /\ s = i_1 + n
      BY <1>4
    <3> QED
      BY <3>1
  <2>3. Row(r, h, i_1, y, width) =
          [res |-> [k \in 0 .. m - 1 |->
                      IF k < i_1 THEN x[k]
                      ELSE IF k < s THEN Low(w[k - i_1] + h * y[k - i_1] + x[k])
                      ELSE IF w[n] # 0 THEN hi.res[k - s]
                      ELSE x[k]],
           flag |-> IF ~(w[n] # 0) THEN r.flag ELSE IF rest > 0 THEN hi.flag ELSE TRUE,
           before |-> r.before \/ (w[n] # 0 /\ rest > 0 /\ hi.before)]
    <3>1. i_1 + n = s /\ m - i_1 - n = rest
      BY <1>4
    <3> QED
      BY <1>3, <2>1, <2>2, <3>1
  <2>4. /\ z = Row(r, h, i_1, y, width).res /\ g = Row(r, h, i_1, y, width).flag
        /\ t = Row(r, h, i_1, y, width).before
    BY <1>3
  <2>5. w[0] = 0 /\ \A j \in 1 .. n : w[j] = (w[j - 1] + h * y[j - 1] + x[i_1 + j - 1]) \div Base
    BY <1>3, <2>1
  <2>6. Row(r, h, i_1, y, width) = [res |-> z, flag |-> g, before |-> t]
    BY <2>3, <2>4
  <2>7. new = [res |-> z, flag |-> g, before |-> t]
    BY <1>3, <2>6
  <2> QED
    BY <2>3, <2>4, <2>5, <2>7
<1>8. rest > 0 => /\ hi.res \in Number(rest) /\ hi.flag \in BOOLEAN /\ (hi.before => hi.flag)
                  /\ Value(Slice(x, s, rest)) = 0 => Value(hi.res) = w[n] /\ ~hi.flag
  <2>1. SUFFICES ASSUME rest > 0
                 PROVE  /\ hi.res \in Number(rest) /\ hi.flag \in BOOLEAN /\ (hi.before => hi.flag)
                        /\ Value(Slice(x, s, rest)) = 0 => Value(hi.res) = w[n] /\ ~hi.flag
    OBVIOUS
  <2>2. Slice(x, s, rest) \in Number(rest) /\ rest \in Nat \ {0}
    BY <1>4, <1>5, <2>1, SliceNumber
  <2>3. hi = Plus(Slice(x, s, rest), [k \in 0 .. 0 |-> w[n]])
    BY <1>3, <1>4 DEF High
  <2>4. PICK old, c : old = Slice(x, s, rest) /\ c = w[n]
    OBVIOUS
  <2>5. old \in Number(rest) /\ c \in 0 .. Base - 1 /\ hi = Plus(old, [k \in 0 .. 0 |-> c])
    BY <1>6, <2>2, <2>3, <2>4
  <2>6. TakesByte(hi, old, c, rest)
    BY <2>2, <2>5, CarryIntoZero
  <2> QED
    BY <2>4, <2>6 DEF TakesByte
<1>9. Rowed(w, x, z, y, h, i_1, n)
  <2>1. ASSUME NEW k \in 0 .. i_1 - 1 PROVE z[k] = x[k]
    <3>1. k \in 0 .. m - 1 /\ k < i_1
      BY <1>4
    <3> QED
      BY <1>7, <3>1
  <2>2. ASSUME NEW k \in 0 .. n - 1 PROVE z[i_1 + k] = Low(w[k] + h * y[k] + x[i_1 + k])
    <3>1. i_1 + k \in 0 .. m - 1 /\ ~(i_1 + k < i_1) /\ i_1 + k < s /\ (i_1 + k) - i_1 = k
      <4>1. i_1 \in Nat /\ n \in Nat /\ s \in Nat /\ s <= m /\ i_1 + n = s
        BY <1>4
      <4> QED
        BY <4>1
    <3> QED
      BY <1>7, <3>1
  <2> QED
    BY <1>7, <2>1, <2>2 DEF Rowed
<1>10. Carrying(w, x, z, y, h, i_1, n)
  BY <1>4, <1>5, <1>9, RowByte
<1>11. new \in Result(m) /\ z \in Number(m)
  <2>1. ASSUME NEW k \in 0 .. m - 1 PROVE z[k] \in Byte
    <3>0. x[k] \in Byte
      BY <1>5, NumberDef
    <3>1. CASE k < i_1
      BY <1>7, <3>0, <3>1
    <3>2. CASE k >= i_1 /\ k < s
      <4>1. k - i_1 \in 0 .. n - 1 /\ i_1 + (k - i_1) = k
        BY <1>4, <3>2
      <4>2. z[i_1 + (k - i_1)] \in 0 .. Base - 1
        BY <1>10, <4>1 DEF Carrying
      <4> QED
        BY <4>1, <4>2 DEF Byte
    <3>3. CASE k >= s
      <4>1. k - s \in 0 .. rest - 1 /\ rest > 0 /\ ~(k < i_1) /\ ~(k < s)
        BY <1>4, <3>3
      <4>2. hi.res[k - s] \in Byte
        BY <1>4, <1>8, <4>1, NumberDef
      <4> QED
        BY <1>7, <3>0, <4>1, <4>2
    <3> QED
      BY <1>4, <3>1, <3>2, <3>3
  <2>2. z \in Number(m)
    <3>1. z = [k \in 0 .. m - 1 |-> z[k]]
      BY <1>7
    <3> QED
      BY <2>1, <3>1 DEF Number
  <2>3. g \in BOOLEAN
    <3>1. CASE w[n] = 0
      BY <1>1, <1>7, <3>1
    <3>2. CASE w[n] # 0 /\ rest > 0
      BY <1>7, <1>8, <3>2
    <3>3. CASE w[n] # 0 /\ ~(rest > 0)
      BY <1>7, <3>3
    <3> QED
      BY <3>1, <3>2, <3>3
  <2>4. t \in BOOLEAN
    <3>1. t <=> r.before \/ (w[n] # 0 /\ rest > 0 /\ hi.before)
      BY <1>7
    <3>2. t = (r.before \/ (w[n] # 0 /\ rest > 0 /\ hi.before))
      BY <1>7
    <3> QED
      BY <3>2, Zenon
  <2>5. [res |-> z, flag |-> g, before |-> t] \in Result(m)
    BY <2>2, <2>3, <2>4 DEF Result
  <2> QED
    BY <1>7, <2>2, <2>5
<1>12. /\ Part(z, s) + w[n] * Weight(s) = Part(x, s) + added
       /\ added \in Nat /\ w[n] * Weight(s) \in Nat
  <2>1. h * (Weight(i_1) * Part(y, n)) \in Nat /\ w[n] * Weight(i_1 + n) \in Nat
        /\ Part(z, i_1 + n) + w[n] * Weight(i_1 + n) = Part(x, i_1 + n) + h * (Weight(i_1) * Part(y, n))
    <3>1. i_1 \in Nat /\ n \in Nat /\ i_1 + n <= m /\ n <= l
      BY <1>4
    <3>2. RowAdds(w, x, z, y, h, i_1, n)
      BY <1>5, <1>9, <1>11, <3>1, RowValue
    <3> QED
      BY <3>2 DEF RowAdds
  <2> QED
    BY <1>3, <1>4, <2>1
<1>13. /\ Value(x) = Part(x, m) /\ Value(x) \in Nat
       /\ Value(z) = Part(z, m) /\ Value(z) \in Nat /\ Value(z) < Weight(m)
       /\ Weight(m) \in Nat \ {0}
  BY <1>5, <1>11, NumberDef, Weights
<1>14. ASSUME s < m, Value(x) < Weight(s)
       PROVE  Value(z) = Value(x) + added /\ (~r.flag => ~g) /\ (~r.before => ~t)
  <2>1. Value(x) = Part(x, s) /\ Value(Slice(x, s, rest)) = 0
    <3>1. Value(x) = Part(x, s) /\ Value(Slice(x, s, m - s)) = 0
      <4>1. s \in 0 .. m
        BY <1>4
      <4> QED
        BY <1>5, <1>14, <4>1, ZeroAbove
    <3> QED
      BY <1>4, <3>1
  <2>2. rest > 0
    BY <1>4, <1>14
  <2>3. hi.res \in Number(rest) /\ Value(hi.res) = w[n] /\ ~hi.flag
    BY <1>8, <2>1, <2>2
  <2>4. Slice(x, s, rest) \in Number(rest) /\ \A j \in 0 .. rest - 1 : Slice(x, s, rest)[j] = x[s + j]
    <3>1. x \in Number(m) /\ s \in Nat /\ rest \in Nat /\ s + rest <= m /\ m \in Nat
      BY <1>4, <1>5
    <3> QED
      BY <3>1, SliceNumber
  <2>5. PICK top : top = Slice(z, s, rest)
    OBVIOUS
  <2>6. top \in Number(rest) /\ (\A k \in 0 .. rest - 1 : top[k] = z[s + k])
        /\ Part(z, s + rest) = Part(z, s) + Weight(s) * Value(top)
    <3>1. /\ Slice(z, s, rest) \in Number(rest)
          /\ \A k \in 0 .. rest - 1 : Slice(z, s, rest)[k] = z[s + k]
          /\ Part(z, s + rest) = Part(z, s) + Weight(s) * Value(Slice(z, s, rest))
      <4>1. s \in Nat /\ rest \in Nat /\ s + rest <= m
        BY <1>4
      <4> QED
        BY <1>11, <4>1, SliceNumber
    <3> QED
      BY <2>5, <3>1
  <2>7. \A k \in 0 .. rest - 1 : s + k \in 0 .. m - 1 /\ (s + k) - s = k /\ ~(s + k < i_1) /\ ~(s + k < s)
    BY <1>4
  <2>8. Value(top) = w[n]
    <3>1. PICK old : old = IF w[n] # 0 THEN hi.res ELSE Slice(x, s, rest)
      OBVIOUS
    <3>2. old \in Number(rest) /\ Value(old) = w[n]
      BY <2>1, <2>3, <2>4, <3>1
    <3>3. ASSUME NEW k \in 0 .. rest - 1 PROVE top[k] = old[k]
      <4>1. z[s + k] = IF w[n] # 0 THEN hi.res[k] ELSE x[s + k]
        BY <1>7, <2>7
      <4> QED
        BY <2>4, <2>6, <3>1, <4>1
    <3>4. Agree(old, top, rest)
      BY <3>3 DEF Agree
    <3>5. rest \in 0 .. rest
      BY <1>4
    <3>6. Digits(old, rest) /\ Value(old) = Part(old, rest) /\ Value(top) = Part(top, rest)
      BY <1>4, <2>6, <3>2, NumberDef
    <3>7. Part(top, rest) = Part(old, rest)
      BY <1>4, <3>4, <3>5, <3>6, PartSame
    <3> QED
      BY <3>2, <3>6, <3>7
  <2>9. Value(z) = Value(x) + added
    <3>1. Weight(s) \in Nat
      BY <1>4, Weights
    <3>2. Weight(s) * w[n] = w[n] * Weight(s)
      BY <1>6, <3>1
    <3>3. Part(z, s + rest) = Part(z, s) + w[n] * Weight(s)
      BY <2>6, <2>8, <3>2
    <3> QED
      BY <1>4, <1>12, <1>13, <2>1, <3>3
  <2>10. ~r.flag => ~g
    BY <1>7, <2>2, <2>3
  <2>11. ~r.before => ~t
    BY <1>7, <1>8, <2>2, <2>3
  <2> QED
    BY <2>9, <2>10, <2>11
<1>15. ASSUME s = m PROVE Value(z) = (Value(x) + added) % Weight(m)
  <2>1. Value(x) + added = w[n] * Weight(m) + Value(z)
    <3>1. w[n] * Weight(m) \in Nat
      BY <1>6, <1>13
    <3> QED
      BY <1>12, <1>13, <1>15, <3>1
  <2>2. Value(x) + added \in Int /\ w[n] \in Int
    BY <1>6, <1>12, <1>13
  <2>3. (Value(x) + added) % Weight(m) = Value(z)
    BY <1>13, <2>1, <2>2, DivIs
  <2> QED
    BY <2>3
<1>16. ASSUME s = m, Value(x) + added < Weight(m), ~r.flag PROVE ~g
  <2>1. w[n] = 0
    <3>1. SUFFICES ASSUME w[n] # 0 PROVE FALSE
      OBVIOUS
    <3>2. w[n] * Weight(m) >= Weight(m)
      BY <1>6, <1>13, <3>1
    <3> QED
      BY <1>12, <1>13, <1>16, <3>2
  <2> QED
    BY <1>7, <1>16, <2>1
<1>17. s = m => (~r.before => ~t)
  <2>1. s = m => ~(rest > 0)
    BY <1>4
  <2>2. t <=> r.before \/ (w[n] # 0 /\ rest > 0 /\ hi.before)
    BY <1>7, Zenon
  <2> QED
    BY <2>1, <2>2, Zenon
<1>18. s = m \/ Value(x) < Weight(s) => (~r.before => ~t)
  BY <1>4, <1>14, <1>17
<1>19. Added(new, r, added, s, m)
  BY <1>3, <1>11, <1>12, <1>14, <1>15, <1>16, <1>18 DEF Added
<1> QED
  BY <1>3, <1>19

\* The rows of long_number_mul, one after the other, from r on: l is the length
\* of the longer of the two numbers.
Rows(f, u, v, r, width, l) ==
  /\ f[0] = [res |-> r, flag |-> FALSE, before |-> FALSE]
  /\ \A k \in 1 .. l : f[k] = Row(f[k - 1], u[k - 1], k - 1, v, width)

\* long_number_mul in terms of its rows.
LEMMA MulDef ==
  ASSUME NEW m \in Nat, NEW r \in Number(m), NEW g \in Nat, NEW x \in Number(g), NEW h \in Nat, NEW y \in Number(h),
         NEW u, u = IF g < h THEN y ELSE x, NEW v, v = IF g < h THEN x ELSE y,
         NEW width, width = Lower(Bytes(v), m), NEW l, l = Lower(Bytes(u), m)
  PROVE  \E f \in [0 .. l -> Result(m)] : Rows(f, u, v, r, width, l) /\ Mul(x, y, r) = f[l]
<1> DEFINE long == IF Bytes(x) < Bytes(y) THEN y ELSE x
           short == IF Bytes(x) < Bytes(y) THEN x ELSE y
           width0 == Lower(Bytes(short), Bytes(r))
           row[i_1 \in 0 .. Lower(Bytes(long), Bytes(r))] ==
             IF i_1 = 0 THEN [res |-> r, flag |-> FALSE, before |-> FALSE]
             ELSE Row(row[i_1 - 1], long[i_1 - 1], i_1 - 1, short, width0)
           D == [p \in Result(m) \X (1 .. l) |-> Row(p[1], u[p[2] - 1], p[2] - 1, v, width)]
<1>1. Bytes(x) = g /\ Bytes(y) = h /\ Bytes(r) = m
  BY NumberDef
<1>2. PICK p \in Nat, q \in Nat : u \in Number(p) /\ v \in Number(q) /\ Bytes(u) = p /\ Bytes(v) = q
  <2>1. CASE g < h
    BY <1>1, <2>1
  <2>2. CASE ~(g < h)
    BY <1>1, <2>2
  <2> QED
    BY <2>1, <2>2
<1>3. long = u /\ short = v /\ width0 = width /\ Lower(Bytes(long), Bytes(r)) = l
  BY <1>1
<1>4. l \in Nat /\ l <= m /\ l <= p /\ width \in 0 .. q
  BY <1>2 DEF Lower
<1>5. ASSUME NEW w \in Result(m), NEW k \in 1 .. l
      PROVE  D[<<w, k>>] = Row(w, u[k - 1], k - 1, v, width) /\ D[<<w, k>>] \in Result(m)
  <2>1. k - 1 \in 0 .. m - 1 /\ k - 1 \in 0 .. p - 1
    BY <1>4
  <2>2. u[k - 1] \in 0 .. Base - 1
    BY <1>2, <2>1, NumberDef DEF Byte
  <2>3. Row(w, u[k - 1], k - 1, v, width) \in Result(m)
    <3>1. PICK n : n = Lower(width, m - (k - 1))
      OBVIOUS
    <3>2. Added(Row(w, u[k - 1], k - 1, v, width), w,
                u[k - 1] * (Weight(k - 1) * Part(v, n)), k - 1 + n, m)
      BY <1>2, <1>4, <2>1, <2>2, <3>1, RowIs
    <3> QED
      BY <3>2 DEF Added
  <2> QED
    BY <2>3
<1>6. [res |-> r, flag |-> FALSE, before |-> FALSE] \in Result(m)
  BY DEF Result
<1> HIDE DEF D
<1>7. Steps(D, Result(m), l)
  BY <1>5 DEF Steps
<1>8. PICK f \in [0 .. l -> Result(m)] : Follows(f, [res |-> r, flag |-> FALSE, before |-> FALSE], D, l)
  BY <1>4, <1>6, <1>7, Recursion
<1>9. Rows(f, u, v, r, width, l)
  <2>1. ASSUME NEW k \in 1 .. l PROVE f[k] = Row(f[k - 1], u[k - 1], k - 1, v, width)
    <3>1. k - 1 \in 0 .. l
      BY <1>4
    <3>2. f[k - 1] \in Result(m) /\ f[k] = D[<<f[k - 1], k>>]
      BY <1>8, <3>1 DEF Follows
    <3> QED
      BY <1>5, <3>2
  <2> QED
    BY <1>8, <2>1 DEF Rows, Follows
<1>10. f = [i_1 \in 0 .. Lower(Bytes(long), Bytes(r)) |->
              IF i_1 = 0 THEN [res |-> r, flag |-> FALSE, before |-> FALSE]
              ELSE Row(f[i_1 - 1], long[i_1 - 1], i_1 - 1, short, width0)]
  <2> DEFINE K(c, k) == Row(c, u[k - 1], k - 1, v, width)
  <2>1. f[0] = [res |-> r, flag |-> FALSE, before |-> FALSE] /\ \A k \in 1 .. l : f[k] = K(f[k - 1], k)
    BY <1>9 DEF Rows
  <2> HIDE DEF K
  <2>2. f = [k \in 0 .. l |-> IF k = 0 THEN [res |-> r, flag |-> FALSE, before |-> FALSE] ELSE K(f[k - 1], k)]
    BY <1>4, <2>1
  <2>3. f = [k \in 0 .. l |-> IF k = 0 THEN [res |-> r, flag |-> FALSE, before |-> FALSE]
                              ELSE Row(f[k - 1], u[k - 1], k - 1, v, width)]
    BY <2>2 DEF K
  <2> QED
    BY <1>3, <2>3, Zenon
<1>11. row = [i_1 \in 0 .. Lower(Bytes(long), Bytes(r)) |->
                IF i_1 = 0 THEN [res |-> r, flag |-> FALSE, before |-> FALSE]
                ELSE Row(row[i_1 - 1], long[i_1 - 1], i_1 - 1, short, width0)]
  BY <1>10, Zenon
<1>12. Mul(x, y, r) = row[Lower(Bytes(long), Bytes(r))]
  BY Zenon DEF Mul
<1> HIDE DEF row, long, short, width0
<1>13. row \in [0 .. l -> Result(m)] /\ Rows(row, u, v, r, width, l)
  <2>1. row[0] = [res |-> r, flag |-> FALSE, before |-> FALSE]
        /\ \A k \in 1 .. l : row[k] = Row(row[k - 1], u[k - 1], k - 1, v, width)
    <3> DEFINE K(c, k) == Row(c, u[k - 1], k - 1, v, width)
               r0 == [res |-> r, flag |-> FALSE, before |-> FALSE]
    <3>1. row = [k \in 0 .. l |-> IF k = 0 THEN r0 ELSE K(row[k - 1], k)]
      BY <1>3, <1>11, Zenon
    <3> HIDE DEF K, r0
    <3>2. row[0] = r0 /\ \A k \in 1 .. l : row[k] = K(row[k - 1], k)
      <4>1. 0 \in 0 .. l /\ \A k \in 1 .. l : k \in 0 .. l /\ k # 0
        BY <1>4
      <4> QED
        BY <3>1, <4>1
    <3> QED
      BY <3>2, Zenon DEF K, r0
  <2> DEFINE T == {k \in 0 .. l : row[k] \in Result(m)}
  <2>2. 0 \in T
    BY <1>4, <1>6, <2>1
  <2>3. ASSUME NEW k \in 0 .. l - 1, k \in T PROVE k + 1 \in T
    <3>1. k + 1 \in 1 .. l /\ k + 1 \in 0 .. l /\ (k + 1) - 1 = k
      BY <1>4
    <3>2. row[k + 1] = Row(row[(k + 1) - 1], u[(k + 1) - 1], (k + 1) - 1, v, width)
      BY <2>1, <3>1
    <3>3. D[<<row[k], k + 1>>] = Row(row[k], u[(k + 1) - 1], (k + 1) - 1, v, width)
          /\ D[<<row[k], k + 1>>] \in Result(m)
      BY <1>5, <2>3, <3>1
    <3> QED
      BY <3>1, <3>2, <3>3
  <2> HIDE DEF T
  <2>4. \A k \in 0 .. l : k \in T
    BY <1>4, <2>2, <2>3, Upward
  <2>5. row = [k \in 0 .. l |-> row[k]]
    BY <1>3, <1>11
  <2>6. row \in [0 .. l -> Result(m)]
    BY <2>4, <2>5 DEF T
  <2> QED
    BY <2>1, <2>6 DEF Rows
<1> QED
  BY <1>3, <1>12, <1>13

\* The product of two numbers of n and m bytes has at most n + m bytes.
LEMMA ProductBound ==
  ASSUME NEW u \in Nat, NEW v \in Nat, NEW p \in Nat, NEW q \in Nat, u < p, v < q
  PROVE  u * v \in Nat /\ u * v < p * q
<1>1. PICK s \in Nat : p = u + 1 + s
  <2>1. p - u - 1 \in Nat /\ p = u + 1 + (p - u - 1)
    OBVIOUS
  <2> QED
    BY <2>1
<1>2. PICK t \in Nat : q = v + 1 + t
  <2>1. q - v - 1 \in Nat /\ q = v + 1 + (q - v - 1)
    OBVIOUS
  <2> QED
    BY <2>1
<1>3. p * q = u * v + (u + u * t) + (v + 1 + t) + (s * v + s + s * t)
  BY <1>1, <1>2
<1>4. u * v \in Nat /\ u * t \in Nat /\ s * v \in Nat /\ s * t \in Nat
  BY <1>1, <1>2
<1> QED
  BY <1>1, <1>2, <1>3, <1>4

\* A number below the divisor is its own remainder.
LEMMA SmallMod ==
  ASSUME NEW d \in Nat \ {0}, NEW s \in Nat, s < d
  PROVE  s % d = s
<1>1. s = 0 * d + s
  OBVIOUS
<1> QED
  BY <1>1, DivIs

\* r is the product of the lowest k bytes of u and of v, and has not overflown
\* if there is room for all of u.
Multiplied(r, u, v, k, m, p, q) ==
  /\ r \in Result(m) /\ ~r.before
  /\ Value(r.res) = (Part(u, k) * Value(v)) % Weight(m)
  /\ Part(u, p) * Value(v) < Weight(m) => ~r.flag

\* One row of the product of u and v, without and with the end of the result
\* in it.
LEMMA MulRow ==
  ASSUME NEW m \in Nat, NEW p \in Nat, NEW q \in Nat, NEW u \in Number(p), NEW v \in Number(q),
         NEW width, width = Lower(q, m), NEW k \in 0 .. m - 1, k < p,
         NEW r, Multiplied(r, u, v, k, m, p, q)
  PROVE  Multiplied(Row(r, u[k], k, v, width), u, v, k + 1, m, p, q)
<1> USE DEF Multiplied
<1>1. PICK n, new, h, wk, wm, s, part, added, value, sum :
        /\ n = Lower(width, m - k) /\ new = Row(r, u[k], k, v, width) /\ h = u[k] /\ wk = Weight(k)
        /\ wm = Weight(m) /\ s = Part(u, k) * Value(v) /\ part = Part(v, n)
        /\ added = h * (wk * part) /\ value = Value(v) /\ sum = Part(u, k)
  OBVIOUS
<1>2. /\ k \in Nat /\ k \in 0 .. p - 1 /\ width \in 0 .. q /\ n \in Nat /\ n \in 0 .. q /\ n <= m - k
      /\ k + n <= m
  BY <1>1 DEF Lower
<1>3. h \in 0 .. Base - 1 /\ h \in Nat /\ sum \in Nat /\ sum < wk /\ wk \in Nat \ {0}
      /\ Part(u, k + 1) = sum + h * wk
  <2>1. u[k] \in Nat /\ u[k] < Base /\ Part(u, k) \in Nat /\ Part(u, k) < Weight(k)
        /\ Weight(k) \in Nat \ {0} /\ Part(u, k + 1) = Part(u, k) + u[k] * Weight(k)
    BY <1>2, ByteOfNumber
  <2> QED
    BY <1>1, <2>1, Weights
<1>4. value \in Nat /\ value < Weight(q) /\ value = Part(v, q) /\ Digits(v, q) /\ wm \in Nat \ {0}
  BY <1>1, NumberDef, Weights
<1>5. part \in Nat
  <2>1. Part(v, n) \in Nat
    BY <1>2, <1>4, PartDef
  <2> QED
    BY <1>1, <2>1
<1>6. /\ new \in Result(m) /\ added \in Nat
      /\ k + n < m /\ Value(r.res) < Weight(k + n) =>
           Value(new.res) = Value(r.res) + added /\ (~r.flag => ~new.flag)
      /\ k + n = m \/ Value(r.res) < Weight(k + n) => ~new.before
      /\ k + n = m => Value(new.res) = (Value(r.res) + added) % wm
      /\ k + n = m /\ Value(r.res) + added < wm => (~r.flag => ~new.flag)
  <2>1. Added(Row(r, h, k, v, width), r, h * (Weight(k) * Part(v, n)), k + n, m)
    BY <1>1, <1>2, <1>3, RowIs
  <2> QED
    BY <1>1, <2>1 DEF Added
<1>7. s \in Nat /\ s = sum * value /\ Value(r.res) = s % wm
  BY <1>1, <1>3, <1>4
<1>8. Part(u, k + 1) * value = s + h * (wk * value)
  <2>1. (sum + h * wk) * value = sum * value + h * (wk * value)
    BY <1>3, <1>4
  <2> QED
    BY <1>3, <1>7, <2>1
<1>9. CASE k + n < m
  <2>1. n = q /\ part = value
    BY <1>1, <1>4, <1>9 DEF Lower
  <2>2. s < Weight(k + n) /\ Weight(k + n) = wk * Weight(q)
    <3>1. Weight(k + q) = Weight(k) * Weight(q) /\ Weight(q) \in Nat
      BY <1>2, WeightSum, Weights
    <3>2. sum * value < wk * Weight(q)
      BY <1>3, <1>4, <3>1, ProductBound
    <3> QED
      BY <1>1, <1>7, <2>1, <3>1, <3>2
  <2>3. Weight(k + n) < wm
    <3>1. ByteBits * (k + n) \in Nat /\ ByteBits * m \in Nat /\ ByteBits * (k + n) < ByteBits * m
      BY <1>2, <1>9, ByteBitsAssumption
    <3>2. Pow2[ByteBits * (k + n)] < Pow2[ByteBits * m]
      BY <3>1, PowerOrder
    <3> QED
      BY <1>1, <3>2 DEF Weight
  <2>4. Value(r.res) = s
    <3>1. Weight(k + n) \in Nat
      BY <1>2, Weights
    <3>2. s < wm
      BY <1>4, <1>7, <2>2, <2>3, <3>1
    <3> QED
      BY <1>4, <1>7, <3>2, SmallMod
  <2>5. Value(new.res) = s + added /\ (~r.flag => ~new.flag)
    BY <1>6, <1>9, <2>2, <2>4
  <2>6. Value(new.res) = Part(u, k + 1) * value
    BY <1>1, <1>8, <2>1, <2>5
  <2>7. Value(new.res) < wm /\ Value(new.res) \in Nat
    <3>1. new.res \in Number(m)
      BY <1>6 DEF Result
    <3> QED
      BY <1>1, <3>1, NumberDef
  <2>8. Value(new.res) = (Part(u, k + 1) * value) % wm
    BY <1>4, <2>6, <2>7, SmallMod
  <2>9. ~new.before
    BY <1>6, <2>2, <2>4
  <2> QED
    BY <1>1, <1>6, <2>5, <2>8, <2>9
<1>10. CASE k + n = m
  <2>1. PICK t \in Nat : value = part + Weight(n) * t
    <3>1. q - n \in Nat /\ n + (q - n) = q
      BY <1>2
    <3>2. Slice(v, n, q - n) \in Number(q - n)
          /\ Part(v, n + (q - n)) = Part(v, n) + Weight(n) * Value(Slice(v, n, q - n))
      <4>1. n + (q - n) <= q
        BY <3>1
      <4> QED
        BY <1>2, <3>1, <4>1, SliceNumber
    <3>3. Value(Slice(v, n, q - n)) \in Nat
      BY <3>1, <3>2, NumberDef
    <3> QED
      BY <1>1, <1>4, <3>1, <3>2, <3>3
  <2>2. h * (wk * value) = added + (h * t) * wm
    <3>1. wk * Weight(n) = wm /\ Weight(n) \in Nat
      BY <1>1, <1>2, <1>10, WeightSum, Weights
    <3>2. PICK wn \in Nat : wn = Weight(n)
      BY <3>1
    <3>3. h * (wk * (part + wn * t)) = h * (wk * part) + (h * t) * (wk * wn)
      BY <1>3, <1>5, <3>2
    <3> QED
      BY <1>1, <2>1, <3>1, <3>2, <3>3
  <2>3. Part(u, k + 1) * value = s + added + (h * t) * wm /\ h * t \in Nat
    <3>1. h * t \in Nat
      BY <1>3
    <3>2. (h * t) * wm \in Nat
      BY <1>4, <3>1
    <3> QED
      BY <1>6, <1>7, <1>8, <2>2, <3>1, <3>2
  <2>4. (s + added + (h * t) * wm) % wm = ((s % wm) + added) % wm
    <3>1. PICK c, d : c = h * t /\ d = s + added + c * wm
      OBVIOUS
    <3>2. d = s + added + c * wm /\ c \in Nat /\ d \in Nat
      <4>1. c \in Nat
        BY <2>3, <3>1
      <4>2. c * wm \in Nat
        BY <1>4, <4>1
      <4> QED
        BY <1>6, <1>7, <3>1, <4>1, <4>2
    <3>3. PICK v1, w1 : v1 = (s % wm) + added /\ w1 = (s \div wm) + c
      OBVIOUS
    <3>4. v1 \in Nat /\ w1 \in Nat /\ d = v1 + w1 * wm
      <4>1. PICK q1, e1 : q1 = s \div wm /\ e1 = s % wm
        OBVIOUS
      <4>2. q1 \in Nat /\ e1 \in Nat /\ s = q1 * wm + e1
        BY <1>4, <1>7, <4>1, DivDef
      <4>3. (q1 + c) * wm = q1 * wm + c * wm
        BY <1>4, <3>2, <4>2
      <4>4. q1 * wm \in Nat /\ c * wm \in Nat
        BY <1>4, <3>2, <4>2
      <4>5. v1 = e1 + added /\ w1 = q1 + c /\ added \in Nat
        BY <1>6, <3>3, <4>1
      <4>6. v1 \in Nat /\ w1 \in Nat
        BY <3>2, <4>2, <4>5
      <4>7. PICK e, f : e = q1 * wm /\ f = c * wm
        OBVIOUS
      <4>8. d = (e + e1) + added + f /\ w1 * wm = e + f /\ e \in Nat /\ f \in Nat
        BY <3>2, <4>2, <4>3, <4>4, <4>5, <4>7
      <4> QED
        BY <4>2, <4>5, <4>6, <4>8
    <3>5. d % wm = v1 % wm
      <4>1. wm \in Nat \ {0} /\ d \in Nat
        BY <1>4, <3>2
      <4> QED
        BY <3>4, <4>1, ModOfSum
    <3> QED
      BY <3>1, <3>3, <3>5
  <2>5. Value(new.res) = (Part(u, k + 1) * value) % wm
    BY <1>6, <1>7, <1>10, <2>3, <2>4
  <2>6. ASSUME Part(u, p) * Value(v) < Weight(m) PROVE ~new.flag
    <3>1. PICK all, up : all = Part(u, p) /\ up = Part(u, k + 1)
      OBVIOUS
    <3>2. all \in Nat /\ up \in Nat /\ up <= all
      <4>1. k + 1 \in Nat /\ p - (k + 1) \in Nat /\ (k + 1) + (p - (k + 1)) = p /\ k + 1 \in 0 .. p /\ p \in 0 .. p
        BY <1>2
      <4>2. Digits(u, p)
        BY NumberDef
      <4>3. Part(u, k + 1) \in Nat /\ Part(u, p) \in Nat
        BY <4>1, <4>2, PartDef
      <4>4. \A j \in k + 1 .. p - 1 : j \in Nat
        BY <1>2
      <4>5. PICK c : c = Value(Slice(u, k + 1, p - (k + 1)))
        OBVIOUS
      <4>6. /\ Slice(u, k + 1, p - (k + 1)) \in Number(p - (k + 1))
            /\ Part(u, (k + 1) + (p - (k + 1))) = Part(u, k + 1) + Weight(k + 1) * c
        <5>1. (k + 1) + (p - (k + 1)) <= p
          BY <4>1
        <5> QED
          BY <4>1, <4>5, <5>1, SliceNumber
      <4>7. c \in Nat /\ Weight(k + 1) \in Nat
        BY <4>1, <4>5, <4>6, NumberDef, Weights
      <4>8. Weight(k + 1) * c \in Nat
        BY <4>7
      <4>9. all = up + Weight(k + 1) * c
        BY <3>1, <4>1, <4>6
      <4> QED
        BY <3>1, <4>3, <4>8, <4>9
    <3>3. up * value <= all * value /\ up * value \in Nat /\ all * value \in Nat
      BY <1>4, <3>2
    <3>4. all * value < wm
      BY <1>1, <2>6, <3>1
    <3>5. PICK c : c = h * t
      OBVIOUS
    <3>6. c \in Nat /\ up * value = s + added + c * wm
      BY <2>3, <3>1, <3>5
    <3>7. c * wm \in Nat
      BY <1>4, <3>6
    <3>8. s + added < wm
      BY <1>4, <1>6, <1>7, <3>3, <3>4, <3>6, <3>7
    <3>9. s < wm
      BY <1>4, <1>6, <1>7, <3>8
    <3>10. Value(r.res) = s
      BY <1>4, <1>7, <3>9, SmallMod
    <3> QED
      BY <1>6, <1>10, <2>6, <3>8, <3>10
  <2>7. ~new.before
    BY <1>6, <1>10
  <2> QED
    BY <1>1, <1>6, <2>5, <2>6, <2>7
<1> QED
  BY <1>2, <1>9, <1>10

\* long_number_mul into zeroed memory is the product modulo the size of the
\* memory, and reports no overflow where the memory has room for the product.
LEMMA MulIs ==
  ASSUME NEW m \in Nat, NEW g \in Nat, NEW x \in Number(g), NEW h \in Nat, NEW y \in Number(h)
  PROVE  /\ Mul(x, y, Zero(m)) \in Result(m)
         /\ Value(Mul(x, y, Zero(m)).res) = (Value(x) * Value(y)) % Weight(m)
         /\ Value(x) * Value(y) < Weight(m) => ~Mul(x, y, Zero(m)).flag
         /\ ~Mul(x, y, Zero(m)).before
<1>1. Zero(m) \in Number(m) /\ Value(Zero(m)) = 0
  <2>1. Zero(m) \in Number(m)
    <3>1. 0 \in Byte
      BY Weights DEF Byte
    <3> QED
      BY <3>1 DEF Zero, Number
  <2>2. IsZero(Zero(m))
    BY DEF IsZero, Zero
  <2> QED
    BY <2>1, <2>2, ZeroValue
<1>2. PICK u, v, width, l :
        /\ u = IF g < h THEN y ELSE x
        /\ v = IF g < h THEN x ELSE y
        /\ width = Lower(Bytes(v), m) /\ l = Lower(Bytes(u), m)
  OBVIOUS
<1>3. PICK p \in Nat, q \in Nat :
        /\ u \in Number(p) /\ v \in Number(q) /\ Bytes(u) = p /\ Bytes(v) = q /\ p + q = g + h
        /\ Value(u) * Value(v) = Value(x) * Value(y)
  <2>1. Bytes(x) = g /\ Bytes(y) = h /\ Value(x) \in Nat /\ Value(y) \in Nat
    BY NumberDef
  <2>2. CASE g < h
    <3>1. u = y /\ v = x
      BY <1>2, <2>2
    <3>2. Value(y) * Value(x) = Value(x) * Value(y)
      BY <2>1
    <3>3. h + g = g + h
      OBVIOUS
    <3> QED
      BY <2>1, <3>1, <3>2, <3>3
  <2>3. CASE ~(g < h)
    <3>1. u = x /\ v = y
      BY <1>2, <2>3
    <3> QED
      BY <2>1, <3>1
  <2> QED
    BY <2>2, <2>3
<1>4. PICK f \in [0 .. l -> Result(m)] : Rows(f, u, v, Zero(m), width, l) /\ Mul(x, y, Zero(m)) = f[l]
  BY <1>1, <1>2, MulDef
<1>5. width = Lower(q, m) /\ l = Lower(p, m) /\ l \in Nat /\ l <= m /\ l <= p
  BY <1>2, <1>3 DEF Lower
<1>6. Weight(m) \in Nat \ {0} /\ Value(u) \in Nat /\ Value(v) \in Nat /\ Digits(u, p)
      /\ Value(u) = Part(u, p)
  BY <1>3, NumberDef, Weights
<1> DEFINE T == {k \in 0 .. l : Multiplied(f[k], u, v, k, m, p, q)}
<1>7. 0 \in T
  <2>1. f[0] = [res |-> Zero(m), flag |-> FALSE, before |-> FALSE]
    BY <1>4 DEF Rows
  <2>2. Part(u, 0) = 0
    BY <1>6, PartDef
  <2>3. 0 * Value(v) = 0
    BY <1>6
  <2>4. 0 % Weight(m) = 0
    <3>1. 0 < Weight(m)
      BY <1>6
    <3> QED
      BY <1>6, <3>1, SmallMod
  <2>5. 0 \in 0 .. l /\ f[0] \in Result(m)
    BY <1>5
  <2>6. f[0].res = Zero(m) /\ f[0].flag = FALSE /\ f[0].before = FALSE
    BY <2>1
  <2>7. Value(f[0].res) = (Part(u, 0) * Value(v)) % Weight(m)
    BY <1>1, <2>2, <2>3, <2>4, <2>6
  <2>8. Multiplied(f[0], u, v, 0, m, p, q)
    BY <2>5, <2>6, <2>7 DEF Multiplied
  <2> QED
    BY <2>5, <2>8
<1>8. ASSUME NEW k \in 0 .. l - 1, k \in T PROVE k + 1 \in T
  <2>1. k + 1 \in 1 .. l /\ k + 1 \in 0 .. l /\ (k + 1) - 1 = k /\ k \in 0 .. m - 1 /\ k < p
    BY <1>5
  <2>2. Multiplied(f[k], u, v, k, m, p, q)
    BY <1>8
  <2>3. f[k + 1] = Row(f[k], u[k], k, v, width)
    BY <1>4, <2>1 DEF Rows
  <2>4. Multiplied(Row(f[k], u[k], k, v, width), u, v, k + 1, m, p, q)
    BY <1>3, <1>5, <2>1, <2>2, MulRow
  <2> QED
    BY <2>1, <2>3, <2>4
<1> HIDE DEF T
<1>9. l \in T
  <2>1. \A k \in 0 .. l : k \in T
    BY <1>5, <1>7, <1>8, Upward
  <2>2. l \in 0 .. l
    BY <1>5
  <2> QED
    BY <2>1, <2>2
<1>10. /\ f[l] \in Result(m) /\ Value(f[l].res) = (Part(u, l) * Value(v)) % Weight(m)
       /\ Part(u, p) * Value(v) < Weight(m) => ~f[l].flag
       /\ ~f[l].before
  BY <1>9 DEF T, Multiplied
<1>11. (Part(u, l) * Value(v)) % Weight(m) = (Value(u) * Value(v)) % Weight(m)
  <2>1. CASE l = p
    BY <1>6, <2>1
  <2>2. CASE l # p
    <3>1. l = m /\ m <= p
      BY <1>5, <2>2 DEF Lower
    <3>2. PICK n, t, s, c, w : n = p - m /\ t = Value(Slice(u, m, n)) /\ s = Part(u, m) /\ c = Value(v)
                                /\ w = Weight(m)
      OBVIOUS
    <3>3. n \in Nat /\ m + n = p /\ m + n <= p
      BY <3>1, <3>2
    <3>4. Slice(u, m, n) \in Number(n) /\ Digits(u, m) /\ Part(u, m + n) = Part(u, m) + Weight(m) * Value(Slice(u, m, n))
      BY <1>3, <3>3, SliceNumber
    <3>5. t \in Nat /\ s \in Nat /\ c \in Nat /\ w \in Nat \ {0}
      <4>1. m \in 0 .. m
        OBVIOUS
      <4>2. Part(u, m) \in Nat
        BY <3>4, <4>1, PartDef
      <4> QED
        BY <1>6, <3>2, <3>3, <3>4, <4>2, NumberDef
    <3>6. Value(u) = s + w * t
      BY <1>6, <3>2, <3>3, <3>4
    <3>7. PICK d, e, k : d = (s + w * t) * c /\ e = s * c /\ k = t * c
      OBVIOUS
    <3>8. d \in Nat /\ e \in Nat /\ k \in Nat /\ d = e + k * w
      <4>1. (s + w * t) * c = s * c + (t * c) * w
        BY <3>5
      <4>2. s * c \in Nat /\ t * c \in Nat
        BY <3>5
      <4>3. w * t \in Nat
        BY <3>5
      <4>4. (s + w * t) * c \in Nat
        BY <3>5, <4>3
      <4> QED
        BY <3>7, <4>1, <4>2, <4>4
    <3>9. d % w = e % w
      BY <3>5, <3>8, ModOfSum
    <3> QED
      BY <3>1, <3>2, <3>6, <3>7, <3>9
  <2> QED
    BY <2>1, <2>2
<1>12. Part(u, p) * Value(v) = Value(x) * Value(y)
  BY <1>3, <1>6
<1> QED
  BY <1>3, <1>4, <1>10, <1>11, <1>12

\* A product that is smaller than its memory is complete, whatever the lengths of its factors.
LEMMA SmallProduct ==
  ASSUME NEW m \in Nat, NEW g \in Nat, NEW x \in Number(g), NEW h \in Nat, NEW y \in Number(h),
         Value(x) * Value(y) < Weight(m)
  PROVE  /\ Mul(x, y, Zero(m)) \in Result(m) /\ ~Mul(x, y, Zero(m)).flag
         /\ ~Mul(x, y, Zero(m)).before
         /\ Value(Mul(x, y, Zero(m)).res) = Value(x) * Value(y)
<1>1. PICK c : c = Value(x) * Value(y)
  OBVIOUS
<1>2. /\ Mul(x, y, Zero(m)) \in Result(m) /\ ~Mul(x, y, Zero(m)).flag
      /\ ~Mul(x, y, Zero(m)).before
      /\ Value(Mul(x, y, Zero(m)).res) = c % Weight(m)
  BY <1>1, MulIs
<1>3. Value(x) \in Nat /\ Value(y) \in Nat /\ Weight(m) \in Nat \ {0}
  BY NumberDef, Weights
<1>4. c \in Nat /\ c < Weight(m)
  BY <1>1, <1>3
<1>5. c % Weight(m) = c
  BY <1>3, <1>4, SmallMod
<1> QED
  BY <1>1, <1>2, <1>5

\* A product that its memory has room for is complete.
LEMMA ProductFits ==
  ASSUME NEW m \in Nat, NEW g \in Nat, NEW x \in Number(g), NEW h \in Nat, NEW y \in Number(h),
         g + h <= m
  PROVE  /\ Mul(x, y, Zero(m)) \in Result(m) /\ ~Mul(x, y, Zero(m)).flag
         /\ ~Mul(x, y, Zero(m)).before
         /\ Value(Mul(x, y, Zero(m)).res) = Value(x) * Value(y)
<1>1. /\ Value(x) \in Nat /\ Value(x) < Weight(g) /\ Weight(g) \in Nat \ {0}
      /\ Value(y) \in Nat /\ Value(y) < Weight(h) /\ Weight(h) \in Nat \ {0}
  BY NumberDef, Weights
<1>2. Value(x) * Value(y) \in Nat /\ Value(x) * Value(y) < Weight(g) * Weight(h)
  BY <1>1, ProductBound
<1>3. Weight(g) * Weight(h) = Weight(g + h)
  BY WeightSum
<1>4. Weight(g + h) <= Weight(m) /\ Weight(m) \in Nat \ {0} /\ Weight(g + h) \in Nat
  <2>1. g + h \in Nat /\ ByteBits * (g + h) \in Nat /\ ByteBits * m \in Nat
        /\ ByteBits * (g + h) <= ByteBits * m
    BY ByteBitsAssumption
  <2>2. Pow2[ByteBits * (g + h)] <= Pow2[ByteBits * m]
    BY <2>1, PowerMonotone
  <2> QED
    BY <2>1, <2>2, Weights DEF Weight
<1>5. Value(x) * Value(y) < Weight(m)
  BY <1>2, <1>3, <1>4
<1> QED
  BY <1>5, SmallProduct

----------------------------------------------------------------------------
(* Division by a byte.                                                       *)

\* One byte of the division: z of the quotient, and the remainder r.
LEMMA DivByte ==
  ASSUME NEW d \in Nat \ {0}, NEW c \in Nat, c < d, NEW h \in Nat, h < Base
  PROVE  LET t == c * Base + h IN
         /\ t % d \in Nat /\ t % d < d
         /\ Low(t \div d) \in Byte /\ h + Base * c = (t % d) + d * Low(t \div d)
<1>1. PICK t, q, r : t = c * Base + h /\ q = t \div d /\ r = t % d
  OBVIOUS
<1>2. Base \in Nat \ {0} /\ Base >= 2
  BY Weights
<1>3. c * Base \in Nat /\ Base * c = c * Base
  BY <1>2
<1>4. t \in Nat
  BY <1>1, <1>2, <1>3
<1>5. q \in Nat /\ r \in Nat /\ t = q * d + r /\ r < d
  BY <1>1, <1>4, DivDef
<1>6. t < Base * d
  <2>1. PICK p \in Nat : d = c + 1 + p
    <3>1. d - c - 1 \in Nat /\ d = c + 1 + (d - c - 1)
      OBVIOUS
    <3> QED
      BY <3>1
  <2>2. PICK s : s = Base
    OBVIOUS
  <2>3. s * (c + 1 + p) = c * s + s + s * p /\ s * p \in Nat
    BY <1>2, <2>1, <2>2
  <2> QED
    BY <1>1, <1>2, <1>3, <2>1, <2>2, <2>3
<1>7. q < Base
  <2>1. SUFFICES ASSUME q >= Base PROVE FALSE
    BY <1>2, <1>5
  <2>2. PICK s, p \in Nat : s = Base /\ q = s + p
    <3>1. q - Base \in Nat /\ q = Base + (q - Base)
      BY <1>2, <1>5, <2>1
    <3> QED
      BY <1>2, <3>1
  <2>3. (s + p) * d = s * d + p * d /\ p * d \in Nat /\ s * d \in Nat
    BY <1>2, <2>2
  <2> QED
    BY <1>4, <1>5, <1>6, <2>2, <2>3
<1>8. Low(q) = q /\ q \in Byte
  BY <1>2, <1>5, <1>7, SmallMod DEF Low, Byte
<1>9. q * d = d * q /\ q * d \in Nat
  BY <1>5
<1>10. h + Base * c = r + d * q
  BY <1>1, <1>3, <1>5, <1>9
<1> QED
  BY <1>1, <1>5, <1>8, <1>10

\* The remainders of long_number_divu8: w[k] is that of the bytes from k up.
Remains(w, x, d, n) ==
  /\ w[n] = 0
  /\ \A k \in 0 .. n - 1 : w[k] = (w[k + 1] * Base + x[k]) % d
  /\ DivU8(x, d) = [res |-> [k \in 0 .. n - 1 |-> Low((w[k + 1] * Base + x[k]) \div d)],
                    flag |-> w[0]]

\* long_number_divu8 in terms of its remainders.
LEMMA DivU8Def ==
  ASSUME NEW n \in Nat, NEW x \in Number(n), NEW d \in 1 .. Base - 1
  PROVE  \E w \in [0 .. n -> 0 .. d - 1] : Remains(w, x, d, n)
<1> DEFINE n0 == Bytes(x)
           D == [p \in (0 .. d - 1) \X (1 .. n) |-> (p[1] * Base + x[n - p[2]]) % d]
           rem[i_1 \in 0 .. n0] ==
             IF i_1 = n0 THEN 0 ELSE (rem[i_1 + 1] * Base + x[i_1]) % d
<1>1. n0 = n /\ DOMAIN x = 0 .. n - 1
  BY NumberDef
<1>2. d \in Nat \ {0} /\ 0 \in 0 .. d - 1
  BY Weights
<1>3. ASSUME NEW v \in 0 .. d - 1, NEW k \in 1 .. n
      PROVE  D[<<v, k>>] = (v * Base + x[n - k]) % d /\ D[<<v, k>>] \in 0 .. d - 1
  <2>1. n - k \in 0 .. n - 1
    OBVIOUS
  <2>2. x[n - k] \in Nat /\ x[n - k] < Base
    BY <2>1, ByteOfNumber
  <2>3. PICK h : h = x[n - k]
    OBVIOUS
  <2>4. v \in Nat /\ v < d /\ h \in Nat /\ h < Base
    BY <1>2, <2>2, <2>3
  <2>5. (v * Base + h) % d \in Nat /\ (v * Base + h) % d < d
    BY <1>2, <2>4, DivByte
  <2>6. (v * Base + h) % d \in 0 .. d - 1
    <3>1. PICK r : r = (v * Base + h) % d
      OBVIOUS
    <3>2. r \in 0 .. d - 1
      BY <1>2, <2>5, <3>1
    <3> QED
      BY <3>1, <3>2
  <2> QED
    BY <2>3, <2>6
<1> HIDE DEF D
<1>4. Steps(D, 0 .. d - 1, n)
  BY <1>3 DEF Steps
<1>5. PICK f \in [0 .. n -> 0 .. d - 1] : Follows(f, 0, D, n)
  BY <1>2, <1>4, Recursion
<1> DEFINE K(c, k) == (c * Base + x[k]) % d
           g == [k \in 0 .. n |-> f[n - k]]
<1>6. ASSUME NEW k \in 0 .. n, k # n PROVE g[k] = K(g[k + 1], k)
  <2>1. n - k \in 1 .. n /\ n - k \in 0 .. n /\ (n - k) - 1 \in 0 .. n /\ k + 1 \in 0 .. n
        /\ n - (n - k) = k /\ (n - k) - 1 = n - (k + 1)
    BY <1>6
  <2>2. f[n - k] = D[<<f[(n - k) - 1], n - k>>] /\ f[(n - k) - 1] \in 0 .. d - 1
    BY <1>5, <2>1 DEF Follows
  <2>3. f[n - k] = (f[(n - k) - 1] * Base + x[n - (n - k)]) % d
    BY <1>3, <2>1, <2>2
  <2>4. g[k] = f[n - k] /\ g[k + 1] = f[(n - k) - 1]
    BY <2>1
  <2> HIDE DEF g
  <2> QED
    BY <2>1, <2>3, <2>4
<1>7. g[n] = 0
  <2>1. n \in 0 .. n /\ n - n = 0
    OBVIOUS
  <2> QED
    BY <1>5, <2>1 DEF Follows
<1>8. g \in [0 .. n -> 0 .. d - 1]
  <2>1. ASSUME NEW k \in 0 .. n PROVE f[n - k] \in 0 .. d - 1
    <3>1. n - k \in 0 .. n
      OBVIOUS
    <3> QED
      BY <3>1
  <2> QED
    BY <2>1
<1>9. g = [i_1 \in 0 .. n0 |-> IF i_1 = n0 THEN 0 ELSE (g[i_1 + 1] * Base + x[i_1]) % d]
  <2>1. g = [k \in 0 .. n |-> g[k]]
    OBVIOUS
  <2> HIDE DEF g, K
  <2>2. g = [k \in 0 .. n |-> IF k = n THEN 0 ELSE K(g[k + 1], k)]
    BY <1>6, <1>7, <2>1
  <2>3. g = [k \in 0 .. n |-> IF k = n THEN 0 ELSE (g[k + 1] * Base + x[k]) % d]
    BY <2>2 DEF K
  <2> HIDE DEF n0
  <2> QED
    BY <1>1, <2>3, Zenon
<1> HIDE DEF g
<1>10. rem = [i_1 \in 0 .. n0 |-> IF i_1 = n0 THEN 0 ELSE (rem[i_1 + 1] * Base + x[i_1]) % d]
  BY <1>9, Zenon
<1>11. DivU8(x, d) = [res |-> [i_1 \in DOMAIN x |-> Low((rem[i_1 + 1] * Base + x[i_1]) \div d)],
                      flag |-> rem[0]]
  BY Zenon DEF DivU8
<1> HIDE DEF rem, n0, K
<1>12. rem[n] = 0 /\ \A k \in 0 .. n - 1 : rem[k] = (rem[k + 1] * Base + x[k]) % d
  <2>1. rem = [k \in 0 .. n |-> IF k = n THEN 0 ELSE K(rem[k + 1], k)]
    BY <1>1, <1>10, Zenon DEF K
  <2>2. n \in 0 .. n /\ \A k \in 0 .. n - 1 : k \in 0 .. n /\ k # n
    OBVIOUS
  <2>3. rem[n] = 0 /\ \A k \in 0 .. n - 1 : rem[k] = K(rem[k + 1], k)
    BY <2>1, <2>2
  <2> QED
    BY <2>3, Zenon DEF K
<1>13. rem \in [0 .. n -> 0 .. d - 1]
  <2> DEFINE T == {k \in 0 .. n : rem[k] \in 0 .. d - 1}
  <2>1. n \in T
    BY <1>2, <1>12
  <2>2. ASSUME NEW k \in 0 + 1 .. n, k \in T PROVE k - 1 \in T
    <3>1. k - 1 \in 0 .. n - 1 /\ k - 1 \in 0 .. n /\ (k - 1) + 1 = k /\ rem[k] \in 0 .. d - 1
          /\ n - (k - 1) \in 1 .. n /\ n - (n - (k - 1)) = k - 1
      BY <2>2
    <3>2. rem[k - 1] = (rem[(k - 1) + 1] * Base + x[k - 1]) % d
      BY <1>12, <3>1
    <3>3. D[<<rem[k], n - (k - 1)>>] = (rem[k] * Base + x[n - (n - (k - 1))]) % d
          /\ D[<<rem[k], n - (k - 1)>>] \in 0 .. d - 1
      BY <1>3, <3>1
    <3> QED
      BY <3>1, <3>2, <3>3
  <2> HIDE DEF T
  <2>3. \A k \in 0 .. n : k \in T
    BY <2>1, <2>2, Downward
  <2>4. rem = [k \in 0 .. n |-> rem[k]]
    BY <1>1, <1>10
  <2> QED
    BY <2>3, <2>4 DEF T
<1>14. Remains(rem, x, d, n)
  BY <1>1, <1>11, <1>12 DEF Remains
<1> QED
  BY <1>13, <1>14

\* long_number_divu8 divides by a byte.
LEMMA DivU8Is ==
  ASSUME NEW n \in Nat, NEW x \in Number(n), NEW d \in 1 .. Base - 1
  PROVE  /\ DivU8(x, d).res \in Number(n)
         /\ Value(DivU8(x, d).res) = Value(x) \div d
         /\ DivU8(x, d).flag = Value(x) % d
<1>1. PICK w \in [0 .. n -> 0 .. d - 1] : Remains(w, x, d, n)
  BY DivU8Def
<1>2. PICK z : z = DivU8(x, d).res
  OBVIOUS
<1>3. d \in Nat \ {0} /\ n \in 0 .. n
  BY Weights
<1>4. /\ z = [k \in 0 .. n - 1 |-> Low((w[k + 1] * Base + x[k]) \div d)]
      /\ DivU8(x, d).flag = w[0]
  BY <1>1, <1>2 DEF Remains
<1>5. ASSUME NEW k \in 0 .. n - 1
      PROVE  z[k] \in Byte /\ x[k] + Base * w[k + 1] = w[k] + d * z[k]
  <2>1. PICK c, h, q, r : c = w[k + 1] /\ h = x[k] /\ q = z[k] /\ r = w[k]
    OBVIOUS
  <2>2. k + 1 \in 0 .. n
    OBVIOUS
  <2>3. w[k + 1] \in 0 .. d - 1 /\ x[k] \in Nat /\ x[k] < Base
    BY <2>2, ByteOfNumber
  <2>4. c \in Nat /\ c < d /\ h \in Nat /\ h < Base
    BY <1>3, <2>1, <2>3
  <2>5. q = Low((c * Base + h) \div d) /\ r = (c * Base + h) % d
    <3>1. z[k] = Low((w[k + 1] * Base + x[k]) \div d)
      BY <1>4
    <3>2. w[k] = (w[k + 1] * Base + x[k]) % d
      BY <1>1 DEF Remains
    <3> QED
      BY <2>1, <3>1, <3>2
  <2>6. q \in Byte /\ h + Base * c = r + d * q
    BY <1>3, <2>4, <2>5, DivByte
  <2> QED
    BY <2>1, <2>6
<1>6. z \in Number(n)
  BY <1>4, <1>5 DEF Number
<1>7. /\ Digits(z, n) /\ Value(z) = Part(z, n) /\ Value(z) \in Nat
      /\ Digits(x, n) /\ Value(x) = Part(x, n) /\ Value(x) \in Nat
  BY <1>6, NumberDef
<1> DEFINE zero == Zero(n)
           u == [k \in 0 .. n - 1 |-> d * z[k] + zero[k]]
<1>8. Digits(zero, n) /\ Part(zero, n) = 0 /\ \A k \in 0 .. n - 1 : zero[k] = 0
  <2>1. \A k \in 0 .. n - 1 : zero[k] = 0
    BY DEF Zero
  <2>2. Digits(zero, n)
    BY <2>1 DEF Digits
  <2> HIDE DEF zero
  <2>3. Part(zero, n) = Part(zero, 0) /\ Part(zero, 0) = 0
    BY <2>1, <2>2, PartAboveZero, PartDef
  <2> QED
    BY <2>1, <2>2, <2>3
<1>9. \A k \in 0 .. n - 1 : u[k] = d * z[k] + zero[k]
  OBVIOUS
<1> HIDE DEF zero, u
<1>10. Summed(d, z, zero, u, n)
  BY <1>7, <1>8, <1>9 DEF Summed
<1>11. Digits(u, n) /\ Part(u, n) = d * Part(z, n) + Part(zero, n)
  BY <1>3, <1>10, PartSum
<1>12. Carried(x, u, w, n)
  <2>1. ASSUME NEW k \in 0 .. n - 1 PROVE x[k] + Base * w[k + 1] = w[k] + u[k]
    <3>1. z[k] \in Nat
      BY <1>7 DEF Digits
    <3>2. PICK p : p = d * z[k]
      OBVIOUS
    <3>3. p \in Nat
      BY <1>3, <3>1, <3>2
    <3>4. u[k] = p
      BY <1>8, <1>9, <3>2, <3>3
    <3> QED
      BY <1>5, <3>2, <3>4
  <2>2. \A k \in 0 .. n : w[k] \in Nat
    <3>1. \A k \in 0 .. n : w[k] \in 0 .. d - 1
      OBVIOUS
    <3> QED
      BY <1>3, <3>1
  <2> QED
    BY <1>7, <1>11, <2>1, <2>2 DEF Carried
<1>13. Part(x, n) + w[n] * Weight(n) = Part(u, n) + w[0] /\ w[n] = 0
  BY <1>1, <1>3, <1>12, Carries DEF Remains
<1>14. w[0] \in Nat /\ w[0] < d
  <2>1. 0 \in 0 .. n /\ w[0] \in 0 .. d - 1
    OBVIOUS
  <2> QED
    BY <1>3, <2>1
<1>15. Value(x) = Value(z) * d + w[0]
  <2>1. Weight(n) \in Nat
    BY Weights
  <2>2. 0 * Weight(n) = 0
    BY <2>1
  <2>3. d * Value(z) = Value(z) * d /\ d * Value(z) \in Nat
    BY <1>3, <1>7
  <2> QED
    BY <1>7, <1>8, <1>11, <1>13, <1>14, <2>2, <2>3
<1>16. Value(x) \div d = Value(z) /\ Value(x) % d = w[0]
  <2>1. PICK v, q, r : v = Value(x) /\ q = Value(z) /\ r = w[0]
    OBVIOUS
  <2>2. v \in Int /\ q \in Int /\ r \in Nat /\ r < d /\ v = q * d + r
    BY <1>7, <1>14, <1>15, <2>1
  <2>3. v \div d = q /\ v % d = r
    BY <1>3, <2>2, DivIs
  <2> QED
    BY <2>1, <2>3
<1> QED
  BY <1>2, <1>4, <1>6, <1>16

----------------------------------------------------------------------------
(* Division.                                                                 *)

\* What is left of a number above bit k, from what is left above bit k + 1.
LEMMA BitStep ==
  ASSUME NEW u \in Nat, NEW k \in Nat
  PROVE  /\ u \div Pow2[k] \in Nat /\ u \div Pow2[k + 1] \in Nat
         /\ (u \div Pow2[k]) % 2 \in 0 .. 1
         /\ u \div Pow2[k] = 2 * (u \div Pow2[k + 1]) + ((u \div Pow2[k]) % 2)
<1>1. Pow2[k] \in Nat \ {0} /\ Pow2[k + 1] = 2 * Pow2[k]
  BY Pow2Def
<1>2. PICK p \in Nat \ {0} : p = Pow2[k]
  BY <1>1
<1>3. Pow2[k + 1] = p * 2
  BY <1>1, <1>2
<1>4. u \div (p * 2) = (u \div p) \div 2
  <2>1. 2 \in Nat \ {0}
    OBVIOUS
  <2> QED
    BY <1>2, <2>1, DivTwice
<1>5. PICK v : v = u \div p
  OBVIOUS
<1>6. v \in Nat
  BY <1>2, <1>5, DivDef
<1>7. v = 2 * (v \div 2) + (v % 2) /\ v \div 2 \in Nat /\ v % 2 \in 0 .. 1
  BY <1>6
<1> QED
  BY <1>2, <1>3, <1>4, <1>5, <1>6, <1>7

\* The bits of the array are those of the integer.
LEMMA BitOfNumber ==
  ASSUME NEW n \in Nat, NEW x \in Number(n), NEW k \in Nat, k < ByteBits * n
  PROVE  Bit(x[k \div ByteBits], k % ByteBits) = (Value(x) \div Pow2[k]) % 2
<1>1. PICK h, s : h = k \div ByteBits /\ s = k % ByteBits
  OBVIOUS
<1>2. h \in Nat /\ s \in Nat /\ s < ByteBits /\ k = h * ByteBits + s /\ s \in 0 .. ByteBits - 1
  <2>1. h \in Nat /\ s \in Nat /\ s < ByteBits /\ k = h * ByteBits + s
    BY <1>1, ByteBitsAssumption, DivDef
  <2> QED
    BY <2>1, ByteBitsAssumption
<1>3. h \in 0 .. n - 1
  <2>1. SUFFICES ASSUME h >= n PROVE FALSE
    BY <1>2
  <2>2. PICK p \in Nat : h = n + p
    <3>1. h - n \in Nat /\ h = n + (h - n)
      BY <1>2, <2>1
    <3> QED
      BY <3>1
  <2>3. PICK b1 \in Nat : b1 = ByteBits
    BY ByteBitsAssumption
  <2>4. (n + p) * b1 = b1 * n + p * b1 /\ p * b1 \in Nat /\ b1 * n \in Nat
    BY <2>2, <2>3
  <2> QED
    BY <1>2, <2>2, <2>3, <2>4
<1>4. PICK t \in Nat : Value(x) \div Pow2[h * ByteBits + s] = (x[h] \div Pow2[s]) + Pow2[ByteBits - s] * t
  BY <1>2, <1>3, LowBits
<1>5. PICK e \in Nat : Pow2[ByteBits - s] = 2 * e
  <2>1. ByteBits - s - 1 \in Nat /\ (ByteBits - s - 1) + 1 = ByteBits - s
    BY <1>2, ByteBitsAssumption
  <2>2. Pow2[(ByteBits - s - 1) + 1] = 2 * Pow2[ByteBits - s - 1] /\ Pow2[ByteBits - s - 1] \in Nat
    BY <2>1, Pow2Def
  <2> QED
    BY <2>1, <2>2
<1>6. x[h] \div Pow2[s] \in Nat
  <2>1. x[h] \in Nat /\ Pow2[s] \in Nat \ {0}
    BY <1>2, <1>3, ByteOfNumber, Pow2Def
  <2> QED
    BY <2>1, DivDef
<1>7. PICK u, v : u = Value(x) \div Pow2[k] /\ v = x[h] \div Pow2[s]
  OBVIOUS
<1>8. u \in Nat /\ v \in Nat /\ e * t \in Nat /\ u = v + (e * t) * 2
  <2>1. u = v + (2 * e) * t
    BY <1>2, <1>4, <1>5, <1>7
  <2>2. (2 * e) * t = (e * t) * 2 /\ e * t \in Nat
    OBVIOUS
  <2> QED
    BY <1>6, <1>7, <2>1, <2>2
<1>9. PICK w : w = e * t
  OBVIOUS
<1>10. u % 2 = v % 2
  BY <1>8, <1>9
<1> QED
  BY <1>1, <1>7, <1>10 DEF Bit

\* The lowest bit is free after a shift.
LEMMA ShiftedByte ==
  ASSUME NEW n \in Nat \ {0}, NEW r \in Number(n)
  PROVE  LeftShift(r, 1)[0] \in Nat /\ LeftShift(r, 1)[0] + 2 <= Base
<1>1. DOMAIN r = 0 .. n - 1 /\ 0 \in 0 .. n - 1
  BY NumberDef
<1>2. r[0] \in 0 .. Base - 1
  BY <1>1, NumberDef DEF Byte
<1>3. Base \in Nat /\ Base >= 2
  BY Weights
<1>4. CASE ByteBits = 1
  <2>1. 1 \div ByteBits = 1
    BY <1>4
  <2>2. LeftShift(r, 1)[0] = 0
    BY <1>1, <2>1 DEF LeftShift
  <2> QED
    BY <1>3, <2>2
<1>5. CASE ByteBits # 1
  <2>1. 1 \div ByteBits = 0 /\ 1 % ByteBits = 1
    <3>1. 1 = 0 * ByteBits + 1 /\ 1 < ByteBits
      BY <1>5, ByteBitsAssumption
    <3> QED
      BY <3>1, ByteBitsAssumption, DivIs
  <2>2. LeftShift(r, 1)[0] = Shl(r[0], 1)
    BY <1>1, <2>1 DEF LeftShift
  <2>3. Pow2[1] = 2 /\ ByteBits - 1 \in Nat /\ Pow2[ByteBits - 1] \in Nat \ {0}
        /\ 2 * Pow2[ByteBits - 1] = Base
    <3>1. Pow2[0 + 1] = 2 * Pow2[0] /\ Pow2[0] = 1
      BY Pow2Def
    <3>2. ByteBits - 1 \in Nat /\ (ByteBits - 1) + 1 = ByteBits
      BY ByteBitsAssumption
    <3>3. Pow2[(ByteBits - 1) + 1] = 2 * Pow2[ByteBits - 1] /\ Pow2[ByteBits - 1] \in Nat \ {0}
      BY <3>2, Pow2Def
    <3> QED
      BY <3>1, <3>2, <3>3 DEF Base
  <2>4. PICK g, h, v : g \in Nat \ {0} /\ g = Pow2[ByteBits - 1] /\ h = r[0] /\ v = LeftShift(r, 1)[0]
    BY <2>3
  <2>5. 2 \in Nat \ {0} /\ g \in Nat \ {0} /\ 2 * g = Base /\ h \in 0 .. Base - 1
    BY <1>2, <2>3, <2>4
  <2>6. (h * 2) % Base = (h % g) * 2 /\ (h % g) * 2 \in Nat /\ (h % g) * 2 + 2 <= Base
    BY <2>5, ShiftStep
  <2>7. v = (h * 2) % Base
    BY <2>2, <2>3, <2>4 DEF Shl
  <2> QED
    BY <2>4, <2>6, <2>7
<1> QED
  BY <1>4, <1>5

\* r with the next bit t brought down, as long_number_div does.
BroughtDown(r, t) == [LeftShift(r, 1) EXCEPT ![0] = @ + t]

\* Bringing a bit down doubles the rest and adds the bit, if that fits.
LEMMA BroughtDownIs ==
  ASSUME NEW n \in Nat \ {0}, NEW r \in Number(n), NEW t \in 0 .. 1
  PROVE  /\ BroughtDown(r, t) \in Number(n)
         /\ 2 * Value(r) + t < Weight(n) => Value(BroughtDown(r, t)) = 2 * Value(r) + t
<1>1. PICK y, z : y = LeftShift(r, 1) /\ z = BroughtDown(r, t)
  OBVIOUS
<1>2. y \in Number(n) /\ Value(y) = (Value(r) * Pow2[1]) % Weight(n)
  <2>1. LeftShift(r, 1) \in Number(n) /\ Value(LeftShift(r, 1)) = (Value(r) * Pow2[1]) % Weight(n)
    BY LeftShiftIs
  <2> QED
    BY <1>1, <2>1
<1>3. y[0] \in Nat /\ y[0] + 2 <= Base /\ Base \in Nat
  BY <1>1, ShiftedByte, Weights
<1>4. z = [k \in 0 .. n - 1 |-> IF k = 0 THEN y[0] + t ELSE y[k]]
  <2>1. DOMAIN y = 0 .. n - 1 /\ y = [k \in 0 .. n - 1 |-> y[k]]
    BY <1>2 DEF Number
  <2> QED
    BY <1>1, <2>1 DEF BroughtDown
<1>5. z \in Number(n)
  <2>1. y[0] + t \in Byte
    BY <1>3 DEF Byte
  <2>2. \A k \in 0 .. n - 1 : y[k] \in Byte
    BY <1>2, NumberDef
  <2> QED
    BY <1>4, <2>1, <2>2 DEF Number
<1>6. Value(z) = Value(y) + t
  <2>1. Digits(y, n) /\ Digits(z, n) /\ Value(y) = Part(y, n) /\ Value(z) = Part(z, n)
        /\ Value(y) \in Nat /\ Value(z) \in Nat
    BY <1>2, <1>5, NumberDef
  <2>2. 1 \in 0 .. n /\ 0 \in 0 .. n - 1
    OBVIOUS
  <2>3. Part(z, n) + Part(y, 1) = Part(y, n) + Part(z, 1)
    <3>1. \A k \in 1 .. n - 1 : z[k] = y[k]
      BY <1>4
    <3> QED
      BY <2>1, <2>2, <3>1, PartAbove
  <2>4. Part(y, 1) = y[0] /\ Part(z, 1) = z[0]
    <3>1. Part(y, 0 + 1) = Part(y, 0) + y[0] * Weight(0) /\ Part(y, 0) = 0
      BY <2>1, <2>2, PartDef, PartStep
    <3>2. Part(z, 0 + 1) = Part(z, 0) + z[0] * Weight(0) /\ Part(z, 0) = 0
      BY <2>1, <2>2, PartDef, PartStep
    <3>3. y[0] \in Nat /\ z[0] \in Nat /\ Weight(0) = 1
      BY <2>1, <2>2, Weights DEF Digits
    <3> QED
      BY <3>1, <3>2, <3>3
  <2>5. z[0] = y[0] + t
    BY <1>4, <2>2
  <2> QED
    BY <1>3, <2>1, <2>3, <2>4, <2>5
<1>7. ASSUME 2 * Value(r) + t < Weight(n) PROVE Value(y) = 2 * Value(r)
  <2>1. Pow2[1] = 2
    <3>1. Pow2[0 + 1] = 2 * Pow2[0] /\ Pow2[0] = 1
      BY Pow2Def
    <3> QED
      BY <3>1
  <2>2. Value(r) \in Nat /\ Weight(n) \in Nat \ {0}
    BY NumberDef, Weights
  <2>3. PICK u : u = 2 * Value(r)
    OBVIOUS
  <2>4. u \in Nat /\ u < Weight(n) /\ Value(r) * Pow2[1] = u
    BY <1>7, <2>1, <2>2, <2>3
  <2>5. u % Weight(n) = u
    BY <2>2, <2>4, SmallMod
  <2> QED
    BY <1>2, <2>3, <2>4, <2>5
<1> QED
  BY <1>1, <1>5, <1>6, <1>7

\* What is left of r once the divisor has been taken from it, if it can be.
Reduced(r, y) == IF Compare(r, y) # -1 THEN Dec(r, y).res ELSE r

Reduces(r, y, n) ==
  /\ Reduced(r, y) \in Number(n)
  /\ Compare(r, y) # -1 <=> Value(r) >= Value(y)
  /\ Value(r) >= Value(y) => Value(Reduced(r, y)) = Value(r) - Value(y)
  /\ Value(r) < Value(y) => Value(Reduced(r, y)) = Value(r)

\* Taking the divisor off once, where it is not larger.
LEMMA ReducedIs ==
  ASSUME NEW n \in Nat, NEW r \in Number(n), NEW h \in Nat, NEW y \in Number(h)
  PROVE  Reduces(r, y, n)
<1>1. Value(r) \in Nat /\ Value(y) \in Nat /\ Value(r) < Weight(n) /\ Value(y) = Part(y, h)
  BY NumberDef
<1>2. Compare(r, y) # -1 <=> Value(r) >= Value(y)
  <2>1. Compare(r, y) = Sign(Value(r), Value(y))
    BY CompareIs
  <2> QED
    BY <1>1, <2>1 DEF Sign
<1>3. PICK l, s : l = Lower(n, h) /\ s = Dec(r, y).res
  OBVIOUS
<1>4. /\ s \in Number(n)
      /\ Value(r) >= Part(y, l) => Value(s) = Value(r) - Part(y, l)
  BY <1>3, DecIs
<1>5. ASSUME Value(r) >= Value(y) PROVE Value(s) = Value(r) - Value(y)
  <2>1. Part(y, l) = Value(y)
    <3>1. CASE l = h
      BY <1>1, <3>1
    <3>2. CASE l # h
      <4>1. l = n /\ n \in 0 .. h
        BY <1>3, <3>2 DEF Lower
      <4>2. Value(y) < Weight(n)
        <5>1. Weight(n) \in Nat
          BY Weights
        <5> QED
          BY <1>1, <1>5, <5>1
      <4> QED
        BY <4>1, <4>2, FitsBelow
    <3> QED
      BY <3>1, <3>2
  <2> QED
    BY <1>4, <1>5, <2>1
<1>6. /\ Reduced(r, y) \in Number(n)
      /\ Value(r) >= Value(y) => Value(Reduced(r, y)) = Value(r) - Value(y)
      /\ Value(r) < Value(y) => Value(Reduced(r, y)) = Value(r)
  BY <1>1, <1>2, <1>3, <1>4, <1>5 DEF Reduced
<1> QED
  BY <1>2, <1>6 DEF Reduces

\* Bit k of the array.
BitOf(x, k) == Bit(x[k \div ByteBits], k % ByteBits)

\* The rests of long_number_div, one for each bit of x from the highest down.
Rests(w, x, y, n, width) ==
  /\ w[0] = Zero(n)
  /\ \A k \in 1 .. width : w[k] = Reduced(BroughtDown(w[k - 1], BitOf(x, width - k)), y)

\* Bit j of the quotient, and the bytes z that such bits make.
QuotBit(w, x, y, width, j) ==
  IF j < width /\ Compare(BroughtDown(w[width - j - 1], BitOf(x, j)), y) # -1 THEN 1 ELSE 0

QuotByte(s, w, x, y, width, k) ==
  /\ s[0] = 0
  /\ \A j \in 1 .. ByteBits : s[j] = s[j - 1] + QuotBit(w, x, y, width, ByteBits * k + j - 1) * Pow2[j - 1]

\* A bit of an array is that bit of its value.
LEMMA BitOfIs ==
  ASSUME NEW n \in Nat, NEW x \in Number(n), NEW k \in 0 .. Bitwidth(x) - 1
  PROVE  /\ BitOf(x, k) = (Value(x) \div Pow2[k]) % 2 /\ BitOf(x, k) \in 0 .. 1
         /\ k \in Nat /\ Bitwidth(x) \in Nat
<1>1. Bitwidth(x) \in 0 .. ByteBits * n /\ ByteBits * n \in Nat
  BY BitwidthIs, ByteBitsAssumption
<1>2. k \in Nat /\ k < ByteBits * n /\ Bitwidth(x) \in Nat
  BY <1>1
<1>3. Value(x) \in Nat
  BY NumberDef
<1> QED
  BY <1>2, <1>3, BitOfNumber, BitStep DEF BitOf

\* The rests of long_number_div exist, one for each bit.
LEMMA DivRests ==
  ASSUME NEW n \in Nat \ {0}, NEW x \in Number(n), NEW h \in Nat, NEW y \in Number(h),
         NEW width, width = Bitwidth(x)
  PROVE  /\ \A w : Rests(w, x, y, n, width) /\ w = [k \in 0 .. width |-> w[k]]
                     => w \in [0 .. width -> Number(n)]
         /\ \E w \in [0 .. width -> Number(n)] : Rests(w, x, y, n, width)
<1>1. width \in Nat
  BY BitwidthIs
<1>2. ASSUME NEW r \in Number(n), NEW k \in 1 .. width
      PROVE  Reduced(BroughtDown(r, BitOf(x, width - k)), y) \in Number(n)
  <2>1. width - k \in 0 .. Bitwidth(x) - 1
    BY <1>1
  <2>2. BitOf(x, width - k) \in 0 .. 1
    BY <2>1, BitOfIs
  <2>3. BroughtDown(r, BitOf(x, width - k)) \in Number(n)
    BY <2>2, BroughtDownIs
  <2> QED
    BY <2>3, ReducedIs DEF Reduces
<1>3. Zero(n) \in Number(n)
  <2>1. 0 \in Byte
    BY Weights DEF Byte
  <2> QED
    BY <2>1 DEF Zero, Number
<1>4. ASSUME NEW w, Rests(w, x, y, n, width), w = [k \in 0 .. width |-> w[k]]
      PROVE  w \in [0 .. width -> Number(n)]
  <2> DEFINE T == {k \in 0 .. width : w[k] \in Number(n)}
  <2>1. 0 \in T
    BY <1>1, <1>3, <1>4 DEF Rests
  <2>2. ASSUME NEW k \in 0 .. width - 1, k \in T PROVE k + 1 \in T
    <3>1. k + 1 \in 1 .. width /\ k + 1 \in 0 .. width /\ (k + 1) - 1 = k
      BY <1>1
    <3>2. w[k + 1] = Reduced(BroughtDown(w[k], BitOf(x, width - (k + 1))), y)
      BY <1>4, <3>1 DEF Rests
    <3> QED
      BY <1>2, <2>2, <3>1, <3>2
  <2> HIDE DEF T
  <2>3. \A k \in 0 .. width : k \in T
    BY <1>1, <2>1, <2>2, Upward
  <2> QED
    BY <1>4, <2>3 DEF T
<1> DEFINE D == [p \in Number(n) \X (1 .. width) |->
                   Reduced(BroughtDown(p[1], BitOf(x, width - p[2])), y)]
<1>5. ASSUME NEW r \in Number(n), NEW k \in 1 .. width
      PROVE  D[<<r, k>>] = Reduced(BroughtDown(r, BitOf(x, width - k)), y) /\ D[<<r, k>>] \in Number(n)
  BY <1>2
<1> HIDE DEF D
<1>6. Steps(D, Number(n), width)
  BY <1>5 DEF Steps
<1>7. PICK f \in [0 .. width -> Number(n)] : Follows(f, Zero(n), D, width)
  BY <1>1, <1>3, <1>6, Recursion
<1>8. Rests(f, x, y, n, width)
  <2>1. ASSUME NEW k \in 1 .. width
        PROVE  f[k] = Reduced(BroughtDown(f[k - 1], BitOf(x, width - k)), y)
    <3>1. k - 1 \in 0 .. width
      BY <1>1
    <3>2. f[k - 1] \in Number(n) /\ f[k] = D[<<f[k - 1], k>>]
      BY <1>7, <3>1 DEF Follows
    <3> QED
      BY <1>5, <3>2
  <2> QED
    BY <1>7, <2>1 DEF Rests, Follows
<1> QED
  BY <1>4, <1>7, <1>8

\* What long_number_div leaves where the dividend is not the smaller one.
DivRun(w, z, x, y, l, n, width) ==
  /\ Rests(w, x, y, n, width)
  /\ Div(x, y, l) = [quot |-> z, rest |-> Resize(w[width], l), leak |-> 0]
  /\ z = [k \in 0 .. n - 1 |-> z[k]]
  /\ \A k \in 0 .. n - 1 : \E s \in [0 .. ByteBits -> Nat] :
       QuotByte(s, w, x, y, width, k) /\ z[k] = s[ByteBits]

\* long_number_div in terms of its rests and of the bytes of its quotient.
LEMMA DivLoop ==
  ASSUME NEW n \in Nat \ {0}, NEW x \in Number(n), NEW h \in Nat, NEW y \in Number(h),
         NEW l \in Nat, NEW width, width = Bitwidth(x), Compare(x, y) # -1
  PROVE  \E w \in [0 .. width -> Number(n)] : \E z : DivRun(w, z, x, y, l, n, width)
<1> DEFINE width0 == Bitwidth(x)
           bitAt(k) == Bit(x[(width0 - k) \div ByteBits], (width0 - k) % ByteBits)
           next(r, k) == [LeftShift(r, 1) EXCEPT ![0] = @ + bitAt(k)]
           rest[k \in 0 .. width0] ==
             IF k = 0 THEN Zero(Bytes(x))
             ELSE LET r == next(rest[k - 1], k)
                  IN  IF Compare(r, y) # -1 THEN Dec(r, y).res ELSE r
           quotBit(i_1) ==
             IF i_1 < width0 /\ Compare(next(rest[width0 - i_1 - 1], width0 - i_1), y) # -1 THEN 1 ELSE 0
           quotByte(i_1) ==
             LET sum[s \in 0 .. ByteBits] ==
                   IF s = 0 THEN 0 ELSE sum[s - 1] + quotBit(ByteBits * i_1 + s - 1) * Pow2[s - 1]
             IN  sum[ByteBits]
           z == [i_1 \in DOMAIN x |-> quotByte(i_1)]
<1>1. Div(x, y, l) = [quot |-> z, rest |-> Resize(rest[width0], l), leak |-> 0]
  BY Zenon DEF Div
<1>2. width0 = width /\ width \in Nat /\ Bytes(x) = n /\ DOMAIN x = 0 .. n - 1
  BY NumberDef, BitwidthIs
<1>3. PICK f \in [0 .. width -> Number(n)] : Rests(f, x, y, n, width)
  BY DivRests
<1>4. ASSUME NEW r, NEW k PROVE next(r, k) = BroughtDown(r, BitOf(x, width0 - k))
  BY Zenon DEF BroughtDown, BitOf
<1>5. ASSUME NEW r, NEW k
      PROVE  (LET v == next(r, k) IN IF Compare(v, y) # -1 THEN Dec(v, y).res ELSE v)
               = Reduced(BroughtDown(r, BitOf(x, width0 - k)), y)
  BY <1>4, Zenon DEF Reduced
<1> DEFINE K(r, k) == LET v == next(r, k) IN IF Compare(v, y) # -1 THEN Dec(v, y).res ELSE v
<1>6. \A r, k : K(r, k) = Reduced(BroughtDown(r, BitOf(x, width0 - k)), y)
  BY <1>5, Zenon
<1>7. f = [k \in 0 .. width0 |-> IF k = 0 THEN Zero(Bytes(x)) ELSE K(f[k - 1], k)]
  <2> HIDE DEF K, width0
  <2>1. f[0] = Zero(n) /\ \A k \in 1 .. width : f[k] = K(f[k - 1], k)
    BY <1>2, <1>3, <1>6 DEF Rests
  <2> QED
    BY <1>2, <2>1
<1>8. rest = [k \in 0 .. width0 |-> IF k = 0 THEN Zero(Bytes(x)) ELSE K(rest[k - 1], k)]
  BY <1>7, Zenon
<1>9. \A i_1 : quotBit(i_1) =
                 IF i_1 < width0 /\ Compare(BroughtDown(rest[width0 - i_1 - 1], BitOf(x, width0 - (width0 - i_1))), y) # -1
                 THEN 1 ELSE 0
  BY <1>4, Zenon
<1> HIDE DEF rest, K
<1>10. Rests(rest, x, y, n, width) /\ rest \in [0 .. width -> Number(n)]
  <2> HIDE DEF width0
  <2>1. rest[0] = Zero(n) /\ \A k \in 1 .. width : rest[k] = K(rest[k - 1], k)
    <3>1. 0 \in 0 .. width /\ \A k \in 1 .. width : k \in 0 .. width /\ k # 0
      BY <1>2
    <3> QED
      BY <1>2, <1>8, <3>1
  <2>2. Rests(rest, x, y, n, width)
    BY <1>2, <1>6, <2>1 DEF Rests
  <2>3. rest = [k \in 0 .. width |-> rest[k]]
    BY <1>2, <1>8
  <2> QED
    BY <2>2, <2>3, DivRests
<1>11. \A k \in Nat : quotBit(k) = QuotBit(rest, x, y, width, k)
  <2> HIDE DEF width0, quotBit
  <2>1. ASSUME NEW k \in Nat PROVE quotBit(k) = QuotBit(rest, x, y, width, k)
    <3>1. width - (width - k) = k
      BY <1>2
    <3>2. quotBit(k) = IF k < width /\ Compare(BroughtDown(rest[width - k - 1], BitOf(x, width - (width - k))), y) # -1
                       THEN 1 ELSE 0
      BY <1>2, <1>9, Zenon
    <3> QED
      BY <3>1, <3>2, Zenon DEF QuotBit
  <2> QED
    BY <2>1
<1>12. ASSUME NEW k \in 0 .. n - 1
       PROVE  \E s \in [0 .. ByteBits -> Nat] : QuotByte(s, rest, x, y, width, k) /\ quotByte(k) = s[ByteBits]
  <2> DEFINE B(j) == QuotBit(rest, x, y, width, ByteBits * k + j - 1) * Pow2[j - 1]
             E(j) == quotBit(ByteBits * k + j - 1) * Pow2[j - 1]
             D == [p \in Nat \X (1 .. ByteBits) |-> p[1] + B(p[2])]
             sum[s \in 0 .. ByteBits] ==
                   IF s = 0 THEN 0 ELSE sum[s - 1] + quotBit(ByteBits * k + s - 1) * Pow2[s - 1]
  <2>1. quotByte(k) = sum[ByteBits]
    BY Zenon
  <2> HIDE DEF rest, quotByte, quotBit
  <2>2. ByteBits \in Nat /\ ByteBits \in 0 .. ByteBits
    BY ByteBitsAssumption
  <2>3. ASSUME NEW j \in 1 .. ByteBits PROVE B(j) \in Nat /\ E(j) = B(j)
    <3>1. j - 1 \in Nat /\ ByteBits * k + j - 1 \in Nat
      <4>1. ByteBits * k \in Nat
        BY <2>2
      <4> QED
        BY <2>2, <4>1
    <3>2. Pow2[j - 1] \in Nat
      BY <3>1, Pow2Def
    <3>3. quotBit(ByteBits * k + j - 1) = QuotBit(rest, x, y, width, ByteBits * k + j - 1)
      BY <1>11, <3>1
    <3>4. QuotBit(rest, x, y, width, ByteBits * k + j - 1) \in Nat
      BY DEF QuotBit
    <3> QED
      BY <3>2, <3>3, <3>4
  <2>4. sum = [s \in 0 .. ByteBits |-> IF s = 0 THEN 0 ELSE sum[s - 1] + E(s)]
    <3> HIDE DEF B
    <3>1. ASSUME NEW v \in Nat, NEW j \in 1 .. ByteBits
          PROVE  D[<<v, j>>] = v + B(j) /\ D[<<v, j>>] \in Nat
      BY <2>3
    <3> HIDE DEF D
    <3>2. Steps(D, Nat, ByteBits)
      BY <3>1 DEF Steps
    <3>3. PICK g \in [0 .. ByteBits -> Nat] : Follows(g, 0, D, ByteBits)
      BY <2>2, <3>2, Recursion
    <3>4. g = [s \in 0 .. ByteBits |-> IF s = 0 THEN 0 ELSE g[s - 1] + E(s)]
      <4> HIDE DEF E
      <4>1. ASSUME NEW j \in 1 .. ByteBits PROVE g[j] = g[j - 1] + E(j)
        <5>1. j - 1 \in 0 .. ByteBits
          BY <2>2
        <5>2. g[j - 1] \in Nat /\ g[j] = D[<<g[j - 1], j>>]
          BY <3>3, <5>1 DEF Follows
        <5> QED
          BY <2>3, <3>1, <5>2
      <4> QED
        BY <3>3, <4>1 DEF Follows
    <3> QED
      BY <3>4, Zenon
  <2> HIDE DEF sum, D, B, E
  <2>5. sum[0] = 0 /\ \A j \in 1 .. ByteBits : sum[j] = sum[j - 1] + B(j)
    <3>1. 0 \in 0 .. ByteBits /\ \A j \in 1 .. ByteBits : j \in 0 .. ByteBits /\ j # 0
      BY <2>2
    <3> QED
      BY <2>3, <2>4, <3>1
  <2>6. sum \in [0 .. ByteBits -> Nat]
    <3> DEFINE T == {j \in 0 .. ByteBits : sum[j] \in Nat}
    <3>1. 0 \in T
      BY <2>2, <2>5
    <3>2. ASSUME NEW j \in 0 .. ByteBits - 1, j \in T PROVE j + 1 \in T
      <4>1. j + 1 \in 1 .. ByteBits /\ j + 1 \in 0 .. ByteBits /\ (j + 1) - 1 = j /\ sum[j] \in Nat
        BY <2>2, <3>2
      <4>2. sum[j + 1] = sum[(j + 1) - 1] + B(j + 1) /\ B(j + 1) \in Nat
        BY <2>3, <2>5, <4>1
      <4> QED
        BY <4>1, <4>2
    <3> HIDE DEF T
    <3>3. \A j \in 0 .. ByteBits : j \in T
      BY <2>2, <3>1, <3>2, Upward
    <3>4. sum = [j \in 0 .. ByteBits |-> sum[j]]
      BY <2>4
    <3> QED
      BY <3>3, <3>4 DEF T
  <2>7. QuotByte(sum, rest, x, y, width, k)
    BY <2>5 DEF QuotByte, B
  <2> QED
    BY <2>1, <2>6, <2>7
<1>13. z = [k \in 0 .. n - 1 |-> z[k]] /\ \A k \in 0 .. n - 1 : z[k] = quotByte(k)
  BY <1>2
<1> HIDE DEF z, quotByte, width0
<1>14. Div(x, y, l) = [quot |-> z, rest |-> Resize(rest[width], l), leak |-> 0]
  BY <1>1, <1>2
<1>15. \A k \in 0 .. n - 1 : \E s \in [0 .. ByteBits -> Nat] :
         QuotByte(s, rest, x, y, width, k) /\ z[k] = s[ByteBits]
  BY <1>12, <1>13, Zenon
<1>16. DivRun(rest, z, x, y, l, n, width)
  BY <1>10, <1>13, <1>14, <1>15, Zenon DEF DivRun
<1> QED
  BY <1>10, <1>16, Zenon

\* The quotient by y of what x is above bit j.
QuotAbove(x, y, j) == (Value(x) \div Pow2[j]) \div Value(y)
RestAbove(x, y, j) == (Value(x) \div Pow2[j]) % Value(y)

Taken(r, y) == IF Compare(r, y) # -1 THEN 1 ELSE 0

\* The arithmetic of one bit: s and q are rest and quotient by v of what is
\* left of a number once the bit t has been shifted out.
BroughtBit(u, p, c, t, v, q, s) ==
  /\ v \in Nat \ {0} /\ s \in Nat /\ s < v /\ q \in Nat /\ t \in 0 .. 1 /\ p \in Nat /\ c \in Nat /\ u \in Nat
  /\ p = q * v + s /\ c = 2 * s + t /\ u = 2 * p + t

\* One bit of a division by hand.
LEMMA DivBit ==
  ASSUME NEW v, NEW s, NEW q, NEW t, NEW p, NEW c, NEW u, BroughtBit(u, p, c, t, v, q, s)
  PROVE  /\ c <= u
         /\ c >= v => u \div v = 2 * q + 1 /\ u % v = c - v
         /\ c < v => u \div v = 2 * q /\ u % v = c
<1>0. /\ v \in Nat \ {0} /\ s \in Nat /\ s < v /\ q \in Nat /\ t \in 0 .. 1 /\ p \in Nat /\ c \in Nat /\ u \in Nat
      /\ p = q * v + s /\ c = 2 * s + t /\ u = 2 * p + t
  BY DEF BroughtBit
<1>1. q * v \in Nat /\ u = 2 * (q * v) + c
  BY <1>0
<1>2. ASSUME c >= v PROVE u \div v = 2 * q + 1 /\ u % v = c - v
  <2>1. PICK d, r : d = 2 * q + 1 /\ r = c - v
    OBVIOUS
  <2>2. (2 * q + 1) * v = 2 * (q * v) + v
    BY <1>0
  <2>3. d \in Int /\ r \in Nat /\ r < v /\ u \in Int /\ u = d * v + r
    BY <1>0, <1>1, <1>2, <2>1, <2>2
  <2>4. u \div v = d /\ u % v = r
    BY <1>0, <2>3, DivIs
  <2> QED
    BY <2>1, <2>4
<1>3. ASSUME c < v PROVE u \div v = 2 * q /\ u % v = c
  <2>1. PICK d, r : d = 2 * q /\ r = c
    OBVIOUS
  <2>2. (2 * q) * v = 2 * (q * v)
    BY <1>0
  <2>3. d \in Int /\ r \in Nat /\ r < v /\ u \in Int /\ u = d * v + r
    BY <1>0, <1>1, <1>3, <2>1, <2>2
  <2>4. u \div v = d /\ u % v = r
    BY <1>0, <2>3, DivIs
  <2> QED
    BY <2>1, <2>4
<1>4. c <= u
  BY <1>0, <1>1
<1> QED
  BY <1>2, <1>3, <1>4

\* What one step of the loop of long_number_div makes of the rest, with bit j
\* of x brought down, and of the quotient.
Stepped(down, x, y, j) ==
  /\ Value(Reduced(down, y)) = RestAbove(x, y, j)
  /\ QuotAbove(x, y, j) = 2 * QuotAbove(x, y, j + 1) + Taken(down, y)

\* One turn of the loop of long_number_div: the next rest and bit of the quotient.
LEMMA RestStep ==
  ASSUME NEW n \in Nat \ {0}, NEW x \in Number(n), NEW h \in Nat, NEW y \in Number(h), Value(y) # 0,
         NEW j \in 0 .. Bitwidth(x) - 1, NEW r \in Number(n), Value(r) = RestAbove(x, y, j + 1)
  PROVE  Stepped(BroughtDown(r, BitOf(x, j)), x, y, j)
<1>1. /\ BitOf(x, j) = (Value(x) \div Pow2[j]) % 2 /\ BitOf(x, j) \in 0 .. 1 /\ j \in Nat
  BY BitOfIs
<1>2. Value(x) \in Nat /\ Value(x) < Weight(n) /\ Value(y) \in Nat \ {0} /\ Weight(n) \in Nat
  BY NumberDef, Weights
<1>3. PICK down, u, p, t, v, s, q, c :
        /\ down = BroughtDown(r, BitOf(x, j)) /\ u = Value(x) \div Pow2[j] /\ p = Value(x) \div Pow2[j + 1]
        /\ t = BitOf(x, j) /\ v = Value(y) /\ s = Value(r) /\ q = p \div v /\ c = 2 * s + t
  OBVIOUS
<1>4. u \in Nat /\ p \in Nat /\ u = 2 * p + t /\ t \in 0 .. 1
  BY <1>1, <1>2, <1>3, BitStep
<1>5. v \in Nat \ {0} /\ s = p % v /\ s \in Nat /\ q \in Nat /\ p = q * v + s /\ s < v
  <2>1. s = p % v /\ v \in Nat \ {0}
    BY <1>2, <1>3 DEF RestAbove
  <2>2. p \div v \in Nat /\ p % v \in Nat /\ p = (p \div v) * v + (p % v) /\ p % v < v
    BY <1>4, <2>1, DivDef
  <2> QED
    BY <1>3, <2>1, <2>2
<1>6. c \in Nat /\ c = 2 * s + t
  <2>1. c = 2 * s + t
    BY <1>3
  <2>2. s \in Nat /\ t \in 0 .. 1
    BY <1>4, <1>5
  <2>3. 2 * s + t \in Nat
    BY <2>2
  <2> QED
    BY <2>1, <2>3
<1>7. /\ c <= u
      /\ c >= v => u \div v = 2 * q + 1 /\ u % v = c - v
      /\ c < v => u \div v = 2 * q /\ u % v = c
  <2>1. BroughtBit(u, p, c, t, v, q, s)
    BY <1>4, <1>5, <1>6 DEF BroughtBit
  <2> QED
    BY <2>1, DivBit
<1>8. u <= Value(x)
  <2>1. Pow2[j] \in Nat \ {0}
    BY <1>1, Pow2Def
  <2>2. PICK d \in Nat, e \in Nat : d = Pow2[j] - 1 /\ e = Value(x) % Pow2[j]
    BY <1>2, <2>1, DivDef
  <2>3. Value(x) = u * Pow2[j] + e
    BY <1>2, <1>3, <2>1, <2>2, DivDef
  <2>4. Value(x) = u + u * d + e /\ u * d \in Nat
    <3>1. Pow2[j] = d + 1
      BY <2>1, <2>2
    <3> QED
      BY <1>4, <2>2, <2>3, <3>1
  <2> QED
    BY <1>2, <1>4, <2>2, <2>4
<1>9. down \in Number(n) /\ Value(down) = c
  <2>1. 2 * Value(r) + t < Weight(n)
    BY <1>2, <1>3, <1>4, <1>6, <1>7, <1>8
  <2>2. BroughtDown(r, t) \in Number(n) /\ Value(BroughtDown(r, t)) = 2 * Value(r) + t
    BY <1>4, <2>1, BroughtDownIs
  <2> QED
    BY <1>3, <2>2
<1>10. /\ Taken(down, y) = IF c >= v THEN 1 ELSE 0
       /\ c >= v => Value(Reduced(down, y)) = c - v
       /\ c < v => Value(Reduced(down, y)) = c
  <2>1. /\ Compare(down, y) # -1 <=> Value(down) >= Value(y)
        /\ Value(down) >= Value(y) => Value(Reduced(down, y)) = Value(down) - Value(y)
        /\ Value(down) < Value(y) => Value(Reduced(down, y)) = Value(down)
    <3>1. Reduces(down, y, n)
      BY <1>9, ReducedIs
    <3> QED
      BY <3>1 DEF Reduces
  <2> QED
    BY <1>3, <1>9, <2>1 DEF Taken
<1>11. u % v = RestAbove(x, y, j) /\ u \div v = QuotAbove(x, y, j) /\ q = QuotAbove(x, y, j + 1)
  BY <1>3 DEF RestAbove, QuotAbove
<1>12. Value(Reduced(down, y)) = RestAbove(x, y, j) /\ QuotAbove(x, y, j) = 2 * QuotAbove(x, y, j + 1) + Taken(down, y)
  <2>1. CASE c >= v
    <3>1. Taken(down, y) = 1
      BY <1>10, <2>1
    <3> QED
      BY <1>7, <1>10, <1>11, <2>1, <3>1
  <2>2. CASE c < v
    <3>1. ~(c >= v) /\ 2 * q = 2 * q + 0
      BY <1>5, <1>6, <2>2
    <3>2. Taken(down, y) = 0
      BY <1>10, <3>1
    <3> QED
      BY <1>7, <1>10, <1>11, <2>2, <3>1, <3>2
  <2> QED
    BY <1>5, <1>6, <2>1, <2>2
<1> QED
  BY <1>3, <1>12 DEF Stepped

AreRests(w, x, y, width) == \A k \in 0 .. width : Value(w[k]) = RestAbove(x, y, width - k)

\* The rests are those of the number's upper parts, and the bits their
\* quotients'.
LEMMA RestsAre ==
  ASSUME NEW n \in Nat \ {0}, NEW x \in Number(n), NEW h \in Nat, NEW y \in Number(h), Value(y) # 0,
         NEW width, width = Bitwidth(x), NEW w \in [0 .. width -> Number(n)], Rests(w, x, y, n, width)
  PROVE  /\ AreRests(w, x, y, width)
         /\ \A j \in Nat : /\ QuotAbove(x, y, j) \in Nat /\ QuotBit(w, x, y, width, j) \in 0 .. 1
                           /\ QuotAbove(x, y, j) = 2 * QuotAbove(x, y, j + 1) + QuotBit(w, x, y, width, j)
<1>1. width \in Nat /\ Value(x) \in Nat /\ Value(y) \in Nat \ {0} /\ Value(x) < Pow2[width]
  BY BitwidthIs, NumberDef
<1>2. ASSUME NEW j \in Nat, j >= width
      PROVE  QuotAbove(x, y, j) = 0 /\ RestAbove(x, y, j) = 0
  <2>1. Pow2[j] \in Nat \ {0} /\ Value(x) < Pow2[j]
    <3>1. Pow2[width] \in Nat /\ Pow2[j] \in Nat \ {0} /\ Pow2[width] <= Pow2[j]
      BY <1>1, <1>2, PowerMonotone
    <3> QED
      BY <1>1, <3>1
  <2>2. Value(x) \div Pow2[j] = 0
    <3>1. Value(x) = 0 * Pow2[j] + Value(x)
      BY <1>1, <2>1
    <3>2. PICK u, d : u = Value(x) /\ d = Pow2[j]
      OBVIOUS
    <3>3. u = 0 * d + u /\ u \in Nat /\ u < d /\ d \in Nat \ {0}
      BY <1>1, <2>1, <3>1, <3>2
    <3>4. u \div d = 0
      BY <3>3, DivIs
    <3> QED
      BY <3>2, <3>4
  <2>3. 0 \div Value(y) = 0 /\ 0 % Value(y) = 0
    <3>1. 0 = 0 * Value(y) + 0 /\ 0 < Value(y)
      BY <1>1
    <3> QED
      BY <1>1, <3>1, DivIs
  <2> QED
    BY <2>2, <2>3 DEF QuotAbove, RestAbove
<1> DEFINE T == {k \in 0 .. width : Value(w[k]) = RestAbove(x, y, width - k)}
<1>3. 0 \in T
  <2>1. w[0] = Zero(n) /\ Value(Zero(n)) = 0
    <3>1. 0 \in 0 .. width /\ w[0] \in Number(n) /\ w[0] = Zero(n)
      BY <1>1 DEF Rests
    <3>2. IsZero(Zero(n))
      BY DEF IsZero, Zero
    <3> QED
      BY <3>1, <3>2, ZeroValue
  <2>2. width - 0 = width /\ 0 \in 0 .. width
    BY <1>1
  <2>3. RestAbove(x, y, width) = 0
    BY <1>1, <1>2
  <2> QED
    BY <2>1, <2>2, <2>3
<1>4. ASSUME NEW k \in 0 .. width - 1, k \in T PROVE k + 1 \in T
  <2>1. /\ k + 1 \in 1 .. width /\ k + 1 \in 0 .. width /\ (k + 1) - 1 = k /\ k \in 0 .. width
        /\ width - (k + 1) \in 0 .. Bitwidth(x) - 1 /\ (width - (k + 1)) + 1 = width - k
    BY <1>1
  <2>2. w[k] \in Number(n) /\ Value(w[k]) = RestAbove(x, y, (width - (k + 1)) + 1)
    BY <1>4, <2>1
  <2>3. w[k + 1] = Reduced(BroughtDown(w[k], BitOf(x, width - (k + 1))), y)
    BY <2>1 DEF Rests
  <2>4. Stepped(BroughtDown(w[k], BitOf(x, width - (k + 1))), x, y, width - (k + 1))
    BY <1>1, <2>1, <2>2, RestStep
  <2>5. Value(w[k + 1]) = RestAbove(x, y, width - (k + 1))
    BY <2>3, <2>4 DEF Stepped
  <2> QED
    BY <2>1, <2>5
<1> HIDE DEF T
<1>5. \A k \in 0 .. width : Value(w[k]) = RestAbove(x, y, width - k)
  <2>1. \A k \in 0 .. width : k \in T
    BY <1>1, <1>3, <1>4, Upward
  <2> QED
    BY <2>1 DEF T
<1>6. ASSUME NEW j \in Nat
      PROVE  /\ QuotAbove(x, y, j) \in Nat /\ QuotBit(w, x, y, width, j) \in 0 .. 1
             /\ QuotAbove(x, y, j) = 2 * QuotAbove(x, y, j + 1) + QuotBit(w, x, y, width, j)
  <2>1. QuotAbove(x, y, j) \in Nat /\ QuotBit(w, x, y, width, j) \in 0 .. 1
    <3>1. Value(x) \div Pow2[j] \in Nat
      BY <1>1, BitStep
    <3>2. (Value(x) \div Pow2[j]) \div Value(y) \in Nat
      BY <1>1, <3>1, DivDef
    <3> QED
      BY <3>2 DEF QuotAbove, QuotBit
  <2>2. CASE j < width
    <3>1. width - j - 1 \in 0 .. width /\ width - (width - j - 1) = j + 1 /\ j \in 0 .. Bitwidth(x) - 1
      BY <1>1, <2>2
    <3>2. w[width - j - 1] \in Number(n) /\ Value(w[width - j - 1]) = RestAbove(x, y, j + 1)
      BY <1>5, <3>1
    <3>3. QuotAbove(x, y, j) = 2 * QuotAbove(x, y, j + 1)
            + Taken(BroughtDown(w[width - j - 1], BitOf(x, j)), y)
      <4>1. PICK r, down : r = w[width - j - 1] /\ down = BroughtDown(r, BitOf(x, j))
        OBVIOUS
      <4>2. r \in Number(n) /\ Value(r) = RestAbove(x, y, j + 1)
        BY <3>2, <4>1
      <4>3. Stepped(BroughtDown(r, BitOf(x, j)), x, y, j)
        BY <1>1, <3>1, <4>2, RestStep
      <4> QED
        BY <4>1, <4>3 DEF Stepped
    <3>4. QuotBit(w, x, y, width, j) = Taken(BroughtDown(w[width - j - 1], BitOf(x, j)), y)
      BY <2>2 DEF QuotBit, Taken
    <3> QED
      BY <2>1, <3>3, <3>4
  <2>3. CASE ~(j < width)
    <3>1. j + 1 \in Nat /\ j >= width /\ j + 1 >= width
      BY <1>1, <2>3
    <3>2. QuotAbove(x, y, j) = 0 /\ QuotAbove(x, y, j + 1) = 0
      BY <1>2, <3>1
    <3>3. QuotBit(w, x, y, width, j) = 0
      BY <2>3 DEF QuotBit
    <3> QED
      BY <2>1, <3>2, <3>3
  <2> QED
    BY <2>1, <2>2, <2>3
<1> QED
  BY <1>5, <1>6 DEF AreRests

\* A byte of the quotient takes ByteBits bits of it.
MakesByte(d, x, y, k) ==
  d \in Byte /\ d + Base * QuotAbove(x, y, ByteBits * (k + 1)) = QuotAbove(x, y, ByteBits * k)

\* A byte of the quotient that long_number_div builds is that byte of the quotient.
LEMMA QuotByteIs ==
  ASSUME NEW n \in Nat \ {0}, NEW x \in Number(n), NEW h \in Nat, NEW y \in Number(h), Value(y) # 0,
         NEW width, width = Bitwidth(x), NEW w \in [0 .. width -> Number(n)], Rests(w, x, y, n, width),
         NEW k \in Nat, NEW s \in [0 .. ByteBits -> Nat], QuotByte(s, w, x, y, width, k)
  PROVE  MakesByte(s[ByteBits], x, y, k)
<1> DEFINE Q(j) == QuotAbove(x, y, ByteBits * k + j)
           T == {j \in 0 .. ByteBits : s[j] + Pow2[j] * Q(j) = Q(0) /\ s[j] < Pow2[j]}
<1>1. /\ ByteBits \in Nat /\ ByteBits * k \in Nat
      /\ \A j \in Nat : Q(j) \in Nat
  <2>1. ByteBits \in Nat /\ ByteBits * k \in Nat
    BY ByteBitsAssumption
  <2>2. \A j \in Nat : ByteBits * k + j \in Nat
    BY <2>1
  <2>3. \A j \in Nat : QuotAbove(x, y, j) \in Nat
    BY RestsAre
  <2> QED
    BY <2>1, <2>2, <2>3
<1> HIDE DEF Q
<1>2. 0 \in T
  <2>1. Pow2[0] = 1 /\ s[0] = 0 /\ 0 \in 0 .. ByteBits /\ Q(0) \in Nat
    BY <1>1, Pow2Def DEF QuotByte
  <2> QED
    BY <2>1
<1>3. ASSUME NEW j \in 0 .. ByteBits - 1, j \in T PROVE j + 1 \in T
  <2> DEFINE bit == QuotBit(w, x, y, width, ByteBits * k + j)
  <2>1. j + 1 \in 1 .. ByteBits /\ j \in Nat /\ (j + 1) - 1 = j /\ j \in 0 .. ByteBits /\ j + 1 \in 0 .. ByteBits
    BY <1>1
  <2>2. Q(j) = 2 * Q(j + 1) + bit /\ bit \in 0 .. 1
    <3>1. ByteBits * k + j \in Nat /\ ByteBits * k + (j + 1) = (ByteBits * k + j) + 1
      <4>1. PICK b1 \in Nat : b1 = ByteBits * k
        BY <1>1
      <4>2. j \in Nat
        BY <2>1
      <4>3. b1 + j \in Nat /\ b1 + (j + 1) = (b1 + j) + 1
        BY <4>2
      <4> QED
        BY <4>1, <4>3
    <3> QED
      BY <3>1, RestsAre DEF Q
  <2>3. s[j + 1] = s[j] + bit * Pow2[j]
    <3>1. ByteBits * k + (j + 1) - 1 = ByteBits * k + j
      BY <1>1, <2>1
    <3>2. s[j + 1] = s[(j + 1) - 1] + QuotBit(w, x, y, width, ByteBits * k + (j + 1) - 1) * Pow2[(j + 1) - 1]
      BY <2>1 DEF QuotByte
    <3> QED
      BY <2>1, <3>1, <3>2
  <2>4. Q(j) \in Nat /\ Q(j + 1) \in Nat /\ Q(0) \in Nat
    <3>1. j \in Nat /\ j + 1 \in Nat /\ 0 \in Nat
      BY <2>1
    <3>2. \A i_1 \in Nat : Q(i_1) \in Nat
      BY <1>1
    <3> QED
      BY <3>1, <3>2
  <2> HIDE DEF bit
  <2>5. PICK p, c, q, r, v, t, u : p = Pow2[j] /\ c = bit /\ q = Q(j) /\ r = Q(j + 1) /\ v = s[j] /\ t = s[j + 1] /\ u = Q(0)
    OBVIOUS
  <2>6. p \in Nat /\ Pow2[j + 1] = 2 * p /\ v \in Nat /\ t \in Nat /\ q \in Nat /\ r \in Nat /\ u \in Nat /\ c \in 0 .. 1
    BY <2>1, <2>2, <2>4, <2>5, Pow2Def
  <2>7. v + p * q = u /\ v < p /\ q = 2 * r + c /\ t = v + c * p
    BY <1>3, <2>2, <2>3, <2>5
  <2>8. t + (2 * p) * r = u
    <3>1. p * (2 * r + c) = (2 * p) * r + c * p /\ (2 * p) * r \in Nat /\ c * p \in Nat
      BY <2>6
    <3> QED
      BY <2>6, <2>7, <3>1
  <2>9. t < 2 * p
    <3>1. c * p <= p
      BY <2>6
    <3> QED
      BY <2>6, <2>7, <3>1
  <2>10. s[j + 1] + Pow2[j + 1] * Q(j + 1) = Q(0) /\ s[j + 1] < Pow2[j + 1]
    BY <2>5, <2>6, <2>8, <2>9
  <2> QED
    BY <2>1, <2>10
<1> HIDE DEF T
<1>4. ByteBits \in T
  BY <1>1, <1>2, <1>3, FromZero
<1>5. s[ByteBits] + Base * QuotAbove(x, y, ByteBits * (k + 1)) = QuotAbove(x, y, ByteBits * k) /\ s[ByteBits] < Base
  <2>1. ByteBits * (k + 1) = ByteBits * k + ByteBits /\ ByteBits * k + 0 = ByteBits * k
    BY <1>1
  <2> QED
    BY <1>4, <2>1 DEF T, Base, Q
<1>6. s[ByteBits] \in Byte
  <2>1. s[ByteBits] \in Nat /\ Base \in Nat
    BY <1>1, Weights
  <2> QED
    BY <1>5, <2>1 DEF Byte
<1> QED
  BY <1>5, <1>6 DEF MakesByte

\* memcpy into a longer array keeps the value.
LEMMA ResizeIs ==
  ASSUME NEW n \in Nat, NEW x \in Number(n), NEW l \in Nat, n <= l
  PROVE  Resize(x, l) \in Number(l) /\ Value(Resize(x, l)) = Value(x)
<1> DEFINE z == Resize(x, l)
<1>1. DOMAIN x = 0 .. n - 1 /\ Digits(x, n) /\ Value(x) = Part(x, n) /\ \A k \in 0 .. n - 1 : x[k] \in Byte
  BY NumberDef
<1>2. 0 \in Byte
  BY Weights DEF Byte
<1>3. z \in Number(l) /\ (\A k \in 0 .. n - 1 : z[k] = x[k]) /\ \A k \in n .. l - 1 : z[k] = 0
  BY <1>1, <1>2 DEF Resize, Number
<1> HIDE DEF z
<1>4. Digits(z, l) /\ Value(z) = Part(z, l)
  BY <1>3, NumberDef
<1>5. Part(z, l) = Part(z, n)
  BY <1>3, <1>4, PartAboveZero
<1>6. Part(z, n) = Part(x, n)
  <2>1. Agree(x, z, n)
    BY <1>3 DEF Agree
  <2>2. n \in 0 .. n
    OBVIOUS
  <2> QED
    BY <1>1, <2>1, <2>2, PartSame
<1> QED
  BY <1>1, <1>3, <1>4, <1>5, <1>6 DEF z

\* The bytes of the quotient.
LEMMA QuotientIs ==
  ASSUME NEW n \in Nat \ {0}, NEW x \in Number(n), NEW h \in Nat, NEW y \in Number(h), Value(y) # 0,
         NEW z, z = [k \in 0 .. n - 1 |-> z[k]], \A k \in 0 .. n - 1 : MakesByte(z[k], x, y, k)
  PROVE  z \in Number(n) /\ Value(z) = Value(x) \div Value(y)
<1>1. /\ Value(x) \in Nat /\ Value(y) \in Nat \ {0} /\ Value(x) < Weight(n) /\ Weight(n) \in Nat \ {0}
  BY NumberDef, Weights
<1>2. z \in Number(n)
  BY DEF MakesByte, Number
<1> DEFINE w == [k \in 0 .. n |-> QuotAbove(x, y, ByteBits * k)]
<1>3. \A k \in 0 .. n : w[k] = QuotAbove(x, y, ByteBits * k) /\ w[k] \in Nat
  <2>1. ASSUME NEW k \in 0 .. n PROVE QuotAbove(x, y, ByteBits * k) \in Nat
    <3>1. Pow2[ByteBits * k] \in Nat \ {0}
      <4>1. ByteBits * k \in Nat
        BY ByteBitsAssumption
      <4> QED
        BY <4>1, Pow2Def
    <3>2. Value(x) \div Pow2[ByteBits * k] \in Nat
      BY <1>1, <3>1, DivDef
    <3> QED
      BY <1>1, <3>2, DivDef DEF QuotAbove
  <2> QED
    BY <2>1
<1> HIDE DEF w
<1>4. w[0] = Value(x) \div Value(y)
  <2>1. ByteBits * 0 = 0 /\ Pow2[0] = 1 /\ 0 \in 0 .. n
    BY ByteBitsAssumption, Pow2Def
  <2>2. Value(x) \div 1 = Value(x)
    BY <1>1
  <2> QED
    BY <1>3, <2>1, <2>2 DEF QuotAbove
<1>5. w[n] = 0
  <2>1. PICK u, d : u = Value(x) /\ d = Weight(n)
    OBVIOUS
  <2>2. u = 0 * d + u /\ u \in Nat /\ u < d /\ d \in Nat \ {0}
    BY <1>1, <2>1
  <2>3. u \div d = 0
    BY <2>2, DivIs
  <2>4. 0 \div Value(y) = 0
    <3>1. 0 = 0 * Value(y) + 0 /\ 0 < Value(y)
      BY <1>1
    <3> QED
      BY <1>1, <3>1, DivIs
  <2>5. n \in 0 .. n
    OBVIOUS
  <2> QED
    BY <1>3, <2>1, <2>3, <2>4, <2>5 DEF QuotAbove, Weight
<1>6. Digits(z, n) /\ Value(z) = Part(z, n)
  BY <1>2, NumberDef
<1>7. Digits(Zero(n), n) /\ Part(Zero(n), n) = 0
  <2>1. \A k \in 0 .. n - 1 : Zero(n)[k] = 0
    BY DEF Zero
  <2>2. Digits(Zero(n), n)
    BY <2>1 DEF Digits
  <2>3. Part(Zero(n), n) = Part(Zero(n), 0) /\ Part(Zero(n), 0) = 0
    BY <2>1, <2>2, PartAboveZero, PartDef
  <2> QED
    BY <2>2, <2>3
<1>8. Carried(z, Zero(n), w, n)
  <2>1. ASSUME NEW k \in 0 .. n - 1 PROVE z[k] + Base * w[k + 1] = w[k] + Zero(n)[k]
    <3>1. k \in 0 .. n /\ k + 1 \in 0 .. n /\ Zero(n)[k] = 0
      BY DEF Zero
    <3>2. w[k + 1] = QuotAbove(x, y, ByteBits * (k + 1)) /\ w[k] = QuotAbove(x, y, ByteBits * k) /\ w[k] \in Nat
      BY <1>3, <3>1
    <3>3. z[k] + Base * QuotAbove(x, y, ByteBits * (k + 1)) = QuotAbove(x, y, ByteBits * k)
      BY DEF MakesByte
    <3>4. w[k] = w[k] + Zero(n)[k]
      BY <3>1, <3>2
    <3> QED
      BY <3>2, <3>3, <3>4
  <2> QED
    BY <1>3, <1>6, <1>7, <2>1 DEF Carried
<1>9. Part(z, n) + w[n] * Weight(n) = Part(Zero(n), n) + w[0]
  <2>1. n \in 0 .. n
    OBVIOUS
  <2> QED
    BY <1>8, <2>1, Carries
<1>10. Part(z, n) \in Nat /\ w[0] \in Nat
  <2>1. 0 \in 0 .. n
    OBVIOUS
  <2> QED
    BY <1>3, <1>6, <2>1, NumberDef, <1>2
<1>11. Part(z, n) = w[0]
  <2>1. 0 * Weight(n) = 0
    BY <1>1
  <2> QED
    BY <1>5, <1>7, <1>9, <1>10, <2>1
<1> QED
  BY <1>2, <1>4, <1>6, <1>11

\* long_number_div leaves quotient and remainder.
LEMMA LongDivIs ==
  ASSUME NEW n \in Nat \ {0}, NEW x \in Number(n), NEW h \in Nat, NEW y \in Number(h), Value(y) # 0,
         NEW l \in Nat, n <= l
  PROVE  /\ Value(Div(x, y, l).quot) = Value(x) \div Value(y)
         /\ Value(Div(x, y, l).rest) = Value(x) % Value(y)
<1>1. Value(x) \in Nat /\ Value(y) \in Nat \ {0}
  BY NumberDef
<1>2. CASE Compare(x, y) = -1
  <2>1. Value(x) < Value(y)
    <3>1. Compare(x, y) = Sign(Value(x), Value(y))
      BY CompareIs
    <3> QED
      BY <1>1, <1>2, <3>1 DEF Sign
  <2>2. Value(x) \div Value(y) = 0 /\ Value(x) % Value(y) = Value(x)
    <3>1. PICK u, d : u = Value(x) /\ d = Value(y)
      OBVIOUS
    <3>2. u = 0 * d + u /\ u \in Nat /\ u < d /\ d \in Nat \ {0}
      BY <1>1, <2>1, <3>1
    <3>3. u \div d = 0 /\ u % d = u
      BY <3>2, DivIs
    <3> QED
      BY <3>1, <3>3
  <2>3. Div(x, y, l) = [quot |-> Zero(Bytes(x)), rest |-> Resize(x, l), leak |-> Bytes(x)]
    BY <1>2, Zenon DEF Div
  <2>4. Div(x, y, l).quot = Zero(n) /\ Div(x, y, l).rest = Resize(x, l)
    BY <2>3, NumberDef
  <2>5. Value(Zero(n)) = 0
    <3>1. Zero(n) \in Number(n)
      <4>1. 0 \in Byte
        BY Weights DEF Byte
      <4> QED
        BY <4>1 DEF Zero, Number
    <3>2. IsZero(Zero(n))
      BY DEF IsZero, Zero
    <3> QED
      BY <3>1, <3>2, ZeroValue
  <2>6. Value(Resize(x, l)) = Value(x)
    BY ResizeIs
  <2> QED
    BY <2>2, <2>4, <2>5, <2>6
<1>3. CASE Compare(x, y) # -1
  <2>1. PICK width : width = Bitwidth(x)
    OBVIOUS
  <2>0. PICK w \in [0 .. width -> Number(n)] : \E t : DivRun(w, t, x, y, l, n, width)
    BY <1>3, <2>1, DivLoop
  <2>2. PICK z : DivRun(w, z, x, y, l, n, width)
    BY <2>0
  <2> USE DEF DivRun
  <2>3. ASSUME NEW k \in 0 .. n - 1 PROVE MakesByte(z[k], x, y, k)
    <3>1. PICK s \in [0 .. ByteBits -> Nat] : QuotByte(s, w, x, y, width, k) /\ z[k] = s[ByteBits]
      BY <2>2
    <3>2. k \in Nat
      OBVIOUS
    <3>3. MakesByte(s[ByteBits], x, y, k)
      BY <2>1, <2>2, <3>1, <3>2, QuotByteIs
    <3> QED
      BY <3>1, <3>3
  <2>4. Value(z) = Value(x) \div Value(y)
    BY <2>2, <2>3, QuotientIs
  <2>5. width \in Nat /\ width \in 0 .. width /\ width - width = 0
    <3>1. width \in Nat
      BY <2>1, BitwidthIs
    <3> QED
      BY <3>1
  <2> HIDE DEF DivRun
  <2>6. Value(w[width]) = RestAbove(x, y, width - width)
    <3>1. Rests(w, x, y, n, width)
      BY <2>2 DEF DivRun
    <3>2. w \in [0 .. width -> Number(n)]
      BY <2>2
    <3>3. AreRests(w, x, y, width)
      BY <2>1, <3>1, <3>2, RestsAre
    <3> QED
      BY <2>5, <3>3 DEF AreRests
  <2>7. RestAbove(x, y, 0) = Value(x) % Value(y)
    <3>1. Pow2[0] = 1 /\ Value(x) \div 1 = Value(x)
      BY <1>1, Pow2Def
    <3> QED
      BY <3>1 DEF RestAbove
  <2>8. w[width] \in Number(n)
    BY <2>5
  <2>9. Value(Resize(w[width], l)) = Value(w[width])
    BY <2>8, ResizeIs
  <2>10. Div(x, y, l).quot = z /\ Div(x, y, l).rest = Resize(w[width], l)
    BY <2>2 DEF DivRun
  <2> QED
    BY <2>4, <2>5, <2>6, <2>7, <2>9, <2>10
<1> QED
  BY <1>2, <1>3

----------------------------------------------------------------------------
(* The operations, on all inputs that the callers give.                      *)

\* Once an operation is done, out is what its operator leaves and returns.
OpInv ==
  /\ Inputs
  /\ done \in BOOLEAN
  /\ done => out = Answer

\* The result depends on the operation and its operands alone.
LEMMA AnswerKept ==
  ASSUME op' = op, a' = a, b' = b
  PROVE  Answer' = Answer /\ Inputs' = Inputs
<1>1. Bytes(a)' = Bytes(a) /\ Bytes(b)' = Bytes(b) /\ IsZero(b)' = IsZero(b)
  BY DEF Bytes, IsZero
<1>2. Longer' = Longer
  BY <1>1 DEF Longer
<1> QED
  BY <1>1, <1>2 DEF Answer, Inputs

\* The inputs stay as they are, and the answer is the operator's.
LEMMA OpInductive == OpSpec => []OpInv
<1>1. OpInit => OpInv
  BY DEF OpInit, OpInv
<1>2. OpInv /\ [OpNext]_opVars => OpInv'
  <2> SUFFICES ASSUME OpInv, [OpNext]_opVars PROVE OpInv'
    OBVIOUS
  <2>1. CASE Compute
    <3>1. Answer' = Answer /\ Inputs' = Inputs
      BY <2>1, AnswerKept DEF Compute
    <3> QED
      BY <2>1, <3>1 DEF OpInv, Compute
  <2>2. CASE UNCHANGED opVars
    <3>1. Answer' = Answer /\ Inputs' = Inputs
      BY <2>2, AnswerKept DEF opVars
    <3> QED
      BY <2>2, <3>1 DEF OpInv, opVars
  <2> QED
    BY <2>1, <2>2 DEF OpNext
<1> QED
  BY <1>1, <1>2, PTL DEF OpSpec

\* The lengths of the two inputs, and what holds of them for all operations.
Sized(m, n) ==
  /\ m \in Nat \ {0} /\ n \in Nat \ {0}
  /\ a \in Number(m) /\ b \in Number(n)
  /\ Bytes(a) = m /\ Bytes(b) = n
  /\ b[0] \in Nat /\ b[0] < Base

\* The operands have their numbers of bytes.
LEMMA Sizes ==
  ASSUME OpInv
  PROVE  \E m, n : Sized(m, n)
<1>1. PICK m \in 1 .. MaxBytes, n \in 1 .. MaxBytes : a \in Number(m) /\ b \in Number(n)
  BY DEF OpInv, Inputs, Numbers
<1>2. m \in Nat \ {0} /\ n \in Nat \ {0}
  BY MaxBytesAssumption
<1>3. Bytes(a) = m /\ Bytes(b) = n
  BY <1>1, <1>2, NumberDef
<1>4. b[0] \in Nat /\ b[0] < Base
  <2>1. 0 \in 0 .. n - 1 /\ Base \in Nat
    BY <1>2, Weights
  <2>2. b[0] \in Byte
    BY <1>1, <1>2, <2>1, NumberDef
  <2> QED
    BY <2>1, <2>2 DEF Byte
<1> QED
  BY <1>1, <1>2, <1>3, <1>4 DEF Sized

\* long_number_compare orders the numbers that the arrays stand for, whatever
\* the lengths, and long_number_dec subtracts modulo the size of the first and
\* reports the borrow, for every width of a byte and length of the arrays.
THEOREM DecAndCompare == OpSpec => []Subtracts
<1>1. OpInv => Subtracts
  <2> SUFFICES ASSUME OpInv PROVE Subtracts
    OBVIOUS
  <2>1. PICK m, n : Sized(m, n)
    BY Sizes
  <2>2. /\ m \in Nat \ {0} /\ n \in Nat \ {0} /\ a \in Number(m) /\ b \in Number(n)
        /\ Bytes(a) = m /\ Bytes(b) = n
    BY <2>1 DEF Sized
  <2>3. ASSUME Done("compare") PROVE out.flag = Sign(Value(a), Value(b))
    <3>1. Answer = [res |-> <<>>, flag |-> Compare(a, b)]
      BY <2>3 DEF Done, Answer
    <3>2. out.flag = Compare(a, b)
      BY <2>3, <3>1 DEF OpInv, Done
    <3> QED
      BY <2>2, <3>2, CompareIs
  <2>4. ASSUME Done("dec")
        PROVE  /\ Value(out.res) = (Value(a) - Value(b)) % Weight(Bytes(a))
               /\ out.flag = (Value(a) < Value(b))
    <3>1. out = Dec(a, b) /\ n <= m
      <4>1. Answer = Dec(a, b) /\ op = "dec"
        BY <2>4 DEF Done, Answer
      <4>2. Bytes(a) >= Bytes(b)
        BY <4>1 DEF OpInv, Inputs
      <4> QED
        BY <2>2, <2>4, <4>1, <4>2 DEF OpInv, Done
    <3>2. n = Lower(m, n)
      BY <2>2, <3>1 DEF Lower
    <3>3. Value(b) = Part(b, n) /\ Value(a) \in Nat /\ Value(b) \in Nat
          /\ Value(a) < Weight(m) /\ Value(b) < Weight(n)
      BY <2>2, NumberDef
    <3>4. /\ out.flag = (Value(a) < Value(b))
          /\ Value(a) >= Value(b) => Value(out.res) = Value(a) - Value(b)
          /\ Value(a) < Value(b) => Value(out.res) = Value(a) - Value(b) + Weight(m)
      <4>1. /\ Dec(a, b).flag = (Value(a) < Part(b, n))
            /\ Value(a) >= Part(b, n) => Value(Dec(a, b).res) = Value(a) - Part(b, n)
            /\ Value(a) < Part(b, n) => Value(Dec(a, b).res) = Value(a) - Part(b, n) + Weight(m)
        BY <2>2, <3>2, DecIs
      <4> QED
        BY <3>1, <3>3, <4>1
    <3>5. Weight(m) \in Nat \ {0} /\ Weight(n) <= Weight(m)
      <4>1. ByteBits * n \in Nat /\ ByteBits * m \in Nat /\ ByteBits * n <= ByteBits * m
        BY <2>2, <3>1, ByteBitsAssumption
      <4> QED
        BY <4>1, PowerMonotone DEF Weight
    <3>6. PICK u, v, d : u = Value(a) /\ v = Value(b) /\ d = Weight(m)
      OBVIOUS
    <3>7. u \in Nat /\ v \in Nat /\ d \in Nat \ {0} /\ u < d /\ v < d
      <4>1. Weight(n) \in Nat
        BY <2>2, Weights
      <4> QED
        BY <3>3, <3>5, <3>6, <4>1
    <3>8. Value(out.res) = (u - v) % d
      <4>1. CASE u >= v
        <5>1. PICK t : t = u - v
          OBVIOUS
        <5>2. t \in Nat /\ t < d
          BY <3>7, <4>1, <5>1
        <5>3. t % d = t
          BY <3>7, <5>2, SmallMod
        <5> QED
          BY <3>4, <3>6, <4>1, <5>1, <5>3
      <4>2. CASE u < v
        <5>1. PICK t, r : t = u - v /\ r = t + d
          OBVIOUS
        <5>2. t \in Int /\ r \in Nat /\ r < d /\ t = (-1) * d + r /\ -1 \in Int
          BY <3>7, <4>2, <5>1
        <5>3. t % d = r
          BY <3>7, <5>2, DivIs
        <5>4. Value(out.res) = r
          BY <3>4, <3>6, <4>2, <5>1
        <5> QED
          BY <5>1, <5>3, <5>4
      <4> QED
        BY <3>7, <4>1, <4>2
    <3> QED
      BY <2>2, <3>4, <3>6, <3>8
  <2> QED
    BY <2>3, <2>4 DEF Subtracts
<1> QED
  BY <1>1, OpInductive, PTL

\* long_number_mul is the product, reports no overflow and changes nothing in
\* front of its memory, for every width of a byte and all lengths, although
\* long_number_plus drops carries or puts them in front of the array.
THEOREM Product == OpSpec => []Multiplies
<1>1. OpInv => Multiplies
  <2> SUFFICES ASSUME OpInv, Done("mul")
                 PROVE  Value(out.res) = Value(a) * Value(b) /\ ~out.flag /\ ~out.before
    BY DEF Multiplies
  <2>1. PICK m, n : Sized(m, n)
    BY Sizes
  <2>2. /\ m \in Nat /\ n \in Nat /\ a \in Number(m) /\ b \in Number(n)
        /\ Bytes(a) = m /\ Bytes(b) = n
    BY <2>1 DEF Sized
  <2>3. out = Mul(a, b, Zero(m + n))
    <3>1. Answer = Mul(a, b, Zero(Bytes(a) + Bytes(b)))
      BY DEF Done, Answer
    <3> QED
      BY <2>2, <3>1 DEF OpInv, Done
  <2>4. PICK l : l = m + n
    OBVIOUS
  <2>5. l \in Nat /\ m + n <= l
    BY <2>2, <2>4
  <2>6. /\ ~Mul(a, b, Zero(l)).flag /\ ~Mul(a, b, Zero(l)).before
        /\ Value(Mul(a, b, Zero(l)).res) = Value(a) * Value(b)
    BY <2>2, <2>5, ProductFits
  <2> QED
    BY <2>3, <2>4, <2>6
<1> QED
  BY <1>1, OpInductive, PTL

\* long_number_div and long_number_divu8 leave quotient and remainder, for
\* every width of a byte, all lengths and every divisor that is not 0.
THEOREM QuotientAndRest == OpSpec => []Divides
<1>1. OpInv => Divides
  <2> SUFFICES ASSUME OpInv PROVE Divides
    OBVIOUS
  <2>1. PICK m, n : Sized(m, n)
    BY Sizes
  <2>2. /\ m \in Nat \ {0} /\ n \in Nat \ {0} /\ a \in Number(m) /\ b \in Number(n)
        /\ Bytes(a) = m /\ Bytes(b) = n /\ b[0] \in Nat /\ b[0] < Base
    BY <2>1 DEF Sized
  <2>3. ASSUME Done("div")
        PROVE  /\ Value(out.res.quot) = Value(a) \div Value(b)
               /\ Value(out.res.rest) = Value(a) % Value(b)
    <3>1. out.res = Div(a, b, Longer)
      <4>1. Answer = [res |-> Div(a, b, Longer), flag |-> FALSE]
        BY <2>3 DEF Done, Answer
      <4> QED
        BY <2>3, <4>1 DEF OpInv, Done
    <3>2. Longer \in Nat /\ m <= Longer
      BY <2>2 DEF Longer
    <3>3. Value(b) # 0
      <4>1. ~IsZero(b)
        BY <2>3 DEF OpInv, Inputs, Done
      <4> QED
        BY <2>2, <4>1, ZeroValue
    <3>4. PICK l : l = Longer
      OBVIOUS
    <3>5. /\ Value(Div(a, b, l).quot) = Value(a) \div Value(b)
          /\ Value(Div(a, b, l).rest) = Value(a) % Value(b)
      BY <2>2, <3>2, <3>3, <3>4, LongDivIs
    <3> QED
      BY <3>1, <3>4, <3>5
  <2>4. ASSUME Done("divu8")
        PROVE  Value(out.res) = Value(a) \div b[0] /\ out.flag = Value(a) % b[0]
    <3>1. out = DivU8(a, b[0])
      <4>1. Answer = DivU8(a, b[0])
        BY <2>4 DEF Done, Answer
      <4> QED
        BY <2>4, <4>1 DEF OpInv, Done
    <3>2. b[0] # 0
      BY <2>4 DEF OpInv, Inputs, Done
    <3>3. b[0] \in 1 .. Base - 1
      <4>1. Base \in Nat
        BY Weights
      <4> QED
        BY <2>2, <3>2, <4>1
    <3>4. PICK d : d = b[0]
      OBVIOUS
    <3>5. Value(DivU8(a, d).res) = Value(a) \div d /\ DivU8(a, d).flag = Value(a) % d
      BY <2>2, <3>3, <3>4, DivU8Is
    <3> QED
      BY <3>1, <3>4, <3>5
  <2> QED
    BY <2>3, <2>4 DEF Divides
<1> QED
  BY <1>1, OpInductive, PTL

\* Shifts multiply and divide by powers of two, and the bit width is that of
\* the value, for every width of a byte, all lengths and every distance.
THEOREM ShiftsArePowers == OpSpec => []Shifts
<1>1. OpInv => Shifts
  <2> SUFFICES ASSUME OpInv, Done("shift") PROVE Shifts
    BY DEF Shifts
  <2>1. PICK m, n : Sized(m, n)
    BY Sizes
  <2>2. m \in Nat /\ a \in Number(m) /\ Bytes(a) = m /\ b[0] \in Nat
    BY <2>1 DEF Sized
  <2>3. out = [res |-> [l |-> LeftShift(a, b[0]), r |-> RightShift(a, b[0])], flag |-> Bitwidth(a)]
    <3>1. Answer = [res |-> [l |-> LeftShift(a, b[0]), r |-> RightShift(a, b[0])], flag |-> Bitwidth(a)]
      BY DEF Done, Answer
    <3> QED
      BY <3>1 DEF OpInv, Done
  <2>4. out.res.l = LeftShift(a, b[0]) /\ out.res.r = RightShift(a, b[0]) /\ out.flag = Bitwidth(a)
    BY <2>3
  <2>5. PICK k : k = b[0]
    OBVIOUS
  <2>6. Value(LeftShift(a, k)) = (Value(a) * Pow2[k]) % Weight(m)
    BY <2>2, <2>5, LeftShiftIs
  <2>7. k >= ByteBits \/ k = 0 => Value(RightShift(a, k)) = Value(a) \div Pow2[k]
    BY <2>2, <2>5, RightShiftIs
  <2>8. Pow2[Bitwidth(a)] > Value(a) /\ (Value(a) > 0 => Pow2[Bitwidth(a) - 1] <= Value(a))
    <3>1. /\ Value(a) < Pow2[Bitwidth(a)]
          /\ Value(a) # 0 => Bitwidth(a) # 0 /\ Pow2[Bitwidth(a) - 1] <= Value(a)
      BY <2>2, BitwidthIs
    <3>2. Value(a) \in Nat
      BY <2>2, NumberDef
    <3> QED
      BY <3>1, <3>2
  <2> QED
    BY <2>2, <2>4, <2>5, <2>6, <2>7, <2>8 DEF Shifts
<1> QED
  BY <1>1, OpInductive, PTL

\* long_number_mod_2pow never changes the low bits, and keeps nothing else
\* where they are whole bytes, for every width of a byte and all lengths.
THEOREM LowBitsKept == OpSpec => []KeepsLowBits
<1>1. OpInv => KeepsLowBits
  <2> SUFFICES ASSUME OpInv, Done("mod2pow") PROVE KeepsLowBits
    BY DEF KeepsLowBits
  <2>1. PICK m, n : Sized(m, n)
    BY Sizes
  <2>2. m \in Nat /\ a \in Number(m) /\ Bytes(a) = m /\ b[0] \in Nat
    BY <2>1 DEF Sized
  <2>3. out.res = Mod2Pow(a, b[0])
    <3>1. Answer = [res |-> Mod2Pow(a, b[0]), flag |-> FALSE]
      BY DEF Done, Answer
    <3> QED
      BY <3>1 DEF OpInv, Done
  <2>4. b[0] # 0 /\ (b[0] + ByteBits - 1) \div ByteBits < Bytes(a)
    BY DEF OpInv, Inputs, Done
  <2>5. PICK k : k = b[0]
    OBVIOUS
  <2>6. k \in Nat \ {0} /\ (k + ByteBits - 1) \div ByteBits < m
    BY <2>2, <2>4, <2>5
  <2>7. /\ Value(Mod2Pow(a, k)) % Pow2[k] = Value(a) % Pow2[k]
        /\ k % ByteBits = 0 => Value(Mod2Pow(a, k)) = Value(a) % Pow2[k]
    BY <2>2, <2>6, Mod2PowIs
  <2> QED
    BY <2>3, <2>5, <2>7 DEF KeepsLowBits
<1> QED
  BY <1>1, OpInductive, PTL
=============================================================================
