----------------------------- MODULE PrfProofs -----------------------------
(* tls_prf writes every byte of its result and none beyond it, and each of    *)
(* them is one of P_hash, for every table of result sizes and every length.   *)
EXTENDS Prf, SequenceTheorems, WellFoundedInduction, TLAPS

\* Where piece i ends.
End(i) == IF i = 0 THEN 0 ELSE out[i].at + out[i].size

\* The pieces lie end to end from the first byte of the result.
Joined ==
  \A i \in 1 .. Len(out) :
    out[i].at \in Nat /\ out[i].size \in Nat /\ out[i].at = End(i - 1) /\ out[i].size > 0

\* While the loop runs generator_bytes is where the last piece ends; after it,
\* where the result does.
PrfInv ==
  /\ type \in Hashes /\ resLength \in Nat /\ generated \in Nat
  /\ \E S : out \in Seq(S)
  /\ Joined
  /\ pc \in {"loop", "done"}
  /\ pc = "loop" => End(Len(out)) = generated /\ generated <= resLength
  /\ pc = "done" => End(Len(out)) = resLength /\ Size > 0

\* A result is of a natural number of bytes.
LEMMA SizeType == ASSUME type \in Hashes PROVE Size \in Nat
BY TableAssumption DEF Size, SizeOf

\* A piece put behind the others, where they end, leaves them as they are.
LEMMA PieceAdded ==
  ASSUME PrfInv, pc = "loop", NEW w, w.at = generated, w.size \in Nat, w.size > 0,
         out' = Append(out, w)
  PROVE  (\E S : out' \in Seq(S)) /\ Joined' /\ End(Len(out))' = generated + w.size
<1>1. PICK S : out \in Seq(S)
  BY DEF PrfInv
<1>2. out \in Seq(S \cup {w})
  <2>1. out \in [1 .. Len(out) -> S \cup {w}] /\ Len(out) \in Nat
    BY <1>1
  <2> QED
    BY <2>1, IsASeq
<1>3. /\ out' \in Seq(S \cup {w}) /\ Len(out') = Len(out) + 1 /\ Len(out) \in Nat
      /\ \A i \in 1 .. Len(out) : out'[i] = out[i]
      /\ out'[Len(out) + 1] = w
  BY <1>2
<1>4. w.at = generated /\ w.size \in Nat /\ w.size > 0
  OBVIOUS
<1>5. End(Len(out)) = generated /\ generated \in Nat /\ Joined
  BY DEF PrfInv
<1>6. \A i \in 0 .. Len(out) : End(i)' = End(i)
  BY <1>3 DEF End
<1>7. End(Len(out))' = generated + w.size
  BY <1>3, <1>4 DEF End
<1>8. ASSUME NEW i \in 1 .. Len(out')
      PROVE  /\ out'[i].at \in Nat /\ out'[i].size \in Nat
             /\ out'[i].at = End(i - 1)' /\ out'[i].size > 0
  <2>1. CASE i \in 1 .. Len(out)
    BY <1>3, <1>5, <1>6, <2>1 DEF Joined
  <2>2. CASE i = Len(out) + 1
    BY <1>3, <1>4, <1>5, <1>6, <2>2
  <2> QED
    BY <1>3, <2>1, <2>2
<1> QED
  BY <1>3, <1>7, <1>8 DEF Joined, End

\* The pieces fill the result, the property the run of Prf checks
\* (tls_hash.cpp:256-270).
THEOREM ResultFilled == Spec => []FillsResult
<1>1. Init => PrfInv
  <2> SUFFICES ASSUME Init
               PROVE  PrfInv
    OBVIOUS
  <2>1. out \in Seq({}) /\ Len(out) = 0
    BY DEF Init
  <2>2. End(Len(out)) = 0
    BY <2>1 DEF End
  <2> QED
    BY <2>1, <2>2, LengthsAssumption DEF Init, PrfInv, Joined
<1>2. PrfInv /\ [Next]_vars => PrfInv'
  <2> SUFFICES ASSUME PrfInv, [Next]_vars
               PROVE  PrfInv'
    OBVIOUS
  <2>1. Size \in Nat
    BY SizeType DEF PrfInv
  <2>2. ASSUME out' = out, pc' = pc, type' = type, resLength' = resLength,
               generated' = generated
        PROVE  PrfInv'
    BY <2>2 DEF PrfInv, Joined, End, Size, SizeOf
  <2>3. CASE FullBlock
    <3>1. /\ pc = "loop" /\ pc' = "loop" /\ type' = type /\ resLength' = resLength
          /\ generated' = generated + Size /\ generated + Size <= resLength
      BY <2>3 DEF FullBlock
    <3>2. CASE Size = 0
      BY <2>2, <2>3, <3>1, <3>2 DEF FullBlock, PrfInv
    <3>3. CASE Size > 0
      <4> DEFINE w == Written(generated, <<chain, Seed>>, Size)
      <4>1. out' = Append(out, w) /\ w.at = generated /\ w.size = Size
        BY <2>3, <3>3 DEF FullBlock, Written
      <4> HIDE DEF w
      <4>2. (\E S : out' \in Seq(S)) /\ Joined' /\ End(Len(out))' = generated + Size
        BY <2>1, <3>1, <3>3, <4>1, PieceAdded
      <4> QED
        BY <2>1, <3>1, <4>2 DEF PrfInv
    <3> QED
      BY <2>1, <3>2, <3>3
  <2>4. CASE LastBlock
    <3>1. /\ pc = "loop" /\ pc' = "done" /\ type' = type /\ resLength' = resLength
          /\ generated' = generated /\ generated + Size > resLength
      BY <2>4 DEF LastBlock
    <3>2. Size' > 0
      BY <2>1, <3>1 DEF PrfInv, Size, SizeOf
    <3>3. CASE resLength = generated
      <4>1. out' = out
        BY <2>4, <3>3 DEF LastBlock
      <4>2. Joined' /\ End(Len(out))' = End(Len(out)) /\ \E S : out' \in Seq(S)
        BY <4>1 DEF PrfInv, Joined, End
      <4> QED
        BY <3>1, <3>2, <3>3, <4>2 DEF PrfInv
    <3>4. CASE resLength # generated
      <4>1. resLength - generated \in Nat /\ resLength - generated > 0
        BY <3>1, <3>4 DEF PrfInv
      <4> DEFINE w == Written(generated, <<chain, Seed>>, resLength - generated)
      <4>2. out' = Append(out, w) /\ w.at = generated /\ w.size = resLength - generated
        BY <2>4, <3>4 DEF LastBlock, Written
      <4> HIDE DEF w
      <4>3. /\ \E S : out' \in Seq(S)
            /\ Joined' /\ End(Len(out))' = generated + (resLength - generated)
        BY <3>1, <4>1, <4>2, PieceAdded
      <4> QED
        BY <3>1, <3>2, <4>1, <4>3 DEF PrfInv
    <3> QED
      BY <3>3, <3>4
  <2>5. CASE UNCHANGED vars
    BY <2>2, <2>5 DEF vars
  <2> QED
    BY <2>3, <2>4, <2>5 DEF Next
<1>3. PrfInv => FillsResult
  <2> SUFFICES ASSUME PrfInv
               PROVE  FillsResult
    OBVIOUS
  <2>1. PICK S : out \in Seq(S)
    BY DEF PrfInv
  <2>2. DOMAIN out = 1 .. Len(out)
    BY <2>1
  <2>3. End(Len(out)) <= resLength /\ (pc = "done" => End(Len(out)) = resLength /\ Size > 0)
    BY DEF PrfInv
  <2> QED
    BY <2>2, <2>3 DEF PrfInv, FillsResult, Joined, End
<1> QED
  BY <1>1, <1>2, <1>3, PTL DEF Spec

----------------------------------------------------------------------------
(* P_hash.                                                                   *)

\* g is the chain of P_hash up to A(n).
Chain(n, g) ==
  g[0] = Seed /\ \A i \in 1 .. n : g[i] = <<"mac", <<g[i - 1]>>>>

\* What piece i is for a hash that is implemented, if g is the chain.
Piece(i, g) == <<"mac", <<g[i], Seed>>>>

\* A set of natural numbers has a least element.
LEMMA Least ==
  ASSUME NEW T, T \subseteq Nat, T # {}
  PROVE  \E m \in T : \A k \in T : m <= k
<1>1. PICK m \in T : \A k \in T : <<k, m>> \notin OpToRel(<, Nat)
  BY WFMin, NatLessThanWellFounded, Zenon
<1>2. \A k \in T : ~(k < m)
  BY <1>1, Zenon DEF OpToRel
<1> QED
  BY <1>2

\* What Append does to the elements.
LEMMA AppendTo ==
  ASSUME NEW S, NEW s \in Seq(S), NEW e
  PROVE  /\ Len(s) \in Nat /\ Len(Append(s, e)) = Len(s) + 1
         /\ \A i \in 1 .. Len(s) : Append(s, e)[i] = s[i]
         /\ Append(s, e)[Len(s) + 1] = e
         /\ Append(s, e) \in Seq(S \cup {e})
<1>1. s \in Seq(S \cup {e})
  <2>1. s \in [1 .. Len(s) -> S \cup {e}] /\ Len(s) \in Nat
    OBVIOUS
  <2> QED
    BY <2>1, IsASeq
<1> QED
  BY <1>1

\* The chain goes on by a link, and what there is of it stays.
LEMMA ChainGrows ==
  ASSUME NEW n \in Nat, NEW g, Chain(n, g)
  PROVE  \E h : /\ Chain(n + 1, h)
                /\ \A i \in 0 .. n : h[i] = g[i]
                /\ h[n + 1] = <<"mac", <<g[n]>>>>
<1> DEFINE h == [i \in 0 .. n + 1 |-> IF i = n + 1 THEN <<"mac", <<g[n]>>>> ELSE g[i]]
<1>1. (\A i \in 0 .. n : h[i] = g[i]) /\ h[n + 1] = <<"mac", <<g[n]>>>>
  OBVIOUS
<1> HIDE DEF h
<1>2. h[0] = Seed
  BY <1>1 DEF Chain
<1>3. ASSUME NEW i \in 1 .. n + 1 PROVE h[i] = <<"mac", <<h[i - 1]>>>>
  <2>1. h[i - 1] = g[i - 1]
    BY <1>1
  <2>2. CASE i = n + 1
    BY <1>1, <2>1, <2>2
  <2>3. CASE i \in 1 .. n
    BY <1>1, <2>1, <2>3 DEF Chain
  <2> QED
    BY <2>2, <2>3
<1> QED
  BY <1>1, <1>2, <1>3 DEF Chain

\* Two chains are the same as far as both go.
LEMMA OneChain ==
  ASSUME NEW n \in Nat, NEW m \in Nat, m <= n, NEW g, Chain(n, g), NEW h, Chain(m, h)
  PROVE  \A i \in 0 .. m : h[i] = g[i]
<1> DEFINE Other == {i \in 0 .. m : h[i] # g[i]}
<1>1. SUFFICES ASSUME Other # {} PROVE FALSE
  OBVIOUS
<1>2. PICK k \in Other : \A i \in Other : k <= i
  <2>1. Other \subseteq Nat
    OBVIOUS
  <2> HIDE DEF Other
  <2> QED
    BY <1>1, <2>1, Least
<1>3. h[0] = Seed /\ g[0] = Seed
  BY DEF Chain
<1>4. k \in 1 .. m /\ k - 1 \in 0 .. m /\ k \in 0 .. n
  BY <1>2, <1>3
<1>5. h[k - 1] = g[k - 1]
  BY <1>2, <1>4
<1>6. h[k] = <<"mac", <<h[k - 1]>>>> /\ g[k] = <<"mac", <<g[k - 1]>>>>
  BY <1>4 DEF Chain
<1> QED
  BY <1>2, <1>5, <1>6

\* The pieces are those of P_hash, and the chain is one link ahead of them.
HashInv ==
  /\ type \in Hashes
  /\ Size \in Nat
  /\ \E S : out \in Seq(S)
  /\ Size = 0 => out = <<>> /\ pc = "loop" /\ generated <= resLength
  /\ generated \in Nat /\ resLength \in Nat
  /\ pc \in {"loop", "done"}
  /\ \A i \in 1 .. Len(out) :
       (pc = "loop" \/ i < Len(out)) => out[i].size = ResultSize[type]
  /\ type \notin Implemented => \A i \in 1 .. Len(out) : out[i].mac = <<"secret", <<>>>>
  /\ type \in Implemented /\ Size > 0 =>
       \E g : /\ Chain(Len(out) + 1, g)
              /\ pc = "loop" => chain = g[Len(out) + 1]
              /\ \A i \in 1 .. Len(out) : out[i].mac = Piece(i, g)

\* A piece for the MAC the chain is ahead of, and a link: the pieces are still
\* those of the chain.
LEMMA PieceFits ==
  ASSUME HashInv, pc = "loop", type \in Implemented, Size > 0, NEW size,
         out' = Append(out, Written(generated, <<chain, Seed>>, size))
  PROVE  \E g : /\ Chain(Len(out) + 2, g)
                /\ Mac(type, <<chain>>) = g[Len(out) + 2]
                /\ \A i \in 1 .. Len(out) + 1 : out'[i].mac = Piece(i, g)
<1>1. PICK S : out \in Seq(S)
  BY DEF HashInv
<1> DEFINE n == Len(out)
           w == Written(generated, <<chain, Seed>>, size)
<1>2. n \in Nat /\ (\A i \in 1 .. n : out'[i] = out[i]) /\ out'[n + 1] = w
  BY <1>1, AppendTo
<1>3. PICK g : /\ Chain(n + 1, g) /\ chain = g[n + 1]
               /\ \A i \in 1 .. n : out[i].mac = Piece(i, g)
  BY DEF HashInv
<1>4. PICK h : /\ Chain((n + 1) + 1, h)
               /\ \A i \in 0 .. n + 1 : h[i] = g[i]
               /\ h[(n + 1) + 1] = <<"mac", <<g[n + 1]>>>>
  <2>1. n + 1 \in Nat /\ Chain(n + 1, g)
    BY <1>2, <1>3
  <2> HIDE DEF n
  <2> QED
    BY <2>1, ChainGrows
<1>5. w.mac = <<"mac", <<chain, Seed>>>> /\ Mac(type, <<chain>>) = <<"mac", <<chain>>>>
  BY DEF Written, Mac
<1> HIDE DEF w
<1>6. \A i \in 1 .. n + 1 : out'[i].mac = Piece(i, h)
  <2> SUFFICES ASSUME NEW i \in 1 .. n + 1
               PROVE  out'[i].mac = Piece(i, h)
    OBVIOUS
  <2>1. h[i] = g[i]
    BY <1>2, <1>4
  <2>2. CASE i = n + 1
    BY <1>2, <1>3, <1>5, <2>1, <2>2 DEF Piece
  <2>3. CASE i \in 1 .. n
    BY <1>2, <1>3, <2>1, <2>3 DEF Piece
  <2> QED
    BY <1>2, <2>2, <2>3
<1>7. (n + 1) + 1 = n + 2
  BY <1>2
<1> QED
  BY <1>3, <1>4, <1>5, <1>6, <1>7

\* HashInv is about P_hash: the function IsPHash defines is the chain.
LEMMA ChainIsP == HashInv => IsPHash
<1> SUFFICES ASSUME HashInv
             PROVE  IsPHash
  OBVIOUS
<1> DEFINE n == Len(out)
           a == CHOOSE a : a = [i \in 0 .. n |-> IF i = 0 THEN Seed
                                                 ELSE <<"mac", <<a[i - 1]>>>>]
<1>1. n \in Nat /\ DOMAIN out = 1 .. n
  <2> PICK S : out \in Seq(S)
    BY DEF HashInv
  <2> QED
    OBVIOUS
<1>2. ASSUME NEW i \in 1 .. n, i < n PROVE out[i].size = ResultSize[type]
  BY <1>2 DEF HashInv
<1>3. CASE type \notin Implemented
  <2>1. \A i \in 1 .. n : out[i].mac = <<"secret", <<>>>>
    BY <1>3 DEF HashInv
  <2>2. \A i \in 1 .. n : out[i].mac = out[1].mac
    BY <1>1, <2>1
  <2> QED
    BY <1>1, <1>2, <1>3, <2>2 DEF IsPHash
<1>4. CASE type \in Implemented /\ Size = 0
  <2>1. DOMAIN out = {}
    BY <1>4 DEF HashInv
  <2> QED
    BY <2>1 DEF IsPHash
<1>5. CASE type \in Implemented /\ Size > 0
  <2>1. PICK g : Chain(n + 1, g) /\ \A i \in 1 .. n : out[i].mac = Piece(i, g)
    BY <1>5 DEF HashInv
  <2> HIDE DEF n
  <2>2. \E f : f = [i \in 0 .. n |-> IF i = 0 THEN Seed ELSE <<"mac", <<f[i - 1]>>>>]
    <3> DEFINE f == [i \in 0 .. n |-> g[i]]
               L(i) == g[i]
               K(i) == IF i = 0 THEN Seed ELSE <<"mac", <<f[i - 1]>>>>
    <3>1. \A i \in 0 .. n : f[i] = g[i]
      OBVIOUS
    <3>2. ASSUME NEW i \in 0 .. n PROVE L(i) = K(i)
      <4> HIDE DEF f
      <4>1. CASE i = 0
        BY <2>1, <4>1 DEF Chain
      <4>2. CASE i \in 1 .. n
        <5>1. f[i - 1] = g[i - 1]
          BY <1>1, <3>1, <4>2
        <5>2. i \in 1 .. n + 1 /\ i # 0
          BY <1>1, <4>2
        <5>3. g[i] = <<"mac", <<g[i - 1]>>>>
          BY <2>1, <5>2 DEF Chain
        <5>4. L(i) = <<"mac", <<f[i - 1]>>>>
          BY <5>1, <5>3
        <5>5. K(i) = <<"mac", <<f[i - 1]>>>>
          BY <5>2
        <5> QED
          BY <5>4, <5>5
      <4> QED
        BY <1>1, <4>1, <4>2
    <3>3. f = [i \in 0 .. n |-> L(i)]
      OBVIOUS
    <3> HIDE DEF f, L, K
    <3>4. f = [i \in 0 .. n |-> K(i)]
      BY <3>2, <3>3
    <3> QED
      BY <3>4 DEF K
  <2>3. a = [i \in 0 .. n |-> IF i = 0 THEN Seed ELSE <<"mac", <<a[i - 1]>>>>]
    BY <2>2, Zenon
  <2> HIDE DEF a
  <2>4. Chain(n, a)
    BY <1>1, <2>3 DEF Chain
  <2>5. \A i \in 0 .. n : a[i] = g[i]
    BY <1>1, <2>1, <2>4, OneChain
  <2>6. \A i \in 1 .. n : out[i].mac = <<"mac", <<a[i], Seed>>>>
    BY <1>1, <2>1, <2>5 DEF Piece
  <2> QED
    BY <1>1, <1>2, <1>5, <2>6 DEF IsPHash, a, n
<1> QED
  BY <1>3, <1>4, <1>5 DEF HashInv

\* The pieces are those of P_hash for every hash, every table of result sizes and
\* every length, the property the run of Prf checks (tls_hash.cpp:233-272).
THEOREM HashIsP == Spec => []IsPHash
<1>1. Init => HashInv
  <2> SUFFICES ASSUME Init
               PROVE  HashInv
    OBVIOUS
  <2>1. out = <<>> /\ out \in Seq({}) /\ Len(out) = 0
    BY DEF Init
  <2>2. Size \in Nat
    BY SizeType DEF Init
  <2>3. type \in Implemented => \E g : Chain(1, g) /\ chain = g[1]
    <3> DEFINE g == [i \in 0 .. 1 |-> IF i = 0 THEN Seed ELSE <<"mac", <<Seed>>>>]
    <3>1. g[0] = Seed /\ g[1] = <<"mac", <<Seed>>>>
      OBVIOUS
    <3> HIDE DEF g
    <3> QED
      BY <3>1 DEF Chain, Init, Mac
  <2> QED
    BY <2>1, <2>2, <2>3, LengthsAssumption DEF Init, HashInv
<1>2. HashInv /\ [Next]_vars => HashInv'
  <2> SUFFICES ASSUME HashInv, [Next]_vars
               PROVE  HashInv'
    OBVIOUS
  <2>1. Size \in Nat
    BY DEF HashInv
  <2>2. CASE UNCHANGED vars
    BY <2>2 DEF vars, HashInv, Size, SizeOf, Chain, Piece
  <2>3. PICK S : out \in Seq(S)
    BY DEF HashInv
  <2>4. ASSUME NEW size, pc = "loop", Size > 0, type' = type,
               out' = Append(out, Written(generated, <<chain, Seed>>, size)),
               pc' = "loop" => size = Size /\ chain' = Mac(type, <<chain>>),
               generated' \in Nat, resLength' \in Nat, pc' \in {"loop", "done"}
        PROVE  HashInv'
    <3> DEFINE w == Written(generated, <<chain, Seed>>, size)
    <3>1. /\ Len(out) \in Nat /\ Len(out') = Len(out) + 1
          /\ \A i \in 1 .. Len(out) : out'[i] = out[i]
          /\ out'[Len(out) + 1] = w
          /\ out' \in Seq(S \cup {w})
      BY <2>3, <2>4, AppendTo
    <3>2. w.size = size /\ (type \notin Implemented => w.mac = <<"secret", <<>>>>)
      BY DEF Written, Mac
    <3> HIDE DEF w
    <3>3. Size' = Size
      BY <2>4 DEF Size, SizeOf
    <3>4. ASSUME NEW i \in 1 .. Len(out'), pc' = "loop" \/ i < Len(out')
          PROVE  out'[i].size = ResultSize[type]
      <4>1. CASE i = Len(out) + 1
        BY <2>4, <3>1, <3>2, <3>4, <4>1 DEF Size, SizeOf
      <4>2. CASE i \in 1 .. Len(out)
        BY <2>4, <3>1, <4>2 DEF HashInv
      <4> QED
        BY <3>1, <4>1, <4>2
    <3>5. ASSUME type \notin Implemented, NEW i \in 1 .. Len(out')
          PROVE  out'[i].mac = <<"secret", <<>>>>
      <4>1. CASE i = Len(out) + 1
        BY <3>1, <3>2, <3>5, <4>1
      <4>2. CASE i \in 1 .. Len(out)
        BY <3>1, <3>5, <4>2 DEF HashInv
      <4> QED
        BY <3>1, <4>1, <4>2
    <3>6. ASSUME type \in Implemented
          PROVE  \E g : /\ Chain(Len(out') + 1, g)
                        /\ pc' = "loop" => chain' = g[Len(out') + 1]
                        /\ \A i \in 1 .. Len(out') : out'[i].mac = Piece(i, g)
      <4>1. PICK g : /\ Chain(Len(out) + 2, g)
                     /\ Mac(type, <<chain>>) = g[Len(out) + 2]
                     /\ \A i \in 1 .. Len(out) + 1 : out'[i].mac = Piece(i, g)
        BY <2>4, <3>6, PieceFits
      <4>2. Len(out') + 1 = Len(out) + 2
        BY <3>1
      <4> QED
        BY <2>4, <3>1, <4>1, <4>2
    <3>7. type' \in Hashes /\ Size' \in Nat /\ Size' # 0
      BY <2>1, <2>4, <3>3 DEF HashInv
    <3> QED
      BY <2>4, <3>1, <3>3, <3>4, <3>5, <3>6, <3>7 DEF HashInv, Chain, Piece
  <2>5. CASE FullBlock
    <3>1. CASE Size > 0
      <4>1. out' = Append(out, Written(generated, <<chain, Seed>>, Size))
        BY <2>5, <3>1 DEF FullBlock
      <4>2. /\ pc = "loop" /\ pc' = "loop" /\ type' = type /\ generated' \in Nat
            /\ resLength' \in Nat /\ chain' = Mac(type, <<chain>>)
        BY <2>1, <2>5 DEF FullBlock, HashInv
      <4> QED
        BY <2>4, <3>1, <4>1, <4>2
    <3>2. CASE Size = 0
      <4>1. /\ out' = <<>> /\ out = <<>> /\ pc' = "loop" /\ type' = type
            /\ generated' = generated /\ resLength' = resLength /\ Size' = 0
            /\ Len(out') = 0
        BY <2>5, <3>2 DEF FullBlock, HashInv, Size, SizeOf
      <4>2. out' \in Seq({})
        BY <4>1
      <4> QED
        BY <3>2, <4>1, <4>2 DEF HashInv
    <3> QED
      BY <2>1, <3>1, <3>2
  <2>6. CASE LastBlock
    <3>1. Size > 0 /\ generated \in Nat /\ resLength \in Nat
      BY <2>1, <2>6 DEF LastBlock, HashInv
    <3>2. CASE resLength = generated
      <4>1. /\ out' = out /\ pc' = "done" /\ type' = type /\ chain' = chain
            /\ generated' = generated /\ resLength' = resLength /\ Size' = Size
            /\ pc = "loop"
        BY <2>6, <3>2 DEF LastBlock, Size, SizeOf
      <4> QED
        BY <3>1, <4>1 DEF HashInv, Chain, Piece
    <3>3. CASE resLength # generated
      <4>1. out' = Append(out, Written(generated, <<chain, Seed>>, resLength - generated))
        BY <2>6, <3>3 DEF LastBlock
      <4>2. /\ pc = "loop" /\ pc' = "done" /\ type' = type /\ generated' \in Nat
            /\ resLength' \in Nat
        BY <2>6, <3>1 DEF LastBlock
      <4> QED
        BY <2>4, <3>1, <4>1, <4>2
    <3> QED
      BY <3>2, <3>3
  <2> QED
    BY <2>2, <2>5, <2>6 DEF Next
<1> QED
  BY <1>1, <1>2, ChainIsP, PTL DEF Spec
=============================================================================
