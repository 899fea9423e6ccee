-------------------------- MODULE CertParserProofs --------------------------
(***************************************************************************)
(* Proofs about module CertParser, for every set of certificates.  The value*)
(* of a length is a recursive function; what it needs of induction comes    *)
(* from the least element of a set of natural numbers.                      *)
(***************************************************************************)
EXTENDS CertParser, WellFoundedInduction, TLAPS

----------------------------------------------------------------------------
(* The value of a length in its long form.                                 *)

\* A set of natural numbers has a least element.
LEMMA Least ==
  ASSUME NEW T, T \subseteq Nat, T # {}
  PROVE  \E m \in T : \A k \in T : m <= k
<1>1. PICK m \in T : \A k \in T : <<k, m>> \notin OpToRel(<, Nat)
  BY WFMin, NatLessThanWellFounded, Zenon
<1>2. \A k \in T : ~(k < m)
  BY <1>1, Zenon DEF OpToRel
<1> QED
  BY <1>2

\* g is the recursive function of BigEndian.
Values(at, n, g) ==
  g = [k \in 0 .. n |-> IF k = 0 THEN 0 ELSE 256 * g[k - 1] + Byte(at + k - 1)]

\* The function of read_rvs_num is defined for every number of bytes.
LEMMA ValuesExist ==
  ASSUME NEW at, NEW n \in Nat
  PROVE  \E g : Values(at, n, g)
<1> DEFINE Without == {m \in Nat : ~\E g : Values(at, m, g)}
<1>1. SUFFICES ASSUME Without # {} PROVE FALSE
  OBVIOUS
<1>2. PICK m \in Without : \A k \in Without : m <= k
  BY <1>1, Least
<1>3. CASE m = 0
  <2>1. Values(at, 0, [k \in 0 .. 0 |-> 0])
    BY DEF Values
  <2> QED
    BY <1>2, <1>3, <2>1
<1>4. CASE m # 0
  <2>1. m - 1 \in Nat /\ m - 1 \notin Without
    BY <1>2, <1>4
  <2>2. PICK g : Values(at, m - 1, g)
    BY <2>1
  <2> DEFINE h == [k \in 0 .. m |-> IF k = 0 THEN 0 ELSE 256 * g[k - 1] + Byte(at + k - 1)]
  <2>3. \A k \in 0 .. m - 1 : h[k] = g[k]
    BY <2>1, <2>2 DEF Values
  <2>4. \A k \in 0 .. m : k # 0 => h[k - 1] = g[k - 1]
    <3> HIDE DEF h
    <3> SUFFICES ASSUME NEW k \in 0 .. m, k # 0 PROVE h[k - 1] = g[k - 1]
      OBVIOUS
    <3>1. k - 1 \in 0 .. m - 1
      BY <1>2
    <3> QED
      BY <2>3, <3>1
  <2>5. Values(at, m, h)
    BY <2>1, <2>4, ZenonT(40) DEF Values
  <2> QED
    BY <1>2, <2>5
<1> QED
  BY <1>3, <1>4

\* The value of bytes is a natural number (read_rvs_num, tls_cert.cpp:7-18).
LEMMA BigEndianIsNat ==
  ASSUME NEW at, NEW n \in Nat, \A i \in 1 .. n : Byte(at + i - 1) \in Nat
  PROVE  BigEndian(at, n) \in Nat
<1>1. PICK g : Values(at, n, g) /\ BigEndian(at, n) = g[n]
  <2>1. PICK h : Values(at, n, h)
    BY ValuesExist
  <2> QED
    BY <2>1, ZenonT(40) DEF Values, BigEndian
<1> DEFINE Bad == {k \in 0 .. n : g[k] \notin Nat}
<1>2. SUFFICES ASSUME Bad # {} PROVE FALSE
  BY <1>1
<1>3. PICK m \in Bad : \A k \in Bad : m <= k
  <2>1. Bad \subseteq Nat
    OBVIOUS
  <2> HIDE DEF Bad
  <2> QED
    BY <1>2, <2>1, Least
<1>4. g[0] = 0
  BY <1>1 DEF Values
<1>5. m \in 1 .. n /\ m - 1 \in 0 .. n /\ g[m - 1] \in Nat
  BY <1>3, <1>4
<1>6. g[m] = 256 * g[m - 1] + Byte(at + m - 1)
  BY <1>1, <1>5 DEF Values
<1>7. Byte(at + m - 1) \in Nat
  BY <1>5
<1> QED
  BY <1>3, <1>5, <1>6, <1>7

----------------------------------------------------------------------------
(* One fragment.                                                           *)

FragType ==
  [length : Nat, tagType : Nat, tagNumber : Nat, type : Nat, start : Int]

\* What the parser's steps keep of the types.
Typed ==
  /\ cert \in Certs
  /\ offset \in Nat
  /\ frag \in FragType
  /\ ret \in Nat

\* A remainder is a number, and a small number is its own.
LEMMA Remainder ==
  ASSUME NEW m \in Nat, m > 0, NEW x \in Nat
  PROVE  x % m \in Nat /\ (x < m => x % m = x)
<1>1. x % m \in Nat /\ x % m < m
  OBVIOUS
<1>2. x = m * (x \div m) + (x % m) /\ x \div m \in Int
  OBVIOUS
<1>3. ASSUME x < m PROVE x % m = x
  <2> DEFINE q == x \div m
             product == m * q
  <2>1. q \in Int /\ product \in Int /\ x = product + (x % m)
    BY <1>2
  <2> HIDE DEF q
  <2>2. /\ q >= 1 => product >= m
        /\ q <= -1 => product <= -m
        /\ q = 0 => product = 0
    BY <2>1
  <2> HIDE DEF product
  <2>3. ~(q >= 1) /\ ~(q <= -1)
    BY <1>1, <1>3, <2>1, <2>2
  <2> QED
    BY <1>1, <2>1, <2>2, <2>3
<1> QED
  BY <1>1, <1>3

\* The bytes of a certificate are bytes.
LEMMA ByteType ==
  ASSUME CertsAssumption, Typed, NEW at \in Nat, at < Len(cert)
  PROVE  Byte(at) \in Nat /\ Byte(at) < 256
<1>1. cert \in Seq(Octets) /\ at + 1 \in 1 .. Len(cert)
  BY DEF Typed, CertsAssumption
<1>2. Byte(at) \in Octets
  BY <1>1 DEF Byte
<1>3. \A b \in Octets : b \in Nat /\ b < 256
  BY DEF Octets
<1> QED
  BY <1>2, <1>3

\* The values of size_t are positive in number.
LEMMA SizePositive ==
  ASSUME SizeAssumption
  PROVE  SizeT \in Nat /\ SizeT > 0 /\ Failed \in Nat /\ SizeBytes + 2 < Failed /\ SizeBytes \in Nat
BY DEF SizeAssumption, Failed

\* A length that does not abort is a number, and takes some of the bytes.
LEMMA LengthFacts ==
  ASSUME CertsAssumption, SizeAssumption, Typed, Inside,
         NEW max, max = Len(cert) - offset, ~AbortsOnLength(offset, max)
  PROVE  LET len == LengthParser(offset, max)
         IN  /\ len.length \in Nat
             /\ len.ret = Failed \/ (len.ret \in Nat \ {0} /\ len.ret <= max)
             /\ max \in Nat /\ max < Failed /\ Failed \in Nat
<1>1. max \in Nat /\ max < Failed /\ Failed \in Nat
  BY DEF Typed, Inside, Failed, CertsAssumption, SizeAssumption
<1>2. CASE max = 0
  BY <1>1, <1>2 DEF LengthParser, Typed, FragType
<1>3. CASE max # 0 /\ ~LongForm(offset)
  <2>1. Byte(offset) \in Nat
    BY <1>1, <1>3, ByteType DEF Typed
  <2> QED
    BY <1>1, <1>3, <2>1 DEF LengthParser
<1>4. CASE max # 0 /\ LongForm(offset)
  <2>1. Byte(offset) \in Nat /\ Byte(offset) >= 128
    BY <1>1, <1>4, ByteType DEF Typed, LongForm
  <2>2. LengthBytes(offset) \in Nat /\ LengthBytes(offset) <= max - 1
    BY <1>1, <1>4, <2>1 DEF LengthBytes, AbortsOnLength, SizeAssumption
  <2>3. \A i \in 1 .. LengthBytes(offset) : Byte(offset + 1 + i - 1) \in Nat
    <3> SUFFICES ASSUME NEW i \in 1 .. LengthBytes(offset)
                 PROVE  Byte(offset + 1 + i - 1) \in Nat
      OBVIOUS
    <3>1. offset + 1 + i - 1 \in Nat /\ offset + 1 + i - 1 < Len(cert)
      BY <1>1, <2>2 DEF Typed, Inside
    <3> QED
      BY <3>1, ByteType
  <2>4. BigEndian(offset + 1, LengthBytes(offset)) \in Nat
    BY <2>2, <2>3, BigEndianIsNat
  <2>5. LengthParser(offset, max) =
          [ret |-> LengthBytes(offset) + 1, length |-> BigEndian(offset + 1, LengthBytes(offset))]
    BY <1>4 DEF LengthParser
  <2> QED
    BY <1>1, <2>2, <2>4, <2>5
<1> QED
  BY <1>2, <1>3, <1>4

\* A fragment that is not accepted leaves the pointer as it was.
LEMMA FragFacts ==
  ASSUME CertsAssumption, SizeAssumption, Typed, Inside,
         NEW max, max = Len(cert) - offset, ~AbortsOnLength(offset, max),
         NEW p, p = FragParser(offset, max)
  PROVE  /\ p.frag \in FragType /\ p.ret \in Nat
         /\ p.ret = Failed => p.frag.start = frag.start
<1> DEFINE len == LengthParser(offset, max)
           tagAt == offset + len.ret
           left == max - len.ret
           measured == [frag EXCEPT !.length = len.length]
           tagged == [measured EXCEPT !.tagType = TagType(tagAt), !.tagNumber = TagNumber(tagAt)]
           type == IF TagType(tagAt) = 0 THEN TagNumber(tagAt) ELSE 0
<1>1. /\ len.length \in Nat
      /\ len.ret = Failed \/ (len.ret \in Nat \ {0} /\ len.ret <= max)
      /\ max \in Nat /\ max < Failed /\ Failed \in Nat
  BY LengthFacts
<1>2. p = IF len.ret = Failed THEN [ret |-> Failed, frag |-> frag]
          ELSE IF left < 2 THEN [ret |-> Failed, frag |-> measured]
          ELSE IF TagFails(tagAt, left) \/ Longer(len.ret + 1, len.length, max)
          THEN [ret |-> Failed, frag |-> tagged]
          ELSE [ret |-> len.ret + 1, frag |-> [tagged EXCEPT !.type = type, !.start = tagAt + 1]]
  BY DEF FragParser
<1> HIDE DEF len
<1>3. measured \in FragType /\ measured.start = frag.start /\ measured.length = len.length
  BY <1>1 DEF Typed, FragType
<1> HIDE DEF measured
<1>4. CASE len.ret = Failed
  BY <1>1, <1>2, <1>4 DEF Typed
<1>5. CASE len.ret # Failed /\ left < 2
  BY <1>1, <1>2, <1>3, <1>5
<1>6. CASE len.ret # Failed /\ ~(left < 2)
  <2>1. len.ret \in Nat /\ tagAt \in Nat /\ tagAt < Len(cert) /\ left \in Nat
    BY <1>1, <1>6 DEF Typed, Inside
  <2>2. TagType(tagAt) \in Nat /\ TagNumber(tagAt) \in Nat
    BY <2>1, ByteType, SMTT(40) DEF TagType, TagNumber
  <2>3. tagged \in FragType /\ tagged.start = frag.start /\ tagged.length = len.length
    BY <1>3, <2>2 DEF FragType
  <2> HIDE DEF tagged, type
  <2>4. CASE TagFails(tagAt, left) \/ Longer(len.ret + 1, len.length, max)
    BY <1>1, <1>2, <1>6, <2>3, <2>4
  <2>5. CASE ~TagFails(tagAt, left) /\ ~Longer(len.ret + 1, len.length, max)
    <3> DEFINE f == [tagged EXCEPT !.type = type, !.start = tagAt + 1]
    <3>1. p = [ret |-> len.ret + 1, frag |-> f]
      BY <1>2, <1>6, <2>5
    <3>2. type \in Nat /\ tagAt + 1 \in Int
      BY <2>1, <2>2 DEF type
    <3>3. f \in FragType /\ f.start = tagAt + 1 /\ f.length = len.length
      BY <2>3, <3>2 DEF FragType
    <3> HIDE DEF f
    <3>4. len.ret + 1 \in Nat /\ len.ret + 1 # Failed
      BY <1>1, <1>6, <2>1
    <3> QED
      BY <3>1, <3>3, <3>4
  <2> QED
    BY <2>4, <2>5
<1> QED
  BY <1>4, <1>5, <1>6

\* The same of whatever is found, in the certificate or outside of it.
LEMMA ParsedFacts ==
  ASSUME CertsAssumption, SizeAssumption, Typed,
         Inside => ~AbortsOnLength(offset, Len(cert) - offset),
         frag.start = NoWhere, NEW p \in Parsed
  PROVE  /\ p.frag \in FragType /\ p.ret \in Nat
         /\ p.ret = Failed => p.frag.start = NoWhere
<1>1. CASE Inside
  <2>1. p = FragParser(offset, Len(cert) - offset)
    BY <1>1 DEF Parsed
  <2> QED
    BY <1>1, <2>1, FragFacts
<1>2. CASE ~Inside
  <2>1. Failed \in Nat /\ \A n \in Garbage : n \in Nat
    BY DEF SizeAssumption, Failed
  <2>2. \A f \in Fragments : f \in FragType /\ f.start = NoWhere
    BY <2>1 DEF Fragments, FragType, NoWhere
  <2>3. \A f \in Unparsed : f \in FragType /\ f.start = NoWhere
    <3> SUFFICES ASSUME NEW f \in Unparsed
                 PROVE  f \in FragType /\ f.start = NoWhere
      OBVIOUS
    <3>1. PICK g \in Fragments :
            f = [frag EXCEPT !.length = g.length, !.tagType = g.tagType,
                             !.tagNumber = g.tagNumber]
      BY DEF Unparsed
    <3> QED
      BY <2>2, <3>1 DEF Typed, FragType
  <2>4. \/ p \in Accepted
        \/ p \in [ret : {Failed}, frag : {frag} \cup Unparsed]
    BY <1>2 DEF Parsed
  <2>5. CASE p \in Accepted
    <3>1. PICK n \in 2 .. SizeBytes + 2, f \in Fragments :
            p = [ret |-> n, frag |-> [f EXCEPT !.start = Wrapped(offset + n)]]
      BY <2>5 DEF Accepted
    <3>2. n \in Nat /\ n # Failed
      BY <2>1, SizePositive
    <3>3. Wrapped(offset + n) \in Nat
      BY <3>2, Remainder, SizePositive DEF Wrapped, Typed
    <3>4. p.frag \in FragType
      BY <2>2, <3>1, <3>3 DEF FragType
    <3> QED
      BY <3>1, <3>2, <3>4
  <2>6. CASE p \in [ret : {Failed}, frag : {frag} \cup Unparsed]
    <3>1. p.ret = Failed /\ (p.frag = frag \/ p.frag \in Unparsed)
      BY <2>6
    <3> QED
      BY <2>1, <2>3, <3>1 DEF Typed
  <2> QED
    BY <2>4, <2>5, <2>6
<1> QED
  BY <1>1, <1>2

----------------------------------------------------------------------------
(* The steps of x509v3_cert_unpack.                                        *)

AllNowhere == saved \in Seq({NoWhere})

\* As long as the unpacking goes on, every fragment has failed to be parsed.
Inv ==
  /\ Typed
  /\ step # "result" => frag.start = NoWhere /\ AllNowhere /\ result = "none"
  /\ result = "unpacked" => ret = Failed /\ AllNowhere

\* What every parsing step does, whatever comes next.
ParseStep ==
  /\ Typed'
  /\ ret' = Failed => frag'.start = NoWhere
  /\ ret' # Failed => step' = "result" /\ result' = "refused"

\* Parse is such a step.
LEMMA ParseDoes ==
  ASSUME CertsAssumption, SizeAssumption, Inv, step # "result", NEW jumps \in BOOLEAN,
         Inside => ~AbortsOnLength(offset, Len(cert) - offset),
         NEW p \in Parsed, frag' = p.frag, ret' = p.ret, UNCHANGED cert,
         IF RetCheck(p.ret)
         THEN offset' = Wrapped(offset + p.ret + (IF jumps THEN p.frag.length ELSE 0))
         ELSE Return("refused") /\ UNCHANGED <<offset, saved>>
  PROVE  ParseStep
<1>1. Typed /\ frag.start = NoWhere
  BY DEF Inv
<1>2. /\ p.frag \in FragType /\ p.ret \in Nat
      /\ p.ret = Failed => p.frag.start = NoWhere
  BY <1>1, ParsedFacts
<1>3. offset' \in Nat
  <2>1. CASE RetCheck(p.ret)
    <3> DEFINE sum == offset + p.ret + (IF jumps THEN p.frag.length ELSE 0)
    <3>1. p.frag.length \in Nat
      BY <1>2 DEF FragType
    <3>2. sum \in Nat
      BY <1>1, <1>2, <3>1 DEF Typed
    <3>3. offset' = Wrapped(sum)
      BY <2>1
    <3> HIDE DEF sum
    <3> QED
      BY <3>2, <3>3, Remainder, SizePositive DEF Wrapped
  <2> QED
    BY <1>1, <2>1 DEF Typed
<1>4. Typed'
  BY <1>1, <1>2, <1>3 DEF Typed
<1>5. ret' # Failed => step' = "result" /\ result' = "refused"
  BY DEF RetCheck, Return
<1> QED
  BY <1>2, <1>4, <1>5 DEF ParseStep

\* Saving a fragment that points nowhere keeps what was saved.
LEMMA SaveKeeps ==
  ASSUME AllNowhere, frag'.start = NoWhere, saved' = Append(saved, frag'.start)
  PROVE  AllNowhere'
BY DEF AllNowhere, NoWhere

\* A parsing step after which the unpacking goes on as a step of the code does.
LEMMA ParsingKeeps ==
  ASSUME Inv, step # "result", ParseStep,
         ret' = Failed =>
           /\ UNCHANGED saved \/ saved' = Append(saved, frag'.start)
           /\ step' # "result" => result' = result
  PROVE  Inv'
<1>1. CASE ret' # Failed
  BY <1>1 DEF ParseStep, Inv
<1>2. CASE ret' = Failed
  <2>1. frag'.start = NoWhere /\ AllNowhere /\ result = "none"
    BY <1>2 DEF ParseStep, Inv
  <2>2. AllNowhere'
    BY <1>2, <2>1, SaveKeeps DEF AllNowhere
  <2> QED
    BY <1>2, <2>1, <2>2 DEF ParseStep, Inv
<1> QED
  BY <1>1, <1>2

\* The invariant holds at first.
LEMMA Begins ==
  ASSUME SizeAssumption
  PROVE  Init => Inv
<1> SUFFICES ASSUME Init PROVE Inv
  OBVIOUS
<1>1. frag \in FragType /\ frag.start = NoWhere
  <2>1. \A n \in Garbage : n \in Nat
    BY DEF SizeAssumption, Failed
  <2> QED
    BY <2>1 DEF Init, Fragments, FragType, NoWhere
<1>2. AllNowhere
  BY DEF Init, AllNowhere
<1> QED
  BY <1>1, <1>2 DEF Init, Inv, Typed

\* Every step of the unpacking keeps the invariant.
LEMMA Continues ==
  ASSUME CertsAssumption, SizeAssumption
  PROVE  Inv /\ [Next]_vars => Inv'
<1> SUFFICES ASSUME Inv, [Next]_vars PROVE Inv'
  OBVIOUS
<1>1. CASE Abort
  <2>1. /\ Typed' /\ frag' = frag /\ ret' = ret /\ saved' = saved
        /\ step' = "result" /\ result' = "aborted" /\ cert' = cert
    BY <1>1 DEF Abort, Return, Inv, Typed
  <2> QED
    BY <2>1 DEF Inv
<1>2. CASE Enter
  <2>1. step # "result" /\ ParseStep
    BY <1>2, ParseDoes DEF Enter, Parse
  <2>2. ret' = Failed => UNCHANGED saved /\ UNCHANGED result
    BY <1>2 DEF Enter, Parse, RetCheck, Go
  <2> QED
    BY <2>1, <2>2, ParsingKeeps
<1>3. CASE Version
  <2>1. step # "result" /\ ParseStep
    BY <1>3, ParseDoes DEF Version, Parse
  <2>2. ret' = Failed => UNCHANGED saved /\ (step' # "result" => result' = result)
    BY <1>3 DEF Version, Parse, RetCheck, Go, Return
  <2> QED
    BY <2>1, <2>2, ParsingKeeps
<1>4. CASE Serial
  <2>1. step # "result" /\ ParseStep
    BY <1>4, ParseDoes DEF Serial, Parse
  <2>2. ret' = Failed => UNCHANGED saved /\ UNCHANGED result
    BY <1>4 DEF Serial, Parse, RetCheck, Go
  <2> QED
    BY <2>1, <2>2, ParsingKeeps
<1>5. CASE Fields
  <2>1. step # "result" /\ ParseStep
    BY <1>5, ParseDoes DEF Fields, Parse
  <2>2. ret' = Failed => saved' = Append(saved, frag'.start) /\ UNCHANGED result
    BY <1>5 DEF Fields, Parse, RetCheck, Save
  <2> QED
    BY <2>1, <2>2, ParsingKeeps
<1>6. CASE Extensions
  <2>1. step # "result" /\ ParseStep
    BY <1>6, ParseDoes DEF Extensions, Parse
  <2>2. ret' = Failed =>
          (UNCHANGED saved \/ saved' = Append(saved, frag'.start)) /\ UNCHANGED result
    BY <1>6 DEF Extensions, Parse, RetCheck, Save, Go
  <2> QED
    BY <2>1, <2>2, ParsingKeeps
<1>7. CASE Algorithm
  <2>1. step # "result" /\ ParseStep
    BY <1>7, ParseDoes DEF Algorithm, Parse
  <2>2. ret' = Failed => UNCHANGED saved /\ UNCHANGED result
    BY <1>7 DEF Algorithm, Parse, RetCheck, Go
  <2> QED
    BY <2>1, <2>2, ParsingKeeps
<1>8. CASE Compare
  <2>1. /\ Typed' /\ frag' = frag /\ ret' = ret /\ saved' = saved /\ cert' = cert
        /\ step # "result" /\ (result' = result \/ (step' = "result" /\ result' = "refused"))
    BY <1>8 DEF Compare, Go, Return, Inv, Typed
  <2>2. AllNowhere' = AllNowhere
    BY <2>1 DEF AllNowhere
  <2> QED
    BY <2>1, <2>2 DEF Inv
<1>9. CASE Signature
  <2>1. step # "result" /\ ParseStep
    BY <1>9, ParseDoes DEF Signature, Parse
  <2>2. ret' = Failed => saved' = Append(saved, frag'.start) /\ step' = "result"
    BY <1>9 DEF Signature, Parse, RetCheck, Return
  <2> QED
    BY <2>1, <2>2, ParsingKeeps
<1>10. CASE UNCHANGED vars
  BY <1>10 DEF vars, Inv, Typed, AllNowhere
<1> QED
  BY <1>1, <1>2, <1>3, <1>4, <1>5, <1>6, <1>7, <1>8, <1>9, <1>10 DEF Next

\* No certificate is ever unpacked: where the code returns 0, neither the fragment it
\* copies last nor any that it has saved was parsed (tls_cert.cpp:93, 142-144).
THEOREM NothingUnpacked ==
  ASSUME CertsAssumption, SizeAssumption
  PROVE  Spec => [](result = "unpacked" => ret = Failed /\ saved \in Seq({NoWhere}))
<1>1. Init => Inv
  BY Begins
<1>2. Inv /\ [Next]_vars => Inv'
  BY Continues
<1>3. Inv => (result = "unpacked" => ret = Failed /\ saved \in Seq({NoWhere}))
  BY DEF Inv, AllNowhere
<1> QED
  BY <1>1, <1>2, <1>3, PTL DEF Spec
=============================================================================
