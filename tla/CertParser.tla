----------------------------- MODULE CertParser -----------------------------
(***************************************************************************)
(* The ASN.1 parser of algorithm/tls_cert.cpp and x509v3_cert_unpack, one   *)
(* fragment at a time.  A certificate is a sequence of bytes; an offset, as *)
(* in the code, counts from 0.  The parser's format has the length in front *)
(* of the tag.                                                              *)
(***************************************************************************)
EXTENDS Integers, Sequences

CONSTANTS
  SizeBytes,      \* sizeof(size_t) and sizeof(uint64_t), 8
  Certs,          \* the inputs
  Garbage,        \* values of a length that was never written
  Reach           \* bound: how far from the certificate the loop over the
                  \* extensions is followed

SizeT == 256^SizeBytes
Failed == SizeT - 1                       \* (size_t)-1

Octets == 0 .. 255

\* What the theorems assume of the constants.
CertsAssumption == \A c \in Certs : c \in Seq(Octets) /\ Len(c) < Failed
SizeAssumption ==
  /\ SizeBytes \in Nat \ {0} /\ SizeT \in Nat /\ SizeBytes + 2 < Failed
  /\ Garbage \subseteq 0 .. Failed /\ Reach \in Nat

VARIABLES
  cert,
  offset,
  frag,           \* t_frag; start is the offset its p_frag_data points to
  ret,            \* what ASN_frag_parser last returned
  saved,          \* where the fragments copied to unpack start
  step,           \* which fragment is next, or "result"
  result          \* "unpacked" (0), "refused" (-1), or "aborted"

vars == <<cert, offset, frag, ret, saved, step, result>>

Wrapped(n) == n % SizeT
NoWhere == -1
InCert(at) == at \in 0 .. Len(cert) - 1
Byte(at) == cert[at + 1]

\* read_rvs_num: the big-endian value of n bytes.
BigEndian(at, n) ==
  LET value[k \in 0 .. n] == IF k = 0 THEN 0 ELSE 256 * value[k - 1] + Byte(at + k - 1)
  IN  value[n]

----------------------------------------------------------------------------
(* The parsers of a fragment at an offset inside the certificate.  max is  *)
(* the number of bytes from there on.                                      *)

LongForm(at) == Byte(at) >= 128
LengthBytes(at) == Byte(at) - 128

\* ASN_length_parser.
AbortsOnLength(at, max) ==
  max > 0 /\ LongForm(at) /\ (LengthBytes(at) > SizeBytes \/ LengthBytes(at) > max - 1)

LengthParser(at, max) ==
  IF max = 0 THEN [ret |-> Failed, length |-> frag.length]
  ELSE IF LongForm(at) THEN [ret |-> LengthBytes(at) + 1, length |-> BigEndian(at + 1, LengthBytes(at))]
  ELSE [ret |-> 1, length |-> Byte(at)]

\* ASN_tag_parser: its result, and the tag.
TagFails(at, max) == max < 2 \/ (Byte(at) >= 64 /\ Byte(at) % 32 = 31)
TagType(at) == Byte(at) \div 64
TagNumber(at) == Byte(at) % 32

\* The comparison in size_t of a fragment's end with the end of the input.
Longer(start, length, max) == start > max \/ Wrapped(start + length) > max

\* ASN_frag_parser: its result and what it has written to the fragment.
FragParser(at, max) ==
  LET len == LengthParser(at, max)
      tagAt == at + len.ret
      left == max - len.ret
      measured == [frag EXCEPT !.length = len.length]
      tagged == [measured EXCEPT !.tagType = TagType(tagAt), !.tagNumber = TagNumber(tagAt)]
      type == IF TagType(tagAt) = 0 THEN TagNumber(tagAt) ELSE 0
  IN  IF len.ret = Failed THEN [ret |-> Failed, frag |-> frag]
      ELSE IF left < 2 THEN [ret |-> Failed, frag |-> measured]
      ELSE IF TagFails(tagAt, left) \/ Longer(len.ret + 1, len.length, max)
      THEN [ret |-> Failed, frag |-> tagged]
      ELSE [ret |-> len.ret + 1, frag |-> [tagged EXCEPT !.type = type, !.start = tagAt + 1]]

\* What t_frag may hold before it is written.
Fragments ==
  [length : Garbage, tagType : {0, 2}, tagNumber : {3}, type : {0, 2}, start : {NoWhere}]
    \cup [length : Garbage, tagType : {2}, tagNumber : {0}, type : {0}, start : {NoWhere}]

\* In front of the certificate and beyond it lies any memory: there a fragment may be
\* accepted, whose pointer is then the offset behind its length and tag, or not, or
\* the program ends.
Accepted ==
  LET max == Wrapped(Len(cert) - offset)
      found == {q \in (2 .. SizeBytes + 2) \X Fragments : ~Longer(q[1], q[2].length, max)}
  IN  {[ret |-> q[1], frag |-> [q[2] EXCEPT !.start = Wrapped(offset + q[1])]] : q \in found}
Unparsed ==
  {[frag EXCEPT !.length = f.length, !.tagType = f.tagType, !.tagNumber = f.tagNumber] :
     f \in Fragments}

Inside == offset <= Len(cert)
Parsed ==
  IF Inside THEN {FragParser(offset, Len(cert) - offset)}
  ELSE Accepted \cup [ret : {Failed}, frag : {frag} \cup Unparsed]

\* A pointer that was never written is followed.
WildRead ==
  /\ frag.start = NoWhere
  /\ (step = "version" /\ frag.type = 2) \/ (step = "compare" /\ frag.length > 0)

----------------------------------------------------------------------------
(* x509v3_cert_unpack.                                                     *)

Init ==
  /\ cert \in Certs
  /\ offset = 0
  /\ frag \in Fragments                    \* t_frag is not initialised
  /\ ret = 0
  /\ saved = <<>>
  /\ step = "enter1"
  /\ result = "none"

\* RET_CHECK returns unless the fragment could not be parsed.
RetCheck(r) == r = Failed

Return(r) == step' = "result" /\ result' = r

Abort ==
  /\ \/ step \notin {"compare", "result"}
        /\ Inside => AbortsOnLength(offset, Len(cert) - offset)
     \/ WildRead
  /\ Return("aborted")
  /\ UNCHANGED <<cert, offset, frag, ret, saved>>

\* A fragment is parsed at the offset, which moves behind its tag, and behind
\* its contents too if they are jumped over.
Parse(jumps, next) ==
  /\ Inside => ~AbortsOnLength(offset, Len(cert) - offset)
  /\ \E p \in Parsed :
       /\ frag' = p.frag
       /\ ret' = p.ret
       /\ IF RetCheck(p.ret)
          THEN /\ offset' = Wrapped(offset + p.ret + (IF jumps THEN p.frag.length ELSE 0))
               /\ next
          ELSE Return("refused") /\ UNCHANGED <<offset, saved>>
  /\ UNCHANGED cert

Go(to) == step' = to /\ UNCHANGED <<result, saved>>
Save(to) == step' = to /\ saved' = Append(saved, frag'.start) /\ UNCHANGED result

\* The three outer headers are entered.
Enter ==
  \/ step = "enter1" /\ Parse(FALSE, Go("enter2"))
  \/ step = "enter2" /\ Parse(FALSE, Go("enter3"))
  \/ step = "enter3" /\ Parse(FALSE, Go("version"))

\* The first byte of a fragment: anything, if the pointer points nowhere.
FirstByteIs(b) == IF InCert(frag'.start) THEN {Byte(frag'.start) = b} ELSE BOOLEAN

Version ==
  /\ step = "version"
  /\ Parse(TRUE, \E v3 \in FirstByteIs(2) :
                   IF frag'.type = 2 /\ v3 THEN Go("serial") ELSE Return("refused") /\ UNCHANGED saved)

Serial == step = "serial" /\ Parse(TRUE, Go("fields"))

\* tbs_sign_alg, issuer, valid, subject, pub_key_info.
Fields ==
  /\ step = "fields"
  /\ Parse(TRUE, Save(IF Len(saved) = 4 THEN "extensions" ELSE "fields"))

\* Up to the extensions, or the first fragment with a universal tag.
Extensions ==
  /\ step = "extensions"
  /\ offset <= Len(cert) + Reach \/ offset >= SizeT - Reach
  /\ Parse(TRUE, IF frag'.tagType = 2 /\ frag'.tagNumber = 3 THEN Save("algorithm")
                 ELSE Go(IF frag'.tagType = 0 THEN "compare" ELSE "extensions"))

Algorithm == step = "algorithm" /\ Parse(TRUE, Go("compare"))

\* The two names of the algorithm, byte by byte; read where the pointers point.
SameBytes ==
  LET one == frag.start  other == saved[1]
      inside(at) == at # NoWhere /\ at + frag.length <= Len(cert)
  IN  IF frag.length = 0 THEN {TRUE}
      ELSE IF inside(one) /\ inside(other)
      THEN {\A i \in 0 .. frag.length - 1 : Byte(one + i) = Byte(other + i)}
      ELSE BOOLEAN

Compare ==
  /\ step = "compare"
  /\ \E same \in SameBytes : IF same THEN Go("signature") ELSE Return("refused") /\ UNCHANGED saved
  /\ UNCHANGED <<cert, offset, frag, ret>>

Signature ==
  /\ step = "signature"
  /\ Parse(FALSE, Return("unpacked") /\ saved' = Append(saved, frag'.start))

Next ==
  \/ Abort \/ Enter \/ Version \/ Serial \/ Fields
  \/ Extensions \/ Algorithm \/ Compare \/ Signature

Spec == Init /\ [][Next]_vars
----------------------------------------------------------------------------
\* Where x509v3_cert_unpack returns 0 it has saved a signature value
\* (tls_cert.cpp:142-144): the fragment it copies last was parsed.
SignatureSaved == result = "unpacked" => ret # Failed
=============================================================================
