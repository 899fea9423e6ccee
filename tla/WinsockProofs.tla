---------------------------- MODULE WinsockProofs ----------------------------
(* Theorems about the life of sockets, for every set of handles, every width  *)
(* of the counter and any number of opens, with the caller that keeps what a  *)
(* refused connect makes open return: what the counter counts, and when a     *)
(* socket goes down under its caller.                                         *)
EXTENDS Winsock, FiniteSetTheorems, TLAPS

\* What is kept can be counted, was opened by calls that have been made, and
\* each call has made at most one result to keep or to close.
LifeInv ==
  /\ TypeOK
  /\ CountsAgree
  /\ IsFiniteSet(kept)
  /\ Cardinality(kept) + strays <= opens

\* What the invariant says of the numbers.
LEMMA Numbers ==
  ASSUME LifeInv
  PROVE  /\ SizeValues \in Nat \ {0} /\ MaxOpens \in Nat
         /\ opens \in Nat /\ strays \in Nat /\ startups \in Nat /\ sockets_count \in Nat
         /\ opens <= MaxOpens /\ startups <= opens /\ sockets_count < SizeValues
         /\ Cardinality(kept) \in Nat
         /\ IsFiniteSet(Held) /\ Cardinality(Held) \in Nat
<1>1. SizeValues \in Nat \ {0} /\ MaxOpens \in Nat
  BY BoundsAssumption
<1>2. opens \in Nat /\ opens <= MaxOpens
  BY <1>1 DEF LifeInv, TypeOK
<1>3. strays \in Nat /\ startups \in Nat /\ startups <= opens
  BY <1>2 DEF LifeInv, TypeOK
<1>4. sockets_count \in Nat /\ sockets_count < SizeValues
  BY <1>1 DEF LifeInv, TypeOK
<1>5. IsFiniteSet(kept) /\ IsFiniteSet(Held)
  BY FS_Subset DEF LifeInv, Held
<1> QED
  BY <1>1, <1>2, <1>3, <1>4, <1>5, FS_CardinalityType

\* A remainder is what is left of a multiple, and there is one.
LEMMA RemainderIs ==
  ASSUME NEW w \in Nat \ {0}, NEW n \in Int, NEW q \in Int, NEW r \in Nat, n = q * w + r, r < w
  PROVE  n % w = r
OBVIOUS

LEMMA RemainderExists ==
  ASSUME NEW w \in Nat \ {0}, NEW n \in Int
  PROVE  /\ n \div w \in Int /\ n % w \in 0 .. w - 1
         /\ n = (n \div w) * w + (n % w)
OBVIOUS

\* A number reduced to the counter's width, and counting on from there.
LEMMA Reduced ==
  ASSUME NEW w \in Nat \ {0}, NEW n \in Int, NEW c, c = n % w
  PROVE  /\ c \in 0 .. w - 1
         /\ (c + 1) % w = (n + 1) % w /\ (n + 1) % w \in 0 .. w - 1
         /\ (c - 1) % w = (n - 1) % w /\ (n - 1) % w \in 0 .. w - 1
<1>1. PICK q \in Int : n = q * w + c /\ c \in 0 .. w - 1
  BY RemainderExists
<1>2. ASSUME NEW d \in Int
      PROVE  (c + d) % w = (n + d) % w /\ (n + d) % w \in 0 .. w - 1
  <2>1. c + d \in Int /\ n + d \in Int
    BY <1>1
  <2>2. PICK p \in Int, r \in 0 .. w - 1 : c + d = p * w + r
    BY <2>1, RemainderExists
  <2>3. n + d = (q + p) * w + r
    BY <1>1, <2>2
  <2>4. r \in Nat /\ r < w /\ q + p \in Int
    BY <1>1, <2>2
  <2>5. (c + d) % w = r
    BY <2>1, <2>2, <2>4, RemainderIs
  <2>6. (n + d) % w = r
    BY <2>1, <2>3, <2>4, RemainderIs
  <2> QED
    BY <2>2, <2>5, <2>6
<1>3. (c + 1) % w = (n + 1) % w /\ (n + 1) % w \in 0 .. w - 1
  <2>1. PICK d \in Int : d = 1
    OBVIOUS
  <2>2. c + d = c + 1 /\ n + d = n + 1
    BY <1>1, <2>1
  <2> QED
    BY <1>2, <2>2
<1>4. (c - 1) % w = (n - 1) % w /\ (n - 1) % w \in 0 .. w - 1
  <2>1. PICK d \in Int : d = -1
    OBVIOUS
  <2>2. c + d = c - 1 /\ n + d = n - 1
    BY <1>1, <2>1
  <2> QED
    BY <1>2, <2>2
<1> QED
  BY <1>1, <1>3, <1>4

\* One up and one down stay within the counter's width.
LEMMA InWidth ==
  ASSUME NEW w \in Nat \ {0}, NEW c \in Nat
  PROVE  (c + 1) % w \in 0 .. w - 1 /\ (c - 1) % w \in 0 .. w - 1
<1>1. PICK u \in Int, d \in Int : u = c + 1 /\ d = c - 1
  OBVIOUS
<1>2. u % w \in 0 .. w - 1 /\ d % w \in 0 .. w - 1
  BY RemainderExists
<1> QED
  BY <1>1, <1>2

\* What an open leaves, with its result kept: one more that is held, if it is
\* a socket.
LEMMA Keeps ==
  ASSUME LifeInv, Opening, NEW r \in Sockets \cup {NoSocket}, Keep(r)
  PROVE  /\ IsFiniteSet(kept') /\ Cardinality(kept') = Cardinality(kept) + 1
         /\ kept' \subseteq [call : 1 .. opens', handle : Sockets \cup {NoSocket}]
         /\ Cardinality(Held') = Cardinality(Held) + (IF r = NoSocket THEN 0 ELSE 1)
<1> DEFINE k == [call |-> opens', handle |-> r]
<1>1. opens' = opens + 1 /\ opens \in Nat
  BY Numbers DEF Opening
<1>2. ~(r < 0)
  BY HandlesAssumption DEF NoSocket
<1>3. kept' = kept \cup {k}
  BY <1>2 DEF Keep
<1>4. kept \subseteq [call : 1 .. opens, handle : Sockets \cup {NoSocket}]
  BY DEF LifeInv, TypeOK
<1>5. k \notin kept
  <2>1. opens' \notin 1 .. opens
    BY <1>1
  <2> QED
    BY <1>4, <2>1
<1>6. IsFiniteSet(kept') /\ Cardinality(kept') = Cardinality(kept) + 1
  BY <1>3, <1>5, FS_AddElement DEF LifeInv
<1>7. kept' \subseteq [call : 1 .. opens', handle : Sockets \cup {NoSocket}]
  BY <1>1, <1>3, <1>4
<1>8. Cardinality(Held') = Cardinality(Held) + (IF r = NoSocket THEN 0 ELSE 1)
  <2>1. CASE r = NoSocket
    <3>1. Held' = Held
      BY <1>3, <2>1 DEF Held
    <3>2. Cardinality(Held) \in Nat
      BY Numbers
    <3> QED
      BY <2>1, <3>1, <3>2
  <2>2. CASE r # NoSocket
    <3>1. Held' = Held \cup {k} /\ k \notin Held
      BY <1>3, <1>5, <2>2 DEF Held
    <3>2. IsFiniteSet(Held)
      BY Numbers
    <3> QED
      BY <2>2, <3>1, <3>2, FS_AddElement
  <2> QED
    BY <2>1, <2>2
<1> QED
  BY <1>6, <1>7, <1>8

\* A failed open changes nothing, except that a refused one is kept.
LEMMA FailedOpenKeeps ==
  ASSUME LifeInv, OpenFails \/ OpenRefused
  PROVE  LifeInv'
<1>1. /\ opens' = opens + 1 /\ opens < MaxOpens /\ strays' = strays /\ live' = live
      /\ sockets_count' = sockets_count /\ startups' = startups
  BY DEF OpenFails, OpenRefused, Opening
<1>2. CASE OpenFails
  <2>1. kept' = kept
    BY <1>2 DEF OpenFails, Keep, INVALID_SOCKET
  <2>2. kept \subseteq [call : 1 .. opens', handle : Sockets \cup {NoSocket}]
    BY <1>1, Numbers DEF LifeInv, TypeOK
  <2> QED
    BY <1>1, <2>1, <2>2, Numbers DEF LifeInv, TypeOK, CountsAgree, Held
<1>3. CASE OpenRefused
  <2>1. /\ IsFiniteSet(kept') /\ Cardinality(kept') = Cardinality(kept) + 1
        /\ kept' \subseteq [call : 1 .. opens', handle : Sockets \cup {NoSocket}]
        /\ Cardinality(Held') = Cardinality(Held)
    BY <1>3, Keeps, Numbers DEF OpenRefused
  <2> QED
    BY <1>1, <2>1, Numbers DEF LifeInv, TypeOK, CountsAgree
<1> QED
  BY <1>2, <1>3

\* A connection is counted once, by the code and by the library.
LEMMA OpenKeeps ==
  ASSUME LifeInv, NEW s \in Sockets, OpenConnects(s)
  PROVE  LifeInv'
<1>1. /\ opens' = opens + 1 /\ opens < MaxOpens /\ strays' = strays
      /\ live' = live \cup {s} /\ startups' = startups + 1
      /\ sockets_count' = (sockets_count + 1) % SizeValues
  BY DEF OpenConnects, Opening
<1>2. /\ IsFiniteSet(kept') /\ Cardinality(kept') = Cardinality(kept) + 1
      /\ kept' \subseteq [call : 1 .. opens', handle : Sockets \cup {NoSocket}]
      /\ Cardinality(Held') = Cardinality(Held) + 1
  BY Keeps, HandlesAssumption DEF OpenConnects
<1>3. CountsAgree'
  <2>1. sockets_count = (Cardinality(Held) - strays) % SizeValues
    BY DEF LifeInv, CountsAgree
  <2>2. Cardinality(Held) - strays \in Int
    BY Numbers
  <2>4. sockets_count' = ((Cardinality(Held) - strays) + 1) % SizeValues
    BY <1>1, <2>1, <2>2, Numbers, Reduced
  <2>3. (Cardinality(Held) - strays) + 1 = Cardinality(Held') - strays'
    BY <1>1, <1>2, Numbers
  <2> QED
    BY <2>4, <2>3 DEF CountsAgree
<1>4. TypeOK'
  <2>1. sockets_count' \in 0 .. SizeValues - 1
    BY <1>1, Numbers, InWidth
  <2> QED
    BY <1>1, <1>2, <2>1, Numbers DEF LifeInv, TypeOK
<1> QED
  BY <1>1, <1>2, <1>3, <1>4, Numbers DEF LifeInv

\* A close is counted once, whatever is closed.
LEMMA CloseKeeps ==
  ASSUME LifeInv, NEW k \in kept, Close(k)
  PROVE  LifeInv'
<1>1. /\ opens' = opens /\ kept' = kept \ {k}
      /\ sockets_count' = (sockets_count - 1) % SizeValues
      /\ strays' = IF k.handle = NoSocket THEN strays + 1 ELSE strays
  BY DEF Close
<1>2. IsFiniteSet(kept') /\ Cardinality(kept') = Cardinality(kept) - 1
  BY <1>1, FS_RemoveElement DEF LifeInv
<1>3. Cardinality(Held') - strays' = (Cardinality(Held) - strays) - 1
  <2>1. CASE k.handle = NoSocket
    <3>1. Held' = Held
      BY <1>1, <2>1 DEF Held
    <3> QED
      BY <1>1, <2>1, <3>1, Numbers
  <2>2. CASE k.handle # NoSocket
    <3>1. Held' = Held \ {k} /\ k \in Held
      BY <1>1, <2>2 DEF Held
    <3>2. Cardinality(Held') = Cardinality(Held) - 1
      BY <3>1, Numbers, FS_RemoveElement
    <3> QED
      BY <1>1, <2>2, <3>2, Numbers
  <2> QED
    BY <2>1, <2>2
<1>4. CountsAgree'
  <2>1. Cardinality(Held) - strays \in Int
    BY Numbers
  <2>2. sockets_count = (Cardinality(Held) - strays) % SizeValues
    BY DEF LifeInv, CountsAgree
  <2>3. sockets_count' = ((Cardinality(Held) - strays) - 1) % SizeValues
    BY <1>1, <2>1, <2>2, Numbers, Reduced
  <2> QED
    BY <1>3, <2>3 DEF CountsAgree
<1>5. strays' \in Nat /\ Cardinality(kept') + strays' <= opens'
  BY <1>1, <1>2, Numbers DEF LifeInv
<1>6. TypeOK'
  <2>1. sockets_count' \in 0 .. SizeValues - 1
    BY <1>1, Numbers, InWidth
  <2>2. live' \subseteq Sockets /\ startups' \in 0 .. opens'
    <3>1. live \subseteq Sockets
      BY DEF LifeInv, TypeOK
    <3>2. CASE sockets_count' = 0
      BY <1>1, <3>1, <3>2, Numbers DEF Close, Cleanup
    <3>3. CASE sockets_count' # 0
      BY <1>1, <3>1, <3>3, Numbers DEF Close
    <3> QED
      BY <3>2, <3>3
  <2>3. kept' \subseteq [call : 1 .. opens', handle : Sockets \cup {NoSocket}]
    BY <1>1 DEF LifeInv, TypeOK
  <2>4. strays' \in 0 .. opens'
    <3>1. Cardinality(kept') \in Nat
      BY <1>2, FS_CardinalityType
    <3> QED
      BY <1>1, <1>5, <3>1, Numbers
  <2> QED
    BY <1>1, <2>1, <2>2, <2>3, <2>4, Numbers DEF LifeInv, TypeOK
<1> QED
  BY <1>2, <1>4, <1>5, <1>6 DEF LifeInv

\* The invariant holds in every state.
LEMMA LifeHolds == Spec => []LifeInv
<1>1. Init => LifeInv
  <2> SUFFICES ASSUME Init
               PROVE  LifeInv
    OBVIOUS
  <2>1. Held = {} /\ kept = {} /\ IsFiniteSet({}) /\ Cardinality({}) = 0
    BY FS_EmptySet DEF Init, Held
  <2>2. 0 % SizeValues = 0 /\ 0 \in 0 .. SizeValues - 1 /\ MaxOpens \in Nat
    BY BoundsAssumption
  <2> QED
    BY <2>1, <2>2 DEF Init, LifeInv, TypeOK, CountsAgree
<1>2. LifeInv /\ [Next]_vars => LifeInv'
  <2> SUFFICES ASSUME LifeInv, [Next]_vars
               PROVE  LifeInv'
    OBVIOUS
  <2>1. CASE OpenFails \/ OpenRefused
    BY <2>1, FailedOpenKeeps
  <2>2. ASSUME NEW s \in Sockets, OpenConnects(s)
        PROVE  LifeInv'
    BY <2>2, OpenKeeps
  <2>3. ASSUME NEW k \in kept, Close(k)
        PROVE  LifeInv'
    BY <2>3, CloseKeeps
  <2>4. CASE UNCHANGED vars
    BY <2>4 DEF vars, LifeInv, TypeOK, CountsAgree, Held
  <2> QED
    BY <2>1, <2>2, <2>3, <2>4 DEF Next
<1> QED
  BY <1>1, <1>2, PTL DEF Spec

\* The types of the socket table and its counters (win32_sockets.cpp:16).
THEOREM TypeCorrect == Spec => []TypeOK
<1>1. LifeInv => TypeOK
  BY DEF LifeInv
<1> QED
  BY <1>1, LifeHolds, PTL

\* sockets_count is the number of sockets held less the closes of what was
\* never counted, modulo its width, for any handles and any opens and closes,
\* also where it has wrapped (win32_sockets.cpp:16-47, 90-98).
THEOREM CounterIs == Spec => []CountsAgree
<1>1. LifeInv => CountsAgree
  BY DEF LifeInv
<1> QED
  BY <1>1, LifeHolds, PTL

\* What one step does to a socket that the caller keeps.
StaysUp ==
  \A k \in kept \cap kept' : k.handle \in live \ live' =>
    \/ (Cardinality(Held) - strays)' % SizeValues = 0
    \/ \E j \in kept \ kept' : j.handle = k.handle

\* A socket goes down under its caller only when a close finds as many closes
\* of refused connects as sockets held, or closes another that had its handle
\* (win32_sockets.cpp:90-98).
THEOREM GoesDownAtBalance == Spec => KeptSocketsAreUp
<1>1. LifeInv /\ LifeInv' /\ [Next]_vars => [StaysUp]_vars
  <2> SUFFICES ASSUME LifeInv', Next, NEW k \in kept \cap kept', k.handle \in live \ live'
               PROVE  \/ (Cardinality(Held) - strays)' % SizeValues = 0
                      \/ \E j \in kept \ kept' : j.handle = k.handle
    BY DEF StaysUp
  <2>1. PICK c \in kept : Close(c)
    BY DEF Next, OpenFails, OpenRefused, OpenConnects
  <2>2. CASE sockets_count' = 0
    BY <2>2 DEF LifeInv, CountsAgree
  <2>3. CASE sockets_count' # 0
    <3>1. live' = live \ {c.handle} /\ kept' = kept \ {c}
      BY <2>1, <2>3 DEF Close
    <3>2. c \in kept \ kept' /\ c.handle = k.handle
      BY <3>1
    <3> QED
      BY <3>2
  <2> QED
    BY <2>2, <2>3
<1> QED
  BY <1>1, LifeHolds, PTL DEF Spec, KeptSocketsAreUp, StaysUp
=============================================================================
