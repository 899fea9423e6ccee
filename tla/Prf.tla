-------------------------------- MODULE Prf --------------------------------
(***************************************************************************)
(* tls_prf of algorithm/tls_hash.cpp, one turn of its loop at a time.  An   *)
(* array is the list of the pieces that lie in it end to end: the seed (the *)
(* label in front of it) or a MAC.  The MAC of a message is an ideal        *)
(* function of it, except where the hash is hash_null_func: there it is a   *)
(* block made of the secret alone (see HmacIsRfc2104 of MCPrimitives).      *)
(***************************************************************************)
EXTENDS Integers, Sequences

CONSTANTS
  Hashes,         \* HashAlgorithm
  ResultSize,     \* HashResultSizeTable
  Implemented,    \* the hashes HashFnucTable has a function for
  Lengths         \* values of res_length

ASSUME TableAssumption == ResultSize \in [Hashes -> 0 .. 128]
ASSUME ImplementedAssumption == Implemented \subseteq Hashes
ASSUME LengthsAssumption == Lengths \subseteq Nat

VARIABLES
  type,
  resLength,
  chain,          \* the first result_size bytes of prf_buff
  generated,      \* generator_bytes
  out,            \* p_res: the MACs written, each with its offset and size
  pc

vars == <<type, resLength, chain, generated, out, pc>>

Seed == <<"seed", <<>>>>
\* tls_hmac, with the secret, of an array.  The results of no bytes are equal.
Mac(t, message) ==
  IF t \in Implemented THEN <<"mac", message>> ELSE <<"secret", <<>>>>

ResultSizeOfImplemented(t) == IF t \in Implemented THEN ResultSize[t] ELSE 0

SizeOf(t) == ResultSize[t]

Size == SizeOf(type)

Init ==
  /\ type \in Hashes
  /\ resLength \in Lengths
  /\ chain = Mac(type, <<Seed>>)
  /\ generated = 0
  /\ out = <<>>
  /\ pc = "loop"

Written(at, message, size) == [at |-> at, mac |-> Mac(type, message), size |-> size]

\* A turn: a result, and the next link of the chain.  A piece of no bytes
\* leaves p_res as it is.
FullBlockFromNext ==
  /\ pc = "loop"
  /\ generated + Size <= resLength
  /\ chain' = Mac(type, <<chain>>)
  /\ out' = IF Size = 0 THEN out ELSE Append(out, Written(generated, <<chain', Seed>>, Size))
  /\ generated' = generated + Size
  /\ UNCHANGED <<type, resLength, pc>>

FullBlock ==
  /\ pc = "loop"
  /\ generated + Size <= resLength
  /\ out' = IF Size = 0 THEN out ELSE Append(out, Written(generated, <<chain, Seed>>, Size))
  /\ chain' = Mac(type, <<chain>>)
  /\ generated' = generated + Size
  /\ UNCHANGED <<type, resLength, pc>>

\* The last result is made in hmac_buff, and only the rest of p_res is written.
LastBlockWhole ==
  /\ pc = "loop"
  /\ generated + Size > resLength
  /\ out' = IF resLength = generated THEN out
            ELSE Append(out, Written(generated, <<chain, Seed>>, Size))
  /\ pc' = "done"
  /\ UNCHANGED <<type, resLength, chain, generated>>

LastBlock ==
  /\ pc = "loop"
  /\ generated + Size > resLength
  /\ out' = IF resLength = generated THEN out
            ELSE Append(out, Written(generated, <<chain, Seed>>, resLength - generated))
  /\ pc' = "done"
  /\ UNCHANGED <<type, resLength, chain, generated>>

Next == FullBlock \/ LastBlock
Spec == Init /\ [][Next]_vars
FairSpec == Spec /\ WF_vars(Next)
----------------------------------------------------------------------------
\* However long the result, the pieces lie in it end to end from its first byte,
\* none reaches beyond it, and at the return they fill it (tls_hash.cpp:256-270).
FillsResult ==
  LET end(i) == IF i = 0 THEN 0 ELSE out[i].at + out[i].size
  IN  /\ \A i \in DOMAIN out : out[i].at = end(i - 1) /\ out[i].size > 0
      /\ end(Len(out)) <= resLength
      /\ pc = "done" => end(Len(out)) = resLength /\ Size > 0

\* P_hash of RFC 5246: piece i is the MAC of A(i) and the seed, where A(0) is the
\* seed and A(i) the MAC of A(i - 1), and every piece but the last is whole.  With
\* a hash that is not implemented all pieces are the same (tls_hash.cpp:233-272).
IsPHash ==
  LET a[i \in 0 .. Len(out)] == IF i = 0 THEN Seed ELSE <<"mac", <<a[i - 1]>>>>
  IN  \A i \in DOMAIN out :
        /\ IF type \in Implemented THEN out[i].mac = <<"mac", <<a[i], Seed>>>>
           ELSE out[i].mac = out[1].mac
        /\ i < Len(out) => out[i].size = ResultSize[type]

\* The loop ends for every hash but the one whose result has no bytes, for which
\* it never does (tls_hash.cpp:256).
PrfReturns ==
  /\ type # "null" ~> pc = "done"
  /\ [](type = "null" => pc # "done")
=============================================================================
