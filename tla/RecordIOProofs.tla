--------------------------- MODULE RecordIOProofs ---------------------------
(* Theorems about the record layer's input and output, for every capacity of *)
(* the connection, every header size and limit, and any number of calls: its *)
(* types; what a send reports, that a payload fits its buffer, that nothing  *)
(* is delivered twice, and that the records arrive whole and in order while  *)
(* the two ends are in step.  And the record layer over the socket loops     *)
(* implements RecordChannel: each step of the code puts a record in the      *)
(* queue of its direction, takes one out, breaks the direction, or changes   *)
(* nothing that the channel shows.                                           *)
(*                                                                           *)
(* The inductive invariant says how the records of a stream lie in it        *)
(* (Laid), how the call of each end is tied to the record it is sending      *)
(* (SendInv) or to the bytes it has taken (RecvInv), and where the receiver  *)
(* stands in the peer's stream (OrderInv, ReplayInv).                        *)
EXTENDS RecordIO, FiniteSetTheorems, TLAPS

----------------------------------------------------------------------------
(* The steps of the socket loops keep SocketTypeOK, for every capacity.      *)

\* The two ends are each other's peers.
LEMMA Peers ==
  ASSUME NEW e \in Ends
  PROVE  Peer(e) \in Ends /\ Peer(e) # e /\ Peer(Peer(e)) = e
BY DEF Ends, Peer

\* A caller may start a loop for any number of bytes.
LEMMA InvokeTypes ==
  ASSUME SocketTypeOK, NEW e \in Ends, NEW op \in {"send", "recv"}, NEW n \in Nat,
         Invoke(e, op, n), UNCHANGED <<sent, taken, closed, reset>>
  PROVE  SocketTypeOK'
BY DEF SocketTypeOK, Invoke, Calls, InFlight, Running

\* What a call has moved and what it waits for, after it moved k more bytes.
Moved(d) ==
  /\ call'[d].bytes <= call'[d].length
  /\ call'[d].ret = "ok" => call'[d].bytes = call'[d].length
  /\ call'[d].waits => /\ call'[d].op = "send" /\ call'[d].ret = "busy"
                       /\ call'[d].bytes < call'[d].length

\* A turn of a loop that moves no more than what is left ends with the call
\* still within its length, is done only when it moved everything, and waits
\* only in a send that has more to move.
LEMMA AdvanceTypes ==
  ASSUME SocketTypeOK, NEW e \in Ends, NEW k \in Nat,
         k <= call[e].length - call[e].bytes,
         Advance(e, k) \/ (Running(e, "send") /\ WaitInSend(e, k))
  PROVE  /\ call' \in [Ends -> Calls]
         /\ \A d \in Ends : Moved(d)
<1> DEFINE total == call[e].bytes + k
<1>1. call \in [Ends -> Calls] /\ call[e] \in Calls
  BY DEF SocketTypeOK
<1>2. total \in Nat /\ total <= call[e].length
  BY <1>1 DEF SocketTypeOK, Calls
<1>3. PICK c : /\ call' = [call EXCEPT ![e] = c]
               /\ c \in Calls
               /\ c.op = call[e].op /\ c.length = call[e].length /\ c.bytes = total
               /\ c.ret = IF total < call[e].length THEN "busy" ELSE "ok"
               /\ c.waits => total < call[e].length /\ call[e].op = "send"
  <2>1. CASE Advance(e, k)
    <3> DEFINE c == [call[e] EXCEPT !.bytes = total, !.waits = FALSE,
                       !.ret = IF total < call[e].length THEN "busy" ELSE "ok"]
    <3>1. call' = [call EXCEPT ![e] = c]
      BY <1>1, <2>1 DEF Advance, Calls
    <3>2. /\ c \in Calls
          /\ c.op = call[e].op /\ c.length = call[e].length /\ c.bytes = total
          /\ c.ret = IF total < call[e].length THEN "busy" ELSE "ok"
          /\ ~c.waits
      BY <1>1, <1>2 DEF Calls
    <3> QED
      BY <3>1, <3>2
  <2>2. CASE Running(e, "send") /\ WaitInSend(e, k)
    <3> DEFINE c == [call[e] EXCEPT !.bytes = total, !.waits = TRUE]
    <3>1. call' = [call EXCEPT ![e] = c]
      BY <1>1, <2>2 DEF WaitInSend, Calls
    <3>2. total < call[e].length /\ call[e].op = "send" /\ call[e].ret = "busy"
      BY <1>1, <2>2 DEF WaitInSend, Calls, Running
    <3>3. /\ c \in Calls
          /\ c.op = call[e].op /\ c.length = call[e].length /\ c.bytes = total
          /\ c.ret = call[e].ret
      BY <1>1, <1>2 DEF Calls
    <3> QED
      BY <3>1, <3>2, <3>3
  <2> QED
    BY <2>1, <2>2
<1>4. /\ call'[e] = c
      /\ \A d \in Ends \ {e} : call'[d] = call[d]
  BY <1>1, <1>3
<1>5. call' \in [Ends -> Calls]
  BY <1>1, <1>3
<1>6. Moved(e)
  <2>1. call[e].length \in Nat
    BY <1>1 DEF Calls
  <2> QED
    BY <2>1, <1>2, <1>3, <1>4 DEF Moved
<1>7. ASSUME NEW d \in Ends, d # e
      PROVE  Moved(d)
  BY <1>4, <1>7 DEF Moved, SocketTypeOK, Running
<1> QED
  BY <1>5, <1>6, <1>7

\* A loop that gives up keeps the types.
LEMMA GiveUpTypes ==
  ASSUME SocketTypeOK, NEW e \in Ends, GiveUp(e), UNCHANGED <<sent, taken, closed, reset>>
  PROVE  SocketTypeOK'
<1> DEFINE c == [call[e] EXCEPT !.ret = "error", !.waits = FALSE]
<1>1. /\ call \in [Ends -> Calls] /\ call[e] \in Calls
      /\ call' = [call EXCEPT ![e] = c]
  BY DEF SocketTypeOK, GiveUp, Calls
<1>2. /\ c \in Calls /\ c.bytes = call[e].bytes /\ c.length = call[e].length
      /\ c.ret = "error" /\ ~c.waits
  BY <1>1 DEF Calls
<1> HIDE DEF c
<1>3. call' \in [Ends -> Calls] /\ call'[e] = c
  BY <1>1, <1>2
<1>4. \A d \in Ends \ {e} : call'[d] = call[d]
  BY <1>1
<1> QED
  BY <1>2, <1>3, <1>4 DEF SocketTypeOK, InFlight, Running

\* A send keeps the types: the kernels hold no more than Capacity bytes.
LEMMA SendSomeTypes ==
  ASSUME SocketTypeOK, NEW e \in Ends, NEW k \in Nat, SendSome(e, k)
  PROVE  SocketTypeOK'
<1>1. /\ call' \in [Ends -> Calls]
      /\ \A d \in Ends : Moved(d)
  BY AdvanceTypes DEF SendSome
<1>2. /\ sent' \in [Ends -> Nat]
      /\ \A d \in Ends : taken[d] <= sent'[d] /\ sent'[d] - taken[d] <= Capacity
  BY CapacityAssumption DEF SocketTypeOK, SendSome, InFlight
<1> QED
  BY <1>1, <1>2 DEF SocketTypeOK, SendSome, InFlight, Moved, Running

\* A recv keeps the types: no byte is taken that was not sent.
LEMMA RecvSomeTypes ==
  ASSUME SocketTypeOK, NEW e \in Ends, NEW k \in Nat, RecvSome(e, k)
  PROVE  SocketTypeOK'
<1>1. /\ call' \in [Ends -> Calls]
      /\ \A d \in Ends : Moved(d)
  BY AdvanceTypes DEF RecvSome
<1>2. /\ taken' \in [Ends -> Nat]
      /\ \A d \in Ends : taken'[d] <= sent[d] /\ sent[d] - taken'[d] <= Capacity
  BY CapacityAssumption, Peers DEF SocketTypeOK, RecvSome, InFlight
<1> QED
  BY <1>1, <1>2 DEF SocketTypeOK, RecvSome, InFlight, Moved, Running

\* A recv at the end of the stream keeps the types.
LEMMA RecvEofTypes ==
  ASSUME SocketTypeOK, NEW e \in Ends, RecvEof(e)
  PROVE  SocketTypeOK'
<1>1. 0 <= call[e].length - call[e].bytes
  BY DEF SocketTypeOK, Calls
<1>2. /\ call' \in [Ends -> Calls]
      /\ \A d \in Ends : Moved(d)
  BY <1>1, AdvanceTypes DEF RecvEof
<1> QED
  BY <1>2 DEF SocketTypeOK, RecvEof, InFlight, Moved, Running

\* closesocket keeps the types.
LEMMA CloseTypes ==
  ASSUME SocketTypeOK, NEW e \in Ends, Close(e)
  PROVE  SocketTypeOK'
BY DEF SocketTypeOK, Close, InFlight, Running

\* An aborted connection keeps the types.
LEMMA ResetTypes ==
  ASSUME SocketTypeOK, Reset
  PROVE  SocketTypeOK'
BY DEF SocketTypeOK, Reset, InFlight, Running

\* A new connection has the types.
LEMMA SocketInitTypes ==
  ASSUME SocketInit
  PROVE  SocketTypeOK
<1>1. sent \in [Ends -> Nat] /\ taken \in [Ends -> Nat]
  BY DEF SocketInit
<1>2. closed \in [Ends -> BOOLEAN] /\ reset \in BOOLEAN
  BY DEF SocketInit
<1>3. call \in [Ends -> Calls]
  BY DEF SocketInit, NoCall, Calls
<1>4. \A e \in Ends : /\ taken[e] <= sent[e]
                      /\ InFlight(e) <= Capacity
                      /\ call[e].bytes <= call[e].length
                      /\ call[e].ret = "ok" => call[e].bytes = call[e].length
                      /\ ~call[e].waits
  BY CapacityAssumption DEF SocketInit, NoCall, InFlight
<1> QED
  BY <1>1, <1>2, <1>3, <1>4 DEF SocketTypeOK

----------------------------------------------------------------------------
(* Type correctness.                                                         *)

Places == {"ready", "sendHead", "sendData", "recvHead", "recvData"}

\* The part of TypeOK that is about the record layer's own variables.
IOTypeOK ==
  /\ pc \in [Ends -> Places]
  /\ header \in [Ends -> Nat]
  /\ readMax \in [Ends -> Nat]
  /\ result \in [Ends -> Nat \cup {Failure}]
  /\ calls \in [Ends -> 0 .. MaxCalls]
  /\ recs \in [Ends -> Seq(Records)]
  /\ from \in [Ends -> Nat]
  /\ got \in [Ends -> Seq(Payloads)]
  /\ tainted \in [Ends -> BOOLEAN]

\* TypeOK is the socket loops' types and those of the record layer.
LEMMA TypeParts == TypeOK <=> SocketTypeOK /\ IOTypeOK
BY DEF TypeOK, IOTypeOK, Places

\* A record of a sequence may be replaced by another; in an empty one there
\* is none to replace.
LEMMA ReplaceLast ==
  ASSUME NEW s \in Seq(Records), NEW t, DOMAIN t = DOMAIN s,
         Len(s) > 0 => t[Len(s)] \in Records,
         \A i \in DOMAIN s : i # Len(s) => t[i] = s[i],
         t = [i \in DOMAIN s |-> t[i]]
  PROVE  t \in Seq(Records) /\ Len(t) = Len(s)
<1>1. DOMAIN s = 1 .. Len(s) /\ Len(s) \in Nat
  OBVIOUS
<1>2. \A i \in 1 .. Len(s) : t[i] \in Records
  BY <1>1
<1>3. t \in [1 .. Len(s) -> Records]
  BY <1>1, <1>2
<1> QED
  BY <1>1, <1>3

\* The types of the state after a caller's part of a step.
LEMMA CalledTypes ==
  ASSUME IOTypeOK, NEW e \in Ends, Called(e)
  PROVE  calls' \in [Ends -> 0 .. MaxCalls]
BY ArgumentsAssumption DEF IOTypeOK, Called

\* Returning to the caller leaves pc and result in their types.
LEMMA ReturnTypes ==
  ASSUME IOTypeOK, NEW e \in Ends, NEW r \in Nat \cup {Failure}, Return(e, r)
  PROVE  pc' \in [Ends -> Places] /\ result' \in [Ends -> Nat \cup {Failure}]
BY DEF IOTypeOK, Return, Places

\* tls_record_send keeps the types when it sends the header.
LEMMA RecordSendTypes ==
  ASSUME TypeOK, NEW e \in Ends, NEW n \in Lengths, RecordSend(e, n)
  PROVE  TypeOK'
<1>1. n \in Nat /\ HeaderSize \in Nat
  BY ArgumentsAssumption, SizesAssumption
<1>2. SocketTypeOK'
  BY <1>1, TypeParts, InvokeTypes DEF RecordSend
<1>3. IOTypeOK'
  BY <1>1, TypeParts, CalledTypes DEF IOTypeOK, RecordSend, Places
<1> QED
  BY <1>2, <1>3 DEF TypeOK, IOTypeOK, Places

\* tls_record_send keeps the types when it refuses its data.
LEMMA RefuseSendTypes ==
  ASSUME TypeOK, NEW e \in Ends, NEW n \in Lengths, RefuseSend(e, n)
  PROVE  TypeOK'
<1>1. n \in Nat
  BY ArgumentsAssumption
<1>2. SocketTypeOK'
  BY TypeParts DEF RefuseSend, SocketTypeOK, sockvars, InFlight, Running
<1>3. IOTypeOK'
  BY <1>1, TypeParts, CalledTypes, ReturnTypes DEF IOTypeOK, RefuseSend
<1> QED
  BY <1>2, <1>3 DEF TypeOK, IOTypeOK, Places

\* A turn of the send loop keeps the types.
LEMMA PutBytesTypes ==
  ASSUME TypeOK, NEW e \in Ends, NEW k \in Nat, PutBytes(e, k)
  PROVE  TypeOK'
<1>1. SocketTypeOK'
  BY TypeParts, SendSomeTypes DEF PutBytes
<1>2. recs' \in [Ends -> Seq(Records)]
  <2>1. CASE pc[e] = "sendHead" /\ call[e].bytes = 0
    <3> DEFINE r == [start |-> sent[e], length |-> header[e], put |-> k, status |-> "open"]
    <3>1. r \in Records
      BY DEF TypeOK, SocketTypeOK, Records
    <3>2. recs' = [recs EXCEPT ![e] = Append(@, r)]
      BY <2>1 DEF PutBytes
    <3> QED
      BY <3>1, <3>2 DEF TypeOK
  <2>2. CASE ~(pc[e] = "sendHead" /\ call[e].bytes = 0)
    <3> DEFINE s == recs[e]
               t == PutMore(s, k)
    <3>1. s \in Seq(Records)
      BY DEF TypeOK
    <3>2. t \in Seq(Records)
      <4>1. Len(s) > 0 => s[Len(s)] \in Records /\ Len(s) \in DOMAIN s
        BY <3>1
      <4>2. Len(s) > 0 => t[Len(s)] \in Records
        <5> SUFFICES ASSUME Len(s) > 0
                     PROVE  t[Len(s)] \in Records
          OBVIOUS
        <5>1. t[Len(s)] = [s[Len(s)] EXCEPT !.put = @ + k]
          BY <4>1 DEF PutMore
        <5>2. s[Len(s)] \in Records
          BY <4>1
        <5> QED
          BY <5>1, <5>2 DEF Records
      <4>3. /\ DOMAIN t = DOMAIN s
            /\ \A i \in DOMAIN s : i # Len(s) => t[i] = s[i]
            /\ t = [i \in DOMAIN s |-> t[i]]
        BY DEF PutMore
      <4> HIDE DEF t
      <4> QED
        BY <3>1, <4>2, <4>3, ReplaceLast
    <3>3. recs' = [recs EXCEPT ![e] = t]
      BY <2>2 DEF PutBytes
    <3> QED
      BY <3>2, <3>3 DEF TypeOK
  <2> QED
    BY <2>1, <2>2
<1>3. IOTypeOK'
  BY <1>2, TypeParts DEF IOTypeOK, PutBytes
<1> QED
  BY <1>1, <1>3 DEF TypeOK, IOTypeOK, Places

\* Going on to the data keeps the types.
LEMMA HeaderSentTypes ==
  ASSUME TypeOK, NEW e \in Ends, HeaderSent(e)
  PROVE  TypeOK'
<1>1. header[e] \in Nat
  BY DEF TypeOK
<1>2. SocketTypeOK'
  BY <1>1, TypeParts, InvokeTypes DEF HeaderSent
<1>3. IOTypeOK'
  BY TypeParts DEF IOTypeOK, HeaderSent, Places
<1> QED
  BY <1>2, <1>3, TypeParts DEF TypeOK, IOTypeOK, Places

\* A record that ends keeps its place and its bytes.
LEMMA FinishedTypes ==
  ASSUME NEW s \in Seq(Records), NEW status \in {"ok", "fail"}
  PROVE  /\ Finished(s, status) \in Seq(Records)
         /\ Len(Finished(s, status)) = Len(s)
<1> DEFINE t == Finished(s, status)
<1>1. Len(s) > 0 => s[Len(s)] \in Records /\ Len(s) \in DOMAIN s
  OBVIOUS
<1>2. Len(s) > 0 => t[Len(s)] \in Records
  BY <1>1 DEF Records, Finished
<1>3. /\ DOMAIN t = DOMAIN s
      /\ \A i \in DOMAIN s : i # Len(s) => t[i] = s[i]
      /\ t = [i \in DOMAIN s |-> t[i]]
  BY DEF Finished
<1> HIDE DEF t
<1>4. t \in Seq(Records) /\ Len(t) = Len(s)
  BY <1>2, <1>3, ReplaceLast
<1> QED
  BY <1>4 DEF t

\* The end of tls_record_send_directly keeps the types.
LEMMA SendReturnsTypes ==
  ASSUME TypeOK, NEW e \in Ends, SendReturns(e)
  PROVE  TypeOK'
<1>1. SocketTypeOK'
  BY TypeParts DEF SendReturns, SocketTypeOK, sockvars, InFlight, Running
<1>2. recs' \in [Ends -> Seq(Records)]
  <2> DEFINE status == IF call[e].ret = "ok" THEN "ok" ELSE "fail"
  <2>1. recs[e] \in Seq(Records) /\ Finished(recs[e], status) \in Seq(Records)
    BY FinishedTypes DEF TypeOK
  <2> QED
    BY <2>1 DEF SendReturns, TypeOK
<1>3. pc' \in [Ends -> Places] /\ result' \in [Ends -> Nat \cup {Failure}]
  BY TypeParts, ReturnTypes DEF SendReturns, IOTypeOK
<1>4. IOTypeOK'
  BY <1>2, <1>3, TypeParts DEF IOTypeOK, SendReturns
<1> QED
  BY <1>1, <1>4 DEF TypeOK, IOTypeOK, Places

\* tls_record_recv keeps the types when it reads a header.
LEMMA RecordRecvTypes ==
  ASSUME TypeOK, NEW e \in Ends, NEW c \in Buffers, RecordRecv(e, c)
  PROVE  TypeOK'
<1>1. c \in Nat /\ HeaderSize \in Nat
  BY ArgumentsAssumption, SizesAssumption
<1>2. SocketTypeOK'
  BY <1>1, TypeParts, InvokeTypes DEF RecordRecv
<1>3. taken[Peer(e)] \in Nat
  BY Peers DEF TypeOK, SocketTypeOK
<1>4. IOTypeOK'
  BY <1>1, <1>3, TypeParts, CalledTypes DEF IOTypeOK, RecordRecv, Places
<1> QED
  BY <1>2, <1>4 DEF TypeOK, IOTypeOK, Places

\* tls_record_recv keeps the types when it refuses the buffer.
LEMMA RefuseRecvTypes ==
  ASSUME TypeOK, NEW e \in Ends, NEW c \in Buffers, RefuseRecv(e, c)
  PROVE  TypeOK'
<1>1. c \in Nat
  BY ArgumentsAssumption
<1>2. SocketTypeOK'
  BY TypeParts DEF RefuseRecv, SocketTypeOK, sockvars, InFlight, Running
<1>3. IOTypeOK'
  BY <1>1, TypeParts, CalledTypes, ReturnTypes DEF IOTypeOK, RefuseRecv
<1> QED
  BY <1>2, <1>3 DEF TypeOK, IOTypeOK, Places

\* The lengths a header may hold are numbers, whatever the bytes are.
LEMMA HeaderLengthTypes ==
  ASSUME TypeOK, NEW e \in Ends
  PROVE  HeaderLengths(e) \subseteq Nat
<1>1. recs[Peer(e)] \in Seq(Records)
  BY Peers DEF TypeOK
<1>2. \A i \in DOMAIN recs[Peer(e)] : recs[Peer(e)][i] \in Records
  BY <1>1
<1> QED
  BY <1>2, ArgumentsAssumption DEF HeaderLengths, Aligned, Records

\* Going on to the payload keeps the types: the length read is a number,
\* also where the bytes are no header.
LEMMA HeaderReceivedTypes ==
  ASSUME TypeOK, NEW e \in Ends, NEW n, HeaderReceived(e, n)
  PROVE  TypeOK'
<1>1. n \in Nat
  BY HeaderLengthTypes DEF HeaderReceived
<1>2. SocketTypeOK'
  BY <1>1, TypeParts, InvokeTypes DEF HeaderReceived
<1>3. IOTypeOK'
  BY <1>1, TypeParts DEF IOTypeOK, HeaderReceived, Places
<1> QED
  BY <1>2, <1>3 DEF TypeOK, IOTypeOK, Places

\* Rejecting a header keeps the types.
LEMMA HeaderRejectedTypes ==
  ASSUME TypeOK, NEW e \in Ends, NEW n, HeaderRejected(e, n)
  PROVE  TypeOK'
<1>1. n \in Nat
  BY HeaderLengthTypes DEF HeaderRejected
<1>2. SocketTypeOK'
  BY TypeParts DEF HeaderRejected, SocketTypeOK, sockvars, InFlight, Running
<1>3. IOTypeOK'
  BY <1>1, TypeParts, ReturnTypes DEF IOTypeOK, HeaderRejected
<1> QED
  BY <1>2, <1>3 DEF TypeOK, IOTypeOK, Places

\* A failing receive keeps the types.
LEMMA RecvFailsTypes ==
  ASSUME TypeOK, NEW e \in Ends, RecvFails(e)
  PROVE  TypeOK'
<1>1. SocketTypeOK'
  BY TypeParts DEF RecvFails, SocketTypeOK, sockvars, InFlight, Running
<1>2. tainted' \in [Ends -> BOOLEAN]
  BY DEF RecvFails, TypeOK
<1>3. pc' \in [Ends -> Places] /\ result' \in [Ends -> Nat \cup {Failure}]
  BY TypeParts, ReturnTypes DEF RecvFails, IOTypeOK
<1>4. IOTypeOK'
  BY <1>2, <1>3, TypeParts DEF IOTypeOK, RecvFails
<1> QED
  BY <1>1, <1>4 DEF TypeOK, IOTypeOK, Places

\* What RecvReturns appends to the payloads.
Handed(e) ==
  IF Aligned(e) = {} THEN [rec |-> 0, intact |-> FALSE]
  ELSE LET i == CHOOSE i \in Aligned(e) : TRUE
       IN  [rec |-> i, intact |-> Whole(recs[Peer(e)][i])]

\* What is handed to the caller is a payload: of a record that exists, or of none.
LEMMA HandedTypes ==
  ASSUME TypeOK, NEW e \in Ends
  PROVE  Handed(e) \in Payloads
<1>1. recs[Peer(e)] \in Seq(Records)
  BY Peers DEF TypeOK
<1>2. Aligned(e) \subseteq Nat
  BY <1>1 DEF Aligned
<1>3. CASE Aligned(e) = {}
  BY <1>3 DEF Handed, Payloads
<1>4. CASE Aligned(e) # {}
  <2> DEFINE i == CHOOSE i \in Aligned(e) : TRUE
  <2>1. i \in Nat
    BY <1>2, <1>4
  <2>2. Whole(recs[Peer(e)][i]) \in BOOLEAN
    BY DEF Whole
  <2>3. Handed(e) = [rec |-> i, intact |-> Whole(recs[Peer(e)][i])]
    BY <1>4 DEF Handed
  <2> QED
    BY <2>1, <2>2, <2>3 DEF Payloads
<1> QED
  BY <1>3, <1>4

\* The end of tls_record_recv_directly keeps the types.
LEMMA RecvReturnsTypes ==
  ASSUME TypeOK, NEW e \in Ends, RecvReturns(e)
  PROVE  TypeOK'
<1>1. SocketTypeOK'
  BY TypeParts DEF RecvReturns, SocketTypeOK, sockvars, InFlight, Running
<1>2. got' = [got EXCEPT ![e] = Append(@, Handed(e))]
  BY DEF RecvReturns, Handed
<1>3. got' \in [Ends -> Seq(Payloads)]
  <2>1. got \in [Ends -> Seq(Payloads)] /\ Handed(e) \in Payloads
    BY HandedTypes DEF TypeOK
  <2>2. got[e] \in Seq(Payloads)
    BY <2>1
  <2>3. Append(got[e], Handed(e)) \in Seq(Payloads)
    BY <2>1, <2>2
  <2> QED
    BY <1>2, <2>1, <2>3
<1>4. header[e] \in Nat
  BY DEF TypeOK
<1>5. pc' \in [Ends -> Places] /\ result' \in [Ends -> Nat \cup {Failure}]
  BY <1>4, TypeParts, ReturnTypes DEF RecvReturns, IOTypeOK
<1>6. IOTypeOK'
  BY <1>3, <1>5, TypeParts DEF IOTypeOK, RecvReturns
<1> QED
  BY <1>1, <1>6 DEF TypeOK, IOTypeOK, Places

\* What the ends' own steps, their callers and the network do keeps the types.
LEMMA TypeStep ==
  ASSUME TypeOK, [Next]_vars
  PROVE  TypeOK'
<1>1. ASSUME NEW e \in Ends, Step(e)
      PROVE  TypeOK'
  <2>1. ASSUME NEW k \in 0 .. Capacity, PutBytes(e, k)
        PROVE  TypeOK'
    BY <2>1, PutBytesTypes, CapacityAssumption
  <2>2. ASSUME NEW k \in 0 .. Capacity, TakeBytes(e, k)
        PROVE  TypeOK'
    <3>1. SocketTypeOK'
      BY <2>2, TypeParts, RecvSomeTypes, CapacityAssumption DEF TakeBytes
    <3> QED
      BY <2>2, <3>1 DEF TakeBytes, TypeOK, iovars
  <2>3. ASSUME EndOfStream(e)
        PROVE  TypeOK'
    <3>1. SocketTypeOK'
      BY <2>3, TypeParts, RecvEofTypes DEF EndOfStream
    <3> QED
      BY <2>3, <3>1 DEF EndOfStream, TypeOK, iovars
  <2>4. ASSUME LoopGivesUp(e)
        PROVE  TypeOK'
    <3>1. SocketTypeOK'
      BY <2>4, TypeParts, GiveUpTypes DEF LoopGivesUp, Timeout, SocketError
    <3> QED
      BY <2>4, <3>1 DEF LoopGivesUp, TypeOK, iovars
  <2> QED
    BY <1>1, <2>1, <2>2, <2>3, <2>4, HeaderSentTypes, SendReturnsTypes,
       HeaderReceivedTypes, HeaderRejectedTypes, RecvFailsTypes, RecvReturnsTypes
    DEF Step
<1>2. ASSUME NEW e \in Ends, Caller(e)
      PROVE  TypeOK'
  <2>1. ASSUME CloseConnection(e)
        PROVE  TypeOK'
    <3>1. SocketTypeOK'
      BY <2>1, TypeParts, CloseTypes DEF CloseConnection
    <3> QED
      BY <2>1, <3>1 DEF CloseConnection, TypeOK, iovars
  <2> QED
    BY <1>2, <2>1, RecordSendTypes, RefuseSendTypes, RecordRecvTypes, RefuseRecvTypes
    DEF Caller
<1>3. ASSUME Abort
      PROVE  TypeOK'
  <2>1. SocketTypeOK'
    BY <1>3, TypeParts, ResetTypes DEF Abort
  <2> QED
    BY <1>3, <2>1 DEF Abort, TypeOK, iovars
<1>4. ASSUME UNCHANGED vars
      PROVE  TypeOK'
  BY <1>4 DEF TypeOK, SocketTypeOK, InFlight, Running, vars, iovars, sockvars
<1> QED
  BY <1>1, <1>2, <1>3, <1>4 DEF Next

\* The initial states have the types.
LEMMA TypeInit == Init => TypeOK
<1> SUFFICES ASSUME Init
             PROVE  TypeOK
  OBVIOUS
<1>1. SocketTypeOK
  BY SocketInitTypes DEF Init
<1>2. IOTypeOK
  BY ArgumentsAssumption DEF Init, IOTypeOK, Places
<1> QED
  BY <1>1, <1>2, TypeParts

\* The variables keep their types, no byte is taken that was not sent, and no
\* loop of win32_sockets.cpp moves more bytes than it was asked to.
THEOREM TypeCorrect == Spec => []TypeOK
BY TypeInit, TypeStep, PTL DEF Spec

----------------------------------------------------------------------------
(* Records in a stream.                                                      *)

EndOf(r) == r.start + r.put

\* The records of s lie one behind the other and fill a stream of total bytes.
Laid(s, total) ==
  /\ \A i \in DOMAIN s : /\ 1 <= s[i].put
                         /\ s[i].put <= Size(s[i])
                         /\ EndOf(s[i]) <= total
  /\ \A i, j \in DOMAIN s : i < j => EndOf(s[i]) <= s[j].start
  /\ \A i \in DOMAIN s : i < Len(s) => s[i + 1].start = EndOf(s[i])
  /\ Len(s) = 0 => total = 0
  /\ Len(s) > 0 => s[1].start = 0 /\ EndOf(s[Len(s)]) = total

\* Where the record behind the first n ones begins.
Boundary(s, total, n) == IF n < Len(s) THEN s[n + 1].start ELSE total

\* Every record but the last has ended, and its status is true.
Settled(s) ==
  \A i \in DOMAIN s :
    /\ s[i].length \in Lengths
    /\ s[i].status = "open" => i = Len(s)
    /\ s[i].status = "ok" => Whole(s[i])
    /\ s[i].status = "fail" /\ s[i].length > 0 => ~Whole(s[i])

NoneOpen(s) == \A i \in DOMAIN s : s[i].status # "open"

LastIs(s, length, put) ==
  /\ Len(s) > 0
  /\ s[Len(s)].status = "open"
  /\ s[Len(s)].length = length
  /\ s[Len(s)].put = put

----------------------------------------------------------------------------
(* The inductive invariant.                                                  *)

SendInv(e) ==
  /\ Laid(recs[e], sent[e])
  /\ Settled(recs[e])
  /\ pc[e] \in {"ready", "recvHead", "recvData"} => NoneOpen(recs[e])
  /\ pc[e] = "sendHead" =>
       /\ call[e].op = "send" /\ call[e].length = HeaderSize
       /\ header[e] \in Lengths
       /\ IF call[e].bytes = 0 THEN NoneOpen(recs[e])
          ELSE LastIs(recs[e], header[e], call[e].bytes)
  /\ pc[e] = "sendData" =>
       /\ call[e].op = "send" /\ call[e].length = header[e]
       /\ header[e] \in Lengths
       /\ LastIs(recs[e], header[e], HeaderSize + call[e].bytes)
  /\ call[e].ret \in {"busy", "error"} => call[e].bytes < call[e].length \/ call[e].length = 0

RecvInv(e) ==
  /\ pc[e] = "recvHead" =>
       /\ call[e].op = "recv" /\ call[e].length = HeaderSize
       /\ taken[Peer(e)] = from[e] + call[e].bytes
       /\ readMax[e] >= MaxFragment
  /\ pc[e] = "recvData" =>
       /\ call[e].op = "recv" /\ call[e].length = header[e]
       /\ header[e] <= MaxFragment
       /\ taken[Peer(e)] = from[e] + HeaderSize + call[e].bytes
       /\ readMax[e] >= MaxFragment

\* Where e's next record begins in the peer's stream.
Cursor(e) == IF pc[e] \in {"recvHead", "recvData"} THEN from[e] ELSE taken[Peer(e)]

ReplayInv(e) ==
  /\ \A i \in DOMAIN got[e] : got[e][i].rec # 0 =>
       /\ got[e][i].rec \in DOMAIN recs[Peer(e)]
       /\ recs[Peer(e)][got[e][i].rec].start < Cursor(e)
  /\ \A i, j \in DOMAIN got[e] :
       i < j /\ got[e][i].rec # 0 /\ got[e][j].rec # 0 => got[e][i].rec < got[e][j].rec

OrderInv(e) == InSync(e) =>
  LET s == recs[Peer(e)]
      n == Len(got[e])
  IN  /\ n <= Len(s)
      /\ \A i \in DOMAIN got[e] : got[e][i] = [rec |-> i, intact |-> TRUE] /\ Whole(s[i])
      /\ Cursor(e) = Boundary(s, sent[Peer(e)], n)
      /\ pc[e] = "recvData" => /\ n < Len(s)
                               /\ s[n + 1].put >= HeaderSize
                               /\ s[n + 1].length = header[e]

IndInv ==
  /\ TypeOK
  /\ \A e \in Ends : SendInv(e) /\ RecvInv(e) /\ ReplayInv(e) /\ OrderInv(e)

----------------------------------------------------------------------------
(* What the three operations on the records of a stream keep.                *)

\* The fields of a record of a stream.
LEMMA RecordTypes ==
  ASSUME NEW s \in Seq(Records), NEW i \in DOMAIN s
  PROVE  /\ i \in Nat /\ 1 <= i /\ i <= Len(s)
         /\ s[i] \in Records
         /\ s[i].start \in Nat /\ s[i].length \in Nat /\ s[i].put \in Nat
         /\ s[i].status \in {"open", "ok", "fail"}
<1>1. s[i] \in Records /\ i \in 1 .. Len(s) /\ Len(s) \in Nat
  OBVIOUS
<1> QED
  BY <1>1 DEF Records

\* PutMore adds k to the bytes of the last record and changes nothing else.
LEMMA PutMoreEffect ==
  ASSUME NEW s \in Seq(Records), Len(s) > 0, NEW k \in Nat
  PROVE  LET t == PutMore(s, k) IN
         /\ t \in Seq(Records) /\ Len(t) = Len(s) /\ DOMAIN t = DOMAIN s
         /\ \A i \in DOMAIN s : i # Len(s) => t[i] = s[i]
         /\ \A i \in DOMAIN s : /\ t[i].start = s[i].start
                                /\ t[i].length = s[i].length
                                /\ t[i].status = s[i].status
         /\ t[Len(s)].put = s[Len(s)].put + k
<1> DEFINE t == PutMore(s, k)
<1>1. Len(s) \in DOMAIN s /\ s[Len(s)] \in Records
  OBVIOUS
<1>2. DOMAIN t = DOMAIN s /\ t = [i \in DOMAIN s |-> t[i]]
      /\ \A i \in DOMAIN s : i # Len(s) => t[i] = s[i]
  BY DEF PutMore
<1>3. t[Len(s)] = [s[Len(s)] EXCEPT !.put = s[Len(s)].put + k]
  BY <1>1 DEF PutMore
<1>4. /\ t[Len(s)] \in Records
      /\ t[Len(s)].start = s[Len(s)].start
      /\ t[Len(s)].length = s[Len(s)].length
      /\ t[Len(s)].status = s[Len(s)].status
      /\ t[Len(s)].put = s[Len(s)].put + k
  <2>1. ASSUME NEW r \in Records, NEW m \in Nat
        PROVE  LET q == [r EXCEPT !.put = m] IN
               /\ q \in Records /\ q.put = m /\ q.start = r.start
               /\ q.length = r.length /\ q.status = r.status
    BY <2>1 DEF Records
  <2>2. s[Len(s)].put + k \in Nat
    BY <1>1 DEF Records
  <2> QED
    BY <1>1, <1>3, <2>1, <2>2
<1> HIDE DEF t
<1>5. t \in Seq(Records) /\ Len(t) = Len(s)
  BY <1>2, <1>4, ReplaceLast
<1>6. \A i \in DOMAIN s : /\ t[i].start = s[i].start
                          /\ t[i].length = s[i].length
                          /\ t[i].status = s[i].status
  BY <1>2, <1>4
<1> QED
  BY <1>2, <1>4, <1>5, <1>6 DEF t

\* Finished sets the status of the last record and changes nothing else.
LEMMA FinishedEffect ==
  ASSUME NEW s \in Seq(Records), Len(s) > 0, NEW status \in {"ok", "fail"}
  PROVE  LET t == Finished(s, status) IN
         /\ t \in Seq(Records) /\ Len(t) = Len(s) /\ DOMAIN t = DOMAIN s
         /\ \A i \in DOMAIN s : i # Len(s) => t[i] = s[i]
         /\ \A i \in DOMAIN s : /\ t[i].start = s[i].start
                                /\ t[i].length = s[i].length
                                /\ t[i].put = s[i].put
         /\ t[Len(s)].status = status
<1> DEFINE t == Finished(s, status)
<1>1. Len(s) \in DOMAIN s /\ s[Len(s)] \in Records
  OBVIOUS
<1>2. DOMAIN t = DOMAIN s /\ \A i \in DOMAIN s : i # Len(s) => t[i] = s[i]
  BY DEF Finished
<1>3. t[Len(s)] = [s[Len(s)] EXCEPT !.status = status]
  BY <1>1 DEF Finished
<1>4. /\ t[Len(s)].start = s[Len(s)].start
      /\ t[Len(s)].length = s[Len(s)].length
      /\ t[Len(s)].put = s[Len(s)].put
      /\ t[Len(s)].status = status
  BY <1>1, <1>3 DEF Records
<1>5. t \in Seq(Records) /\ Len(t) = Len(s)
  BY FinishedTypes
<1>6. \A i \in DOMAIN s : /\ t[i].start = s[i].start
                          /\ t[i].length = s[i].length
                          /\ t[i].put = s[i].put
  BY <1>2, <1>4
<1> QED
  BY <1>2, <1>4, <1>5, <1>6

\* A new record begins where the stream ended.
LEMMA AppendLaid ==
  ASSUME NEW s \in Seq(Records), NEW total \in Nat, Laid(s, total),
         NEW r \in Records, r.start = total, 1 <= r.put, r.put <= Size(r)
  PROVE  Laid(Append(s, r), total + r.put)
<1> DEFINE t == Append(s, r)
<1>1. /\ Len(s) \in Nat /\ Len(t) = Len(s) + 1 /\ t[Len(s) + 1] = r
      /\ DOMAIN s = 1 .. Len(s) /\ DOMAIN t = 1 .. (Len(s) + 1)
      /\ \A i \in DOMAIN s : t[i] = s[i]
  OBVIOUS
<1>2. r.start \in Nat /\ r.put \in Nat
  BY DEF Records
<1>3. \A i \in DOMAIN s : s[i].start \in Nat /\ s[i].put \in Nat
  BY RecordTypes
<1> HIDE DEF t
<1>4. \A i \in DOMAIN t : /\ 1 <= t[i].put
                          /\ t[i].put <= Size(t[i])
                          /\ EndOf(t[i]) <= total + r.put
  <2> SUFFICES ASSUME NEW i \in DOMAIN t
               PROVE  /\ 1 <= t[i].put
                      /\ t[i].put <= Size(t[i])
                      /\ EndOf(t[i]) <= total + r.put
    OBVIOUS
  <2>1. CASE i \in DOMAIN s
    <3>1. t[i] = s[i] /\ s[i].start \in Nat /\ s[i].put \in Nat
      BY <1>1, <1>3, <2>1
    <3>2. 1 <= s[i].put /\ s[i].put <= Size(s[i]) /\ EndOf(s[i]) <= total
      BY <2>1 DEF Laid
    <3> QED
      BY <1>2, <3>1, <3>2 DEF EndOf
  <2>2. CASE i = Len(s) + 1
    BY <1>1, <1>2, <2>2 DEF EndOf
  <2> QED
    BY <1>1, <2>1, <2>2
<1>5. \A i, j \in DOMAIN t : i < j => EndOf(t[i]) <= t[j].start
  <2> SUFFICES ASSUME NEW i \in DOMAIN t, NEW j \in DOMAIN t, i < j
               PROVE  EndOf(t[i]) <= t[j].start
    OBVIOUS
  <2>1. i \in DOMAIN s
    BY <1>1
  <2>2. CASE j \in DOMAIN s
    BY <1>1, <2>1, <2>2 DEF Laid
  <2>3. CASE j = Len(s) + 1
    BY <1>1, <2>1, <2>3 DEF Laid
  <2> QED
    BY <1>1, <2>2, <2>3
<1>6. \A i \in DOMAIN t : i < Len(t) => t[i + 1].start = EndOf(t[i])
  <2> SUFFICES ASSUME NEW i \in DOMAIN t, i < Len(t)
               PROVE  t[i + 1].start = EndOf(t[i])
    OBVIOUS
  <2>1. i \in DOMAIN s
    BY <1>1
  <2>2. CASE i < Len(s)
    <3>1. i + 1 \in DOMAIN s
      BY <1>1, <2>1, <2>2
    <3> QED
      BY <1>1, <2>1, <2>2, <3>1 DEF Laid
  <2>3. CASE i = Len(s)
    BY <1>1, <2>1, <2>3 DEF Laid
  <2> QED
    BY <1>1, <2>1, <2>2, <2>3
<1>7. t[1].start = 0 /\ EndOf(t[Len(t)]) = total + r.put
  <2>1. CASE Len(s) = 0
    BY <1>1, <2>1 DEF Laid, EndOf
  <2>2. CASE Len(s) > 0
    <3>1. 1 \in DOMAIN s
      BY <1>1, <2>2
    <3> QED
      BY <1>1, <2>2, <3>1 DEF Laid, EndOf
  <2> QED
    BY <1>1, <2>1, <2>2
<1>8. Len(t) # 0
  BY <1>1
<1>9. Laid(t, total + r.put)
  BY <1>4, <1>5, <1>6, <1>7, <1>8 DEF Laid
<1> QED
  BY <1>9 DEF t

\* Bytes of the last record lengthen the stream.
LEMMA PutMoreLaid ==
  ASSUME NEW s \in Seq(Records), NEW total \in Nat, Laid(s, total), Len(s) > 0,
         NEW k \in Nat, s[Len(s)].put + k <= Size(s[Len(s)])
  PROVE  Laid(PutMore(s, k), total + k)
<1> DEFINE t == PutMore(s, k)
<1>1. /\ Len(t) = Len(s) /\ DOMAIN t = DOMAIN s
      /\ \A i \in DOMAIN s : i # Len(s) => t[i] = s[i]
      /\ \A i \in DOMAIN s : t[i].start = s[i].start /\ t[i].length = s[i].length
      /\ t[Len(s)].put = s[Len(s)].put + k
  BY PutMoreEffect
<1>2. Len(s) \in Nat /\ DOMAIN s = 1 .. Len(s) /\ Len(s) \in DOMAIN s /\ 1 \in DOMAIN s
  OBVIOUS
<1>3. \A i \in DOMAIN s : s[i].start \in Nat /\ s[i].put \in Nat
  BY RecordTypes
<1> HIDE DEF t
<1>4. \A i \in DOMAIN t : /\ 1 <= t[i].put
                          /\ t[i].put <= Size(t[i])
                          /\ EndOf(t[i]) <= total + k
  <2> SUFFICES ASSUME NEW i \in DOMAIN s
               PROVE  /\ 1 <= t[i].put
                      /\ t[i].put <= Size(t[i])
                      /\ EndOf(t[i]) <= total + k
    BY <1>1
  <2>1. 1 <= s[i].put /\ s[i].put <= Size(s[i]) /\ EndOf(s[i]) <= total
    BY DEF Laid
  <2>2. s[i].start \in Nat /\ s[i].put \in Nat /\ Size(t[i]) = Size(s[i])
    BY <1>1, <1>3 DEF Size
  <2>3. CASE i # Len(s)
    BY <1>1, <2>1, <2>2, <2>3 DEF EndOf
  <2>4. CASE i = Len(s)
    BY <1>1, <2>1, <2>2, <2>4 DEF EndOf
  <2> QED
    BY <2>3, <2>4
<1>5. \A i, j \in DOMAIN t : i < j => EndOf(t[i]) <= t[j].start
  BY <1>1, <1>2, <1>3 DEF Laid, EndOf
<1>6. \A i \in DOMAIN t : i < Len(t) => t[i + 1].start = EndOf(t[i])
  <2> SUFFICES ASSUME NEW i \in DOMAIN t, i < Len(t)
               PROVE  t[i + 1].start = EndOf(t[i])
    OBVIOUS
  <2>1. i \in DOMAIN s /\ i + 1 \in DOMAIN s /\ i # Len(s)
    BY <1>1, <1>2
  <2> QED
    BY <1>1, <2>1 DEF Laid
<1>7. t[1].start = 0 /\ EndOf(t[Len(t)]) = total + k
  <2>1. t[1].start = 0
    BY <1>1, <1>2 DEF Laid
  <2>2. s[Len(s)].start + s[Len(s)].put = total
    BY DEF Laid, EndOf
  <2>3. s[Len(s)].start \in Nat /\ s[Len(s)].put \in Nat
    BY <1>2, <1>3
  <2>4. EndOf(t[Len(t)]) = s[Len(s)].start + (s[Len(s)].put + k)
    BY <1>1, <1>2 DEF EndOf
  <2>5. ASSUME NEW a \in Nat, NEW b \in Nat, a + b = total
        PROVE  a + (b + k) = total + k
    BY <2>5
  <2>6. EndOf(t[Len(t)]) = total + k
    BY <2>2, <2>3, <2>4, <2>5
  <2> QED
    BY <2>1, <2>6
<1>8. Laid(t, total + k)
  BY <1>1, <1>4, <1>5, <1>6, <1>7 DEF Laid
<1> QED
  BY <1>8 DEF t

\* The end of a send moves no record.
LEMMA FinishedLaid ==
  ASSUME NEW s \in Seq(Records), NEW total \in Nat, Laid(s, total), Len(s) > 0,
         NEW status \in {"ok", "fail"}
  PROVE  Laid(Finished(s, status), total)
<1> DEFINE t == Finished(s, status)
<1>1. /\ Len(t) = Len(s) /\ DOMAIN t = DOMAIN s
      /\ \A i \in DOMAIN s : /\ t[i].start = s[i].start
                             /\ t[i].length = s[i].length
                             /\ t[i].put = s[i].put
  BY FinishedEffect
<1>2. Len(s) \in Nat /\ DOMAIN s = 1 .. Len(s) /\ Len(s) \in DOMAIN s /\ 1 \in DOMAIN s
  OBVIOUS
<1> HIDE DEF t
<1>3. \A i \in DOMAIN t : i < Len(t) => t[i + 1].start = EndOf(t[i])
  <2> SUFFICES ASSUME NEW i \in DOMAIN t, i < Len(t)
               PROVE  t[i + 1].start = EndOf(t[i])
    OBVIOUS
  <2>1. i \in DOMAIN s /\ i + 1 \in DOMAIN s
    BY <1>1, <1>2
  <2> QED
    BY <1>1, <2>1 DEF Laid, EndOf
<1>4. Laid(t, total)
  BY <1>1, <1>2, <1>3 DEF Laid, EndOf, Size
<1> QED
  BY <1>4 DEF t

\* The record that begins at a place is the only one.
LEMMA StartsApart ==
  ASSUME NEW s \in Seq(Records), NEW total \in Nat, Laid(s, total),
         NEW i \in DOMAIN s, NEW j \in DOMAIN s
  PROVE  /\ s[i].start < s[j].start => i < j
         /\ s[i].start = s[j].start => i = j
         /\ s[i].start < total
<1>1. /\ i \in Nat /\ j \in Nat
      /\ s[i].start \in Nat /\ s[j].start \in Nat /\ s[i].put \in Nat /\ s[j].put \in Nat
  BY RecordTypes
<1>2. j < i => s[j].start < s[i].start
  BY <1>1 DEF Laid, EndOf
<1>3. i < j => s[i].start < s[j].start
  BY <1>1 DEF Laid, EndOf
<1>4. s[i].start < total
  BY <1>1 DEF Laid, EndOf
<1> QED
  BY <1>1, <1>2, <1>3, <1>4

\* Behind the first n records comes the end of the n-th.
LEMMA BoundaryIsEnd ==
  ASSUME NEW s \in Seq(Records), NEW total, Laid(s, total), NEW n \in DOMAIN s
  PROVE  Boundary(s, total, n) = EndOf(s[n])
<1>1. n \in Nat /\ n <= Len(s) /\ Len(s) \in Nat
  OBVIOUS
<1> QED
  BY <1>1 DEF Boundary, Laid

----------------------------------------------------------------------------
(* What the step of one end leaves alone at the other.                       *)

Moves(e) == Step(e) \/ Caller(e)

\* The state that belongs to end e.
Own(e) == <<recs[e], sent[e], pc[e], call[e], header[e], readMax[e], from[e],
            taken[Peer(e)], got[e], tainted[e]>>

\* A step of one end leaves alone what belongs to the other.
LEMMA OtherEnd ==
  ASSUME TypeOK, NEW e \in Ends, NEW d \in Ends, d # e, Moves(d)
  PROVE  UNCHANGED Own(e)
<1>1. Peer(e) \in Ends /\ Peer(d) \in Ends /\ Peer(e) # Peer(d)
  BY Peers
<1>2. /\ DOMAIN recs = Ends /\ DOMAIN sent = Ends /\ DOMAIN pc = Ends /\ DOMAIN call = Ends
      /\ DOMAIN header = Ends /\ DOMAIN readMax = Ends /\ DOMAIN from = Ends
      /\ DOMAIN taken = Ends /\ DOMAIN got = Ends /\ DOMAIN tainted = Ends
  BY DEF TypeOK, SocketTypeOK
<1>3. CASE Step(d)
  <2>1. ASSUME NEW k \in 0 .. Capacity, PutBytes(d, k)
        PROVE  UNCHANGED Own(e)
    BY <1>1, <1>2, <2>1 DEF Own, PutBytes, SendSome, Advance, WaitInSend
  <2>2. ASSUME NEW k \in 0 .. Capacity, TakeBytes(d, k)
        PROVE  UNCHANGED Own(e)
    BY <1>1, <1>2, <2>2 DEF Own, TakeBytes, RecvSome, Advance, iovars
  <2>3. ASSUME HeaderSent(d)
        PROVE  UNCHANGED Own(e)
    BY <1>1, <1>2, <2>3 DEF Own, HeaderSent, Invoke
  <2>4. ASSUME SendReturns(d)
        PROVE  UNCHANGED Own(e)
    BY <1>1, <1>2, <2>4 DEF Own, SendReturns, Return, sockvars
  <2>5. ASSUME NEW n, HeaderReceived(d, n)
        PROVE  UNCHANGED Own(e)
    BY <1>1, <1>2, <2>5 DEF Own, HeaderReceived, Invoke
  <2>6. ASSUME NEW n, HeaderRejected(d, n)
        PROVE  UNCHANGED Own(e)
    BY <1>1, <1>2, <2>6 DEF Own, HeaderRejected, Return, sockvars
  <2>7. ASSUME EndOfStream(d)
        PROVE  UNCHANGED Own(e)
    BY <1>1, <1>2, <2>7 DEF Own, EndOfStream, RecvEof, Advance, iovars
  <2>8. ASSUME RecvFails(d)
        PROVE  UNCHANGED Own(e)
    BY <1>1, <1>2, <2>8 DEF Own, RecvFails, Return, sockvars
  <2>9. ASSUME RecvReturns(d)
        PROVE  UNCHANGED Own(e)
    BY <1>1, <1>2, <2>9 DEF Own, RecvReturns, Return, sockvars
  <2>10. ASSUME LoopGivesUp(d)
        PROVE  UNCHANGED Own(e)
    BY <1>1, <1>2, <2>10 DEF Own, LoopGivesUp, Timeout, SocketError, GiveUp, iovars
  <2> QED
    BY <1>3, <2>1, <2>2, <2>3, <2>4, <2>5, <2>6, <2>7, <2>8, <2>9, <2>10 DEF Step
<1>4. CASE Caller(d)
  <2>1. ASSUME NEW n, RecordSend(d, n)
        PROVE  UNCHANGED Own(e)
    BY <1>1, <1>2, <2>1 DEF Own, RecordSend, Called, Invoke
  <2>2. ASSUME NEW n, RefuseSend(d, n)
        PROVE  UNCHANGED Own(e)
    BY <1>1, <1>2, <2>2 DEF Own, RefuseSend, Called, Return, sockvars
  <2>3. ASSUME NEW c, RecordRecv(d, c)
        PROVE  UNCHANGED Own(e)
    BY <1>1, <1>2, <2>3 DEF Own, RecordRecv, Called, Invoke
  <2>4. ASSUME NEW c, RefuseRecv(d, c)
        PROVE  UNCHANGED Own(e)
    BY <1>1, <1>2, <2>4 DEF Own, RefuseRecv, Called, Return, sockvars
  <2>5. ASSUME CloseConnection(d)
        PROVE  UNCHANGED Own(e)
    BY <1>1, <1>2, <2>5 DEF Own, CloseConnection, Close, iovars
  <2> QED
    BY <1>4, <2>1, <2>2, <2>3, <2>4, <2>5 DEF Caller
<1> QED
  BY <1>3, <1>4 DEF Moves

----------------------------------------------------------------------------
(* The sending side.                                                         *)

\* The call of an end, after each of the things a loop does with it.
LEMMA CallEffect ==
  ASSUME TypeOK, NEW e \in Ends
  PROVE  /\ \A op \in {"send", "recv"}, n \in Nat : Invoke(e, op, n) =>
              /\ call'[e].op = op /\ call'[e].length = n
              /\ call'[e].bytes = 0 /\ call'[e].ret = "busy"
         /\ \A k \in Nat : Advance(e, k) \/ (Running(e, "send") /\ WaitInSend(e, k)) =>
              /\ call'[e].op = call[e].op /\ call'[e].length = call[e].length
              /\ call'[e].bytes = call[e].bytes + k
              /\ call'[e].ret = IF call[e].bytes + k < call[e].length THEN "busy" ELSE "ok"
         /\ GiveUp(e) =>
              /\ call'[e].op = call[e].op /\ call'[e].length = call[e].length
              /\ call'[e].bytes = call[e].bytes /\ call'[e].ret = "error"
         /\ call[e] \in Calls /\ call[e].length \in Nat /\ call[e].bytes \in Nat
<1>1. call \in [Ends -> Calls] /\ call[e] \in Calls
  BY DEF TypeOK, SocketTypeOK
<1>2. call[e].length \in Nat /\ call[e].bytes \in Nat
  BY <1>1 DEF Calls
<1>3. ASSUME NEW op \in {"send", "recv"}, NEW n \in Nat, Invoke(e, op, n)
      PROVE  /\ call'[e].op = op /\ call'[e].length = n
             /\ call'[e].bytes = 0 /\ call'[e].ret = "busy"
  BY <1>1, <1>3 DEF Invoke
<1>4. ASSUME NEW k \in Nat, Advance(e, k)
      PROVE  /\ call'[e].op = call[e].op /\ call'[e].length = call[e].length
             /\ call'[e].bytes = call[e].bytes + k
             /\ call'[e].ret = IF call[e].bytes + k < call[e].length THEN "busy" ELSE "ok"
  BY <1>1, <1>2, <1>4 DEF Advance, Calls
<1>6. ASSUME NEW k \in Nat, Running(e, "send"), WaitInSend(e, k)
      PROVE  /\ call'[e].op = call[e].op /\ call'[e].length = call[e].length
             /\ call'[e].bytes = call[e].bytes + k
             /\ call'[e].ret = IF call[e].bytes + k < call[e].length THEN "busy" ELSE "ok"
  BY <1>1, <1>2, <1>6 DEF WaitInSend, Calls, Running
<1>5. ASSUME GiveUp(e)
      PROVE  /\ call'[e].op = call[e].op /\ call'[e].length = call[e].length
             /\ call'[e].bytes = call[e].bytes /\ call'[e].ret = "error"
  BY <1>1, <1>5 DEF GiveUp, Calls
<1> QED
  BY <1>1, <1>2, <1>3, <1>4, <1>5, <1>6

\* PutBytes with the first bytes of a header, and with any others.
LEMMA PutFirst ==
  ASSUME TypeOK, NEW e \in Ends, SendInv(e), NEW k \in Nat, PutBytes(e, k),
         pc[e] = "sendHead", call[e].bytes = 0
  PROVE  SendInv(e)'
<1> DEFINE s == recs[e]
           r == [start |-> sent[e], length |-> header[e], put |-> k, status |-> "open"]
           t == Append(s, r)
<1>1. s \in Seq(Records) /\ sent[e] \in Nat /\ header[e] \in Nat
  BY DEF TypeOK, SocketTypeOK
<1>2. r \in Records /\ r.start = sent[e] /\ r.length = header[e] /\ r.put = k /\ r.status = "open"
  BY <1>1 DEF Records
<1>3. /\ call[e].op = "send" /\ call[e].length = HeaderSize /\ header[e] \in Lengths
      /\ NoneOpen(s) /\ Laid(s, sent[e]) /\ Settled(s)
  BY DEF SendInv
<1>4. 1 <= k /\ k <= HeaderSize
  BY <1>3, SizesAssumption DEF PutBytes, SendSome
<1>5. recs'[e] = t /\ sent'[e] = sent[e] + k /\ pc'[e] = "sendHead" /\ header'[e] = header[e]
  BY DEF PutBytes, SendSome, TypeOK, SocketTypeOK
<1>6. /\ call'[e].op = "send" /\ call'[e].length = HeaderSize /\ call'[e].bytes = k
      /\ call'[e].ret = IF k < HeaderSize THEN "busy" ELSE "ok"
  BY <1>3, CallEffect DEF PutBytes, SendSome
<1>7. Laid(t, sent[e] + k)
  <2>1. k <= Size(r)
    BY <1>1, <1>2, <1>4, SizesAssumption DEF Size
  <2> QED
    BY <1>1, <1>2, <1>3, <1>4, <2>1, AppendLaid
<1>8. /\ Len(s) \in Nat /\ Len(t) = Len(s) + 1 /\ t[Len(t)] = r
      /\ DOMAIN t = 1 .. (Len(s) + 1) /\ DOMAIN s = 1 .. Len(s)
      /\ \A i \in DOMAIN s : t[i] = s[i]
  BY <1>1, <1>2
<1> HIDE DEF t, r
<1>9. Settled(t)
  <2> SUFFICES ASSUME NEW i \in DOMAIN t
               PROVE  /\ t[i].length \in Lengths
                      /\ t[i].status = "open" => i = Len(t)
                      /\ t[i].status = "ok" => Whole(t[i])
                      /\ t[i].status = "fail" /\ t[i].length > 0 => ~Whole(t[i])
    BY DEF Settled
  <2>1. CASE i = Len(t)
    BY <1>2, <1>3, <1>8, <2>1
  <2>2. CASE i \in DOMAIN s
    BY <1>3, <1>8, <2>2 DEF Settled, NoneOpen
  <2> QED
    BY <1>8, <2>1, <2>2
<1>10. LastIs(t, header[e], k)
  BY <1>2, <1>8 DEF LastIs
<1> QED
  BY <1>4, <1>5, <1>6, <1>7, <1>9, <1>10, SizesAssumption DEF SendInv

\* Sending the next bytes of a record keeps the sender's invariant.
LEMMA PutNext ==
  ASSUME TypeOK, NEW e \in Ends, SendInv(e), NEW k \in Nat, PutBytes(e, k),
         ~(pc[e] = "sendHead" /\ call[e].bytes = 0)
  PROVE  SendInv(e)'
<1> DEFINE s == recs[e]
           t == PutMore(s, k)
           base == IF pc[e] = "sendHead" THEN 0 ELSE HeaderSize
<1>1. s \in Seq(Records) /\ sent[e] \in Nat /\ header[e] \in Nat /\ HeaderSize \in Nat
  BY SizesAssumption DEF TypeOK, SocketTypeOK
<1>2. /\ pc[e] \in {"sendHead", "sendData"} /\ call[e].op = "send" /\ header[e] \in Lengths
      /\ call[e].length = IF pc[e] = "sendHead" THEN HeaderSize ELSE header[e]
      /\ LastIs(s, header[e], base + call[e].bytes)
      /\ Laid(s, sent[e]) /\ Settled(s)
  BY <1>1, CallEffect DEF SendInv, PutBytes
<1>3. /\ call[e].bytes \in Nat /\ call[e].length \in Nat
      /\ call[e].bytes + k <= call[e].length
  BY CallEffect DEF PutBytes, SendSome
<1>4. recs'[e] = t /\ sent'[e] = sent[e] + k /\ pc'[e] = pc[e] /\ header'[e] = header[e]
  BY DEF PutBytes, SendSome, TypeOK, SocketTypeOK
<1>5. /\ call'[e].op = "send" /\ call'[e].length = call[e].length
      /\ call'[e].bytes = call[e].bytes + k
      /\ call'[e].ret = IF call[e].bytes + k < call[e].length THEN "busy" ELSE "ok"
  BY <1>2, CallEffect DEF PutBytes, SendSome
<1>6. Len(s) > 0 /\ s[Len(s)].put = base + call[e].bytes /\ s[Len(s)].length = header[e]
      /\ s[Len(s)].status = "open" /\ Len(s) \in DOMAIN s
  BY <1>1, <1>2 DEF LastIs
<1>7. /\ Len(t) = Len(s) /\ DOMAIN t = DOMAIN s
      /\ \A i \in DOMAIN s : i # Len(s) => t[i] = s[i]
      /\ t[Len(s)].length = header[e] /\ t[Len(s)].status = "open"
      /\ t[Len(s)].put = s[Len(s)].put + k
  BY <1>1, <1>6, PutMoreEffect
<1>8. Laid(t, sent[e] + k)
  <2>1. s[Len(s)].put + k <= Size(s[Len(s)])
    BY <1>1, <1>2, <1>3, <1>6 DEF Size
  <2> QED
    BY <1>1, <1>2, <1>6, <2>1, PutMoreLaid
<1> HIDE DEF t
<1>9. Settled(t)
  BY <1>2, <1>6, <1>7 DEF Settled
<1>10. LastIs(t, header[e], base + (call[e].bytes + k))
  BY <1>1, <1>3, <1>6, <1>7 DEF LastIs
<1>11. pc[e] = "sendHead" => call[e].bytes + k > 0 /\ base = 0
  BY <1>3
<1>12. pc[e] = "sendData" => base = HeaderSize
  OBVIOUS
<1> HIDE DEF base
<1> QED
  BY <1>1, <1>2, <1>3, <1>4, <1>5, <1>8, <1>9, <1>10, <1>11, <1>12 DEF SendInv

\* Going on to the data keeps the sender's invariant.
LEMMA HeaderSentKeeps ==
  ASSUME TypeOK, NEW e \in Ends, SendInv(e), HeaderSent(e)
  PROVE  SendInv(e)'
<1>1. /\ recs'[e] = recs[e] /\ sent'[e] = sent[e] /\ header'[e] = header[e]
      /\ pc'[e] = "sendData"
  BY DEF HeaderSent, TypeOK
<1>2. header[e] \in Nat /\ HeaderSize \in Nat \ {0}
  BY SizesAssumption DEF TypeOK
<1>3. /\ call'[e].op = "send" /\ call'[e].length = header[e]
      /\ call'[e].bytes = 0 /\ call'[e].ret = "busy"
  BY <1>2, CallEffect DEF HeaderSent
<1>4. call[e].bytes = call[e].length
  BY DEF TypeOK, SocketTypeOK, HeaderSent
<1>5. header[e] \in Lengths /\ LastIs(recs[e], header[e], HeaderSize + 0)
  BY <1>2, <1>4 DEF SendInv, HeaderSent
<1> QED
  BY <1>1, <1>2, <1>3, <1>5 DEF SendInv

\* A record whose send ends is whole if the send says so, and otherwise not,
\* unless it has no data.
LEMMA SendReturnsKeeps ==
  ASSUME TypeOK, NEW e \in Ends, SendInv(e), SendReturns(e)
  PROVE  SendInv(e)'
<1> DEFINE s == recs[e]
<1>1. /\ sent'[e] = sent[e] /\ header'[e] = header[e] /\ call'[e] = call[e]
      /\ pc'[e] = "ready"
  BY DEF SendReturns, Return, TypeOK, sockvars
<1>2. /\ s \in Seq(Records) /\ sent[e] \in Nat /\ header[e] \in Nat
      /\ HeaderSize \in Nat /\ HeaderSize > 0
      /\ call[e].length \in Nat /\ call[e].bytes \in Nat
  <2>1. s \in Seq(Records) /\ sent[e] \in Nat /\ header[e] \in Nat
    BY DEF TypeOK, SocketTypeOK
  <2>2. call[e].length \in Nat /\ call[e].bytes \in Nat
    BY CallEffect
  <2> QED
    BY <2>1, <2>2, SizesAssumption
<1>3. CASE pc[e] = "sendHead" /\ call[e].bytes = 0
  <2>1. recs'[e] = s
    BY <1>3 DEF SendReturns, TypeOK
  <2> QED
    BY <1>1, <1>3, <2>1 DEF SendInv
<1>4. CASE ~(pc[e] = "sendHead" /\ call[e].bytes = 0)
  <2> DEFINE status == IF call[e].ret = "ok" THEN "ok" ELSE "fail"
             base == IF pc[e] = "sendHead" THEN 0 ELSE HeaderSize
             t == Finished(s, status)
  <2>1. recs'[e] = t
    BY <1>4 DEF SendReturns, TypeOK
  <2>2. /\ pc[e] \in {"sendHead", "sendData"}
        /\ call[e].length = IF pc[e] = "sendHead" THEN HeaderSize ELSE header[e]
        /\ LastIs(s, header[e], base + call[e].bytes)
        /\ Laid(s, sent[e]) /\ Settled(s)
    BY <1>2, <1>4 DEF SendInv, SendReturns
  <2>3. /\ Len(s) > 0 /\ Len(s) \in DOMAIN s
        /\ s[Len(s)].put = base + call[e].bytes /\ s[Len(s)].length = header[e]
    BY <1>2, <2>2 DEF LastIs
  <2>4. /\ Len(t) = Len(s) /\ DOMAIN t = DOMAIN s
        /\ \A i \in DOMAIN s : i # Len(s) => t[i] = s[i]
        /\ t[Len(s)].length = header[e] /\ t[Len(s)].put = base + call[e].bytes
        /\ t[Len(s)].status = status
    <3>1. status \in {"ok", "fail"} /\ s \in Seq(Records) /\ Len(s) > 0
      BY <1>2, <2>3
    <3> HIDE DEF status, s
    <3>2. /\ Len(t) = Len(s) /\ DOMAIN t = DOMAIN s
          /\ \A i \in DOMAIN s : i # Len(s) => t[i] = s[i]
          /\ \A i \in DOMAIN s : t[i].length = s[i].length /\ t[i].put = s[i].put
          /\ t[Len(s)].status = status
      BY <3>1, FinishedEffect
    <3> QED
      BY <2>3, <3>2
  <2>5. Laid(t, sent[e])
    BY <1>2, <2>2, <2>3, FinishedLaid
  <2>6. call[e].ret = "ok" => Whole(t[Len(s)])
    <3> SUFFICES ASSUME call[e].ret = "ok"
                 PROVE  Whole(t[Len(s)])
      OBVIOUS
    <3>1. pc[e] = "sendData" /\ call[e].bytes = header[e]
      BY <2>2 DEF SendReturns, TypeOK, SocketTypeOK
    <3> QED
      BY <2>4, <3>1 DEF Whole, Size
  <2>7. call[e].ret # "ok" /\ header[e] > 0 => ~Whole(t[Len(s)])
    <3> SUFFICES ASSUME call[e].ret # "ok", header[e] > 0
                 PROVE  ~Whole(t[Len(s)])
      OBVIOUS
    <3>1. call[e].bytes < call[e].length
      BY <1>2, <2>2 DEF SendInv, SendReturns
    <3>2. t[Len(s)].put < HeaderSize + header[e]
      BY <1>2, <2>2, <2>4, <3>1
    <3> QED
      BY <1>2, <2>4, <3>2 DEF Whole, Size
  <2>8. header[e] \in Lengths
    BY <2>2 DEF SendInv
  <2> HIDE DEF t
  <2>9. Settled(t)
    BY <2>2, <2>4, <2>6, <2>7, <2>8 DEF Settled
  <2>10. NoneOpen(t)
    BY <2>2, <2>3, <2>4 DEF NoneOpen, Settled
  <2> QED
    BY <1>1, <2>1, <2>5, <2>9, <2>10 DEF SendInv
<1> QED
  BY <1>3, <1>4

\* Whatever an end does, its stream stays laid out and its reports true.
LEMMA SendInvStep ==
  ASSUME TypeOK, NEW e \in Ends, SendInv(e), Moves(e)
  PROVE  SendInv(e)'
<1>1. ASSUME NEW k \in Nat, PutBytes(e, k)
      PROVE  SendInv(e)'
  BY <1>1, PutFirst, PutNext
<1>2. ASSUME NEW k \in Nat, TakeBytes(e, k)
      PROVE  SendInv(e)'
  BY <1>2, CallEffect DEF SendInv, TakeBytes, RecvSome, iovars
<1>3. ASSUME EndOfStream(e)
      PROVE  SendInv(e)'
  BY <1>3, CallEffect DEF SendInv, EndOfStream, RecvEof, iovars
<1>4. ASSUME LoopGivesUp(e)
      PROVE  SendInv(e)'
  BY <1>4, CallEffect DEF SendInv, LoopGivesUp, Timeout, SocketError, Running, iovars
<1>5. ASSUME NEW n, HeaderReceived(e, n) \/ HeaderRejected(e, n)
      PROVE  SendInv(e)'
  <2>1. n \in Nat
    BY <1>5, HeaderLengthTypes DEF HeaderReceived, HeaderRejected
  <2>2. pc[e] = "recvHead" /\ pc'[e] \in {"ready", "recvData"}
        /\ recs' = recs /\ sent' = sent
    BY <1>5 DEF HeaderReceived, HeaderRejected, Return, sockvars, TypeOK
  <2>3. call'[e].ret \in {"busy", "error"} =>
          call'[e].bytes < call'[e].length \/ call'[e].length = 0
    BY <1>5, <2>1, CallEffect DEF HeaderReceived, HeaderRejected, sockvars, SendInv
  <2> QED
    BY <2>2, <2>3 DEF SendInv
<1>6. ASSUME RecvFails(e) \/ RecvReturns(e)
      PROVE  SendInv(e)'
  <2>1. pc[e] \in {"recvHead", "recvData"} /\ pc'[e] = "ready"
        /\ recs' = recs /\ sent' = sent /\ call' = call
    BY <1>6 DEF RecvFails, RecvReturns, Return, sockvars, TypeOK
  <2> QED
    BY <2>1 DEF SendInv
<1>7. ASSUME NEW n \in Lengths, RecordSend(e, n)
      PROVE  SendInv(e)'
  <2>1. pc[e] = "ready" /\ pc'[e] = "sendHead" /\ header'[e] = n /\ recs' = recs /\ sent' = sent
    BY <1>7 DEF RecordSend, Called, TypeOK
  <2>2. /\ call'[e].op = "send" /\ call'[e].length = HeaderSize /\ call'[e].bytes = 0
    BY <1>7, SizesAssumption, CallEffect DEF RecordSend
  <2> QED
    BY <2>1, <2>2, SizesAssumption DEF SendInv
<1>8. ASSUME NEW c \in Buffers, RecordRecv(e, c)
      PROVE  SendInv(e)'
  <2>1. pc[e] = "ready" /\ pc'[e] = "recvHead" /\ recs' = recs /\ sent' = sent
    BY <1>8 DEF RecordRecv, Called, TypeOK
  <2>2. /\ call'[e].length = HeaderSize /\ call'[e].bytes = 0
    BY <1>8, SizesAssumption, CallEffect DEF RecordRecv
  <2> QED
    BY <2>1, <2>2, SizesAssumption DEF SendInv
<1>9. ASSUME NEW n, RefuseSend(e, n) \/ RefuseRecv(e, n)
      PROVE  SendInv(e)'
  <2>1. pc[e] = "ready" /\ pc'[e] = "ready" /\ recs' = recs /\ sent' = sent /\ call' = call
    BY <1>9 DEF RefuseSend, RefuseRecv, Called, Return, sockvars, TypeOK
  <2> QED
    BY <2>1 DEF SendInv
<1>10. ASSUME CloseConnection(e)
       PROVE  SendInv(e)'
  BY <1>10 DEF SendInv, CloseConnection, Close, iovars
<1> QED
  BY <1>1, <1>2, <1>3, <1>4, <1>5, <1>6, <1>7, <1>8, <1>9, <1>10, HeaderSentKeeps,
     SendReturnsKeeps, CapacityAssumption
  DEF Moves, Step, Caller

----------------------------------------------------------------------------
(* The receiving side.                                                       *)

\* A call that receives never asks for more bytes than the buffer it checked,
\* and what it took begins where the call began.
LEMMA RecvInvStep ==
  ASSUME TypeOK, NEW e \in Ends, RecvInv(e), Moves(e)
  PROVE  RecvInv(e)'
<1>1. /\ HeaderSize \in Nat /\ Peer(e) \in Ends /\ taken[Peer(e)] \in Nat
      /\ from[e] \in Nat /\ call[e].bytes \in Nat /\ header[e] \in Nat
      /\ DOMAIN taken = Ends
  BY SizesAssumption, Peers, CallEffect DEF TypeOK, SocketTypeOK
<1>2. ASSUME NEW k \in Nat, TakeBytes(e, k)
      PROVE  RecvInv(e)'
  <2>1. taken'[Peer(e)] = taken[Peer(e)] + k
    BY <1>1, <1>2 DEF TakeBytes, RecvSome
  <2>2. /\ call'[e].op = call[e].op /\ call'[e].length = call[e].length
        /\ call'[e].bytes = call[e].bytes + k
    BY <1>2, CallEffect DEF TakeBytes, RecvSome
  <2>3. UNCHANGED <<pc, from, readMax, header>>
    BY <1>2 DEF TakeBytes, iovars
  <2> QED
    BY <1>1, <2>1, <2>2, <2>3 DEF RecvInv
<1>3. ASSUME EndOfStream(e)
      PROVE  RecvInv(e)'
  BY <1>1, <1>3, CallEffect DEF RecvInv, EndOfStream, RecvEof, iovars
<1>4. ASSUME LoopGivesUp(e)
      PROVE  RecvInv(e)'
  BY <1>4, CallEffect DEF RecvInv, LoopGivesUp, Timeout, SocketError, iovars
<1>5. ASSUME NEW n, HeaderReceived(e, n)
      PROVE  RecvInv(e)'
  <2>1. n \in Nat
    BY <1>5, HeaderLengthTypes DEF HeaderReceived
  <2>2. pc[e] = "recvHead" /\ pc'[e] = "recvData" /\ header'[e] = n /\ n <= MaxFragment
        /\ UNCHANGED <<taken, from, readMax>>
    BY <1>5 DEF HeaderReceived, TypeOK
  <2>3. call'[e].op = "recv" /\ call'[e].length = n /\ call'[e].bytes = 0
    BY <1>5, <2>1, CallEffect DEF HeaderReceived
  <2>4. call[e].bytes = HeaderSize
    BY <1>5, <2>2 DEF HeaderReceived, RecvInv, TypeOK, SocketTypeOK
  <2> QED
    BY <1>1, <2>2, <2>3, <2>4 DEF RecvInv
<1>6. ASSUME NEW c \in Buffers, RecordRecv(e, c)
      PROVE  RecvInv(e)'
  <2>1. /\ pc'[e] = "recvHead" /\ from'[e] = taken[Peer(e)] /\ taken' = taken
        /\ readMax'[e] = c /\ c >= MaxFragment
    BY <1>6 DEF RecordRecv, BigEnough, TypeOK
  <2>2. call'[e].op = "recv" /\ call'[e].length = HeaderSize /\ call'[e].bytes = 0
    BY <1>1, <1>6, CallEffect DEF RecordRecv
  <2> QED
    BY <1>1, <2>1, <2>2 DEF RecvInv
<1>7. ASSUME pc'[e] \in {"ready", "sendHead", "sendData"}
      PROVE  RecvInv(e)'
  BY <1>7 DEF RecvInv
<1>8. ASSUME CloseConnection(e)
      PROVE  RecvInv(e)'
  BY <1>8 DEF RecvInv, CloseConnection, Close, iovars
<1>9. ASSUME NEW k, PutBytes(e, k)
      PROVE  RecvInv(e)'
  BY <1>7, <1>9 DEF PutBytes
<1>10. ASSUME NEW n, HeaderRejected(e, n) \/ RefuseSend(e, n) \/ RefuseRecv(e, n) \/ RecordSend(e, n)
       PROVE  RecvInv(e)'
  BY <1>7, <1>10 DEF HeaderRejected, RefuseSend, RefuseRecv, RecordSend, Return, TypeOK
<1>11. ASSUME HeaderSent(e) \/ SendReturns(e) \/ RecvFails(e) \/ RecvReturns(e)
       PROVE  RecvInv(e)'
  BY <1>7, <1>11 DEF HeaderSent, SendReturns, RecvFails, RecvReturns, Return, TypeOK
<1> QED
  BY <1>2, <1>3, <1>4, <1>5, <1>6, <1>8, <1>9, <1>10, <1>11, CapacityAssumption
  DEF Moves, Step, Caller

\* How the records and the length of a stream may change in one step: not at
\* all, by a new record, by more bytes of an open record or by its end.
Grows(s, total, t, total2) ==
  \/ t = s /\ total2 = total
  \/ \E r \in Records : t = Append(s, r) /\ r.start = total /\ total2 = total + r.put
  \/ \E k \in Nat : /\ Len(s) > 0 /\ s[Len(s)].status = "open"
                   /\ s[Len(s)].put + k <= Size(s[Len(s)])
                   /\ t = PutMore(s, k) /\ total2 = total + k
  \/ \E status \in {"ok", "fail"} : /\ Len(s) > 0 /\ s[Len(s)].status = "open"
                                   /\ t = Finished(s, status) /\ total2 = total

\* Whatever the sender does, its stream only grows at the end.
LEMMA StreamGrows ==
  ASSUME TypeOK, NEW e \in Ends, SendInv(e), Moves(e)
  PROVE  Grows(recs[e], sent[e], recs'[e], sent'[e])
<1> DEFINE s == recs[e]
<1>1. /\ s \in Seq(Records) /\ sent[e] \in Nat /\ header[e] \in Nat
      /\ HeaderSize \in Nat
      /\ call[e].length \in Nat /\ call[e].bytes \in Nat
  BY SizesAssumption, CallEffect DEF TypeOK, SocketTypeOK
<1>2. ASSUME NEW k \in Nat, PutBytes(e, k)
      PROVE  Grows(s, sent[e], recs'[e], sent'[e])
  <2>1. sent'[e] = sent[e] + k /\ call[e].bytes + k <= call[e].length
    <3>1. sent' = [sent EXCEPT ![e] = @ + k] /\ k <= call[e].length - call[e].bytes
      BY <1>2 DEF PutBytes, SendSome
    <3>2. sent'[e] = sent[e] + k
      BY <3>1 DEF TypeOK, SocketTypeOK
    <3> QED
      BY <1>1, <3>1, <3>2
  <2>2. CASE pc[e] = "sendHead" /\ call[e].bytes = 0
    <3> DEFINE r == [start |-> sent[e], length |-> header[e], put |-> k, status |-> "open"]
    <3>1. r \in Records /\ r.start = sent[e] /\ r.put = k
      BY <1>1 DEF Records
    <3>2. recs'[e] = Append(s, r)
      BY <1>2, <2>2 DEF PutBytes, TypeOK
    <3> HIDE DEF r
    <3> QED
      BY <2>1, <3>1, <3>2 DEF Grows
  <2>3. CASE ~(pc[e] = "sendHead" /\ call[e].bytes = 0)
    <3>1. recs'[e] = PutMore(s, k)
      BY <1>2, <2>3 DEF PutBytes, TypeOK
    <3> DEFINE base == IF pc[e] = "sendHead" THEN 0 ELSE HeaderSize
    <3>3. /\ call[e].length = IF pc[e] = "sendHead" THEN HeaderSize ELSE header[e]
          /\ LastIs(s, header[e], base + call[e].bytes)
      BY <1>1, <1>2, <2>3 DEF SendInv, PutBytes
    <3>2. Len(s) > 0 /\ s[Len(s)].status = "open" /\ s[Len(s)].put + k <= Size(s[Len(s)])
      BY <1>1, <2>1, <3>3 DEF LastIs, Size
    <3> QED
      BY <2>1, <3>1, <3>2 DEF Grows
  <2> QED
    BY <2>2, <2>3
<1>3. ASSUME SendReturns(e)
      PROVE  Grows(s, sent[e], recs'[e], sent'[e])
  <2> DEFINE status == IF call[e].ret = "ok" THEN "ok" ELSE "fail"
  <2>1. sent'[e] = sent[e]
    BY <1>3 DEF SendReturns, sockvars
  <2>2. CASE pc[e] = "sendHead" /\ call[e].bytes = 0
    BY <1>3, <2>1, <2>2 DEF SendReturns, TypeOK, Grows
  <2>3. CASE ~(pc[e] = "sendHead" /\ call[e].bytes = 0)
    <3>1. recs'[e] = Finished(s, status)
      BY <1>3, <2>3 DEF SendReturns, TypeOK
    <3>2. Len(s) > 0 /\ s[Len(s)].status = "open"
      BY <1>3, <2>3 DEF SendInv, LastIs, SendReturns
    <3> QED
      BY <2>1, <3>1, <3>2 DEF Grows
  <2> QED
    BY <2>2, <2>3
<1>4. ASSUME recs' = recs, sent' = sent
      PROVE  Grows(s, sent[e], recs'[e], sent'[e])
  BY <1>4 DEF Grows
<1>5. ASSUME Caller(e)
      PROVE  recs' = recs /\ sent' = sent
  BY <1>5 DEF Caller, RecordSend, RefuseSend, RecordRecv, RefuseRecv, CloseConnection, Close,
     sockvars, iovars
<1>6. ASSUME Step(e), ~SendReturns(e), ~\E k \in Nat : PutBytes(e, k)
      PROVE  recs' = recs /\ sent' = sent
  BY <1>6, CapacityAssumption DEF Step, TakeBytes, RecvSome, HeaderSent, HeaderReceived, HeaderRejected,
     EndOfStream, RecvEof, RecvFails, RecvReturns, LoopGivesUp, Timeout, SocketError, sockvars, iovars
<1> QED
  BY <1>2, <1>3, <1>4, <1>5, <1>6 DEF Moves

\* What a receiver relies on while the peer's stream grows.
KeepsRecord(r, q) ==
  /\ q.start = r.start /\ q.length = r.length /\ q.put >= r.put
  /\ Whole(r) => Whole(q)
  /\ Broken(r) => Broken(q)

KeepsBoundaries(s, total, t, total2) ==
  \A n \in 0 .. Len(s) : (n > 0 => Whole(s[n])) =>
                         Boundary(t, total2, n) = Boundary(s, total, n)

\* A stream that grows keeps its records and the places where they begin.
LEMMA GrowsKeeps ==
  ASSUME NEW s \in Seq(Records), NEW total \in Nat, NEW t, NEW total2,
         Laid(s, total), Grows(s, total, t, total2)
  PROVE  /\ Len(t) \in Nat /\ Len(s) <= Len(t) /\ DOMAIN t = 1 .. Len(t)
         /\ \A i \in DOMAIN s : i \in DOMAIN t /\ KeepsRecord(s[i], t[i])
         /\ KeepsBoundaries(s, total, t, total2)
<1>0. Len(s) \in Nat
  OBVIOUS
<1>1. /\ Len(s) \in Nat /\ DOMAIN s = 1 .. Len(s)
      /\ Len(s) > 0 => Len(s) \in DOMAIN s /\ EndOf(s[Len(s)]) = total
  BY DEF Laid
<1>2. \A i \in DOMAIN s : s[i].start \in Nat /\ s[i].length \in Nat /\ s[i].put \in Nat
                         /\ s[i].put <= Size(s[i])
  BY RecordTypes DEF Laid
<1>3. HeaderSize \in Nat
  BY SizesAssumption
<1>4. CASE t = s /\ total2 = total
  <2>1. \A i \in DOMAIN s : KeepsRecord(s[i], s[i])
    BY <1>2 DEF KeepsRecord
  <2>2. KeepsBoundaries(s, total, s, total)
    BY DEF KeepsBoundaries
  <2> QED
    BY <1>0, <1>1, <1>4, <2>1, <2>2
<1>5. CASE \E r \in Records : t = Append(s, r) /\ r.start = total /\ total2 = total + r.put
  <2>1. PICK r \in Records : t = Append(s, r) /\ r.start = total /\ total2 = total + r.put
    BY <1>5
  <2>2. /\ Len(t) = Len(s) + 1 /\ t[Len(s) + 1] = r /\ DOMAIN t = 1 .. (Len(s) + 1)
        /\ \A i \in DOMAIN s : t[i] = s[i]
    BY <2>1
  <2>3. \A n \in 0 .. Len(s) : Boundary(t, total2, n) = Boundary(s, total, n)
    <3> SUFFICES ASSUME NEW n \in 0 .. Len(s)
                 PROVE  Boundary(t, total2, n) = Boundary(s, total, n)
      OBVIOUS
    <3>1. CASE n < Len(s)
      <4>1. n + 1 \in DOMAIN s /\ n < Len(t)
        BY <1>1, <2>2, <3>1
      <4> QED
        BY <2>2, <3>1, <4>1 DEF Boundary
    <3>2. CASE n = Len(s)
      <4>1. r.start = total
        BY <2>1
      <4>2. ~(n < Len(s)) /\ n < Len(t) /\ t[n + 1] = r
        BY <1>1, <2>2, <3>2
      <4> QED
        BY <4>1, <4>2 DEF Boundary
    <3>3. n < Len(s) \/ n = Len(s)
      BY <1>0
    <3> QED
      BY <3>1, <3>2, <3>3
  <2>4. \A i \in DOMAIN s : KeepsRecord(s[i], t[i])
    BY <1>2, <2>2 DEF KeepsRecord
  <2>5. KeepsBoundaries(s, total, t, total2)
    BY <2>3 DEF KeepsBoundaries
  <2>6. Len(t) \in Nat /\ Len(s) <= Len(t) /\ DOMAIN t = 1 .. Len(t)
        /\ \A i \in DOMAIN s : i \in DOMAIN t
    BY <1>0, <1>1, <2>2
  <2> QED
    BY <2>4, <2>5, <2>6
<1>6. CASE \E k \in Nat : /\ Len(s) > 0 /\ s[Len(s)].status = "open"
                        /\ s[Len(s)].put + k <= Size(s[Len(s)])
                        /\ t = PutMore(s, k) /\ total2 = total + k
  <2>1. PICK k \in Nat : /\ Len(s) > 0 /\ s[Len(s)].status = "open"
                       /\ s[Len(s)].put + k <= Size(s[Len(s)])
                       /\ t = PutMore(s, k) /\ total2 = total + k
    BY <1>6
  <2>2. /\ Len(t) = Len(s) /\ DOMAIN t = DOMAIN s
        /\ \A i \in DOMAIN s : i # Len(s) => t[i] = s[i]
        /\ \A i \in DOMAIN s : /\ t[i].start = s[i].start
                               /\ t[i].length = s[i].length
                               /\ t[i].status = s[i].status
        /\ t[Len(s)].put = s[Len(s)].put + k
    BY <2>1, PutMoreEffect
  <2>3. Whole(s[Len(s)]) => k = 0
    BY <1>1, <1>2, <1>3, <2>1 DEF Whole, Size
  <2>4. \A i \in DOMAIN s : KeepsRecord(s[i], t[i])
    <3> SUFFICES ASSUME NEW i \in DOMAIN s
                 PROVE  KeepsRecord(s[i], t[i])
      OBVIOUS
    <3>1. CASE i # Len(s)
      BY <1>2, <2>2, <3>1 DEF KeepsRecord
    <3>2. CASE i = Len(s)
      BY <1>2, <2>1, <2>2, <2>3, <3>2 DEF KeepsRecord, Whole, Broken, Size
    <3> QED
      BY <3>1, <3>2
  <2>5. ASSUME NEW n \in 0 .. Len(s), n > 0 => Whole(s[n])
        PROVE  Boundary(t, total2, n) = Boundary(s, total, n)
    <3>1. CASE n < Len(s)
      <4>1. n + 1 \in DOMAIN s
        BY <1>1, <3>1
      <4> QED
        BY <2>2, <3>1, <4>1 DEF Boundary
    <3>2. CASE n = Len(s)
      <4>1. k = 0
        BY <1>1, <2>1, <2>3, <2>5, <3>2
      <4>2. total2 = total
        BY <2>1, <4>1
      <4>3. ~(n < Len(s)) /\ ~(n < Len(t))
        BY <1>1, <2>2, <3>2
      <4> QED
        BY <4>2, <4>3 DEF Boundary
    <3>3. n < Len(s) \/ n = Len(s)
      BY <1>0
    <3> QED
      BY <3>1, <3>2, <3>3
  <2>7. KeepsBoundaries(s, total, t, total2)
    BY <2>5 DEF KeepsBoundaries
  <2>8. Len(t) \in Nat /\ Len(s) <= Len(t) /\ DOMAIN t = 1 .. Len(t)
        /\ \A i \in DOMAIN s : i \in DOMAIN t
    BY <1>0, <1>1, <2>2
  <2> QED
    BY <2>4, <2>7, <2>8
<1>7. CASE \E status \in {"ok", "fail"} : /\ Len(s) > 0 /\ s[Len(s)].status = "open"
                                        /\ t = Finished(s, status) /\ total2 = total
  <2>1. PICK status \in {"ok", "fail"} : /\ Len(s) > 0 /\ s[Len(s)].status = "open"
                                       /\ t = Finished(s, status) /\ total2 = total
    BY <1>7
  <2>2. /\ Len(t) = Len(s) /\ DOMAIN t = DOMAIN s
        /\ \A i \in DOMAIN s : i # Len(s) => t[i] = s[i]
        /\ \A i \in DOMAIN s : /\ t[i].start = s[i].start
                               /\ t[i].length = s[i].length
                               /\ t[i].put = s[i].put
    BY <2>1, FinishedEffect
  <2>3. \A i \in DOMAIN s : /\ Whole(s[i]) => Whole(t[i])
                           /\ Broken(s[i]) => Broken(t[i])
    <3> SUFFICES ASSUME NEW i \in DOMAIN s
                 PROVE  /\ Whole(s[i]) => Whole(t[i])
                        /\ Broken(s[i]) => Broken(t[i])
      OBVIOUS
    <3>1. CASE i # Len(s)
      BY <2>2, <3>1
    <3>2. CASE i = Len(s)
      BY <2>1, <2>2, <3>2 DEF Whole, Broken, Size
    <3> QED
      BY <3>1, <3>2
  <2>4. \A n \in 0 .. Len(s) : Boundary(t, total2, n) = Boundary(s, total, n)
    <3> SUFFICES ASSUME NEW n \in 0 .. Len(s)
                 PROVE  Boundary(t, total2, n) = Boundary(s, total, n)
      OBVIOUS
    <3>1. n < Len(s) => n + 1 \in DOMAIN s
      BY <1>1
    <3> QED
      BY <2>1, <2>2, <3>1 DEF Boundary
  <2>5. \A i \in DOMAIN s : KeepsRecord(s[i], t[i])
    BY <1>2, <2>2, <2>3 DEF KeepsRecord, Whole, Broken, Size
  <2>6. KeepsBoundaries(s, total, t, total2)
    BY <2>4 DEF KeepsBoundaries
  <2>7. Len(t) \in Nat /\ Len(s) <= Len(t) /\ DOMAIN t = 1 .. Len(t)
        /\ \A i \in DOMAIN s : i \in DOMAIN t
    BY <1>0, <1>1, <2>2
  <2> QED
    BY <2>5, <2>6, <2>7
<1> QED
  BY <1>4, <1>5, <1>6, <1>7 DEF Grows

\* The record whose header a receiver that is in step reads is the next one.
LEMMA AlignedAt ==
  ASSUME TypeOK, NEW e \in Ends, SendInv(Peer(e)), NEW i \in DOMAIN recs[Peer(e)],
         recs[Peer(e)][i].start = from[e], recs[Peer(e)][i].put >= HeaderSize
  PROVE  Aligned(e) = {i}
<1> DEFINE s == recs[Peer(e)]
<1>1. s \in Seq(Records) /\ sent[Peer(e)] \in Nat /\ Laid(s, sent[Peer(e)])
  BY Peers DEF TypeOK, SocketTypeOK, SendInv
<1>2. \A j \in DOMAIN s : s[j].start = s[i].start => j = i
  BY <1>1, StartsApart
<1> QED
  BY <1>2 DEF Aligned

\* How a step of e itself moves its place in the peer's stream, and what it
\* hands to its caller.
LEMMA CursorStep ==
  ASSUME TypeOK, NEW e \in Ends, RecvInv(e), Moves(e)
  PROVE  \/ /\ got'[e] = got[e] /\ Cursor(e)' >= Cursor(e)
            /\ (~tainted'[e] => ~tainted[e] /\ Cursor(e)' = Cursor(e))
            /\ pc'[e] = "recvData" => pc[e] = "recvData" /\ header'[e] = header[e]
         \/ \E n \in Nat : HeaderReceived(e, n)
         \/ RecvReturns(e)
<1>1. /\ Peer(e) \in Ends /\ taken[Peer(e)] \in Nat /\ from[e] \in Nat /\ HeaderSize \in Nat
      /\ call[e].bytes \in Nat /\ DOMAIN taken = Ends
  BY SizesAssumption, Peers, CallEffect DEF TypeOK, SocketTypeOK
<1> DEFINE Stays == /\ got'[e] = got[e] /\ Cursor(e)' >= Cursor(e)
                    /\ (~tainted'[e] => ~tainted[e] /\ Cursor(e)' = Cursor(e))
                    /\ pc'[e] = "recvData" => pc[e] = "recvData" /\ header'[e] = header[e]
<1>2. Cursor(e) \in Nat
  BY <1>1 DEF Cursor
<1>3. ASSUME NEW k \in Nat, TakeBytes(e, k)
      PROVE  Stays
  BY <1>1, <1>2, <1>3 DEF TakeBytes, Cursor, iovars
<1>4. ASSUME UNCHANGED <<pc, taken, from, got, tainted, header>>
      PROVE  Stays
  BY <1>2, <1>4 DEF Cursor
<1>5. ASSUME NEW k, PutBytes(e, k)
      PROVE  Stays
  BY <1>4, <1>5 DEF PutBytes, SendSome
<1>6. ASSUME EndOfStream(e) \/ LoopGivesUp(e) \/ CloseConnection(e)
      PROVE  Stays
  BY <1>4, <1>6 DEF EndOfStream, LoopGivesUp, CloseConnection, RecvEof, Timeout, SocketError, Close, iovars
<1>7. ASSUME HeaderSent(e) \/ SendReturns(e)
      PROVE  Stays
  BY <1>1, <1>2, <1>7 DEF HeaderSent, SendReturns, Return, Cursor, sockvars, TypeOK
<1>8. ASSUME NEW n, RecordSend(e, n) \/ RefuseSend(e, n) \/ RefuseRecv(e, n) \/ RecordRecv(e, n)
      PROVE  Stays
  <2>1. /\ pc[e] = "ready" /\ got' = got /\ taken' = taken /\ tainted' = tainted
        /\ Cursor(e) = taken[Peer(e)]
    BY <1>8 DEF RecordSend, RefuseSend, RefuseRecv, RecordRecv, Called, Cursor, sockvars
  <2>2. CASE RecordSend(e, n)
    <3>1. pc'[e] = "sendHead"
      BY <2>2 DEF RecordSend, TypeOK
    <3> QED
      BY <1>2, <2>1, <3>1 DEF Cursor
  <2>3. CASE RefuseSend(e, n) \/ RefuseRecv(e, n)
    <3>1. pc'[e] = "ready"
      BY <2>3 DEF RefuseSend, RefuseRecv, Return, TypeOK
    <3> QED
      BY <1>2, <2>1, <3>1 DEF Cursor
  <2>4. CASE RecordRecv(e, n)
    <3>1. pc'[e] = "recvHead" /\ from'[e] = taken[Peer(e)]
      BY <2>4 DEF RecordRecv, TypeOK
    <3> QED
      BY <1>2, <2>1, <3>1 DEF Cursor
  <2> QED
    BY <1>8, <2>2, <2>3, <2>4
<1>9. ASSUME NEW n, HeaderRejected(e, n)
      PROVE  Stays
  <2>1. taken[Peer(e)] >= from[e]
    BY <1>1, <1>9 DEF RecvInv, HeaderRejected
  <2>2. tainted'[e] = TRUE
    BY <1>9 DEF HeaderRejected, TypeOK
  <2> QED
    BY <1>1, <1>9, <2>1, <2>2 DEF HeaderRejected, Return, Cursor, sockvars, TypeOK
<1>10. ASSUME RecvFails(e)
       PROVE  Stays
  <2>1. taken[Peer(e)] >= from[e]
    BY <1>1, <1>10 DEF RecvInv, RecvFails
  <2>2. ~tainted'[e] => ~tainted[e] /\ ~(taken[Peer(e)] > from[e])
    BY <1>10 DEF RecvFails, TypeOK
  <2>3. /\ got'[e] = got[e] /\ pc'[e] = "ready" /\ Cursor(e) = from[e]
        /\ Cursor(e)' = taken[Peer(e)]
    BY <1>1, <1>10 DEF RecvFails, Return, Cursor, sockvars, TypeOK
  <2> QED
    BY <1>1, <2>1, <2>2, <2>3
<1>11. ASSUME NEW n, HeaderReceived(e, n)
       PROVE  n \in Nat
  BY <1>11, HeaderLengthTypes DEF HeaderReceived
<1> HIDE DEF Stays
<1>12. Stays \/ (\E n \in Nat : HeaderReceived(e, n)) \/ RecvReturns(e)
  BY <1>3, <1>5, <1>6, <1>7, <1>8, <1>9, <1>10, <1>11, CapacityAssumption DEF Moves, Step, Caller
<1> QED
  BY <1>12 DEF Stays

\* The peer's records are none of e's doing.
LEMMA PeerKept ==
  ASSUME TypeOK, NEW e \in Ends, Moves(e)
  PROVE  recs'[Peer(e)] = recs[Peer(e)] /\ sent'[Peer(e)] = sent[Peer(e)]
BY Peers, OtherEnd DEF Own

\* A payload that is handed over comes from a place behind all the others.
LEMMA ReplayReturns ==
  ASSUME TypeOK, NEW e \in Ends, SendInv(Peer(e)), RecvInv(e), ReplayInv(e), RecvReturns(e)
  PROVE  ReplayInv(e)'
<1> DEFINE s == recs[Peer(e)]
           g == got[e]
           h == Handed(e)
<1>1. /\ s \in Seq(Records) /\ sent[Peer(e)] \in Nat /\ Laid(s, sent[Peer(e)])
      /\ g \in Seq(Payloads) /\ from[e] \in Nat /\ HeaderSize \in Nat /\ HeaderSize > 0
      /\ call[e].bytes \in Nat /\ taken[Peer(e)] \in Nat
  <2>1. s \in Seq(Records) /\ sent[Peer(e)] \in Nat /\ taken[Peer(e)] \in Nat
    BY Peers DEF TypeOK, SocketTypeOK
  <2>2. Laid(s, sent[Peer(e)])
    BY DEF SendInv
  <2>3. g \in Seq(Payloads) /\ from[e] \in Nat
    BY DEF TypeOK
  <2> QED
    BY <2>1, <2>2, <2>3, SizesAssumption, CallEffect
<1>2. /\ recs' = recs /\ taken' = taken /\ pc[e] = "recvData" /\ pc'[e] = "ready"
      /\ got'[e] = Append(g, h)
  BY DEF RecvReturns, Return, sockvars, TypeOK, Handed
<1>3. Cursor(e) = from[e] /\ Cursor(e)' = taken[Peer(e)] /\ from[e] < taken[Peer(e)]
  BY <1>1, <1>2 DEF Cursor, RecvInv
<1>4. h.rec # 0 => h.rec \in DOMAIN s /\ s[h.rec].start = from[e]
  BY DEF Handed, Aligned
<1>5. /\ DOMAIN g = 1 .. Len(g) /\ DOMAIN Append(g, h) = 1 .. (Len(g) + 1) /\ Len(g) \in Nat
      /\ \A i \in DOMAIN g : Append(g, h)[i] = g[i]
      /\ Append(g, h)[Len(g) + 1] = h
  BY <1>1
<1> DEFINE g2 == Append(g, h)
<1> HIDE DEF g2, h
<1>6. \A i \in DOMAIN g2 : g2[i].rec # 0 => g2[i].rec \in DOMAIN s /\ s[g2[i].rec].start < taken[Peer(e)]
  <2> SUFFICES ASSUME NEW i \in DOMAIN g2, g2[i].rec # 0
               PROVE  g2[i].rec \in DOMAIN s /\ s[g2[i].rec].start < taken[Peer(e)]
    OBVIOUS
  <2>1. CASE i = Len(g) + 1
    BY <1>3, <1>4, <1>5, <2>1 DEF g2
  <2>2. CASE i \in DOMAIN g
    <3>1. g2[i] = g[i]
      BY <1>5, <2>2 DEF g2
    <3>2. g[i].rec \in DOMAIN s /\ s[g[i].rec].start < from[e]
      BY <1>3, <2>2, <3>1 DEF ReplayInv
    <3>3. s[g[i].rec].start \in Nat
      BY <1>1, <3>2, RecordTypes
    <3> QED
      BY <1>1, <1>3, <3>1, <3>2, <3>3
  <2> QED
    BY <1>5, <2>1, <2>2 DEF g2
<1>7. \A i, j \in DOMAIN g2 : i < j /\ g2[i].rec # 0 /\ g2[j].rec # 0 => g2[i].rec < g2[j].rec
  <2> SUFFICES ASSUME NEW i \in DOMAIN g2, NEW j \in DOMAIN g2,
                      i < j, g2[i].rec # 0, g2[j].rec # 0
               PROVE  g2[i].rec < g2[j].rec
    OBVIOUS
  <2>1. i \in DOMAIN g /\ g2[i] = g[i]
    BY <1>5 DEF g2
  <2>2. CASE j \in DOMAIN g
    BY <1>5, <2>1, <2>2 DEF g2, ReplayInv
  <2>3. CASE j = Len(g) + 1
    <3>1. g2[j] = h /\ h.rec \in DOMAIN s /\ s[h.rec].start = from[e]
      BY <1>4, <1>5, <2>3 DEF g2
    <3>2. g[i].rec \in DOMAIN s /\ s[g[i].rec].start < from[e]
      BY <1>3, <2>1 DEF ReplayInv
    <3> QED
      BY <1>1, <2>1, <3>1, <3>2, StartsApart
  <2> QED
    BY <1>5, <2>2, <2>3 DEF g2
<1>8. got'[e] = g2
  BY <1>2 DEF g2
<1> QED
  BY <1>2, <1>3, <1>6, <1>7, <1>8 DEF ReplayInv

\* A step of either end keeps what rules out a replay: the records handed over
\* lie before the receiver's place in the stream.
LEMMA ReplayStep ==
  ASSUME TypeOK, NEW e \in Ends, SendInv(Peer(e)), RecvInv(e), ReplayInv(e),
         Moves(e) \/ Moves(Peer(e))
  PROVE  ReplayInv(e)'
<1> DEFINE s == recs[Peer(e)]
<1>1. /\ Peer(e) \in Ends /\ s \in Seq(Records) /\ sent[Peer(e)] \in Nat
      /\ from[e] \in Nat /\ taken[Peer(e)] \in Nat
      /\ Laid(s, sent[Peer(e)])
  BY Peers DEF TypeOK, SocketTypeOK, SendInv
<1>2. CASE Moves(e)
  <2>1. recs'[Peer(e)] = s
    BY <1>2, PeerKept
  <2>2. ASSUME got'[e] = got[e], Cursor(e)' >= Cursor(e), Cursor(e)' \in Nat
        PROVE  ReplayInv(e)'
    <3>1. Cursor(e) \in Nat
      BY <1>1 DEF Cursor
    <3>2. \A i \in DOMAIN got[e] : got[e][i].rec # 0 =>
             s[got[e][i].rec].start \in Nat /\ s[got[e][i].rec].start < Cursor(e)
      BY <1>1, RecordTypes DEF ReplayInv
    <3>3. \A i \in DOMAIN got[e] : got[e][i].rec # 0 => s[got[e][i].rec].start < Cursor(e)'
      BY <2>2, <3>1, <3>2
    <3> QED
      BY <2>1, <2>2, <3>3 DEF ReplayInv
  <2>3. ASSUME NEW n \in Nat, HeaderReceived(e, n)
        PROVE  got'[e] = got[e] /\ Cursor(e)' = Cursor(e)
    BY <2>3 DEF HeaderReceived, Cursor, TypeOK
  <2>4. Cursor(e)' \in Nat
    <3>1. TypeOK'
      BY <1>2, TypeStep DEF Moves, Next
    <3> QED
      BY <1>1, <3>1 DEF TypeOK, SocketTypeOK, Cursor
  <2> QED
    BY <1>2, <2>2, <2>3, <2>4, CursorStep, ReplayReturns
<1>3. CASE Moves(Peer(e))
  <2>1. got'[e] = got[e] /\ Cursor(e)' = Cursor(e)
    BY <1>1, <1>3, Peers, OtherEnd DEF Own, Cursor
  <2>2. \A i \in DOMAIN s : i \in DOMAIN recs'[Peer(e)] /\ recs'[Peer(e)][i].start = s[i].start
    BY <1>1, <1>3, StreamGrows, GrowsKeeps DEF KeepsRecord
  <2> QED
    BY <2>1, <2>2 DEF ReplayInv
<1> QED
  BY <1>2, <1>3

\* A receiver that was not in step before a step of either end is not in step
\* after it.
LEMMA SyncBefore ==
  ASSUME TypeOK, NEW e \in Ends, SendInv(Peer(e)), RecvInv(e),
         Moves(e) \/ Moves(Peer(e)), InSync(e)'
  PROVE  InSync(e)
<1> DEFINE s == recs[Peer(e)]
<1>1. /\ Peer(e) \in Ends /\ s \in Seq(Records) /\ sent[Peer(e)] \in Nat
      /\ Laid(s, sent[Peer(e)])
  BY Peers DEF TypeOK, SocketTypeOK, SendInv
<1>2. CASE Moves(e)
  <2>1. recs'[Peer(e)] = s
    BY <1>2, PeerKept
  <2>2. ~tainted[e]
    <3>1. ASSUME NEW n \in Nat, HeaderReceived(e, n)
          PROVE  tainted' = tainted
      BY <3>1 DEF HeaderReceived
    <3>2. RecvReturns(e) => tainted' = tainted
      BY DEF RecvReturns
    <3>3. ~tainted'[e]
      BY DEF InSync
    <3> QED
      BY <1>2, <3>1, <3>2, <3>3, CursorStep
  <2> QED
    BY <2>1, <2>2 DEF InSync
<1>3. CASE Moves(Peer(e))
  <2>1. tainted'[e] = tainted[e]
    BY <1>1, <1>3, Peers, OtherEnd DEF Own
  <2>2. \A i \in DOMAIN s : i \in DOMAIN recs'[Peer(e)]
                          /\ (Broken(s[i]) => Broken(recs'[Peer(e)][i]))
    BY <1>1, <1>3, StreamGrows, GrowsKeeps DEF KeepsRecord
  <2> QED
    BY <2>1, <2>2 DEF InSync
<1> QED
  BY <1>2, <1>3

\* In step, every record but the last is whole, and so is the last one as far
\* as the receiver has taken it.
LEMMA InSyncWhole ==
  ASSUME TypeOK, NEW e \in Ends, SendInv(Peer(e)), InSync(e),
         NEW i \in DOMAIN recs[Peer(e)], i < Len(recs[Peer(e)])
  PROVE  Whole(recs[Peer(e)][i])
<1> DEFINE s == recs[Peer(e)]
<1>1. s \in Seq(Records) /\ Settled(s)
  BY Peers DEF TypeOK, SendInv
<1>2. s[i].status \in {"open", "ok", "fail"} /\ i # Len(s)
  BY <1>1, RecordTypes
<1>3. s[i].status # "open" /\ (s[i].status = "ok" => Whole(s[i]))
  BY <1>1, <1>2 DEF Settled
<1>4. ~Broken(s[i])
  BY DEF InSync
<1> QED
  BY <1>2, <1>3, <1>4 DEF Broken

\* The bytes in front of the receiver belong to the next record.
LEMMA NextRecord ==
  ASSUME TypeOK, NEW e \in Ends, SendInv(Peer(e)), OrderInv(e), InSync(e),
         NEW m \in Nat, m > 0, taken[Peer(e)] >= Cursor(e) + m
  PROVE  LET s == recs[Peer(e)]
             n == Len(got[e]) + 1
         IN  /\ n \in DOMAIN s /\ s[n].start = Cursor(e)
             /\ Whole(s[n]) \/ s[n].put >= m
<1> DEFINE s == recs[Peer(e)]
           total == sent[Peer(e)]
           n == Len(got[e]) + 1
<1>1. /\ Peer(e) \in Ends /\ s \in Seq(Records) /\ total \in Nat
      /\ taken[Peer(e)] \in Nat /\ taken[Peer(e)] <= total
  BY Peers DEF TypeOK, SocketTypeOK
<1>2. Laid(s, total)
  BY DEF SendInv
<1>3. got[e] \in Seq(Payloads) /\ from[e] \in Nat
  BY DEF TypeOK
<1>4. Len(got[e]) \in Nat /\ Len(s) \in Nat /\ DOMAIN s = 1 .. Len(s) /\ Cursor(e) \in Nat
  BY <1>1, <1>3 DEF Cursor
<1>5. Len(got[e]) <= Len(s) /\ Cursor(e) = Boundary(s, total, Len(got[e]))
  BY DEF OrderInv
<1>6. Len(got[e]) < Len(s) /\ s[n].start = Cursor(e)
  BY <1>1, <1>4, <1>5 DEF Boundary
<1>7. n \in DOMAIN s
  BY <1>4, <1>6
<1>8. CASE n < Len(s)
  BY <1>6, <1>7, <1>8, InSyncWhole
<1>9. CASE n = Len(s)
  <2>1. EndOf(s[n]) = total
    BY <1>2, <1>4, <1>9 DEF Laid
  <2>2. s[n].put \in Nat
    BY <1>1, <1>7, RecordTypes
  <2>3. s[n].start + s[n].put = total /\ Cursor(e) + m <= total
    <3>1. Cursor(e) + m <= taken[Peer(e)]
      OBVIOUS
    <3> QED
      BY <1>1, <1>4, <2>1, <3>1 DEF EndOf
  <2>4. s[n].put >= m
    BY <1>4, <1>6, <2>2, <2>3
  <2> QED
    BY <1>6, <1>7, <2>4
<1>10. n < Len(s) \/ n = Len(s)
  BY <1>4, <1>6
<1> QED
  BY <1>8, <1>9, <1>10

\* The header that e reads in step is the one of the next record.
LEMMA OrderReceives ==
  ASSUME TypeOK, NEW e \in Ends, SendInv(Peer(e)), RecvInv(e), OrderInv(e), InSync(e),
         NEW l \in Nat, HeaderReceived(e, l)
  PROVE  OrderInv(e)'
<1> DEFINE s == recs[Peer(e)]
           n == Len(got[e]) + 1
<1>1. /\ recs' = recs /\ sent' = sent /\ got' = got /\ from' = from
      /\ pc[e] = "recvHead" /\ pc'[e] = "recvData" /\ header'[e] = l
      /\ l \in HeaderLengths(e)
  BY DEF HeaderReceived, TypeOK
<1>2. HeaderSize \in Nat /\ HeaderSize > 0
  BY SizesAssumption
<1>3. call[e].bytes = HeaderSize
  BY <1>1 DEF HeaderReceived, RecvInv, TypeOK, SocketTypeOK
<1>4. Cursor(e) = from[e] /\ taken[Peer(e)] = from[e] + HeaderSize /\ from[e] \in Nat
  BY <1>1, <1>3 DEF Cursor, RecvInv, TypeOK
<1>5. /\ n \in DOMAIN s /\ s[n].start = from[e]
      /\ Whole(s[n]) \/ s[n].put >= HeaderSize
  BY <1>2, <1>4, NextRecord
<1>6. /\ s \in Seq(Records) /\ s[n].length \in Nat /\ s[n].put \in Nat
      /\ Len(s) \in Nat /\ Len(got[e]) \in Nat /\ n <= Len(s)
  <2>1. s \in Seq(Records) /\ got[e] \in Seq(Payloads)
    BY Peers DEF TypeOK
  <2> QED
    BY <1>5, <2>1, RecordTypes
<1>7. s[n].put >= HeaderSize
  BY <1>2, <1>5, <1>6 DEF Whole, Size
<1>8. HeaderLengths(e) = {s[n].length}
  <2>1. Aligned(e) = {n}
    BY <1>5, <1>7, AlignedAt
  <2> QED
    BY <2>1 DEF HeaderLengths
<1>9. s[n].length = l /\ Len(got[e]) < Len(s)
  BY <1>1, <1>6, <1>8
<1>10. Cursor(e)' = Cursor(e)
  BY <1>1 DEF Cursor
<1> QED
  BY <1>1, <1>7, <1>9, <1>10 DEF OrderInv

\* The payload that e hands over in step is the next record, whole.
LEMMA OrderReturns ==
  ASSUME TypeOK, NEW e \in Ends, SendInv(Peer(e)), RecvInv(e), OrderInv(e), InSync(e),
         RecvReturns(e)
  PROVE  OrderInv(e)' /\ Handed(e) = [rec |-> Len(got[e]) + 1, intact |-> TRUE]
<1> DEFINE s == recs[Peer(e)]
           total == sent[Peer(e)]
           n == Len(got[e]) + 1
           h == Handed(e)
           g == got[e]
<1>1. /\ recs' = recs /\ sent' = sent /\ taken' = taken
      /\ pc[e] = "recvData" /\ pc'[e] = "ready"
      /\ got'[e] = Append(g, h)
  BY DEF RecvReturns, Return, sockvars, TypeOK, Handed
<1>2. HeaderSize \in Nat /\ HeaderSize > 0 /\ header[e] \in Nat /\ from[e] \in Nat
  BY SizesAssumption DEF TypeOK
<1>3. call[e].bytes = header[e]
  BY <1>1 DEF RecvReturns, RecvInv, TypeOK, SocketTypeOK
<1>4. Cursor(e) = from[e] /\ taken[Peer(e)] = from[e] + (HeaderSize + header[e])
  BY <1>1, <1>2, <1>3 DEF Cursor, RecvInv
<1>5. Len(g) < Len(s) /\ s[n].put >= HeaderSize /\ s[n].length = header[e]
  BY <1>1 DEF OrderInv
<1>6. /\ n \in DOMAIN s /\ s[n].start = from[e]
      /\ Whole(s[n]) \/ s[n].put >= HeaderSize + header[e]
  BY <1>2, <1>4, NextRecord
<1>7. s \in Seq(Records) /\ total \in Nat /\ Laid(s, total) /\ g \in Seq(Payloads)
  BY Peers DEF TypeOK, SocketTypeOK, SendInv
<1>8. /\ s[n].put \in Nat /\ s[n].put <= Size(s[n]) /\ Len(s) \in Nat /\ Len(g) \in Nat
      /\ n <= Len(s)
  BY <1>6, <1>7, RecordTypes DEF Laid
<1>9. Whole(s[n])
  BY <1>2, <1>5, <1>6, <1>8 DEF Whole, Size
<1>10. h = [rec |-> n, intact |-> TRUE]
  <2>1. Aligned(e) = {n}
    BY <1>5, <1>6, AlignedAt
  <2>2. (CHOOSE i \in Aligned(e) : TRUE) = n
    BY <2>1
  <2> QED
    BY <1>9, <2>1, <2>2 DEF Handed
<1>11. Cursor(e)' = Boundary(s, total, n)
  <2>1. Boundary(s, total, n) = EndOf(s[n])
    BY <1>6, <1>7, BoundaryIsEnd
  <2>2. EndOf(s[n]) = from[e] + (HeaderSize + header[e])
    BY <1>5, <1>6, <1>9 DEF EndOf, Whole, Size
  <2>3. Cursor(e)' = taken[Peer(e)]
    BY <1>1 DEF Cursor
  <2> QED
    BY <1>4, <2>1, <2>2, <2>3
<1> DEFINE g2 == Append(g, h)
<1>12. /\ Len(g2) = n /\ DOMAIN g2 = 1 .. n /\ DOMAIN g = 1 .. Len(g)
       /\ \A i \in DOMAIN g : g2[i] = g[i]
       /\ g2[n] = h
  BY <1>7
<1> HIDE DEF g2, h
<1>13. \A i \in DOMAIN g2 : g2[i] = [rec |-> i, intact |-> TRUE] /\ Whole(s[i])
  <2> SUFFICES ASSUME NEW i \in DOMAIN g2
               PROVE  g2[i] = [rec |-> i, intact |-> TRUE] /\ Whole(s[i])
    OBVIOUS
  <2>1. CASE i = n
    BY <1>9, <1>10, <1>12, <2>1
  <2>2. CASE i \in DOMAIN g
    BY <1>12, <2>2 DEF OrderInv
  <2>3. i = n \/ i \in DOMAIN g
    BY <1>8, <1>12
  <2> QED
    BY <2>1, <2>2, <2>3
<1>14. got'[e] = g2
  BY <1>1 DEF g2
<1>15. OrderInv(e)'
  BY <1>1, <1>8, <1>11, <1>12, <1>13, <1>14 DEF OrderInv
<1> QED
  BY <1>10, <1>15 DEF h

\* A step of either end keeps a receiver in sync at the boundary behind the
\* last record it was handed.
LEMMA OrderStep ==
  ASSUME TypeOK, NEW e \in Ends, SendInv(Peer(e)), RecvInv(e), OrderInv(e),
         Moves(e) \/ Moves(Peer(e))
  PROVE  OrderInv(e)'
<1> SUFFICES ASSUME InSync(e)'
             PROVE  OrderInv(e)'
  BY DEF OrderInv
<1> DEFINE s == recs[Peer(e)]
           total == sent[Peer(e)]
           t == recs'[Peer(e)]
<1>1. InSync(e)
  BY SyncBefore
<1>2. CASE Moves(e)
  <2>1. t = s /\ sent'[Peer(e)] = total
    BY <1>2, PeerKept
  <2>2. ASSUME got'[e] = got[e], Cursor(e)' = Cursor(e),
               pc'[e] = "recvData" => pc[e] = "recvData" /\ header'[e] = header[e]
        PROVE  OrderInv(e)'
    BY <1>1, <2>1, <2>2 DEF OrderInv
  <2>3. ~tainted'[e]
    BY DEF InSync
  <2> QED
    BY <1>1, <1>2, <2>2, <2>3, CursorStep, OrderReceives, OrderReturns
<1>3. CASE Moves(Peer(e))
  <2>1. /\ Peer(e) \in Ends /\ s \in Seq(Records) /\ total \in Nat /\ Laid(s, total)
        /\ got[e] \in Seq(Payloads)
    BY Peers DEF TypeOK, SocketTypeOK, SendInv
  <2>2. got'[e] = got[e] /\ Cursor(e)' = Cursor(e) /\ pc'[e] = pc[e] /\ header'[e] = header[e]
    BY <1>3, <2>1, Peers, OtherEnd DEF Own, Cursor
  <2>3. /\ Len(s) <= Len(t) /\ Len(t) \in Nat /\ DOMAIN s = 1 .. Len(s) /\ Len(s) \in Nat
        /\ \A i \in DOMAIN s : KeepsRecord(s[i], t[i])
        /\ KeepsBoundaries(s, total, t, sent'[Peer(e)])
    BY <1>3, <2>1, StreamGrows, GrowsKeeps
  <2> DEFINE n == Len(got[e])
  <2>4. /\ n \in Nat /\ n <= Len(s)
        /\ DOMAIN got[e] = 1 .. n
        /\ \A i \in DOMAIN got[e] : got[e][i] = [rec |-> i, intact |-> TRUE] /\ Whole(s[i])
        /\ Cursor(e) = Boundary(s, total, n)
        /\ pc[e] = "recvData" => /\ n < Len(s)
                                 /\ s[n + 1].put >= HeaderSize
                                 /\ s[n + 1].length = header[e]
    BY <1>1, <2>1 DEF OrderInv
  <2>5. \A i \in DOMAIN got[e] : Whole(t[i])
    <3> SUFFICES ASSUME NEW i \in DOMAIN got[e]
                 PROVE  Whole(t[i])
      OBVIOUS
    <3>1. i \in DOMAIN s
      <4>1. i \in 1 .. n
        BY <2>4
      <4> QED
        BY <2>3, <2>4, <4>1
    <3>2. Whole(s[i])
      BY <2>4
    <3>3. KeepsRecord(s[i], t[i])
      BY <2>3, <3>1
    <3> QED
      BY <3>2, <3>3 DEF KeepsRecord
  <2>6. Boundary(t, sent'[Peer(e)], n) = Boundary(s, total, n)
    <3>1. n \in 0 .. Len(s)
      <4>1. n \in Nat /\ n <= Len(s) /\ Len(s) \in Nat
        BY <2>3, <2>4
      <4> QED
        BY <4>1
    <3>2. n > 0 => n \in DOMAIN got[e]
      <4>1. n \in Nat /\ DOMAIN got[e] = 1 .. n
        BY <2>4
      <4> QED
        BY <4>1
    <3>3. n > 0 => Whole(s[n])
      BY <2>4, <3>2
    <3>4. KeepsBoundaries(s, total, t, sent'[Peer(e)])
      BY <2>3
    <3> QED
      BY <3>1, <3>3, <3>4 DEF KeepsBoundaries
  <2>7. pc[e] = "recvData" => /\ n < Len(t)
                              /\ t[n + 1].put >= HeaderSize
                              /\ t[n + 1].length = header[e]
    <3> SUFFICES ASSUME pc[e] = "recvData"
                 PROVE  /\ n < Len(t)
                        /\ t[n + 1].put >= HeaderSize
                        /\ t[n + 1].length = header[e]
      OBVIOUS
    <3>1. n + 1 \in DOMAIN s
      BY <2>3, <2>4
    <3>2. s[n + 1].put \in Nat /\ t[n + 1].put \in Int
      <4>1. TypeOK'
        BY <1>3, <2>1, TypeStep DEF Moves, Next
      <4>2. t \in Seq(Records)
        BY <2>1, <4>1 DEF TypeOK
      <4>3. n + 1 \in DOMAIN t
        <5>1. Len(t) \in Nat /\ Len(s) <= Len(t) /\ Len(s) \in Nat /\ n \in Nat /\ n < Len(s)
          BY <2>3, <2>4
        <5> QED
          BY <4>2, <5>1
      <4> QED
        BY <2>1, <3>1, <4>2, <4>3, RecordTypes
    <3>3. t[n + 1].put >= s[n + 1].put /\ t[n + 1].length = s[n + 1].length
      BY <2>3, <3>1 DEF KeepsRecord
    <3>4. n < Len(s) /\ s[n + 1].put >= HeaderSize /\ s[n + 1].length = header[e]
      BY <2>4
    <3>5. n < Len(t)
      <4>1. Len(s) <= Len(t) /\ Len(s) \in Nat /\ Len(t) \in Nat /\ n \in Nat
        BY <2>3, <2>4
      <4> QED
        BY <3>4, <4>1
    <3>6. t[n + 1].put >= HeaderSize
      BY <3>2, <3>3, <3>4, SizesAssumption
    <3> QED
      BY <3>3, <3>4, <3>5, <3>6
  <2> QED
    BY <1>1, <2>2, <2>3, <2>4, <2>5, <2>6, <2>7 DEF OrderInv
<1> QED
  BY <1>2, <1>3

----------------------------------------------------------------------------
(* The inductive invariant, and what follows from it.                        *)

\* The initial states satisfy the inductive invariant.
LEMMA IndInit ==
  ASSUME Init
  PROVE  IndInv
<1>1. TypeOK
  BY TypeInit
<1> SUFFICES ASSUME NEW e \in Ends
             PROVE  SendInv(e) /\ RecvInv(e) /\ ReplayInv(e) /\ OrderInv(e)
  BY <1>1 DEF IndInv
<1>2. Peer(e) \in Ends
  BY Peers
<1>3. /\ recs[e] = <<>> /\ recs[Peer(e)] = <<>> /\ got[e] = <<>> /\ pc[e] = "ready"
      /\ sent[e] = 0 /\ sent[Peer(e)] = 0 /\ taken[Peer(e)] = 0 /\ call[e].ret = "none"
  BY <1>2 DEF Init, SocketInit, NoCall
<1>4. Laid(<<>>, 0) /\ Settled(<<>>) /\ NoneOpen(<<>>)
  BY DEF Laid, Settled, NoneOpen
<1>5. SendInv(e) /\ RecvInv(e)
  BY <1>3, <1>4 DEF SendInv, RecvInv
<1>6. ReplayInv(e) /\ OrderInv(e)
  BY <1>3 DEF ReplayInv, OrderInv, Cursor, Boundary
<1> QED
  BY <1>5, <1>6

\* Every step keeps the inductive invariant.
LEMMA IndStep ==
  ASSUME IndInv, [Next]_vars
  PROVE  IndInv'
<1>1. TypeOK /\ TypeOK'
  BY TypeStep DEF IndInv
<1>2. ASSUME NEW e \in Ends, Moves(e)
      PROVE  IndInv'
  <2> SUFFICES ASSUME NEW d \in Ends
               PROVE  (SendInv(d) /\ RecvInv(d) /\ ReplayInv(d) /\ OrderInv(d))'
    BY <1>1 DEF IndInv
  <2>1. Peer(d) \in Ends /\ (e = d \/ e = Peer(d))
    BY DEF Ends, Peer
  <2>2. Moves(d) \/ Moves(Peer(d))
    BY <1>2, <2>1
  <2>3. SendInv(d)' /\ RecvInv(d)'
    <3>1. CASE e = d
      BY <1>1, <1>2, <3>1, SendInvStep, RecvInvStep DEF IndInv
    <3>2. CASE e # d
      <4>1. UNCHANGED Own(d)
        BY <1>1, <1>2, <3>2, OtherEnd
      <4> QED
        BY <4>1 DEF Own, IndInv, SendInv, RecvInv
    <3> QED
      BY <3>1, <3>2
  <2>4. ReplayInv(d)' /\ OrderInv(d)'
    BY <1>1, <2>1, <2>2, ReplayStep, OrderStep DEF IndInv
  <2> QED
    BY <2>3, <2>4
<1>3. ASSUME Abort \/ UNCHANGED vars
      PROVE  IndInv'
  <2>1. UNCHANGED <<sent, taken, call, pc, header, readMax, recs, from, got, tainted>>
    BY <1>3 DEF Abort, Reset, vars, iovars, sockvars
  <2>2. \A e \in Ends : SendInv(e)' /\ RecvInv(e)' /\ ReplayInv(e)' /\ OrderInv(e)'
    BY <2>1 DEF IndInv, SendInv, RecvInv, ReplayInv, OrderInv, InSync, Cursor
  <2> QED
    BY <1>1, <2>2 DEF IndInv
<1> QED
  BY <1>2, <1>3 DEF Next, Moves

\* The layout of the records, the ties between the calls and the streams, and
\* the receivers' places hold in every reachable state.
THEOREM Inductive == Spec => []IndInv
<1>1. Init => IndInv
  BY IndInit
<1>2. IndInv /\ [Next]_vars => IndInv'
  BY IndStep
<1> QED
  BY <1>1, <1>2, PTL DEF Spec

\* tls_record_recv_directly never asks for more bytes than the caller's buffer
\* holds, for every pair of limits with MaxPlain <= MaxFragment.
THEOREM BufferSafe == Spec => []RecvFitsBuffer
<1>1. IndInv => RecvFitsBuffer
  <2> SUFFICES ASSUME IndInv, NEW e \in Ends, pc[e] = "recvData"
               PROVE  call[e].length <= readMax[e]
    BY DEF RecvFitsBuffer
  <2>1. header[e] \in Nat /\ readMax[e] \in Nat /\ MaxFragment \in Nat
    BY SizesAssumption DEF IndInv, TypeOK
  <2>2. call[e].length = header[e] /\ header[e] <= MaxFragment /\ readMax[e] >= MaxFragment
    BY DEF IndInv, RecvInv
  <2> QED
    BY <2>1, <2>2
<1> QED
  BY <1>1, Inductive, PTL

\* tls_record_send_directly's result says whether the record is in the stream.
THEOREM ReportsTrue == Spec => []SendReportsTruth
<1>1. IndInv => SendReportsTruth
  BY DEF IndInv, SendInv, Settled, SendReportsTruth
<1> QED
  BY <1>1, Inductive, PTL

\* No record is delivered twice or after a later one, whatever fails and
\* however often callers try again.
THEOREM DeliveredOnce == Spec => []NeverReplayed
<1>1. IndInv => NeverReplayed
  BY DEF IndInv, ReplayInv, NeverReplayed
<1> QED
  BY <1>1, Inductive, PTL

\* In step, the caller has the peer's first records, whole and in order.
THEOREM DeliveredInOrder == Spec => []InOrderWhileInSync
<1>1. IndInv => InOrderWhileInSync
  BY DEF IndInv, OrderInv, InOrderWhileInSync
<1> QED
  BY <1>1, Inductive, PTL

----------------------------------------------------------------------------
(* Queues of records.                                                        *)

\* The first c records of s, as the channel shows them.
First(s, c) == [i \in 1 .. c |-> [id |-> i, length |-> s[i].length]]

\* How many records of s are whole, when all but the last one are.
WholeLen(s) == IF Len(s) > 0 /\ ~Whole(s[Len(s)]) THEN Len(s) - 1 ELSE Len(s)

Shown == [id : Nat, length : Nat]

\* The queue of a stream's first c records is a sequence of c shown records.
LEMMA FirstTypes ==
  ASSUME NEW s \in Seq(Records), NEW c \in Nat, c <= Len(s)
  PROVE  First(s, c) \in Seq(Shown) /\ Len(First(s, c)) = c
<1>1. \A i \in 1 .. c : i \in Nat /\ s[i].length \in Nat
  <2> SUFFICES ASSUME NEW i \in 1 .. c
               PROVE  i \in Nat /\ s[i].length \in Nat
    OBVIOUS
  <2>1. i \in DOMAIN s
    OBVIOUS
  <2> QED
    BY <2>1, RecordTypes
<1>2. \A i \in 1 .. c : [id |-> i, length |-> s[i].length] \in Shown
  BY <1>1 DEF Shown
<1> QED
  BY <1>2 DEF First

\* Records that keep their lengths look the same.
LEMMA FirstSame ==
  ASSUME NEW s, NEW t, NEW c \in Nat, \A i \in 1 .. c : t[i].length = s[i].length
  PROVE  First(t, c) = First(s, c)
BY DEF First

\* One more whole record in the stream is one more at the end of the queue.
LEMMA FirstAppend ==
  ASSUME NEW s \in Seq(Records), NEW c \in Nat, c < Len(s)
  PROVE  First(s, c + 1) = Append(First(s, c), [id |-> c + 1, length |-> s[c + 1].length])
<1> DEFINE q == First(s, c)
           x == [id |-> c + 1, length |-> s[c + 1].length]
           q2 == First(s, c + 1)
<1>1. q \in Seq(Shown) /\ Len(q) = c
  BY FirstTypes
<1>2. c + 1 \in DOMAIN s
  OBVIOUS
<1>3. x \in Shown
  BY <1>2, RecordTypes DEF Shown
<1>4. q2 \in Seq(Shown) /\ Len(q2) = c + 1
  <2>1. c + 1 \in Nat /\ c + 1 <= Len(s)
    OBVIOUS
  <2> QED
    BY <2>1, FirstTypes
<1>5. \A i \in 1 .. c : q2[i] = q[i]
  BY DEF First
<1>6. q2[c + 1] = x
  BY DEF First
<1> HIDE DEF q, x, q2
<1> QED
  BY <1>1, <1>3, <1>4, <1>5, <1>6 DEF q, x, q2

\* Where only the last record may be cut short, counting the whole records
\* tells how many of the first ones are whole.
LEMMA WholeCount ==
  ASSUME NEW s \in Seq(Records), \A i \in DOMAIN s : i < Len(s) => Whole(s[i])
  PROVE  /\ Cardinality({i \in DOMAIN s : Whole(s[i])}) = WholeLen(s)
         /\ WholeLen(s) \in Nat /\ WholeLen(s) <= Len(s)
<1>1. Len(s) \in Nat /\ DOMAIN s = 1 .. Len(s)
  OBVIOUS
<1>2. WholeLen(s) \in Nat /\ WholeLen(s) <= Len(s)
  BY <1>1 DEF WholeLen
<1>3. {i \in DOMAIN s : Whole(s[i])} = 1 .. WholeLen(s)
  <2>1. CASE Len(s) > 0 /\ ~Whole(s[Len(s)])
    <3>1. WholeLen(s) = Len(s) - 1
      BY <2>1 DEF WholeLen
    <3>2. \A i \in DOMAIN s : Whole(s[i]) <=> i < Len(s)
      BY <1>1, <2>1
    <3> QED
      BY <1>1, <3>1, <3>2
  <2>2. CASE ~(Len(s) > 0 /\ ~Whole(s[Len(s)]))
    <3>1. WholeLen(s) = Len(s)
      BY <2>2 DEF WholeLen
    <3>2. \A i \in DOMAIN s : Whole(s[i])
      BY <1>1, <2>2
    <3> QED
      BY <1>1, <3>1, <3>2
  <2> QED
    BY <2>1, <2>2
<1>4. Cardinality(1 .. WholeLen(s)) = WholeLen(s)
  BY <1>2, FS_Interval
<1> QED
  BY <1>2, <1>3, <1>4

----------------------------------------------------------------------------
(* The channel's variables.                                                  *)

Queued == [e \in Ends |-> IF InSync(Peer(e)) THEN QueueOf(e) ELSE <<>>]
Delivered == [e \in Ends |-> IF InSync(e) THEN DeliveredTo(e) ELSE <<>>]
Lost == [e \in Ends |-> ~InSync(e)]

Shows == <<Queued, Delivered, Lost>>

\* The channel's actions and their effects on what the mapping shows, with the
\* instance's variables replaced: later proofs use these and not the instance.
LEMMA ChannelSteps ==
  /\ Channel!chanvars = Shows
  /\ \A e \in Ends, n \in Lengths :
       (~Lost[Peer(e)]
        /\ Queued' = [Queued EXCEPT ![e] = Append(@, [id |-> Len(@) + 1, length |-> n])]
        /\ UNCHANGED <<Delivered, Lost>>) => Channel!Put(e, n)
  /\ \A e \in Ends :
       (~Lost[e] /\ Len(Delivered[e]) < Len(Queued[Peer(e)])
        /\ Delivered' = [Delivered EXCEPT ![e] = Append(@, Queued[Peer(e)][Len(@) + 1])]
        /\ UNCHANGED <<Queued, Lost>>) => Channel!Get(e)
  /\ \A e \in Ends :
       (~Lost[e] /\ Lost' = [Lost EXCEPT ![e] = TRUE]
        /\ Queued' = [Queued EXCEPT ![Peer(e)] = <<>>]
        /\ Delivered' = [Delivered EXCEPT ![e] = <<>>]) => Channel!Break(e)
BY DEF Shows, Queued, Delivered, Lost, Channel!chanvars, Channel!Put, Channel!Get, Channel!Break

\* The fields of an intact payload.
LEMMA IntactFields ==
  ASSUME NEW g, NEW i, g = [rec |-> i, intact |-> TRUE]
  PROVE  g.rec = i /\ g.intact
<1>1. g.rec = i
  OBVIOUS
<1>2. g.intact
  OBVIOUS
<1> QED
  BY <1>1, <1>2

\* What the channel shows of a direction in which nothing was lost.
ShownRight(e) ==
  LET s == recs[Peer(e)] IN
  /\ s \in Seq(Records) /\ got[e] \in Seq(Payloads)
  /\ \A i \in DOMAIN s : i < Len(s) => Whole(s[i])
  /\ WholeLen(s) \in Nat /\ WholeLen(s) <= Len(s)
  /\ QueueOf(Peer(e)) = First(s, WholeLen(s))
  /\ Len(got[e]) \in Nat /\ Len(got[e]) <= Len(s)
  /\ DeliveredTo(e) = First(s, Len(got[e]))

AllShownRight == \A e \in Ends : InSync(e) => ShownRight(e)

\* In a state of the invariant the payloads an end in sync was handed show as
\* the first records of its peer's queue.
LEMMA ShownInSync == IndInv => AllShownRight
<1> SUFFICES ASSUME IndInv, NEW e \in Ends, InSync(e)
             PROVE  ShownRight(e)
  BY DEF AllShownRight
<1> DEFINE s == recs[Peer(e)]
           n == Len(got[e])
<1>1. /\ TypeOK /\ Peer(e) \in Ends /\ SendInv(Peer(e)) /\ OrderInv(e)
      /\ s \in Seq(Records) /\ got[e] \in Seq(Payloads)
  BY Peers DEF IndInv, TypeOK
<1>2. \A i \in DOMAIN s : i < Len(s) => Whole(s[i])
  BY <1>1, InSyncWhole
<1>3. /\ Cardinality({i \in DOMAIN s : Whole(s[i])}) = WholeLen(s)
      /\ WholeLen(s) \in Nat /\ WholeLen(s) <= Len(s)
  BY <1>1, <1>2, WholeCount
<1>4. QueueOf(Peer(e)) = First(s, WholeLen(s))
  BY <1>3 DEF QueueOf, First
<1>5. /\ n \in Nat /\ DOMAIN got[e] = 1 .. n /\ n <= Len(s)
      /\ \A i \in DOMAIN got[e] : got[e][i] = [rec |-> i, intact |-> TRUE]
  BY <1>1 DEF OrderInv
<1>6. DeliveredTo(e) = First(s, n)
  <2>1. \A i \in 1 .. n : got[e][i].rec = i /\ got[e][i].intact
    <3> SUFFICES ASSUME NEW i \in 1 .. n
                 PROVE  got[e][i].rec = i /\ got[e][i].intact
      OBVIOUS
    <3>1. got[e][i] = [rec |-> i, intact |-> TRUE]
      BY <1>5
    <3> QED
      BY <3>1, IntactFields, Zenon
  <2> QED
    BY <1>5, <2>1 DEF DeliveredTo, First
<1> QED
  BY <1>1, <1>2, <1>3, <1>4, <1>5, <1>6 DEF ShownRight

\* The same in the next state.
LEMMA ShownInSyncNext == (IndInv => AllShownRight)'
BY ShownInSync, PTL

----------------------------------------------------------------------------
(* The steps.                                                                *)

\* Nothing the channel shows depends on more than these.
LEMMA Stutters ==
  ASSUME recs' = recs, got' = got, tainted' = tainted
  PROVE  UNCHANGED Shows
BY DEF Shows, Queued, Delivered, Lost, InSync, QueueOf, DeliveredTo

\* A receive that fails with part of a record taken breaks the direction.
LEMMA TaintBreaks ==
  ASSUME TypeOK, NEW e \in Ends, recs' = recs, got' = got,
         \A d \in Ends : d # e => tainted'[d] = tainted[d],
         InSync(e)' => InSync(e)
  PROVE  Channel!Break(e) \/ UNCHANGED Shows
<1>1. Peer(e) \in Ends /\ Peer(e) # e /\ \A d \in Ends : Peer(d) = e <=> d = Peer(e)
  BY DEF Ends, Peer
<1>2. \A d \in Ends : d # e => (InSync(d)' <=> InSync(d))
  BY DEF InSync
<1>3. \A d \in Ends : QueueOf(d)' = QueueOf(d) /\ DeliveredTo(d)' = DeliveredTo(d)
  BY DEF QueueOf, DeliveredTo
<1>4. CASE InSync(e)' <=> InSync(e)
  <2>1. \A d \in Ends : InSync(d)' <=> InSync(d)
    BY <1>2, <1>4
  <2>2. Queued' = Queued /\ Delivered' = Delivered /\ Lost' = Lost
    BY <1>1, <1>3, <2>1, Peers DEF Queued, Delivered, Lost
  <2> QED
    BY <2>2 DEF Shows
<1>5. CASE InSync(e) /\ ~InSync(e)'
  <2>1. Lost' = [Lost EXCEPT ![e] = TRUE]
    BY <1>2, <1>5, Zenon DEF Lost
  <2>2. Queued' = [Queued EXCEPT ![Peer(e)] = <<>>]
    BY <1>1, <1>2, <1>3, <1>5, Peers DEF Queued
  <2>3. Delivered' = [Delivered EXCEPT ![e] = <<>>]
    BY <1>2, <1>3, <1>5 DEF Delivered
  <2>4. ~Lost[e]
    BY <1>5 DEF Lost
  <2> QED
    BY <2>1, <2>2, <2>3, <2>4, ChannelSteps
<1>6. (InSync(e)' <=> InSync(e)) \/ (InSync(e) /\ ~InSync(e)')
  OBVIOUS
<1> QED
  BY <1>4, <1>5, <1>6

\* A payload that is handed over in step is the oldest record of the queue.
LEMMA ReturnGets ==
  ASSUME IndInv, IndInv', NEW e \in Ends, RecvReturns(e)
  PROVE  Channel!Get(e) \/ UNCHANGED Shows
<1> DEFINE s == recs[Peer(e)]
           n == Len(got[e])
<1>1. /\ recs' = recs /\ tainted' = tainted /\ DOMAIN got = Ends
      /\ got' = [got EXCEPT ![e] = Append(@, Handed(e))]
      /\ Peer(e) \in Ends
  BY Peers DEF RecvReturns, IndInv, TypeOK, Handed
<1>2. \A d \in Ends : /\ InSync(d)' <=> InSync(d)
                      /\ QueueOf(d)' = QueueOf(d)
                      /\ d # e => DeliveredTo(d)' = DeliveredTo(d)
  BY <1>1 DEF InSync, QueueOf, DeliveredTo
<1>3. Queued' = Queued /\ Lost' = Lost
  BY <1>2, Peers DEF Queued, Lost
<1>4. CASE ~InSync(e)
  <2>1. Delivered' = Delivered
    BY <1>2, <1>4 DEF Delivered
  <2> QED
    BY <1>3, <2>1 DEF Shows
<1>5. CASE InSync(e)
  <2>1. /\ s \in Seq(Records) /\ got[e] \in Seq(Payloads)
        /\ WholeLen(s) \in Nat /\ WholeLen(s) <= Len(s)
        /\ QueueOf(Peer(e)) = First(s, WholeLen(s))
        /\ n \in Nat /\ n <= Len(s)
        /\ DeliveredTo(e) = First(s, n)
    BY <1>5, ShownInSync DEF AllShownRight, ShownRight
  <2>2. InSync(e)'
    BY <1>2, <1>5
  <2>3. got'[e] = Append(got[e], Handed(e)) /\ Handed(e) \in Payloads
    BY <1>1, HandedTypes DEF IndInv
  <2>4. Len(got'[e]) = n + 1 /\ n + 1 \in DOMAIN got'[e]
    BY <2>1, <2>3
  <2>5. n + 1 <= Len(s) /\ Whole(s[n + 1]) /\ DeliveredTo(e)' = First(s, n + 1)
    <3>1. OrderInv(e)'
      BY DEF IndInv
    <3>2. Len(got'[e]) <= Len(s) /\ \A i \in DOMAIN got'[e] : Whole(s[i])
      BY <1>1, <2>2, <3>1 DEF OrderInv
    <3>3. DeliveredTo(e)' = First(s, Len(got'[e]))
      <4>3. DOMAIN got'[e] = 1 .. (n + 1)
        BY <2>1, <2>3
      <4>1. \A i \in DOMAIN got'[e] : got'[e][i] = [rec |-> i, intact |-> TRUE]
        BY <2>2, <3>1 DEF OrderInv
      <4>2. \A i \in 1 .. (n + 1) : got'[e][i].rec = i /\ got'[e][i].intact
        <5> SUFFICES ASSUME NEW i \in 1 .. (n + 1)
                     PROVE  got'[e][i].rec = i /\ got'[e][i].intact
          OBVIOUS
        <5>1. got'[e][i] = [rec |-> i, intact |-> TRUE]
          BY <4>1, <4>3
        <5> QED
          BY <5>1, IntactFields, Zenon
      <4> QED
        BY <1>1, <2>4, <4>2, <4>3 DEF DeliveredTo, First
    <3> QED
      BY <2>4, <3>2, <3>3
  <2>6. n < WholeLen(s)
    <3>1. Len(s) \in Nat
      BY <2>1
    <3>2. CASE n + 1 < Len(s)
      BY <2>1, <3>1, <3>2 DEF WholeLen
    <3>3. CASE n + 1 = Len(s)
      BY <2>1, <2>5, <3>1, <3>3 DEF WholeLen
    <3> QED
      BY <2>1, <2>5, <3>1, <3>2, <3>3
  <2>7. First(s, n + 1) = Append(First(s, n), [id |-> n + 1, length |-> s[n + 1].length])
    <3>1. n < Len(s)
      BY <2>1, <2>5
    <3> QED
      BY <2>1, <3>1, FirstAppend
  <2>8. /\ Delivered[e] = First(s, n) /\ Queued[Peer(e)] = First(s, WholeLen(s))
        /\ Len(Delivered[e]) = n /\ Len(Queued[Peer(e)]) = WholeLen(s)
    BY <1>1, <1>5, <2>1, Peers, FirstTypes DEF Delivered, Queued
  <2>9. Queued[Peer(e)][n + 1] = [id |-> n + 1, length |-> s[n + 1].length]
    <3>1. n + 1 \in 1 .. WholeLen(s)
      BY <2>1, <2>6
    <3> QED
      BY <2>8, <3>1 DEF First
  <2>10. Delivered' = [Delivered EXCEPT ![e] = First(s, n + 1)]
    BY <1>2, <2>2, <2>5 DEF Delivered
  <2>11. Delivered' = [Delivered EXCEPT ![e] = Append(@, Queued[Peer(e)][Len(@) + 1])]
    BY <2>7, <2>8, <2>9, <2>10
  <2>12. ~Lost[e]
    BY <1>5 DEF Lost
  <2> QED
    BY <1>3, <2>6, <2>8, <2>11, <2>12, ChannelSteps
<1> QED
  BY <1>4, <1>5

\* What a step of the sender does to its stream leaves the earlier records in
\* place and begins at most one.
LEMMA GrowsShape ==
  ASSUME NEW s \in Seq(Records), NEW total, NEW t, NEW total2, Grows(s, total, t, total2)
  PROVE  Len(t) = Len(s) \/ (Len(t) = Len(s) + 1 /\ \A i \in DOMAIN s : t[i] = s[i])
<1>1. ASSUME NEW r \in Records, t = Append(s, r)
      PROVE  Len(t) = Len(s) + 1 /\ \A i \in DOMAIN s : t[i] = s[i]
  BY <1>1
<1>2. ASSUME NEW k \in Nat, Len(s) > 0, t = PutMore(s, k)
      PROVE  Len(t) = Len(s)
  BY <1>2, PutMoreEffect
<1>3. ASSUME NEW status \in {"ok", "fail"}, Len(s) > 0, t = Finished(s, status)
      PROVE  Len(t) = Len(s)
  BY <1>3, FinishedEffect
<1> QED
  BY <1>1, <1>2, <1>3 DEF Grows

\* A step adds at most one whole record to a stream, at its end.
LEMMA WholeLenGrows ==
  ASSUME NEW s \in Seq(Records), NEW t \in Seq(Records), NEW total, NEW total2,
         Grows(s, total, t, total2),
         \A i \in DOMAIN s : i \in DOMAIN t /\ KeepsRecord(s[i], t[i]),
         \A i \in DOMAIN t : i < Len(t) => Whole(t[i])
  PROVE  /\ WholeLen(t) = WholeLen(s) \/ WholeLen(t) = WholeLen(s) + 1
         /\ WholeLen(s) <= Len(s) /\ WholeLen(t) <= Len(t)
<1>1. Len(s) \in Nat /\ Len(t) \in Nat /\ DOMAIN s = 1 .. Len(s) /\ DOMAIN t = 1 .. Len(t)
  OBVIOUS
<1>2. CASE Len(t) = Len(s)
  <2>1. Len(s) > 0 /\ Whole(s[Len(s)]) => Whole(t[Len(t)])
    BY <1>1, <1>2 DEF KeepsRecord
  <2>2. WholeLen(t) \in {Len(s) - 1, Len(s)} /\ WholeLen(s) \in {Len(s) - 1, Len(s)}
    BY <1>1, <1>2 DEF WholeLen
  <2>3. WholeLen(s) = Len(s) => WholeLen(t) = Len(s)
    BY <1>1, <1>2, <2>1 DEF WholeLen
  <2> QED
    BY <1>1, <1>2, <2>2, <2>3
<1>3. CASE Len(t) = Len(s) + 1 /\ \A i \in DOMAIN s : t[i] = s[i]
  <2>1. Len(s) > 0 => Whole(s[Len(s)])
    <3> SUFFICES ASSUME Len(s) > 0
                 PROVE  Whole(s[Len(s)])
      OBVIOUS
    <3>1. Len(s) \in DOMAIN s /\ Len(s) \in DOMAIN t /\ Len(s) < Len(t)
      BY <1>1, <1>3
    <3> QED
      BY <1>3, <3>1
  <2>2. WholeLen(s) = Len(s)
    BY <2>1 DEF WholeLen
  <2>3. WholeLen(t) \in {Len(t) - 1, Len(t)}
    BY <1>1 DEF WholeLen
  <2> QED
    BY <1>1, <1>3, <2>2, <2>3
<1> QED
  BY <1>2, <1>3, GrowsShape

\* The step of a sender puts a record in the queue with its last byte, breaks
\* the direction when it gives up on a record, or changes nothing.
LEMMA StreamPuts ==
  ASSUME IndInv, IndInv', NEW e \in Ends, Moves(e), got' = got, tainted' = tainted
  PROVE  (\E n \in Lengths : Channel!Put(e, n)) \/ Channel!Break(Peer(e)) \/ UNCHANGED Shows
<1> DEFINE p == Peer(e)
           s == recs[e]
           t == recs'[e]
<1>1. /\ p \in Ends /\ p # e /\ Peer(p) = e /\ TypeOK /\ SendInv(e) /\ RecvInv(p)
      /\ \A d \in Ends : d = e \/ d = p
  BY Peers DEF IndInv, Ends, Peer
<1>2. recs'[p] = recs[p]
  BY <1>1, PeerKept
<1>3. /\ InSync(e)' <=> InSync(e)
      /\ QueueOf(p)' = QueueOf(p)
      /\ DeliveredTo(e)' = DeliveredTo(e)
  BY <1>2 DEF InSync, QueueOf, DeliveredTo
<1>4. InSync(p)' => InSync(p)
  BY <1>1, SyncBefore
<1>5. CASE ~InSync(p)
  <2>1. ~InSync(p)'
    BY <1>4, <1>5
  <2>2. /\ \A d \in Ends : InSync(d)' <=> InSync(d)
        /\ \A d \in Ends : InSync(Peer(d)) => QueueOf(d)' = QueueOf(d)
        /\ \A d \in Ends : InSync(d) => DeliveredTo(d)' = DeliveredTo(d)
    BY <1>1, <1>3, <1>5, <2>1
  <2>3. Queued' = Queued /\ Delivered' = Delivered /\ Lost' = Lost
    BY <2>2, Peers DEF Queued, Delivered, Lost
  <2> QED
    BY <2>3 DEF Shows
<1>6. CASE InSync(p) /\ ~InSync(p)'
  <2>1. \A d \in Ends : d # p => (InSync(d)' <=> InSync(d))
    BY <1>1, <1>3
  <2>2. Lost' = [Lost EXCEPT ![p] = TRUE]
    BY <1>6, <2>1, Zenon DEF Lost
  <2>3. \A d \in Ends : Queued'[d] = IF d = e THEN <<>> ELSE Queued[d]
    BY <1>1, <1>3, <1>6 DEF Queued
  <2>4. Queued' = [Queued EXCEPT ![Peer(p)] = <<>>]
    BY <1>1, <2>3 DEF Queued
  <2>5. Delivered' = [Delivered EXCEPT ![p] = <<>>]
    BY <1>1, <1>3, <1>6 DEF Delivered
  <2>6. ~Lost[p]
    BY <1>1, <1>6 DEF Lost
  <2> QED
    BY <1>1, <2>2, <2>4, <2>5, <2>6, ChannelSteps
<1>7. CASE InSync(p) /\ InSync(p)'
  <2> DEFINE c == WholeLen(s)
             c2 == WholeLen(t)
             n == Len(got[p])
  <2>1. /\ s \in Seq(Records) /\ c \in Nat /\ c <= Len(s) /\ QueueOf(e) = First(s, c)
        /\ n \in Nat /\ n <= Len(s) /\ DeliveredTo(p) = First(s, n)
    BY <1>1, <1>7, ShownInSync DEF AllShownRight, ShownRight
  <2>2. /\ t \in Seq(Records) /\ c2 \in Nat /\ c2 <= Len(t) /\ QueueOf(e)' = First(t, c2)
        /\ DeliveredTo(p)' = First(t, n)
        /\ \A i \in DOMAIN t : i < Len(t) => Whole(t[i])
    <3>1. AllShownRight'
      BY ShownInSyncNext
    <3>2. ShownRight(p)'
      BY <1>1, <1>7, <3>1 DEF AllShownRight
    <3> QED
      BY <1>1, <3>2 DEF ShownRight
  <2>3. Grows(s, sent[e], t, sent'[e]) /\ Laid(s, sent[e]) /\ sent[e] \in Nat
    BY <1>1, StreamGrows DEF SendInv, TypeOK, SocketTypeOK
  <2>4. \A i \in DOMAIN s : i \in DOMAIN t /\ KeepsRecord(s[i], t[i])
    BY <2>1, <2>3, GrowsKeeps
  <2>5. c2 = c \/ c2 = c + 1
    BY <2>1, <2>2, <2>3, <2>4, WholeLenGrows
  <2>6. \A i \in 1 .. Len(s) : t[i].length = s[i].length
    BY <2>1, <2>4 DEF KeepsRecord
  <2>7. First(t, c) = First(s, c) /\ First(t, n) = First(s, n)
    <3>1. \A i \in 1 .. c : t[i].length = s[i].length
      BY <2>1, <2>6
    <3>2. \A i \in 1 .. n : t[i].length = s[i].length
      BY <2>1, <2>6
    <3> QED
      BY <2>1, <3>1, <3>2, FirstSame
  <2>8. /\ \A d \in Ends : InSync(d)' <=> InSync(d)
        /\ \A d \in Ends : DeliveredTo(d)' = DeliveredTo(d)
        /\ \A d \in Ends : d # e => QueueOf(d)' = QueueOf(d)
    BY <1>1, <1>3, <1>7, <2>1, <2>2, <2>7
  <2>9. Delivered' = Delivered /\ Lost' = Lost
    BY <2>8 DEF Delivered, Lost
  <2>10. CASE c2 = c
    <3>1. \A d \in Ends : QueueOf(d)' = QueueOf(d)
      BY <2>1, <2>2, <2>7, <2>8, <2>10
    <3>2. Queued' = Queued
      BY <2>8, <3>1, Peers DEF Queued
    <3> QED
      BY <2>9, <3>2 DEF Shows
  <2>11. CASE c2 = c + 1
    <3> DEFINE l == t[c + 1].length
    <3>1. c < Len(t) /\ c + 1 \in DOMAIN t
      BY <2>1, <2>2, <2>11
    <3>2. First(t, c2) = Append(First(s, c), [id |-> c + 1, length |-> l])
      BY <2>1, <2>2, <2>7, <2>11, <3>1, FirstAppend
    <3>3. l \in Lengths
      BY <3>1 DEF IndInv, SendInv, Settled
    <3>4. Queued[e] = First(s, c) /\ Len(Queued[e]) = c
      BY <1>1, <1>7, <2>1, FirstTypes DEF Queued
    <3>5. Queued' = [Queued EXCEPT ![e] = First(t, c2)]
      BY <1>1, <1>7, <2>2, <2>8, Peers DEF Queued
    <3>6. Queued' = [Queued EXCEPT ![e] = Append(@, [id |-> Len(@) + 1, length |-> l])]
      BY <3>2, <3>4, <3>5
    <3>7. ~Lost[Peer(e)]
      BY <1>1, <1>7 DEF Lost
    <3> QED
      BY <2>9, <3>3, <3>6, <3>7, ChannelSteps
  <2> QED
    BY <2>5, <2>10, <2>11
<1> QED
  BY <1>4, <1>5, <1>6, <1>7

\* Every step of the two ends is a step of the channel or shows nothing.
LEMMA ChannelNext ==
  ASSUME IndInv, IndInv', [Next]_vars
  PROVE  Channel!Next \/ UNCHANGED Shows
<1>1. ASSUME NEW e \in Ends, Moves(e)
      PROVE  Channel!Next \/ UNCHANGED Shows
  <2>1. Peer(e) \in Ends /\ TypeOK /\ SendInv(Peer(e)) /\ RecvInv(e)
    BY Peers DEF IndInv
  <2>2. CASE RecvReturns(e)
    BY <2>2, ReturnGets DEF Channel!Next
  <2>3. CASE (\E n : HeaderRejected(e, n)) \/ RecvFails(e)
    <3>1. /\ recs' = recs /\ got' = got
          /\ \A d \in Ends : d # e => tainted'[d] = tainted[d]
      BY <2>1, <2>3 DEF HeaderRejected, RecvFails, TypeOK
    <3>2. InSync(e)' => InSync(e)
      BY <1>1, <2>1, SyncBefore
    <3> QED
      BY <2>1, <3>1, <3>2, TaintBreaks DEF Channel!Next
  <2>4. CASE got' = got /\ tainted' = tainted
    BY <1>1, <2>1, <2>4, StreamPuts DEF Channel!Next
  <2>5. RecvReturns(e) \/ (\E n : HeaderRejected(e, n)) \/ RecvFails(e)
        \/ (got' = got /\ tainted' = tainted)
    BY <1>1 DEF Moves, Step, Caller, PutBytes, TakeBytes, HeaderSent, SendReturns, HeaderReceived,
       EndOfStream, LoopGivesUp, RecordSend, RefuseSend, RecordRecv, RefuseRecv, CloseConnection, iovars
  <2> QED
    BY <2>2, <2>3, <2>4, <2>5
<1>2. ASSUME Abort \/ UNCHANGED vars
      PROVE  UNCHANGED Shows
  BY <1>2, Stutters DEF Abort, vars, iovars
<1> QED
  BY <1>1, <1>2 DEF Next, Moves

\* The first states show two empty queues.
LEMMA ChannelInit ==
  ASSUME Init
  PROVE  Channel!Init
<1>1. \A e \in Ends : recs[e] = <<>> /\ got[e] = <<>> /\ ~tainted[e] /\ Peer(e) \in Ends
  BY Peers DEF Init
<1>2. \A e \in Ends : InSync(e)
  BY <1>1 DEF InSync
<1>3. \A e \in Ends : QueueOf(e) = <<>>
  <2> SUFFICES ASSUME NEW e \in Ends
               PROVE  QueueOf(e) = <<>>
    OBVIOUS
  <2>1. {i \in DOMAIN recs[e] : Whole(recs[e][i])} = {}
    BY <1>1
  <2>2. Cardinality({}) = 0
    BY FS_EmptySet
  <2>3. QueueOf(e) = [i \in 1 .. 0 |-> [id |-> i, length |-> recs[e][i].length]]
    BY <2>1, <2>2, Zenon DEF QueueOf
  <2> QED
    BY <2>3
<1>4. \A e \in Ends : DeliveredTo(e) = <<>>
  BY <1>1 DEF DeliveredTo
<1> QED
  BY <1>1, <1>2, <1>3, <1>4 DEF Channel!Init

\* The record layer implements the channel: two reliable queues, each until a
\* call of its direction fails part way.
THEOREM Implements == Spec => ImplementsChannel
<1>1. Init => Channel!Init
  BY ChannelInit
<1>2. IndInv /\ IndInv' /\ [Next]_vars => [Channel!Next]_(Channel!chanvars)
  BY ChannelNext DEF Shows, Queued, Delivered, Lost, Channel!chanvars
<1> QED
  BY <1>1, <1>2, Inductive, PTL DEF Spec, ImplementsChannel, Channel!Spec

=============================================================================
