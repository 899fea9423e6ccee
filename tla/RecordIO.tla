------------------------------ MODULE RecordIO ------------------------------
(***************************************************************************)
(* The record layer of tls_record.cpp as the handshake starts with it:     *)
(* ciper_type is Ciper_stream, so tls_record_send and tls_record_recv hand *)
(* the caller's data to tls_record_send_directly and                       *)
(* tls_record_recv_directly, which move a header and then a payload        *)
(* through the socket loops of module Sockets.  Both ends run this code.   *)
(*                                                                         *)
(* A record in the stream is its place (start), the length its header      *)
(* states, and how many of its bytes were put in the stream: a send that   *)
(* fails half way leaves a record that is not whole, with the next record  *)
(* right behind it.  A header read at a place that is not the start of a   *)
(* record, or that is not whole, holds an arbitrary length.                *)
(***************************************************************************)
EXTENDS Sockets, Integers, Sequences, FiniteSets

CONSTANTS
  HeaderSize,      \* sizeof(TLS_RECORD_MESSAGE_HEADER), 5
  MaxPlain,        \* 1 << 14
  MaxFragment,     \* (1 << 14) + 2048
  Lengths,         \* data lengths callers pass to tls_record_send
  Buffers,         \* buffer sizes callers pass to tls_record_recv
  GarbageLengths,  \* lengths that bytes which are no header may spell
  Closers,         \* the ends whose caller may close the connection
  MaxCalls         \* bound: calls each end's caller makes

ASSUME SizesAssumption ==
  /\ HeaderSize \in Nat \ {0}
  /\ MaxPlain \in Nat
  /\ MaxFragment \in Nat
  /\ MaxPlain <= MaxFragment
ASSUME ArgumentsAssumption ==
  /\ Lengths \subseteq Nat
  /\ Buffers \subseteq Nat
  /\ GarbageLengths \subseteq Nat
  /\ Closers \subseteq Ends
  /\ MaxCalls \in Nat

VARIABLES
  pc,        \* pc[e]: where e is in tls_record_send or tls_record_recv
  header,    \* header[e]: p_header->length of e's call
  readMax,   \* readMax[e]: read_max_bytes of e's receiving call
  result,    \* result[e]: what e's last call returned
  calls,     \* calls[e]: calls e's caller has made
  recs,      \* recs[e]: the records in e's stream
  from,      \* from[e]: where in the peer's stream e's receiving call began
  got,       \* got[e]: the payloads e's caller was handed
  tainted    \* tainted[e]: a call of e failed with part of a record taken

iovars == <<pc, header, readMax, result, calls, recs, from, got, tainted>>
vars == <<sockvars, iovars>>

Failure == -1          \* (size_t)-1

Records == [start : Nat, length : Nat, put : Nat, status : {"open", "ok", "fail"}]
Payloads == [rec : Nat, intact : BOOLEAN]

Size(r) == HeaderSize + r.length
Whole(r) == r.put = Size(r)

Init ==
  /\ SocketInit
  /\ pc = [e \in Ends |-> "ready"]
  /\ header = [e \in Ends |-> 0]
  /\ readMax = [e \in Ends |-> 0]
  /\ result = [e \in Ends |-> 0]
  /\ calls = [e \in Ends |-> 0]
  /\ recs = [e \in Ends |-> <<>>]
  /\ from = [e \in Ends |-> 0]
  /\ got = [e \in Ends |-> <<>>]
  /\ tainted = [e \in Ends |-> FALSE]

\* The caller of end e makes one more call.
Called(e) ==
  /\ pc[e] = "ready"
  /\ ~closed[e]
  /\ calls[e] < MaxCalls
  /\ calls' = [calls EXCEPT ![e] = @ + 1]

\* A call of end e returns r to its caller.
Return(e, r) ==
  /\ pc' = [pc EXCEPT ![e] = "ready"]
  /\ result' = [result EXCEPT ![e] = r]

----------------------------------------------------------------------------
(* Sending.                                                                *)

\* tls_record_send with no more than 1 << 14 bytes: the header goes first.
RecordSend(e, n) ==
  /\ Called(e)
  /\ n <= MaxPlain
  /\ header' = [header EXCEPT ![e] = n]
  /\ pc' = [pc EXCEPT ![e] = "sendHead"]
  /\ Invoke(e, "send", HeaderSize)
  /\ UNCHANGED <<sent, taken, closed, reset, readMax, result, recs, from, got, tainted>>

\* tls_record_send returns 0 and sends nothing.
RefuseSend(e, n) ==
  /\ Called(e)
  /\ n > MaxPlain
  /\ Return(e, 0)
  /\ header' = [header EXCEPT ![e] = n]
  /\ UNCHANGED <<sockvars, readMax, recs, from, got, tainted>>

\* k more bytes of the last record are in the stream; its send has ended.
PutMore(s, k) == [s EXCEPT ![Len(s)].put = @ + k]
Finished(s, status) == [s EXCEPT ![Len(s)].status = status]

\* The bytes send takes: the first ones of a header begin a record.
PutBytes(e, k) ==
  /\ pc[e] \in {"sendHead", "sendData"}
  /\ SendSome(e, k)
  /\ recs' = [recs EXCEPT ![e] =
       IF pc[e] = "sendHead" /\ call[e].bytes = 0
       THEN Append(@, [start |-> sent[e], length |-> header[e], put |-> k,
                       status |-> "open"])
       ELSE PutMore(@, k)]
  /\ UNCHANGED <<pc, header, readMax, result, calls, from, got, tainted>>

\* The header is out: tls_record_send_directly sends the data.
HeaderSent(e) ==
  /\ pc[e] = "sendHead"
  /\ call[e].ret = "ok"
  /\ pc' = [pc EXCEPT ![e] = "sendData"]
  /\ Invoke(e, "send", header[e])
  /\ UNCHANGED <<sent, taken, closed, reset, header, readMax, result, calls, recs,
                 from, got, tainted>>

\* The last win32sockets_send ends the call; a failure to send the header
\* skips the data.
SendReturnsIgnoringHeader(e) ==
  /\ \/ pc[e] = "sendHead" /\ call[e].ret = "error"
     \/ pc[e] = "sendData" /\ call[e].ret \in {"ok", "error"}
  /\ Return(e, header[e])
  /\ recs' = [recs EXCEPT ![e] = IF Len(@) > 0 /\ @[Len(@)].status = "open"
                                 THEN Finished(@, "ok")
                                 ELSE @]
  /\ UNCHANGED <<sockvars, header, readMax, calls, from, got, tainted>>

SendReturns(e) ==
  /\ \/ pc[e] = "sendHead" /\ call[e].ret = "error"
     \/ pc[e] = "sendData" /\ call[e].ret \in {"ok", "error"}
  /\ Return(e, IF call[e].ret = "ok" THEN header[e] ELSE Failure)
  /\ recs' = [recs EXCEPT ![e] =
       IF pc[e] = "sendHead" /\ call[e].bytes = 0 THEN @
       ELSE Finished(@, IF call[e].ret = "ok" THEN "ok" ELSE "fail")]
  /\ UNCHANGED <<sockvars, header, readMax, calls, from, got, tainted>>

----------------------------------------------------------------------------
(* Receiving.                                                              *)

BigEnoughForPlain(c) == c >= MaxPlain

BigEnough(c) == c >= MaxPlain /\ c >= MaxFragment

\* tls_record_recv with a buffer for the largest fragment: the header first.
RecordRecv(e, c) ==
  /\ Called(e)
  /\ BigEnough(c)
  /\ header' = [header EXCEPT ![e] = c]
  /\ readMax' = [readMax EXCEPT ![e] = c]
  /\ from' = [from EXCEPT ![e] = taken[Peer(e)]]
  /\ pc' = [pc EXCEPT ![e] = "recvHead"]
  /\ Invoke(e, "recv", HeaderSize)
  /\ UNCHANGED <<sent, taken, closed, reset, result, recs, got, tainted>>

\* A smaller buffer is refused with 0: by tls_record_recv below 1 << 14, by
\* tls_record_recv_directly below (1 << 14) + 2048.
RefuseRecv(e, c) ==
  /\ Called(e)
  /\ ~BigEnough(c)
  /\ Return(e, 0)
  /\ header' = [header EXCEPT ![e] = c]
  /\ UNCHANGED <<sockvars, readMax, recs, from, got, tainted>>

TakeBytes(e, k) ==
  /\ pc[e] \in {"recvHead", "recvData"}
  /\ RecvSome(e, k)
  /\ UNCHANGED iovars

EndOfStream(e) ==
  /\ pc[e] \in {"recvHead", "recvData"}
  /\ RecvEof(e)
  /\ UNCHANGED iovars

\* The records of e's peer whose header is the HeaderSize bytes e's call
\* has read from position from[e] on.
Aligned(e) ==
  {i \in DOMAIN recs[Peer(e)] : /\ recs[Peer(e)][i].start = from[e]
                                /\ recs[Peer(e)][i].put >= HeaderSize}

HeaderLengths(e) == IF Aligned(e) = {} THEN GarbageLengths
                    ELSE {recs[Peer(e)][i].length : i \in Aligned(e)}

\* The header is in, in p_header: its length is that of the payload.
HeaderReceived(e, n) ==
  /\ pc[e] = "recvHead"
  /\ call[e].ret = "ok"
  /\ n \in HeaderLengths(e)
  /\ n <= MaxFragment
  /\ header' = [header EXCEPT ![e] = n]
  /\ pc' = [pc EXCEPT ![e] = "recvData"]
  /\ Invoke(e, "recv", n)
  /\ UNCHANGED <<sent, taken, closed, reset, readMax, result, calls, recs, from, got,
                 tainted>>

\* A length no fragment can have: the call fails with the header consumed.
HeaderRejected(e, n) ==
  /\ pc[e] = "recvHead"
  /\ call[e].ret = "ok"
  /\ n \in HeaderLengths(e)
  /\ n > MaxFragment
  /\ header' = [header EXCEPT ![e] = n]
  /\ Return(e, Failure)
  /\ tainted' = [tainted EXCEPT ![e] = TRUE]
  /\ UNCHANGED <<sockvars, readMax, calls, recs, from, got>>

\* A failing call returns (size_t)-1; what it has taken is gone.
RecvFails(e) ==
  /\ pc[e] \in {"recvHead", "recvData"}
  /\ call[e].ret = "error"
  /\ Return(e, Failure)
  /\ tainted' = [tainted EXCEPT ![e] = @ \/ taken[Peer(e)] > from[e]]
  /\ UNCHANGED <<sockvars, header, readMax, calls, recs, from, got>>

\* The payload is in the caller's buffer.  It is record i of the peer, whole,
\* or bytes that are not the payload of a record (rec 0).
RecvReturns(e) ==
  /\ pc[e] = "recvData"
  /\ call[e].ret = "ok"
  /\ Return(e, header[e])
  /\ got' = [got EXCEPT ![e] = Append(@,
       IF Aligned(e) = {} THEN [rec |-> 0, intact |-> FALSE]
       ELSE LET i == CHOOSE i \in Aligned(e) : TRUE
            IN  [rec |-> i, intact |-> Whole(recs[Peer(e)][i])])]
  /\ UNCHANGED <<sockvars, header, readMax, calls, recs, from, tainted>>

----------------------------------------------------------------------------
(* The connection.                                                         *)

LoopGivesUp(e) == (Timeout(e) \/ SocketError(e)) /\ UNCHANGED iovars

CloseConnection(e) ==
  /\ e \in Closers
  /\ pc[e] = "ready"
  /\ Close(e)
  /\ UNCHANGED iovars

Abort == Reset /\ UNCHANGED iovars

\* What the code of end e does by itself once it is called.
Step(e) ==
  \/ \E k \in 0 .. Capacity : PutBytes(e, k) \/ TakeBytes(e, k)
  \/ HeaderSent(e) \/ SendReturns(e)
  \/ \E n \in GarbageLengths \cup Lengths : HeaderReceived(e, n) \/ HeaderRejected(e, n)
  \/ EndOfStream(e) \/ RecvFails(e) \/ RecvReturns(e)
  \/ LoopGivesUp(e)

\* What its caller does.
Caller(e) ==
  \/ \E n \in Lengths : RecordSend(e, n) \/ RefuseSend(e, n)
  \/ \E c \in Buffers : RecordRecv(e, c) \/ RefuseRecv(e, c)
  \/ CloseConnection(e)

Next == (\E e \in Ends : Step(e) \/ Caller(e)) \/ Abort

Fairness == \A e \in Ends : WF_vars(Step(e))

Spec == Init /\ [][Next]_vars
FairSpec == Spec /\ Fairness

----------------------------------------------------------------------------
(* Properties.                                                             *)

\* Types of the record layer's state (the call stack of tls_record.cpp:48-95
\* as pc, and the loop that runs in each of its places).
TypeOK ==
  /\ SocketTypeOK
  /\ pc \in [Ends -> {"ready", "sendHead", "sendData", "recvHead", "recvData"}]
  /\ header \in [Ends -> Nat]
  /\ readMax \in [Ends -> Nat]
  /\ result \in [Ends -> Nat \cup {Failure}]
  /\ calls \in [Ends -> 0 .. MaxCalls]
  /\ recs \in [Ends -> Seq(Records)]
  /\ from \in [Ends -> Nat]
  /\ got \in [Ends -> Seq(Payloads)]
  /\ tainted \in [Ends -> BOOLEAN]

\* tls_record_recv_directly never asks the socket for more bytes than the
\* caller's buffer holds, whatever length the header it has read states:
\* the check of the buffer before the header is read (tls_record.cpp:73-76)
\* and the check of the header after it (85-88) together bound the payload.
RecvFitsBuffer ==
  \A e \in Ends : pc[e] = "recvData" => call[e].length <= readMax[e]

\* A record the sender's caller gave up on with some of its bytes missing.
Broken(r) == r.status = "fail" /\ ~Whole(r)

InSync(e) == ~tainted[e] /\ \A i \in DOMAIN recs[Peer(e)] : ~Broken(recs[Peer(e)][i])

\* As long as no send failed half way through a record and no receive failed
\* with part of one, the caller has been handed the peer's records, each whole
\* and exactly once, in the order they were sent, however the loops of the
\* two ends cut the stream; a receive that times out before the first byte,
\* or a send that does, can be tried again (tls_record.cpp:48-95).
InOrderWhileInSync ==
  \A e \in Ends : InSync(e) =>
    /\ Len(got[e]) <= Len(recs[Peer(e)])
    /\ \A i \in DOMAIN got[e] : got[e][i] = [rec |-> i, intact |-> TRUE]

\* Even after failures and retries on both sides no record is handed to the
\* caller twice, or after a later one.
NeverReplayed ==
  \A e \in Ends : \A i, j \in DOMAIN got[e] :
    i < j /\ got[e][i].rec # 0 /\ got[e][j].rec # 0 => got[e][i].rec < got[e][j].rec

\* tls_record_send_directly tells the truth: a length means the record is in
\* the stream as a whole, (size_t)-1 that bytes of it are missing; except for
\* a record without data, whose header alone may be out when the turn of the
\* loop that sends nothing times out (win32_sockets.cpp:56-66).
SendReportsTruth ==
  \A e \in Ends : \A i \in DOMAIN recs[e] :
    LET r == recs[e][i] IN
    /\ r.status = "ok" => Whole(r)
    /\ r.status = "fail" /\ r.length > 0 => ~Whole(r)

\* The two returns of the receive loop in front of its recv are for a timeout
\* and for an error of select (the comment at win32_sockets.cpp:79; the record
\* layer's own at tls_record.cpp:82 knows no other failure either): with a
\* limit of 10 seconds for each select, every receive loop comes to an end.
RecvEndsByTimeout == \A e \in Ends : [](Running(e, "recv") => <>~Running(e, "recv"))

\* e is inside a send that waits for room, and the connection is full.
StuckInSend(e) == call[e].waits /\ InFlight(e) = Capacity /\ ~reset

\* While nobody closes, a call that never returns is a blocking send with
\* the connection full for ever (win32_sockets.cpp:61).  Hence every receive
\* returns, so does a send whose header or first bytes find no room, and one
\* that waits returns once the peer goes on receiving; both ends wait for each
\* other for ever only where each has sent more than the connection holds.
\* Where a peer may close, not even receives return: see the run that refutes it.
CallsReturn == \A e \in Ends : []<>(pc[e] = "ready") \/ <>[]StuckInSend(e)

----------------------------------------------------------------------------
(* The channel the two ends implement.  A record enters the queue with its *)
(* last byte and leaves it when it is handed to the receiver's caller.     *)

\* The records of end e that are whole: in sync, all but possibly the last.
QueueOf(e) ==
  LET n == Cardinality({i \in DOMAIN recs[e] : Whole(recs[e][i])})
  IN  [i \in 1 .. n |-> [id |-> i, length |-> recs[e][i].length]]

DeliveredTo(e) ==
  [i \in DOMAIN got[e] |->
     [id |-> got[e][i].rec,
      length |-> IF got[e][i].intact THEN recs[Peer(e)][got[e][i].rec].length ELSE 0]]

Channel == INSTANCE RecordChannel WITH
  queued <- [e \in Ends |-> IF InSync(Peer(e)) THEN QueueOf(e) ELSE <<>>],
  delivered <- [e \in Ends |-> IF InSync(e) THEN DeliveredTo(e) ELSE <<>>],
  broken <- [e \in Ends |-> ~InSync(e)]

\* The record layer over the socket loops is a pair of reliable queues until
\* a call fails part way: every step of the code is a step of RecordChannel
\* or changes nothing that its callers can tell (tls_record.cpp:48-95).
ImplementsChannel == Channel!Spec
=============================================================================
