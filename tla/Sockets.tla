------------------------------ MODULE Sockets ------------------------------
(***************************************************************************)
(* win32/win32_sockets.cpp: the select/send and select/recv loops of       *)
(* win32sockets_send and win32sockets_recv, run by the two ends of one TCP *)
(* connection.  A byte stream is represented by how many of its bytes were *)
(* put in it and how many were taken out of it; what the bytes mean is the *)
(* business of the record layer (module RecordIO).                         *)
(*                                                                         *)
(* Each end is single threaded: it runs at most one of the two loops at a  *)
(* time, and each turn of a loop (one select and one send or recv) is a    *)
(* step, except that the sockets are blocking: a send that select let      *)
(* through may take some of its bytes and wait, inside the call, for room  *)
(* for the others.  The time limit is select's; there is none inside send. *)
(* The caller starts a loop with Invoke and reads call[e].ret.             *)
(***************************************************************************)
EXTENDS Naturals

CONSTANT Capacity      \* bytes the two kernels hold for one direction

ASSUME CapacityAssumption == Capacity \in Nat \ {0}

VARIABLES
  sent,     \* sent[e]: bytes end e has put in its stream
  taken,    \* taken[e]: bytes of e's stream its peer has taken out
  closed,   \* closed[e]: the peer has been told that e sends nothing more
  reset,    \* the connection was aborted
  call      \* call[e]: the loop end e runs, or the last one it ran

sockvars == <<sent, taken, closed, reset, call>>

Ends == {"client", "server"}
Peer(e) == IF e = "client" THEN "server" ELSE "client"

\* bytes counts what the call has moved, waits that it is inside send.
Calls == [op : {"none", "send", "recv"}, length : Nat, bytes : Nat,
          ret : {"none", "busy", "ok", "error"}, waits : BOOLEAN]

NoCall == [op |-> "none", length |-> 0, bytes |-> 0, ret |-> "none", waits |-> FALSE]

SocketInit ==
  /\ sent = [e \in Ends |-> 0]
  /\ taken = [e \in Ends |-> 0]
  /\ closed = [e \in Ends |-> FALSE]
  /\ reset = FALSE
  /\ call = [e \in Ends |-> NoCall]

InFlight(e) == sent[e] - taken[e]
Running(e, op) == call[e].op = op /\ call[e].ret = "busy"

\* The caller enters win32sockets_send or win32sockets_recv for n bytes.
Invoke(e, op, n) ==
  call' = [call EXCEPT ![e] = [op |-> op, length |-> n, bytes |-> 0,
                               ret |-> "busy", waits |-> FALSE]]

\* send_bytes += send_ret, and the loop goes on while (send_bytes < length).
AdvanceForgetsTotal(e, k) ==
  call' = [call EXCEPT ![e].bytes = @ + k, ![e].ret = "ok", ![e].waits = FALSE]

Advance(e, k) ==
  LET total == call[e].bytes + k IN
  call' = [call EXCEPT ![e].bytes = total,
                       ![e].ret = IF total < call[e].length THEN "busy" ELSE "ok",
                       ![e].waits = FALSE]

\* send has taken k bytes and does not return before it has room for more.
WaitInSend(e, k) ==
  /\ k < call[e].length - call[e].bytes
  /\ call' = [call EXCEPT ![e].bytes = @ + k, ![e].waits = TRUE]

\* return (size_t)-1
GiveUp(e) == call' = [call EXCEPT ![e].ret = "error", ![e].waits = FALSE]

----------------------------------------------------------------------------
\* Select finds room, or room comes up while send waits: send takes k bytes
\* of what is left.  Then it returns, with all or with some of them, or it
\* waits.  A call for 0 bytes makes one turn as well (do ... while).
SendSome(e, k) ==
  /\ Running(e, "send")
  /\ ~reset
  /\ InFlight(e) < Capacity
  /\ k <= call[e].length - call[e].bytes
  /\ k <= Capacity - InFlight(e)
  /\ k = 0 => call[e].length = 0
  /\ sent' = [sent EXCEPT ![e] = @ + k]
  /\ Advance(e, k) \/ WaitInSend(e, k)
  /\ UNCHANGED <<taken, closed, reset>>

RecvPeeks(e, k) ==
  /\ Running(e, "recv")
  /\ ~reset
  /\ InFlight(Peer(e)) > 0
  /\ k <= call[e].length - call[e].bytes
  /\ k <= InFlight(Peer(e))
  /\ k = 0 => call[e].length = 0
  /\ Advance(e, k)
  /\ UNCHANGED <<sent, taken, closed, reset>>

\* One turn of the receive loop with bytes of the peer's stream at hand.
RecvSome(e, k) ==
  /\ Running(e, "recv")
  /\ ~reset
  /\ InFlight(Peer(e)) > 0
  /\ k <= call[e].length - call[e].bytes
  /\ k <= InFlight(Peer(e))
  /\ k = 0 => call[e].length = 0
  /\ taken' = [taken EXCEPT ![Peer(e)] = @ + k]
  /\ Advance(e, k)
  /\ UNCHANGED <<sent, closed, reset>>

\* The peer has closed and its stream is drained: select reports the socket
\* readable and recv returns 0, which the loop adds to recv_bytes.
RecvEof(e) ==
  /\ Running(e, "recv")
  /\ ~reset
  /\ closed[Peer(e)]
  /\ InFlight(Peer(e)) = 0
  /\ Advance(e, 0)
  /\ UNCHANGED <<sent, taken, closed, reset>>

\* select waits 10 seconds in vain: no room to send, or no byte has arrived
\* (bytes in flight may be late; a drained, closed stream is readable).  A
\* send that has begun is past select.
TimeoutOfRecvOnly(e) ==
  /\ Running(e, "recv")
  /\ ~reset
  /\ ~(closed[Peer(e)] /\ InFlight(Peer(e)) = 0)
  /\ GiveUp(e)
  /\ UNCHANGED <<sent, taken, closed, reset>>

Timeout(e) ==
  /\ \/ Running(e, "send") /\ ~call[e].waits /\ InFlight(e) = Capacity
     \/ Running(e, "recv") /\ ~(closed[Peer(e)] /\ InFlight(Peer(e)) = 0)
  /\ ~reset
  /\ GiveUp(e)
  /\ UNCHANGED <<sent, taken, closed, reset>>

\* select, send or recv returns SOCKET_ERROR on an aborted connection.
SocketError(e) ==
  /\ call[e].ret = "busy"
  /\ reset
  /\ GiveUp(e)
  /\ UNCHANGED <<sent, taken, closed, reset>>

\* closesocket: the end of e's stream is announced to the peer.
Close(e) ==
  /\ call[e].ret # "busy"
  /\ ~closed[e]
  /\ closed' = [closed EXCEPT ![e] = TRUE]
  /\ UNCHANGED <<sent, taken, reset, call>>

\* The network or a kernel aborts the connection.
Reset ==
  /\ ~reset
  /\ reset' = TRUE
  /\ UNCHANGED <<sent, taken, closed, call>>

----------------------------------------------------------------------------
\* Types, and what the transport guarantees: no byte is taken that was not
\* sent, the kernels hold at most Capacity of them, and a loop never moves
\* more bytes than it was asked for (win32_sockets.cpp:56-66 and 76-86).
SocketTypeOK ==
  /\ sent \in [Ends -> Nat]
  /\ taken \in [Ends -> Nat]
  /\ closed \in [Ends -> BOOLEAN]
  /\ reset \in BOOLEAN
  /\ call \in [Ends -> Calls]
  /\ \A e \in Ends : /\ taken[e] <= sent[e]
                     /\ InFlight(e) <= Capacity
                     /\ call[e].bytes <= call[e].length
                     /\ call[e].ret = "ok" => call[e].bytes = call[e].length
                     /\ call[e].waits => /\ Running(e, "send")
                                         /\ call[e].bytes < call[e].length
=============================================================================
