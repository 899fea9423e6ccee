--------------------------- MODULE RecordChannel ---------------------------
(***************************************************************************)
(* What the record layer promises its callers: in each direction a queue   *)
(* of records, each delivered whole, once and in order, until the channel  *)
(* of that direction breaks, after which nothing is promised.              *)
(***************************************************************************)
EXTENDS Naturals, Sequences

CONSTANTS Ends, Peer(_), Lengths

VARIABLES
  queued,     \* queued[e]: the records e has sent
  delivered,  \* delivered[e]: the records e has received
  broken      \* broken[e]: what e receives has lost its framing

chanvars == <<queued, delivered, broken>>

Init ==
  /\ queued = [e \in Ends |-> <<>>]
  /\ delivered = [e \in Ends |-> <<>>]
  /\ broken = [e \in Ends |-> FALSE]

\* e sends its next record, with n bytes of data.
Put(e, n) ==
  /\ ~broken[Peer(e)]
  /\ queued' = [queued EXCEPT ![e] = Append(@, [id |-> Len(@) + 1, length |-> n])]
  /\ UNCHANGED <<delivered, broken>>

\* e receives the oldest record it has not received.
Get(e) ==
  /\ ~broken[e]
  /\ Len(delivered[e]) < Len(queued[Peer(e)])
  /\ delivered' = [delivered EXCEPT ![e] = Append(@, queued[Peer(e)][Len(@) + 1])]
  /\ UNCHANGED <<queued, broken>>

\* A call that fails part way ends the promise for what e receives.
Break(e) ==
  /\ ~broken[e]
  /\ broken' = [broken EXCEPT ![e] = TRUE]
  /\ queued' = [queued EXCEPT ![Peer(e)] = <<>>]
  /\ delivered' = [delivered EXCEPT ![e] = <<>>]

Next == \E e \in Ends : (\E n \in Lengths : Put(e, n)) \/ Get(e) \/ Break(e)

Spec == Init /\ [][Next]_chanvars
=============================================================================
