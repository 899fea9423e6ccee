------------------------------ MODULE Winsock ------------------------------
(***************************************************************************)
(* win32/win32_sockets.cpp: the life of sockets (win32sockets_open and     *)
(* win32sockets_close), the static counter sockets_count, and the count of *)
(* startups that the Winsock library keeps for the process, which the code *)
(* raises with WSAStartup and lowers with WSACleanup.  When that count is  *)
(* 0 the library is down and takes every socket of the process with it.    *)
(*                                                                         *)
(* The caller is that of test/openssl_test/openssl_main.cpp: it takes a    *)
(* result below 0 for a failure and keeps any other, also the 0 of a       *)
(* refused connect.  What it keeps it closes once.                         *)
(***************************************************************************)
EXTENDS Integers, FiniteSets

CONSTANTS
  Sockets,       \* handles socket() may return
  SizeValues,    \* how many values size_t has, 2^64
  MaxOpens       \* bound: calls of win32sockets_open

INVALID_SOCKET == -1      \* as an int
NoSocket == 0             \* what a refused connect makes open return

ASSUME HandlesAssumption == IsFiniteSet(Sockets) /\ Sockets \subseteq Nat \ {NoSocket}
ASSUME BoundsAssumption == SizeValues \in Nat \ {0} /\ MaxOpens \in Nat

VARIABLES
  live,           \* sockets that are open in the kernel
  kept,           \* results of open that the caller will close, by their call
  sockets_count,  \* the static counter
  startups,       \* the library's count of startups
  opens,          \* calls of open so far
  strays          \* closes so far of what was no socket

vars == <<live, kept, sockets_count, startups, opens, strays>>

Init ==
  /\ live = {}
  /\ kept = {}
  /\ sockets_count = 0
  /\ startups = 0
  /\ opens = 0
  /\ strays = 0

\* What the caller does with the result of its call of open: if (sock < 0).
Keep(r) ==
  kept' = IF r < 0 THEN kept ELSE kept \cup {[call |-> opens', handle |-> r]}

Opening == opens < MaxOpens /\ opens' = opens + 1 /\ UNCHANGED strays

\* WSACleanup: the last one closes whatever the process has open.
Cleanup(open) ==
  IF startups > 0
  THEN startups' = startups - 1 /\ live' = IF startups = 1 THEN {} ELSE open
  ELSE startups' = 0 /\ live' = open

OpenFailsAndCleans ==
  /\ Opening
  /\ Keep(INVALID_SOCKET)
  /\ Cleanup(live)
  /\ UNCHANGED sockets_count

\* WSAStartup fails, or socket does and the startup is undone.
OpenFails ==
  /\ Opening
  /\ Keep(INVALID_SOCKET)
  /\ UNCHANGED <<live, sockets_count, startups>>

OpenRefusedCounts ==
  /\ Opening
  /\ Keep(NoSocket)
  /\ sockets_count' = (sockets_count + 1) % SizeValues
  /\ UNCHANGED <<live, startups>>

\* connect fails: the socket is closed, the startup undone, 0 returned.
OpenRefused ==
  /\ Opening
  /\ Keep(NoSocket)
  /\ UNCHANGED <<live, sockets_count, startups>>

OpenStartsTwice(s) ==
  /\ Opening
  /\ s \notin live
  /\ live' = live \cup {s}
  /\ Keep(s)
  /\ sockets_count' = (sockets_count + 1) % SizeValues
  /\ startups' = startups + 2

\* The connection is up.  A handle that is still in use is not given again;
\* that of a socket which went down may be.
OpenConnects(s) ==
  /\ Opening
  /\ s \notin live
  /\ live' = live \cup {s}
  /\ Keep(s)
  /\ sockets_count' = (sockets_count + 1) % SizeValues
  /\ startups' = startups + 1

\* The counter goes down also for a handle that was never counted; closesocket
\* does nothing with one that is no open socket.
Close(k) ==
  /\ k \in kept
  /\ kept' = kept \ {k}
  /\ strays' = IF k.handle = NoSocket THEN strays + 1 ELSE strays
  /\ sockets_count' = (sockets_count - 1) % SizeValues
  /\ LET open == live \ {k.handle}
     IN IF sockets_count' = 0 THEN Cleanup(open)
        ELSE live' = open /\ UNCHANGED startups
  /\ UNCHANGED opens

Next ==
  \/ OpenFails
  \/ OpenRefused
  \/ \E s \in Sockets : OpenConnects(s)
  \/ \E k \in kept : Close(k)

Spec == Init /\ [][Next]_vars

----------------------------------------------------------------------------
\* Types of the socket table and its two counters (win32_sockets.cpp:16).
TypeOK ==
  /\ live \subseteq Sockets
  /\ kept \subseteq [call : 1 .. opens, handle : Sockets \cup {NoSocket}]
  /\ sockets_count \in 0 .. SizeValues - 1
  /\ startups \in 0 .. opens
  /\ opens \in 0 .. MaxOpens
  /\ strays \in 0 .. opens

\* The sockets the caller was given and has not closed.
Held == {k \in kept : k.handle # NoSocket}

\* sockets_count is the number of sockets the caller holds less the closes of
\* results that were never counted (win32_sockets.cpp:45,94), modulo its
\* width: such a close hides a socket, and with none held the counter wraps.
CountsAgree == sockets_count = (Cardinality(Held) - strays) % SizeValues

\* A socket goes down under a caller that has not closed it only when a close
\* takes the library down because (modulo the counter's width) as many results
\* of refused connects have been closed as sockets are held, or when it has the
\* handle of one that went down so and is now closed (win32_sockets.cpp:90-98).
\* Hence no socket ever does before the first such result is closed, and no
\* call of open, whether it fails or not, takes one down.
KeptSocketsAreUp ==
  [][\A k \in kept \cap kept' : k.handle \in live \ live' =>
       \/ (Cardinality(Held) - strays)' % SizeValues = 0
       \/ \E j \in kept \ kept' : j.handle = k.handle]_vars
=============================================================================
