----------------------------- MODULE ReceiveLoop -----------------------------
(***************************************************************************)
(* What a socket receive multiplexer promises its users, without events,  *)
(* handles or timers: between Runs the owner attaches and detaches         *)
(* sockets; Run delivers the datagrams waiting on attached sockets, each   *)
(* socket's in arrival order, one at a time; a datagram taken is handed to *)
(* its listener, or dropped only once a stop has been requested; Break,    *)
(* AsynchronousBreak or a "__stop_" datagram requests a stop, and Run      *)
(* returns only once one has been requested since it began.                *)
(***************************************************************************)
EXTENDS Sequences

CONSTANTS Sockets, PacketKinds

VARIABLES
  running,    \* a Run is in progress
  attached,   \* sockets with a listener
  pending,    \* socket |-> datagrams waiting, oldest first
  stopReq,    \* a stop has been requested since the current Run began
  inHand      \* a datagram has been taken and not yet handed on or dropped

vars == <<running, attached, pending, stopReq, inHand>>

Init ==
  /\ running = FALSE /\ attached = {} /\ stopReq = FALSE /\ inHand = FALSE
  /\ pending = [s \in Sockets |-> <<>>]

Configure ==
  /\ ~running
  /\ \E a \in SUBSET Sockets : attached' = a
  /\ UNCHANGED <<running, pending, stopReq, inHand>>

Start ==
  /\ ~running
  /\ running' = TRUE /\ stopReq' = FALSE
  /\ UNCHANGED <<attached, pending, inHand>>

Arrive(s, k) ==
  /\ pending' = [pending EXCEPT ![s] = Append(@, k)]
  /\ UNCHANGED <<running, attached, stopReq, inHand>>

\* The oldest datagram of an attached socket is taken; "__stop_" requests
\* the stop instead of being handed on.
Consume(s) ==
  /\ running /\ ~inHand /\ s \in attached /\ pending[s] # <<>>
  /\ pending' = [pending EXCEPT ![s] = Tail(@)]
  /\ stopReq' = (stopReq \/ Head(pending[s]) = "stop")
  /\ inHand' = (Head(pending[s]) # "stop")
  /\ UNCHANGED <<running, attached>>

\* The datagram taken reaches its listener, which may itself request a stop.
Deliver ==
  /\ inHand /\ inHand' = FALSE
  /\ stopReq' \in {stopReq, TRUE}
  /\ UNCHANGED <<running, attached, pending>>

\* The datagram taken is dropped, which is allowed only after a stop request.
Drop ==
  /\ inHand /\ stopReq /\ inHand' = FALSE
  /\ UNCHANGED <<running, attached, pending, stopReq>>

RequestStop ==
  /\ stopReq' = TRUE
  /\ UNCHANGED <<running, attached, pending, inHand>>

Stop ==
  /\ running /\ stopReq /\ ~inHand
  /\ running' = FALSE
  /\ UNCHANGED <<attached, pending, stopReq, inHand>>

Next ==
  \/ Configure \/ Start \/ RequestStop \/ Stop \/ Deliver \/ Drop
  \/ \E s \in Sockets : Consume(s) \/ \E k \in PacketKinds : Arrive(s, k)

Spec == Init /\ [][Next]_vars
=============================================================================
