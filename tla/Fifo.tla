-------------------------------- MODULE Fifo --------------------------------
(***************************************************************************)
(* What packet_queue.h promises to the audio thread and the send thread: a *)
(* bounded FIFO.  Spec is the promise as it stands: a pop hands out the    *)
(* packet at the head of the queue.  OrderSpec is the part of it that is   *)
(* about loss and order only: a pop hands out the oldest packet or none at *)
(* all, no packet is lost, doubled or overtaken, and none is refused while *)
(* fewer than Capacity wait.  Every behaviour of Spec is one of OrderSpec. *)
(***************************************************************************)
EXTENDS Naturals, Sequences

CONSTANTS
  Packets,   \* what the audio thread can push
  Junk,      \* what the consumer has when it has no packet
  Capacity   \* the number of packets that can wait

VARIABLES
  waiting,   \* packets accepted and not handed out yet
  delivered, \* what was most recently handed to the consumer
  status     \* what the latest put answered: 0 accepted, 1 refused

vars == <<waiting, delivered, status>>

Init == waiting = <<>> /\ delivered = Junk /\ status = 0

Accept(p) == waiting' = Append(waiting, p) /\ status' = 0 /\ UNCHANGED delivered

Reject == status' = 1 /\ UNCHANGED <<waiting, delivered>>

\* the packet at the head
Take ==
  /\ waiting # <<>>
  /\ delivered' = Head(waiting)
  /\ waiting' = Tail(waiting)
  /\ UNCHANGED status

TakeNothing == delivered' = Junk /\ UNCHANGED <<waiting, status>>

Next ==
  \/ Len(waiting) < Capacity /\ \E p \in Packets : Accept(p)
  \/ Len(waiting) = Capacity /\ Reject
  \/ Take

Spec == Init /\ [][Next]_vars

OrderNext ==
  \/ \E p \in Packets : Accept(p)
  \/ Len(waiting) >= Capacity /\ Reject
  \/ Take \/ TakeNothing

OrderSpec == Init /\ [][OrderNext]_vars
=============================================================================
