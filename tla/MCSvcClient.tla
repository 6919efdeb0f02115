---------------------------- MODULE MCSvcClient ----------------------------
(* The client program for TLC, with the two parts of libsvc it runs beside  *)
(* its main loop: the ring that its send thread empties and the list of     *)
(* peers that its audio thread walks.  They share no variable, so each      *)
(* behaviour exercises one of them and leaves the others as they start.     *)
(* There a part of libsvc has nothing it must do, so its fairness rules out *)
(* no behaviour of another part; that of the main loop is stated for the    *)
(* behaviours it is about.                                                  *)
EXTENDS SvcClient, PeerList, PacketQueue

VARIABLE part   \* what a behaviour is about

all == <<part, vars, pvars, qvars>>

MCInit ==
  /\ part \in {"client", "peers", "queue"}
  /\ Init /\ PInit /\ QInit

MCNext ==
  /\ UNCHANGED part
  /\ \/ part = "client" /\ Next  /\ UNCHANGED <<pvars, qvars>>
     \/ part = "peers"  /\ PNext /\ UNCHANGED <<vars, qvars>>
     \/ part = "queue"  /\ QNext /\ UNCHANGED <<vars, pvars>>

ClientFairness ==
  /\ WF_vars(part = "client" /\ ~fault /\ MainStep)
  /\ SF_vars(part = "client" /\ ~fault /\ ServiceNothing)

MCSpec ==
  MCInit /\ [][MCNext]_all /\ ClientFairness /\ PFairness /\ QFairness
=============================================================================
