---------------------------- MODULE MCSvcServer ----------------------------
(* Instances of SvcServer for TLC; WireBound bounds the packets in flight   *)
(* to one client.                                                           *)
EXTENDS SvcServer, TLC

CONSTANT WireBound

Bounded == \A c \in Conns : Len(wire'[c]) <= WireBound

\* No property tells one ENet peer from another.
Alike == Permutations(Conns)

MCSpec == Init /\ [][Next /\ Bounded]_vars
=============================================================================
