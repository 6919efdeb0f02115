---------------------------- MODULE MCPacketCage ----------------------------
(* Instances of PacketCage for TLC.  Every packet stored over another one   *)
(* makes elements_count drift away from the slots, without bound: the runs  *)
(* stop at a drift of DriftBound.  After a mishap, when the slots may hold  *)
(* any times, a run goes on only until the clock is MaxGap past the newest  *)
(* packet; before one the gaps have no bound.                               *)
EXTENDS PacketCage

CONSTANT DriftBound

DriftBounded == elements_count' <= Cardinality(Filled') + DriftBound

GapBounded == mishap => newest' # NULL

MCNext == (Send /\ GapBounded) \/ Lose \/ Get \/ (ReceiveSome /\ DriftBounded)

MCSpec == Init /\ [][MCNext]_vars

\* A run ends with the first mishap, which KeepsPlaying allows for, when a
\* packet that would go beyond the bound is the next to arrive.
MCFairSpec == MCSpec /\ Fairness
=============================================================================
