----------------------------- MODULE SerialTime -----------------------------
(***************************************************************************)
(* The 16-bit packet clock of libsvc/packet_cage.c and its window          *)
(* comparison: of two times the newer one is at most half the clock ahead. *)
(* The code computes in int; MAX_TIME + 1 = 65536 becomes Window.          *)
(***************************************************************************)
EXTENDS Integers

CONSTANT MaxTime   \* MAX_TIME

ASSUME MaxTimeAssumption == MaxTime \in Nat /\ MaxTime > 0 /\ MaxTime % 2 = 1

Window == MaxTime + 1

Times == 0 .. MaxTime

\* time_inc
TimeInc(time) == IF time = MaxTime THEN 0 ELSE time + 1

\* time_inc_by
TimeIncBy(time, delta) == (time + delta) % Window

\* Mutant: the comparison forgets that the clock wraps around.
IsNewerNoWrap(time1, time2) == time1 > time2

\* is_newer
IsNewer(time1, time2) ==
  LET delta == time1 - time2
  IN  \/ delta > 0 /\ delta < Window \div 2
      \/ delta < 0 /\ delta < -(Window \div 2)

\* sub_time: C's % truncates, so the second case is minus a remainder
SubTime(time1, time2) ==
  LET delta == time1 - time2
  IN  IF IsNewer(time1, time2)
        THEN (delta + Window) % Window
        ELSE -((-delta + Window) % Window)
=============================================================================
