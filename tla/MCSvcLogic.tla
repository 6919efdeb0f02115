----------------------------- MODULE MCSvcLogic -----------------------------
(* An instance of SvcLogic for TLC: two clients that come, go and speak at  *)
(* the same time, and a script that mutes or deafens them and back.         *)
EXTENDS SvcLogic

Plain == [muted |-> FALSE, deafen |-> FALSE, channel |-> 0]

MCSettings == {Plain, [Plain EXCEPT !.muted = TRUE], [Plain EXCEPT !.deafen = TRUE]}
=============================================================================
