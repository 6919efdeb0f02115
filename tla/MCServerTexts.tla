---------------------------- MODULE MCServerTexts ----------------------------
(* The server for TLC, and the strings its messages are made of and taken   *)
(* apart with.  They share no variable: each behaviour exercises one part.  *)
EXTENDS MCSvcServer, MCStrings

AllInit ==
  /\ Init
  /\ \/ TextsInit
     \/ part = "server" /\ LInit /\ DInit /\ SInit /\ sent = <<>>

AllNext ==
  \/ part = "server" /\ Next /\ Bounded /\ UNCHANGED tvars
  \/ part # "server" /\ TextsNext /\ UNCHANGED vars

AllSpec == AllInit /\ [][AllNext]_<<vars, tvars>>
=============================================================================
