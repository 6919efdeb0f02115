----------------------------- MODULE MCFrontEnd -----------------------------
(* An instance of FrontEnd for TLC.  svcc prints only while at most          *)
(* BacklogBound lines and events are on their way to the window.             *)
EXTENDS FrontEnd

CONSTANT BacklogBound

Backlog == Len(pipe) + Len(stdoutList) + Len(eventList)

SvccBounded == Svcc /\ (changes' = changes \/ Backlog <= BacklogBound)

MCNext == SvccBounded \/ ReaderThread \/ Timer \/ Exit

MCSpec == Init /\ [][MCNext]_vars /\ Fairness
=============================================================================
