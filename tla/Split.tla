------------------------------- MODULE Split -------------------------------
(***************************************************************************)
(* common/dstrutils.c: dsplit and its variants for C strings, one turn of  *)
(* the loop in a step, and dlist_join, which undoes them.  An empty        *)
(* separator is not a sensible argument: dpos finds it everywhere.         *)
(***************************************************************************)
EXTENDS Naturals, Sequences, SequencesExt

CONSTANTS
  Alphabet,      \* characters
  TextsToSplit,  \* sequences of them
  Separators,    \* the same, none of them empty
  MaxPieces      \* largest limit callers pass

ASSUME SplitAssumption ==
  /\ MaxPieces \in Nat
  /\ TextsToSplit \subseteq Seq(Alphabet)
  /\ Separators \subseteq Seq(Alphabet) \ {<<>>}

VARIABLES
  text, on, max,   \* the arguments
  result,          \* the list of pieces
  j,               \* how much of the text has been dealt with
  splitting        \* "idle", "loop", "done"

svars == <<text, on, max, result, j, splitting>>

SInit ==
  /\ text = <<>> /\ on = <<>> /\ max = 0 /\ result = <<>> /\ j = 0
  /\ splitting = "idle"

\* dpos: the places in a from start on where b begins
Places(a, b, start) ==
  {i \in start .. Len(a) - Len(b) : SubSeq(a, i + 1, i + Len(b)) = b}

\* dsub
Sub(a, start, n) == SubSeq(a, start + 1, start + n)

\* dlist_join
Join(list, glue) ==
  FlattenSeq([i \in DOMAIN list |-> IF i = 1 THEN list[i] ELSE glue \o list[i]])

-----------------------------------------------------------------------------
\* the number of pieces; the length of the text stands for no limit
Limit == IF max = 0 THEN Len(text) ELSE max

Call(t, o, m) ==
  /\ splitting = "idle"
  /\ text' = t /\ on' = o /\ max' = m /\ j' = 0
  /\ IF m = 1 THEN result' = <<t>> /\ splitting' = "done"
              ELSE result' = <<>> /\ splitting' = "loop"

\* Mutant: stops one piece late.
TurnPastLimit ==
  /\ splitting = "loop"
  /\ UNCHANGED <<text, on, max>>
  /\ \E i \in Places(text, on, j) :
       /\ \A h \in Places(text, on, j) : i <= h
       /\ j' = i + Len(on)
       /\ IF Len(result) = Limit
            THEN /\ result' = result \o <<Sub(text, j, i - j), Sub(text, j', Len(text) - j')>>
                 /\ splitting' = "done"
            ELSE /\ result' = Append(result, Sub(text, j, i - j))
                 /\ UNCHANGED splitting

\* a piece that ends with a separator, and all the rest if that is the limit
Turn ==
  /\ splitting = "loop"
  /\ UNCHANGED <<text, on, max>>
  /\ \E i \in Places(text, on, j) :
       /\ \A h \in Places(text, on, j) : i <= h
       /\ j' = i + Len(on)
       /\ IF Len(result) + 2 = Limit
            THEN /\ result' = result \o <<Sub(text, j, i - j), Sub(text, j', Len(text) - j')>>
                 /\ splitting' = "done"
            ELSE /\ result' = Append(result, Sub(text, j, i - j))
                 /\ UNCHANGED splitting

\* the piece after the last separator
Finish ==
  /\ splitting = "loop"
  /\ Places(text, on, j) = {}
  /\ result' = Append(result, Sub(text, j, Len(text) - j))
  /\ splitting' = "done"
  /\ UNCHANGED <<text, on, max, j>>

SNext ==
  \/ \E t \in TextsToSplit, o \in Separators, m \in 0 .. MaxPieces : Call(t, o, m)
  \/ Turn \/ Finish

SSpec == SInit /\ [][SNext]_svars

-----------------------------------------------------------------------------
(* Properties                                                              *)

\* dstrutils.c:232-245,359-440: the pieces joined with the separator are the
\* text again, no piece but the last holds a separator, nor does the last unless
\* the search was cut short, and there are never more pieces than the caller's
\* limit.  The search is cut short by that limit and, if the caller sets none,
\* at as many pieces as the text has characters (line 368).
SplitJoins ==
  splitting = "done" =>
    /\ Join(result, on) = text
    /\ \A i \in DOMAIN result :
         Places(result[i], on, 0) # {} => i = Len(result) /\ i = Limit
    /\ max > 0 => Len(result) <= max

\* dstrutils.h:135 "splits on on and returns a list", test_dstrutils.c:238
\* "dsplit(s1, s2, 0)": without a limit every separator splits.
SplitsAll ==
  splitting = "done" /\ max = 0 =>
    \A i \in DOMAIN result : Places(result[i], on, 0) = {}
=============================================================================
