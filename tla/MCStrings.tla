----------------------------- MODULE MCStrings -----------------------------
(* Instances of Lexer, DString and Split for TLC, three parts of one        *)
(* library that share no state: each behaviour exercises one of them.       *)
(* Packets are one command with up to two values, or two commands with one. *)
EXTENDS Lexer, DString, Split

CONSTANT MaxLen   \* of a value; one longer when a packet has no other value

VARIABLE part     \* the module a behaviour is about

Valued == {"x", "n", Quote, Backslash, Newline, "return", Space}

Texts(n) == UNION {[1 .. k -> Valued] : k \in 0 .. n}

MCChars == Valued \cup {"P", "1"}

Bare == <<<<"P">>, <<"1">>>>

MCPackets ==
  {<<>>, <<Command(Bare, <<>>)>>}
    \cup {<<Command(Bare, <<t>>)>> : t \in Texts(MaxLen + 1)}
    \cup {<<Command(Bare, <<s, t>>)>> : s, t \in Texts(MaxLen)}
    \cup {<<Command(Bare, <<s>>), Command(Bare, <<t>>)>> : s, t \in Texts(MaxLen)}

\* around the sizes of buffers
MCPieces == {0, 1, 30, 31, 32, 33, 63, 64, 65}

MCAlphabet == {"x", ","}

MCTexts == UNION {[1 .. n -> MCAlphabet] : n \in 0 .. 5}

MCSeparators == {<<",">>, <<",", ",">>, <<",", "x">>}

TextsInit ==
  /\ part \in {"lexer", "buffers", "split"}
  /\ LInit /\ DInit /\ SInit
  /\ part = "lexer" \/ sent = <<>>

TextsNext ==
  /\ UNCHANGED part
  /\ \/ part = "lexer"   /\ LNext  /\ UNCHANGED <<dvars, svars>>
     \/ part = "buffers" /\ DNext /\ UNCHANGED <<lvars, svars>>
     \/ part = "split"   /\ SNext /\ UNCHANGED <<lvars, dvars>>

tvars == <<part, lvars, dvars, svars>>

TextsSpec == TextsInit /\ [][TextsNext]_tvars
=============================================================================
