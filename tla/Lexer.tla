------------------------------- MODULE Lexer -------------------------------
(***************************************************************************)
(* How commands travel as text.  The server quotes and escapes the         *)
(* arguments of a command (dstrlex_escape) and ends it with a newline; the *)
(* client cuts a packet at the newlines and parses each command            *)
(* (dstrlex_parse).  wx/svcparser.cpp repeats both functions for the user  *)
(* interface.  A character is a string: itself, or a name for one that     *)
(* cannot be written.  The machine reads one character in a step; a        *)
(* newline, for which handle_server_msg looks first, ends the command.     *)
(***************************************************************************)
EXTENDS Naturals, Sequences, SequencesExt

CONSTANTS
  Chars,    \* characters of bare words and values
  Packets   \* sequences of commands, see Command

Quote     == "\""
Backslash == "\\"
Newline   == "newline"
Space     == "space"
Blanks    == {Space, "tab", Newline, "return"}

\* the letter that stands for a character after a backslash
Letters ==
  [c \in {Newline, "return", "nul", "tab", Quote, Backslash} |->
     CASE c = Newline  -> "n"
       [] c = "return" -> "r"
       [] c = "nul"    -> "0"
       [] c = "tab"    -> "t"
       [] OTHER        -> c]

\* A command has bare words, which hold no special character, and values.
Command(bare, values) == [bare |-> bare, values |-> values]

Special == Blanks \cup {Quote, Backslash}

\* The server begins every command with a word, "PSET" say.
ASSUME LexerAssumption ==
  \A packet \in Packets :
    /\ packet \in Seq([bare : Seq(Seq(Chars \ Special)), values : Seq(Seq(Chars))])
    /\ \A k \in DOMAIN packet : packet[k].bare # <<>> /\ <<>> \notin Range(packet[k].bare)

-----------------------------------------------------------------------------
(* The server                                                              *)

\* Mutant: a backslash is copied.
EscapeNoBackslash(text) ==
  FlattenSeq([i \in DOMAIN text |->
    IF text[i] \in DOMAIN Letters \ {Backslash}
      THEN <<Backslash, Letters[text[i]]>> ELSE <<text[i]>>])

\* dstrlex_escape_mem
Escape(text) ==
  FlattenSeq([i \in DOMAIN text |->
    IF text[i] \in DOMAIN Letters
      THEN <<Backslash, Letters[text[i]]>> ELSE <<text[i]>>])

Quoted(text) == <<Quote>> \o Escape(text) \o <<Quote>>

\* sprintf("PADD %i\n"), and "PSET %i \"key\" \"value\"\n" piece by piece
Encode(command) ==
  LET words == command.bare
                 \o [i \in DOMAIN command.values |-> Quoted(command.values[i])]
      Word(i) == IF i = 1 THEN words[i] ELSE <<Space>> \o words[i]
  IN  FlattenSeq([i \in DOMAIN words |-> Word(i)]) \o <<Newline>>

EncodeAll(commands) == FlattenSeq([i \in DOMAIN commands |-> Encode(commands[i])])

-----------------------------------------------------------------------------
VARIABLES
  sent,       \* the commands of the packet
  unread,     \* the characters that have not been read
  in_escape, in_string, buffer, tokens,
  begun,      \* the command has at least one character
  decoded     \* the commands that have been decoded, as lists of tokens

lexer == <<in_escape, in_string, buffer, tokens>>
lvars  == <<sent, unread, lexer, begun, decoded>>

LInit ==
  /\ sent \in Packets
  /\ unread = EncodeAll(sent)
  /\ in_escape = FALSE /\ in_string = FALSE
  /\ buffer = <<>> /\ tokens = <<>>
  /\ begun = FALSE
  /\ decoded = <<>>

-----------------------------------------------------------------------------
(* dstrlex_parse                                                           *)

\* dlist_add of a token that has at least one character
AddToken == IF buffer = <<>> THEN tokens ELSE Append(tokens, buffer)

\* the next character c, which does not end the command
Advance(c) ==
  /\ unread # <<>> /\ Head(unread) = c /\ c # Newline
  /\ unread' = Tail(unread)
  /\ begun' = TRUE
  /\ UNCHANGED <<sent, decoded>>

\* any letter that is not in the table stands for itself
Unescape(c) ==
  IF \E d \in DOMAIN Letters : Letters[d] = c
    THEN CHOOSE d \in DOMAIN Letters : Letters[d] = c ELSE c

Escaped(c) ==
  /\ in_escape
  /\ Advance(c)
  /\ buffer' = Append(buffer, Unescape(c))
  /\ in_escape' = FALSE
  /\ UNCHANGED <<in_string, tokens>>

BeginEscape(c) ==
  /\ ~in_escape /\ c = Backslash
  /\ Advance(c)
  /\ in_escape' = TRUE
  /\ UNCHANGED <<in_string, buffer, tokens>>

BeginString(c) ==
  /\ ~in_escape /\ ~in_string /\ c = Quote
  /\ Advance(c)
  /\ tokens' = AddToken /\ buffer' = <<>>
  /\ in_string' = TRUE
  /\ UNCHANGED in_escape

\* Mutant: an empty string is no token.
EndStringNotEmpty(c) ==
  /\ ~in_escape /\ in_string /\ c = Quote
  /\ Advance(c)
  /\ tokens' = AddToken /\ buffer' = <<>>
  /\ in_string' = FALSE
  /\ UNCHANGED in_escape

\* an empty string is a token too
EndString(c) ==
  /\ ~in_escape /\ in_string /\ c = Quote
  /\ Advance(c)
  /\ tokens' = Append(tokens, buffer) /\ buffer' = <<>>
  /\ in_string' = FALSE
  /\ UNCHANGED in_escape

Separator(c) ==
  /\ ~in_escape /\ ~in_string /\ c \in Blanks
  /\ Advance(c)
  /\ tokens' = AddToken /\ buffer' = <<>>
  /\ UNCHANGED <<in_escape, in_string>>

Plain(c) ==
  /\ ~in_escape /\ c \notin {Quote, Backslash} /\ (in_string \/ c \notin Blanks)
  /\ Advance(c)
  /\ buffer' = Append(buffer, c)
  /\ UNCHANGED <<in_escape, in_string, tokens>>

\* each call of dstrlex_parse starts afresh
Reset ==
  /\ in_escape' = FALSE /\ in_string' = FALSE
  /\ buffer' = <<>> /\ tokens' = <<>>

\* The command ends.  An unterminated escape or string drops it, an empty one
\* is not parsed.
EndCommand ==
  /\ unread # <<>> /\ Head(unread) = Newline
  /\ unread' = Tail(unread)
  /\ decoded' = IF in_escape \/ in_string \/ ~begun THEN decoded
                                                    ELSE Append(decoded, AddToken)
  /\ Reset
  /\ begun' = FALSE
  /\ UNCHANGED sent

Read(c) ==
  \/ Escaped(c) \/ BeginEscape(c) \/ BeginString(c) \/ EndString(c)
  \/ Separator(c) \/ Plain(c)

LNext ==
  \/ unread # <<>> /\ Read(Head(unread))
  \/ EndCommand

LSpec == LInit /\ [][LNext]_lvars

-----------------------------------------------------------------------------
(* Properties                                                              *)

\* What the client should make of a command.
Tokens(command) == command.bare \o command.values

\* Types of the lexer, which holds nothing between commands.
LTypeOK ==
  /\ in_escape \in BOOLEAN /\ in_string \in BOOLEAN /\ begun \in BOOLEAN
  /\ begun \/ (buffer = <<>> /\ tokens = <<>> /\ ~in_escape /\ ~in_string)

\* dstrutils.c:441-575, client/main.c:701-717: each command comes out as the
\* words and values it was made of, in order, whatever quotes, backslashes,
\* newlines and blanks the values hold and whatever the previous command left
\* behind in the lexer.
DecodesInOrder ==
  [][decoded' # decoded =>
       decoded' = Append(decoded, Tokens(sent[Len(decoded) + 1]))]_lvars

\* server/main.c:770-834: no command of a packet is dropped, neither for a
\* newline inside a value nor for a string or an escape left open.
NoneDropped == unread = <<>> => Len(decoded) = Len(sent)
=============================================================================
