---------------------------- MODULE Texts_proofs ----------------------------
(***************************************************************************)
(* Proofs about the texts that svcc and its user interface exchange and    *)
(* keep.  DString, for strings and pieces of any length and for any        *)
(* granule: nothing is written outside a buffer.  Lexer, for every input:  *)
(* what it decodes is what was written, and no command is lost.  Split,    *)
(* for every text, separator and limit: the pieces joined are the text.    *)
(* FrontEnd, for any servers, any values and any number of changes: the    *)
(* copy follows svcc, the window the copy.                                 *)
(***************************************************************************)
EXTENDS Lexer, DString, Split, FrontEnd, SequenceTheorems, TLAPS

-----------------------------------------------------------------------------
(* Buffers                                                                 *)

\* align leaves at least one byte behind the n it is asked for
LEMMA AlignLarger == ASSUME NEW n \in Nat PROVE Align(n) \in Nat /\ Align(n) > n
<1>1. Granule \in Nat /\ Granule > 0
  BY BufferAssumption
<1>2. n \div Granule \in Nat /\ n < ((n \div Granule) + 1) * Granule
  BY <1>1
<1> QED
  BY <1>1, <1>2 DEF Align

LEMMA SetSizeLarger ==
  ASSUME DTypeOK, NEW s \in Strings, NEW n \in Nat
  PROVE  SetSize(s, n) \in Nat /\ SetSize(s, n) > n
BY AlignLarger DEF SetSize, DTypeOK

\* for n = 1 too the buffer has room for two bytes
LEMMA SmallLarger == Small \in Nat /\ Small > 1
BY BufferAssumption

LEMMA AddSizeLarger ==
  ASSUME DTypeOK, NEW s \in Strings, NEW n \in Nat
  PROVE  AddSize(s, n) \in Nat /\ AddSize(s, n) >= len[s] + n
<1>1. len[s] + n \in Nat /\ size[s] \in Nat
  BY DEF DTypeOK
<1> QED
  BY <1>1, AlignLarger DEF AddSize

Bytes == {"nul", "other", "outside"}

LEMMA BecomesType ==
  ASSUME DTypeOK, NEW s \in Strings, NEW n \in Nat, NEW m \in Nat, NEW byte \in Bytes,
         Becomes(s, n, m, byte)
  PROVE  DTypeOK'
BY DEF DTypeOK, Becomes, Bytes

LEMMA BecomesInside ==
  ASSUME DTypeOK, ContentInside,
         NEW s \in Strings, NEW n \in Nat, NEW m \in Nat, NEW byte \in Bytes,
         Becomes(s, n, m, byte), n <= m, byte = "outside" <=> n = m
  PROVE  ContentInside'
<1> SUFFICES ASSUME NEW t \in Strings
             PROVE  len'[t] <= size'[t] /\ (end'[t] = "outside" <=> len'[t] = size'[t])
  BY DEF ContentInside
<1>1. CASE t = s
  BY <1>1 DEF DTypeOK, Becomes
<1>2. CASE t # s
  BY <1>2 DEF DTypeOK, Becomes, ContentInside
<1> QED
  BY <1>1, <1>2

LEMMA EndingByte ==
  ASSUME DTypeOK, NEW src \in Strings, NEW byte \in Ending(src)
  PROVE  byte \in Bytes \ {"outside"}
BY DEF DTypeOK, Ending, Bytes

Inside == DTypeOK /\ ContentInside

LEMMA BecomesKeeps ==
  ASSUME Inside, NEW s \in Strings, NEW n \in Nat, NEW m \in Nat, NEW byte \in Bytes,
         Becomes(s, n, m, byte), n <= m, byte = "outside" <=> n = m
  PROVE  Inside'
BY BecomesType, BecomesInside DEF Inside

LEMMA PutZByte ==
  ASSUME NEW n \in Nat, NEW m \in Nat, n <= m
  PROVE  PutZ(n, m) \in Bytes /\ (PutZ(n, m) = "outside" <=> n = m)
BY DEF PutZ, Bytes

LEMMA DInitInside == DInit => Inside
BY DEF DInit, Inside, DTypeOK, ContentInside

LEMMA StepInside == Inside /\ [DNext]_dvars => Inside'
<1> SUFFICES ASSUME Inside, [DNext]_dvars PROVE Inside'
  OBVIOUS
<1>1. CASE UNCHANGED dvars
  BY <1>1 DEF Inside, DTypeOK, ContentInside, dvars
<1>2. ASSUME NEW s \in Strings, New(s) \/ FromC(s) \/ Free(s) \/ Clear(s) \/ CpyC(s)
      PROVE  Inside'
  <2>1. CASE New(s)
    BY <2>1, BecomesKeeps, SmallLarger DEF New, Bytes
  <2>2. CASE FromC(s)
    BY <2>2, BecomesKeeps, SmallLarger, PutZByte DEF FromC
  <2>3. CASE Free(s)
    <3>1. DTypeOK'
      BY <2>3 DEF Free, Inside, DTypeOK
    <3>2. ContentInside'
      BY <2>3 DEF Free, Inside, DTypeOK, ContentInside
    <3> QED
      BY <3>1, <3>2 DEF Inside
  <2>4. CASE Clear(s)
    BY <2>4, BecomesKeeps DEF Clear, Exists, Inside, DTypeOK, Bytes
  <2>5. CASE CpyC(s)
    BY <2>5, BecomesKeeps, SetSizeLarger, PutZByte DEF CpyC, Inside
  <2> QED
    BY <1>2, <2>1, <2>2, <2>3, <2>4, <2>5
<1>3. ASSUME NEW s \in Strings, NEW src \in Strings, NewCopy(s, src) \/ Cpy(s, src) \/ Cat(s, src)
      PROVE  Inside'
  <2> USE EndingByte
  <2>1. len[s] \in Nat /\ len[src] \in Nat /\ len[src] + 1 \in Nat
    BY DEF Inside, DTypeOK
  <2>2. CASE NewCopy(s, src)
    BY <2>1, <2>2, BecomesKeeps, AlignLarger DEF NewCopy, Inside
  <2>3. CASE Cpy(s, src)
    BY <2>1, <2>3, BecomesKeeps, SetSizeLarger DEF Cpy, Inside
  <2>4. CASE Cat(s, src)
    <3>1. PICK byte \in Ending(src) :
            Becomes(s, len[s] + len[src], AddSize(s, len[src] + 1), byte)
      BY <2>4 DEF Cat
    <3>2. /\ AddSize(s, len[src] + 1) \in Nat
          /\ AddSize(s, len[src] + 1) >= len[s] + (len[src] + 1)
      BY <2>1, AddSizeLarger DEF Inside
    <3>3. /\ len[s] + len[src] \in Nat
          /\ len[s] + len[src] < AddSize(s, len[src] + 1)
      BY <2>1, <3>2
    <3>4. byte \in Bytes /\ byte # "outside"
      BY EndingByte DEF Inside
    <3> QED
      BY <3>1, <3>2, <3>3, <3>4, BecomesKeeps
  <2> QED
    BY <1>3, <2>2, <2>3, <2>4
<1>4. ASSUME NEW s \in Strings, NEW n \in Pieces,
             From(s, n) \/ CpyMem(s, n) \/ CatCS(s, n) \/ CatMem(s, n)
      PROVE  Inside'
  <2>1. n \in Nat /\ n + 1 \in Nat /\ len[s] \in Nat /\ len[s] + n \in Nat
    BY BufferAssumption DEF Inside, DTypeOK
  <2>2. CASE From(s, n)
    BY <2>1, <2>2, BecomesKeeps, AlignLarger, PutZByte DEF From
  <2>3. CASE CpyMem(s, n)
    BY <2>1, <2>3, BecomesKeeps, SetSizeLarger, PutZByte DEF CpyMem, Inside
  <2>4. CASE CatCS(s, n)
    BY <2>1, <2>4, BecomesKeeps, AddSizeLarger DEF CatCS, Inside, Bytes
  <2>5. CASE CatMem(s, n)
    <3> DEFINE m == AddSize(s, n)
    <3>1. m \in Nat /\ len[s] + n <= m
      BY <2>1, AddSizeLarger DEF Inside
    <3>2. PutZ(len[s] + n, m) \in Bytes /\ (PutZ(len[s] + n, m) = "outside" <=> len[s] + n = m)
      BY <2>1, <3>1, PutZByte
    <3>3. Becomes(s, len[s] + n, m, PutZ(len[s] + n, m))
      BY <2>5 DEF CatMem
    <3> QED
      BY <2>1, <3>1, <3>2, <3>3, BecomesKeeps
  <2> QED
    BY <1>4, <2>2, <2>3, <2>4, <2>5
<1> QED
  BY <1>1, <1>2, <1>3, <1>4 DEF DNext

\* dstr.c:35-243: whatever sequence of copies, clears and appends a program
\* makes, with strings and granules of any size, the characters of a string lie
\* inside its buffer, and its terminator outside only behind a full buffer.
THEOREM InsideCorrect == DSpec => []ContentInside
<1>1. Inside => ContentInside
  BY DEF Inside
<1> QED
  BY <1>1, DInitInside, StepInside, PTL DEF DSpec

-----------------------------------------------------------------------------
(* The lexer                                                               *)

\* dstrutils.c:441-455, client/main.c:701-717: the lexer holds nothing of one
\* command when the next begins.
THEOREM LexerCorrect == LSpec => []LTypeOK
<1>1. LInit => LTypeOK
  BY DEF LInit, LTypeOK
<1>2. LTypeOK /\ [LNext]_lvars => LTypeOK'
  <2> SUFFICES ASSUME LTypeOK, [LNext]_lvars PROVE LTypeOK'
    OBVIOUS
  <2>1. CASE UNCHANGED lvars
    BY <2>1 DEF LTypeOK, lvars, lexer
  <2>2. CASE EndCommand
    BY <2>2 DEF LTypeOK, EndCommand, Reset
  <2>3. ASSUME NEW c, Read(c) PROVE LTypeOK'
    BY <2>3 DEF LTypeOK, Read, Escaped, BeginEscape, BeginString, EndString, Separator, Plain,
                Advance
  <2> QED
    BY <2>1, <2>2, <2>3 DEF LNext
<1> QED
  BY <1>1, <1>2, PTL DEF LSpec

\* The state of the lexer and what has been decoded: an escape has begun, a
\* string has begun ("yes" or "no"), the token so far, the tokens before it,
\* the command has begun.
Lex(e, q, b, t, g, o) ==
  [esc |-> e, str |-> q, buf |-> b, toks |-> t, begun |-> g, out |-> o]

\* between two commands
Between(o) == Lex("no", "no", <<>>, <<>>, "no", o)

Flushed(b, t) == IF b = <<>> THEN t ELSE Append(t, b)

\* one step of the lexer
Feed(s, c) ==
  IF c = Newline
    THEN Between(IF s.esc = "yes" \/ s.str = "yes" \/ s.begun = "no" THEN s.out
                                               ELSE Append(s.out, Flushed(s.buf, s.toks)))
  ELSE IF s.esc = "yes"
    THEN Lex("no", s.str, Append(s.buf, Unescape(c)), s.toks, "yes", s.out)
  ELSE IF c = Backslash
    THEN Lex("yes", s.str, s.buf, s.toks, "yes", s.out)
  ELSE IF c = Quote /\ s.str = "yes"
    THEN Lex("no", "no", <<>>, Append(s.toks, s.buf), "yes", s.out)
  ELSE IF c = Quote
    THEN Lex("no", "yes", <<>>, Flushed(s.buf, s.toks), "yes", s.out)
  ELSE IF s.str = "no" /\ c \in Blanks
    THEN Lex("no", "no", <<>>, Flushed(s.buf, s.toks), "yes", s.out)
  ELSE Lex("no", s.str, Append(s.buf, c), s.toks, "yes", s.out)

Text == INSTANCE Replay WITH Op <- Feed

LEMMA FlatIs == \A seqs : FlattenSeq(seqs) = Text!FlattenSeq(seqs)
BY DEF FlattenSeq, Text!FlattenSeq

\* every character the lexer can meet or make
Symbols == Chars \cup Special \cup DOMAIN Letters \cup {Letters[c] : c \in DOMAIN Letters}

LEMMA LetterCases ==
  /\ DOMAIN Letters = {Newline, "return", "nul", "tab", Quote, Backslash}
  /\ Letters[Newline] = "n" /\ Letters["return"] = "r" /\ Letters["nul"] = "0"
  /\ Letters["tab"] = "t" /\ Letters[Quote] = Quote /\ Letters[Backslash] = Backslash
BY DEF Letters, Newline, Quote, Backslash

\* what escaping does to a character is undone
LEMMA LetterRead ==
  ASSUME NEW c \in DOMAIN Letters
  PROVE  Letters[c] # Newline /\ Unescape(Letters[c]) = c
<1>1. Letters[c] # Newline
  BY LetterCases DEF Newline, Quote, Backslash
<1>2. \A d \in DOMAIN Letters : Letters[d] = Letters[c] => d = c
  BY LetterCases DEF Newline, Quote, Backslash
<1> QED
  BY <1>1, <1>2 DEF Unescape

LEMMA FeedPlain ==
  ASSUME NEW b, NEW t, NEW g, NEW o, NEW c, c \notin Special
  PROVE  Feed(Lex("no", "no", b, t, g, o), c) = Lex("no", "no", Append(b, c), t, "yes", o)
BY DEF Feed, Lex, Special, Blanks

LEMMA FeedInString ==
  ASSUME NEW b, NEW t, NEW g, NEW o, NEW c, c \notin {Newline, Quote, Backslash}
  PROVE  Feed(Lex("no", "yes", b, t, g, o), c) = Lex("no", "yes", Append(b, c), t, "yes", o)
BY DEF Feed, Lex

LEMMA FeedBackslash ==
  ASSUME NEW b, NEW t, NEW g, NEW o
  PROVE  Feed(Lex("no", "yes", b, t, g, o), Backslash) = Lex("yes", "yes", b, t, "yes", o)
BY DEF Feed, Lex, Newline, Backslash

LEMMA FeedLetter ==
  ASSUME NEW b, NEW t, NEW g, NEW o, NEW c \in DOMAIN Letters
  PROVE  Feed(Lex("yes", "yes", b, t, g, o), Letters[c]) = Lex("no", "yes", Append(b, c), t, "yes", o)
BY LetterRead DEF Feed, Lex

LEMMA FeedOpen ==
  ASSUME NEW b, NEW t, NEW g, NEW o
  PROVE  Feed(Lex("no", "no", b, t, g, o), Quote)
           = Lex("no", "yes", <<>>, Flushed(b, t), "yes", o)
BY DEF Feed, Lex, Newline, Backslash, Quote

LEMMA FeedClose ==
  ASSUME NEW b, NEW t, NEW g, NEW o
  PROVE  Feed(Lex("no", "yes", b, t, g, o), Quote)
           = Lex("no", "no", <<>>, Append(t, b), "yes", o)
BY DEF Feed, Lex, Newline, Backslash, Quote

LEMMA FeedSpace ==
  ASSUME NEW b, NEW t, NEW g, NEW o
  PROVE  Feed(Lex("no", "no", b, t, g, o), Space)
           = Lex("no", "no", <<>>, Flushed(b, t), "yes", o)
BY DEF Feed, Lex, Newline, Backslash, Quote, Space, Blanks

LEMMA FeedNewline ==
  ASSUME NEW b, NEW t, NEW o
  PROVE  Feed(Lex("no", "no", b, t, "yes", o), Newline) = Between(Append(o, Flushed(b, t)))
BY DEF Feed, Lex

\* the first k elements and one more
LEMMA FirstAndNext ==
  ASSUME NEW X, NEW s \in Seq(X), NEW k \in 1 .. Len(s)
  PROVE  SubSeq(s, 1, k) = Append(SubSeq(s, 1, k - 1), s[k])
<1>1. SubSeq(s, 1, k) = SubSeq(s, 1, k - 1) \o <<s[k]>>
  BY SubSeqRecursiveSecond
<1>2. SubSeq(s, 1, k - 1) \in Seq(X) /\ s[k] \in X
  BY ElementOfSeq, SubSeqProperties
<1> QED
  BY <1>1, <1>2, AppendIsConcat

LEMMA WordRead ==
  ASSUME NEW w \in Seq(Chars \ Special), w # <<>>, NEW t, NEW g, NEW o
  PROVE  Text!Replayed(Lex("no", "no", <<>>, t, g, o), w) = Lex("no", "no", w, t, "yes", o)
<1> DEFINE first == Lex("no", "no", <<>>, t, g, o)
           State(k) == Lex("no", "no", SubSeq(w, 1, k), t, "yes", o)
           run == [k \in 0 .. Len(w) |-> IF k = 0 THEN first ELSE State(k)]
<1>1. Len(w) \in Nat /\ Len(w) # 0 /\ SubSeq(w, 1, Len(w)) = w /\ SubSeq(w, 1, 0) = <<>>
  BY LenProperties, EmptySeq, SubSeqFull, SubSeqEmpty
<1> HIDE DEF first, State
<1>2. run[0] = first /\ \A k \in 1 .. Len(w) : run[k] = State(k)
  BY <1>1
<1> HIDE DEF run
<1>3. run[Len(w)] = Lex("no", "no", w, t, "yes", o)
  <2>1. run[Len(w)] = State(Len(w))
    BY <1>1, <1>2
  <2> QED
    BY <1>1, <2>1 DEF State
<1>4. ASSUME NEW k \in 1 .. Len(w)
      PROVE  run[k] = Feed(run[k - 1], w[k])
  <2>1. w[k] \notin Special
    BY ElementOfSeq
  <2>2. SubSeq(w, 1, k) = Append(SubSeq(w, 1, k - 1), w[k])
    BY FirstAndNext
  <2>3. \E h : run[k - 1] = Lex("no", "no", SubSeq(w, 1, k - 1), t, h, o)
    <3>1. CASE k = 1
      <4>1. run[k - 1] = first /\ SubSeq(w, 1, k - 1) = <<>>
        BY <1>1, <1>2, <3>1
      <4> QED
        BY <4>1 DEF first
    <3>2. CASE k # 1
      <4>1. k - 1 \in 1 .. Len(w)
        BY <1>1, <3>2
      <4> QED
        BY <1>2, <4>1 DEF State
    <3> QED
      BY <3>1, <3>2
  <2>4. PICK h : run[k - 1] = Lex("no", "no", SubSeq(w, 1, k - 1), t, h, o)
    BY <2>3
  <2>5. Feed(Lex("no", "no", SubSeq(w, 1, k - 1), t, h, o), w[k])
          = Lex("no", "no", Append(SubSeq(w, 1, k - 1), w[k]), t, "yes", o)
    BY <2>1, FeedPlain
  <2>6. run[k] = Lex("no", "no", SubSeq(w, 1, k), t, "yes", o)
    BY <1>2 DEF State
  <2> QED
    BY <2>2, <2>4, <2>5, <2>6
<1>5. Text!IsRun(run, first, w)
  BY <1>2, <1>4 DEF Text!IsRun
<1> QED
  BY <1>3, <1>5, Text!RunIsReplayed DEF first

\* what Escape makes of one character
Piece(c) == IF c \in DOMAIN Letters THEN <<Backslash, Letters[c]>> ELSE <<c>>

LEMMA PieceRead ==
  ASSUME NEW c \in Chars, NEW b, NEW t, NEW o
  PROVE  /\ Piece(c) \in Seq(Symbols)
         /\ Text!Replayed(Lex("no", "yes", b, t, "yes", o), Piece(c))
              = Lex("no", "yes", Append(b, c), t, "yes", o)
<1> DEFINE base == Lex("no", "yes", b, t, "yes", o)
<1>1. CASE c \in DOMAIN Letters
  <2> DEFINE one == <<Backslash>>
             two == <<Letters[c]>>
  <2>1. Backslash \in Symbols /\ Letters[c] \in Symbols
    BY <1>1 DEF Symbols, Special
  <2>2. one \in Seq(Symbols) /\ two \in Seq(Symbols) /\ Piece(c) = one \o two
    BY <1>1, <2>1 DEF Piece
  <2>3. Text!Replayed(base, one) = Lex("yes", "yes", b, t, "yes", o)
    BY FeedBackslash, Text!ReplayOne
  <2>4. Text!Replayed(Lex("yes", "yes", b, t, "yes", o), two)
          = Lex("no", "yes", Append(b, c), t, "yes", o)
    BY <1>1, FeedLetter, Text!ReplayOne
  <2> HIDE DEF one, two, base
  <2>5. Text!Replayed(base, one \o two) = Text!Replayed(Text!Replayed(base, one), two)
    BY <2>2, Text!ReplayConcat
  <2>6. one \o two \in Seq(Symbols)
    BY <2>2, ConcatProperties
  <2> QED
    BY <2>2, <2>3, <2>4, <2>5, <2>6 DEF base
<1>2. CASE c \notin DOMAIN Letters
  <2>1. Piece(c) = <<c>> /\ <<c>> \in Seq(Symbols)
    BY <1>2 DEF Piece, Symbols
  <2>2. c \notin {Newline, Quote, Backslash}
    BY <1>2, LetterCases
  <2>3. Feed(base, c) = Lex("no", "yes", Append(b, c), t, "yes", o)
    BY <2>2, FeedInString
  <2> QED
    BY <2>1, <2>3, Text!ReplayOne
<1> QED
  BY <1>1, <1>2

\* Escaping is undone: inside a string the lexer reads what was escaped.
LEMMA EscapeRead ==
  ASSUME NEW w \in Seq(Chars), NEW t, NEW o
  PROVE  /\ Escape(w) \in Seq(Symbols)
         /\ Text!Replayed(Lex("no", "yes", <<>>, t, "yes", o), Escape(w))
              = Lex("no", "yes", w, t, "yes", o)
<1> DEFINE seqs == [i \in DOMAIN w |-> Piece(w[i])]
           State(k) == Lex("no", "yes", SubSeq(w, 1, k), t, "yes", o)
           run == [k \in 0 .. Len(w) |-> State(k)]
<1>1. Len(w) \in Nat /\ DOMAIN w = 1 .. Len(w) /\ \A k \in 1 .. Len(w) : w[k] \in Chars
  BY LenProperties, ElementOfSeq
<1>2. SubSeq(w, 1, Len(w)) = w /\ SubSeq(w, 1, 0) = <<>>
  BY SubSeqFull, SubSeqEmpty, <1>1
<1>3. /\ seqs \in Seq(Seq(Symbols)) /\ Len(seqs) = Len(w)
      /\ \A k \in 1 .. Len(w) : seqs[k] = Piece(w[k])
  <2>1. \A k \in 1 .. Len(w) : Piece(w[k]) \in Seq(Symbols)
    BY <1>1, PieceRead
  <2> QED
    BY <1>1, <2>1
<1>4. Escape(w) = Text!FlattenSeq(seqs)
  BY FlatIs DEF Escape, Piece
<1> HIDE DEF seqs, State
<1>5. \A k \in 0 .. Len(w) : run[k] = State(k)
  OBVIOUS
<1> HIDE DEF run
<1>6. run[0] = State(0) /\ run[Len(w)] = State(Len(w))
  BY <1>1, <1>5
<1>7. ASSUME NEW k \in 1 .. Len(w)
      PROVE  run[k] = Text!Replayed(run[k - 1], seqs[k])
  <2>1. k \in 0 .. Len(w) /\ k - 1 \in 0 .. Len(w)
    BY <1>1
  <2>2. run[k] = State(k) /\ run[k - 1] = State(k - 1)
    BY <1>5, <2>1
  <2>3. SubSeq(w, 1, k) = Append(SubSeq(w, 1, k - 1), w[k])
    BY FirstAndNext
  <2>4. Text!Replayed(State(k - 1), Piece(w[k]))
          = Lex("no", "yes", Append(SubSeq(w, 1, k - 1), w[k]), t, "yes", o)
    BY <1>1, PieceRead DEF State
  <2>5. Text!Replayed(State(k - 1), Piece(w[k])) = State(k)
    BY <2>3, <2>4 DEF State
  <2> QED
    BY <1>3, <2>2, <2>5
<1>8. Text!Replayed(State(0), Text!FlattenSeq(seqs)) = run[Len(seqs)]
  BY <1>3, <1>6, <1>7, Text!ReplayParts
<1>9. Text!FlattenSeq(seqs) \in Seq(Symbols)
  BY <1>3, Text!FlattenType
<1>10. State(0) = Lex("no", "yes", <<>>, t, "yes", o)
       /\ State(Len(w)) = Lex("no", "yes", w, t, "yes", o)
  BY <1>2 DEF State
<1> QED
  BY <1>3, <1>4, <1>6, <1>8, <1>9, <1>10

LEMMA QuotedRead ==
  ASSUME NEW w \in Seq(Chars), NEW t, NEW g, NEW o
  PROVE  /\ Quoted(w) \in Seq(Symbols)
         /\ Text!Replayed(Lex("no", "no", <<>>, t, g, o), Quoted(w))
              = Lex("no", "no", <<>>, Append(t, w), "yes", o)
<1> DEFINE q == <<Quote>>
           e == Escape(w)
           base == Lex("no", "no", <<>>, t, g, o)
<1>1. q \in Seq(Symbols) /\ e \in Seq(Symbols) /\ Quoted(w) = (q \o e) \o q
  BY EscapeRead DEF Quoted, Symbols, Special
<1>2. Text!Replayed(base, q) = Lex("no", "yes", <<>>, t, "yes", o)
  BY FeedOpen, Text!ReplayOne DEF Flushed
<1>3. Text!Replayed(Lex("no", "yes", <<>>, t, "yes", o), e) = Lex("no", "yes", w, t, "yes", o)
  BY EscapeRead
<1>4. Text!Replayed(Lex("no", "yes", w, t, "yes", o), q)
        = Lex("no", "no", <<>>, Append(t, w), "yes", o)
  BY FeedClose, Text!ReplayOne
<1> HIDE DEF q, e, base
<1> DEFINE m == q \o e
<1>5. m \in Seq(Symbols) /\ Text!Replayed(base, m) = Text!Replayed(Text!Replayed(base, q), e)
  BY <1>1, ConcatProperties, Text!ReplayConcat
<1> HIDE DEF m
<1>6. m \o q \in Seq(Symbols)
      /\ Text!Replayed(base, m \o q) = Text!Replayed(Text!Replayed(base, m), q)
  BY <1>1, <1>5, ConcatProperties, Text!ReplayConcat
<1>7. Quoted(w) = m \o q
  BY <1>1 DEF m
<1> QED
  BY <1>2, <1>3, <1>4, <1>5, <1>6, <1>7 DEF base

\* a command as the server makes it
Commands == {c \in [bare : Seq(Seq(Chars \ Special)), values : Seq(Seq(Chars))] :
               c.bare # <<>> /\ <<>> \notin Range(c.bare)}

\* The lexer makes of an encoded command the tokens it was made of.
LEMMA EncodeRead ==
  ASSUME NEW command \in Commands, NEW o
  PROVE  /\ Encode(command) \in Seq(Symbols)
         /\ Text!Replayed(Between(o), Encode(command)) = Between(Append(o, Tokens(command)))
<1> DEFINE bare == command.bare
           values == command.values
           B == Len(bare)
           N == Len(bare) + Len(values)
           quoted == [i \in DOMAIN values |-> Quoted(values[i])]
           words == bare \o quoted
           Word(i) == IF i = 1 THEN words[i] ELSE <<Space>> \o words[i]
           seqs == [i \in DOMAIN words |-> Word(i)]
           T == Tokens(command)
<1>1. /\ bare \in Seq(Seq(Chars \ Special)) /\ values \in Seq(Seq(Chars))
      /\ B \in Nat /\ B # 0 /\ Len(values) \in Nat
      /\ B = Len(bare) /\ N = B + Len(values)
      /\ \A i \in 1 .. B : bare[i] \in Seq(Chars \ Special) /\ bare[i] # <<>>
      /\ \A i \in 1 .. Len(values) : values[i] \in Seq(Chars)
  <2>1. bare \in Seq(Seq(Chars \ Special)) /\ values \in Seq(Seq(Chars))
        /\ bare # <<>> /\ <<>> \notin Range(bare)
    BY DEF Commands
  <2> HIDE DEF bare, values
  <2>2. \A i \in 1 .. B : bare[i] # <<>>
    BY <2>1, RangeEquality
  <2> QED
    BY <2>1, <2>2, LenProperties, EmptySeq, ElementOfSeq
<1> HIDE DEF bare, values, B, N
<1>2. /\ quoted \in Seq(Seq(Symbols)) /\ Len(quoted) = Len(values)
      /\ \A i \in 1 .. Len(values) : quoted[i] = Quoted(values[i])
  <2>1. DOMAIN values = 1 .. Len(values)
    BY <1>1, LenProperties
  <2>2. \A i \in 1 .. Len(values) : Quoted(values[i]) \in Seq(Symbols)
    BY <1>1, QuotedRead
  <2> QED
    BY <1>1, <2>1, <2>2
<1> HIDE DEF quoted
<1>3. /\ words \in Seq(Seq(Symbols)) /\ Len(words) = N
      /\ \A i \in 1 .. B : words[i] = bare[i]
      /\ \A i \in B + 1 .. N : words[i] = Quoted(values[i - B]) /\ values[i - B] \in Seq(Chars)
  <2>1. bare \in Seq(Seq(Symbols))
    <3>1. Seq(Chars \ Special) \subseteq Seq(Symbols)
      BY DEF Symbols
    <3> QED
      BY <1>1, <3>1
  <2>2. /\ words \in Seq(Seq(Symbols)) /\ Len(words) = Len(bare) + Len(quoted)
        /\ \A i \in 1 .. Len(bare) + Len(quoted) :
             words[i] = IF i <= Len(bare) THEN bare[i] ELSE quoted[i - Len(bare)]
    BY <1>2, <2>1, ConcatProperties
  <2> HIDE DEF words
  <2>3. ASSUME NEW i \in B + 1 .. N
        PROVE  i - B \in 1 .. Len(values) /\ i \in 1 .. N /\ ~(i <= B)
    BY <1>1
  <2>4. \A i \in 1 .. B : i \in 1 .. N /\ i <= B
    BY <1>1
  <2> QED
    BY <1>1, <1>2, <2>2, <2>3, <2>4
<1>4. /\ T \in Seq(Seq(Chars)) /\ Len(T) = N
      /\ \A i \in 1 .. B : T[i] = bare[i]
      /\ \A i \in B + 1 .. N : T[i] = values[i - B]
  <2>1. T = bare \o values
    BY DEF Tokens, bare, values
  <2>2. bare \in Seq(Seq(Chars))
    <3>1. Seq(Chars \ Special) \subseteq Seq(Chars)
      OBVIOUS
    <3> QED
      BY <1>1, <3>1
  <2> HIDE DEF T
  <2>3. /\ T \in Seq(Seq(Chars)) /\ Len(T) = N
        /\ \A i \in 1 .. N : T[i] = IF i <= B THEN bare[i] ELSE values[i - B]
    BY <1>1, <2>1, <2>2, ConcatProperties
  <2>4. /\ \A i \in 1 .. B : i \in 1 .. N /\ i <= B
        /\ \A i \in B + 1 .. N : i \in 1 .. N /\ ~(i <= B)
    BY <1>1
  <2> QED
    BY <2>3, <2>4
<1> HIDE DEF words, T
<1>5. /\ seqs \in Seq(Seq(Symbols)) /\ Len(seqs) = N
      /\ \A i \in 1 .. N : seqs[i] = Word(i) /\ words[i] \in Seq(Symbols)
  <2>1. DOMAIN words = 1 .. N /\ \A i \in 1 .. N : words[i] \in Seq(Symbols)
    BY <1>3, LenProperties, ElementOfSeq
  <2>2. <<Space>> \in Seq(Symbols)
    BY DEF Symbols, Special, Blanks
  <2>3. \A i \in 1 .. N : <<Space>> \o words[i] \in Seq(Symbols)
    BY <2>1, <2>2, ConcatProperties
  <2>4. \A i \in 1 .. N : Word(i) \in Seq(Symbols)
    BY <2>1, <2>3
  <2> QED
    BY <1>1, <2>1, <2>4
<1>6. Encode(command) = Text!FlattenSeq(seqs) \o <<Newline>>
  BY FlatIs DEF Encode, words, quoted, bare, values
<1> HIDE DEF seqs
<1> DEFINE State(k) == IF k = 0 THEN Between(o)
                       ELSE IF k <= B THEN Lex("no", "no", bare[k], SubSeq(T, 1, k - 1), "yes", o)
                       ELSE Lex("no", "no", <<>>, SubSeq(T, 1, k), "yes", o)
           run == [k \in 0 .. N |-> State(k)]
<1>7. ASSUME NEW k \in 1 .. N
      PROVE  \E b, t : State(k) = Lex("no", "no", b, t, "yes", o) /\ Flushed(b, t) = SubSeq(T, 1, k)
  <2>1. k # 0 /\ SubSeq(T, 1, k) = Append(SubSeq(T, 1, k - 1), T[k])
    <3>1. T \in Seq(Seq(Chars)) /\ k \in 1 .. Len(T)
      BY <1>4
    <3>2. SubSeq(T, 1, k) = Append(SubSeq(T, 1, k - 1), T[k])
      BY <3>1, FirstAndNext
    <3> QED
      BY <1>1, <3>2
  <2>2. CASE k <= B
    <3>1. T[k] = bare[k] /\ bare[k] # <<>>
      BY <1>1, <1>4, <2>2
    <3>2. State(k) = Lex("no", "no", bare[k], SubSeq(T, 1, k - 1), "yes", o)
      BY <2>1, <2>2
    <3>3. Flushed(bare[k], SubSeq(T, 1, k - 1)) = SubSeq(T, 1, k)
      BY <2>1, <3>1 DEF Flushed
    <3> QED
      BY <3>2, <3>3
  <2>3. CASE ~(k <= B)
    <3>1. State(k) = Lex("no", "no", <<>>, SubSeq(T, 1, k), "yes", o)
      BY <2>1, <2>3
    <3>2. Flushed(<<>>, SubSeq(T, 1, k)) = SubSeq(T, 1, k)
      BY DEF Flushed
    <3> QED
      BY <3>1, <3>2
  <2> QED
    BY <2>2, <2>3
<1>8. ASSUME NEW k \in 1 .. N, NEW g
      PROVE  Text!Replayed(Lex("no", "no", <<>>, SubSeq(T, 1, k - 1), g, o), words[k]) = State(k)
  <2>1. k # 0 /\ SubSeq(T, 1, k) = Append(SubSeq(T, 1, k - 1), T[k])
    <3>1. T \in Seq(Seq(Chars)) /\ k \in 1 .. Len(T)
      BY <1>4
    <3>2. SubSeq(T, 1, k) = Append(SubSeq(T, 1, k - 1), T[k])
      BY <3>1, FirstAndNext
    <3> QED
      BY <1>1, <3>2
  <2>2. CASE k <= B
    <3>1. words[k] = bare[k] /\ bare[k] # <<>> /\ bare[k] \in Seq(Chars \ Special)
      BY <1>1, <1>3, <2>2
    <3>2. State(k) = Lex("no", "no", bare[k], SubSeq(T, 1, k - 1), "yes", o)
      BY <2>1, <2>2
    <3> HIDE DEF State
    <3> QED
      BY <3>1, <3>2, WordRead
  <2>3. CASE ~(k <= B)
    <3>1. k \in B + 1 .. N
      BY <1>1, <2>3
    <3>2. words[k] = Quoted(values[k - B]) /\ values[k - B] \in Seq(Chars) /\ T[k] = values[k - B]
      BY <1>3, <1>4, <3>1
    <3>3. State(k) = Lex("no", "no", <<>>, SubSeq(T, 1, k), "yes", o)
      BY <2>1, <2>3
    <3> HIDE DEF State
    <3>4. Text!Replayed(Lex("no", "no", <<>>, SubSeq(T, 1, k - 1), g, o), Quoted(values[k - B]))
            = Lex("no", "no", <<>>, Append(SubSeq(T, 1, k - 1), values[k - B]), "yes", o)
      BY <3>2, QuotedRead
    <3> QED
      BY <2>1, <3>2, <3>3, <3>4
  <2> QED
    BY <2>2, <2>3
<1>9. State(0) = Between(o)
  OBVIOUS
<1> HIDE DEF State
<1>10. \A k \in 0 .. N : run[k] = State(k)
  OBVIOUS
<1> HIDE DEF run
<1>11. ASSUME NEW k \in 1 .. N
       PROVE  run[k] = Text!Replayed(run[k - 1], seqs[k])
  <2>1. run[k] = State(k) /\ run[k - 1] = State(k - 1) /\ seqs[k] = Word(k)
    <3>1. k \in 0 .. N /\ k - 1 \in 0 .. N
      BY <1>1
    <3> QED
      BY <1>5, <1>10, <3>1
  <2>2. CASE k = 1
    <3>1. State(k - 1) = Lex("no", "no", <<>>, SubSeq(T, 1, k - 1), "no", o)
      <4>1. SubSeq(T, 1, k - 1) = <<>> /\ k - 1 = 0
        BY <1>4, <2>2, SubSeqEmpty
      <4> QED
        BY <1>9, <4>1 DEF Between
    <3> QED
      BY <1>8, <2>1, <2>2, <3>1
  <2>3. CASE k # 1
    <3>1. k - 1 \in 1 .. N
      BY <1>1, <2>3
    <3>2. PICK b, t : State(k - 1) = Lex("no", "no", b, t, "yes", o)
                      /\ Flushed(b, t) = SubSeq(T, 1, k - 1)
      BY <1>7, <3>1
    <3> DEFINE blank == <<Space>>
    <3>3. Text!Replayed(State(k - 1), blank)
            = Lex("no", "no", <<>>, SubSeq(T, 1, k - 1), "yes", o)
      <4>1. Feed(State(k - 1), Space) = Lex("no", "no", <<>>, SubSeq(T, 1, k - 1), "yes", o)
        <5>1. Feed(Lex("no", "no", b, t, "yes", o), Space)
                = Lex("no", "no", <<>>, Flushed(b, t), "yes", o)
          BY FeedSpace
        <5> QED
          BY <3>2, <5>1
      <4> QED
        BY <4>1, Text!ReplayOne
    <3>4. seqs[k] = blank \o words[k] /\ words[k] \in Seq(Symbols)
      BY <1>5, <2>1, <2>3
    <3>5. blank \in Seq(Symbols)
      BY DEF Symbols, Special, Blanks
    <3> HIDE DEF blank
    <3>6. Text!Replayed(State(k - 1), blank \o words[k])
            = Text!Replayed(Text!Replayed(State(k - 1), blank), words[k])
      BY <3>4, <3>5, Text!ReplayConcat
    <3> QED
      BY <1>8, <2>1, <3>3, <3>4, <3>6
  <2> QED
    BY <2>2, <2>3
<1>12. 0 \in 0 .. N /\ N \in 0 .. N /\ N \in 1 .. N
  BY <1>1
<1>13. Text!Replayed(Between(o), Text!FlattenSeq(seqs)) = State(N)
  <2>1. run[0] = Between(o) /\ run[N] = State(N)
    BY <1>9, <1>10, <1>12
  <2>2. Text!Replayed(Between(o), Text!FlattenSeq(seqs)) = run[Len(seqs)]
    BY <1>5, <1>11, <2>1, Text!ReplayParts
  <2> QED
    BY <1>5, <2>1, <2>2
<1>14. Text!FlattenSeq(seqs) \in Seq(Symbols)
  BY <1>5, Text!FlattenType
<1> DEFINE last == <<Newline>>
           body == Text!FlattenSeq(seqs)
<1>15. last \in Seq(Symbols)
  BY DEF Symbols, Special, Blanks
<1>16. Text!Replayed(State(N), last) = Between(Append(o, T))
  <2>1. PICK b, t : State(N) = Lex("no", "no", b, t, "yes", o) /\ Flushed(b, t) = SubSeq(T, 1, N)
    BY <1>7, <1>12
  <2>2. SubSeq(T, 1, N) = T
    BY <1>4, SubSeqFull
  <2> QED
    BY <2>1, <2>2, FeedNewline, Text!ReplayOne
<1> HIDE DEF last, body
<1>17. /\ body \o last \in Seq(Symbols)
       /\ Text!Replayed(Between(o), body \o last)
            = Text!Replayed(Text!Replayed(Between(o), body), last)
  BY <1>14, <1>15, ConcatProperties, Text!ReplayConcat DEF body
<1> QED
  BY <1>6, <1>13, <1>16, <1>17 DEF T, body, last

\* what the client should make of a packet
AllTokens(packet) == [i \in DOMAIN packet |-> Tokens(packet[i])]

LEMMA PacketCommands ==
  ASSUME NEW packet \in Packets
  PROVE  /\ packet \in Seq(Commands) /\ DOMAIN packet = 1 .. Len(packet) /\ Len(packet) \in Nat
         /\ \A k \in 1 .. Len(packet) : packet[k] \in Commands
<1>1. /\ packet \in Seq([bare : Seq(Seq(Chars \ Special)), values : Seq(Seq(Chars))])
      /\ \A k \in DOMAIN packet : packet[k].bare # <<>> /\ <<>> \notin Range(packet[k].bare)
  BY LexerAssumption
<1>2. DOMAIN packet = 1 .. Len(packet) /\ Len(packet) \in Nat
  BY <1>1, LenProperties
<1>3. \A k \in 1 .. Len(packet) : packet[k] \in Commands
  BY <1>1, <1>2, ElementOfSeq DEF Commands
<1>4. packet \in Seq(Commands)
  BY <1>1, <1>2, <1>3
<1> QED
  BY <1>2, <1>3, <1>4

LEMMA TokensType == ASSUME NEW command \in Commands PROVE Tokens(command) \in Seq(Seq(Symbols))
<1>1. command.bare \in Seq(Seq(Symbols)) /\ command.values \in Seq(Seq(Symbols))
  <2>1. command.bare \in Seq(Seq(Chars \ Special)) /\ command.values \in Seq(Seq(Chars))
    BY DEF Commands
  <2>2. Seq(Chars \ Special) \subseteq Seq(Symbols) /\ Seq(Chars) \subseteq Seq(Symbols)
    BY DEF Symbols
  <2> QED
    BY <2>1, <2>2
<1> QED
  BY <1>1, ConcatProperties DEF Tokens

LEMMA PacketRead ==
  ASSUME NEW packet \in Packets
  PROVE  /\ EncodeAll(packet) \in Seq(Symbols)
         /\ Text!Replayed(Between(<<>>), EncodeAll(packet)) = Between(AllTokens(packet))
<1> DEFINE N == Len(packet)
           seqs == [i \in DOMAIN packet |-> Encode(packet[i])]
           all == AllTokens(packet)
           State(k) == Between(SubSeq(all, 1, k))
           run == [k \in 0 .. N |-> State(k)]
<1>1. N \in Nat /\ DOMAIN packet = 1 .. N /\ \A k \in 1 .. N : packet[k] \in Commands
  BY PacketCommands
<1> HIDE DEF N
<1>2. seqs \in Seq(Seq(Symbols)) /\ Len(seqs) = N /\ \A k \in 1 .. N : seqs[k] = Encode(packet[k])
  <2>1. \A k \in 1 .. N : Encode(packet[k]) \in Seq(Symbols)
    BY <1>1, EncodeRead
  <2> QED
    BY <1>1, <2>1
<1>3. all \in Seq(Seq(Seq(Symbols))) /\ Len(all) = N /\ \A k \in 1 .. N : all[k] = Tokens(packet[k])
  <2>1. \A k \in 1 .. N : Tokens(packet[k]) \in Seq(Seq(Symbols))
    BY <1>1, TokensType
  <2> QED
    BY <1>1, <2>1 DEF AllTokens
<1>4. EncodeAll(packet) = Text!FlattenSeq(seqs)
  BY FlatIs DEF EncodeAll
<1>5. State(0) = Between(<<>>) /\ State(N) = Between(all)
  <2>1. SubSeq(all, 1, 0) = <<>> /\ SubSeq(all, 1, N) = all
    BY <1>1, <1>3, SubSeqFull, SubSeqEmpty
  <2> QED
    BY <2>1
<1> HIDE DEF seqs, all, State
<1>6. \A k \in 0 .. N : run[k] = State(k)
  OBVIOUS
<1> HIDE DEF run
<1>7. run[0] = State(0) /\ run[N] = State(N)
  BY <1>1, <1>6
<1>8. ASSUME NEW k \in 1 .. N
      PROVE  run[k] = Text!Replayed(run[k - 1], seqs[k])
  <2>1. run[k] = State(k) /\ run[k - 1] = State(k - 1)
    BY <1>1, <1>6
  <2>2. SubSeq(all, 1, k) = Append(SubSeq(all, 1, k - 1), Tokens(packet[k]))
    BY <1>3, FirstAndNext
  <2>3. Text!Replayed(Between(SubSeq(all, 1, k - 1)), Encode(packet[k]))
          = Between(Append(SubSeq(all, 1, k - 1), Tokens(packet[k])))
    BY <1>1, EncodeRead
  <2> QED
    BY <1>2, <2>1, <2>2, <2>3 DEF State
<1>9. Text!Replayed(State(0), Text!FlattenSeq(seqs)) = run[N]
  BY <1>2, <1>7, <1>8, Text!ReplayParts
<1>10. Text!FlattenSeq(seqs) \in Seq(Symbols)
  BY <1>2, Text!FlattenType
<1> QED
  BY <1>4, <1>5, <1>7, <1>9, <1>10 DEF all

-----------------------------------------------------------------------------
(* What has been decoded is the beginning of what was sent                 *)

YesNo == {"yes", "no"}

Lexes ==
  [esc : YesNo, str : YesNo, buf : Seq(Symbols), toks : Seq(Seq(Symbols)), begun : YesNo,
   out : Seq(Seq(Seq(Symbols)))]

Begins(a, b) == Len(a) <= Len(b) /\ \A k \in 1 .. Len(a) : a[k] = b[k]

LEMMA UnescapeType == ASSUME NEW c \in Symbols PROVE Unescape(c) \in Symbols
BY DEF Unescape, Symbols

LEMMA FlushedType ==
  ASSUME NEW b \in Seq(Symbols), NEW t \in Seq(Seq(Symbols))
  PROVE  Flushed(b, t) \in Seq(Seq(Symbols))
BY DEF Flushed

LEMMA LexType ==
  ASSUME NEW e \in YesNo, NEW q \in YesNo, NEW b \in Seq(Symbols), NEW t \in Seq(Seq(Symbols)),
         NEW g \in YesNo, NEW o \in Seq(Seq(Seq(Symbols)))
  PROVE  Lex(e, q, b, t, g, o) \in Lexes /\ Lex(e, q, b, t, g, o).out = o
BY DEF Lex, Lexes

\* a step of the lexer appends to what has been decoded or leaves it
LEMMA FeedGrows ==
  ASSUME NEW s \in Lexes, NEW c \in Symbols
  PROVE  /\ Feed(s, c) \in Lexes
         /\ \/ Feed(s, c).out = s.out
            \/ \E x \in Seq(Seq(Symbols)) : Feed(s, c).out = Append(s.out, x)
<1>1. /\ s.esc \in YesNo /\ s.str \in YesNo /\ s.buf \in Seq(Symbols)
      /\ s.toks \in Seq(Seq(Symbols)) /\ s.out \in Seq(Seq(Seq(Symbols)))
  BY DEF Lexes
<1> DEFINE f == Flushed(s.buf, s.toks)
<1>2. f \in Seq(Seq(Symbols)) /\ Append(s.toks, s.buf) \in Seq(Seq(Symbols))
  BY <1>1, FlushedType
<1>3. Append(s.buf, c) \in Seq(Symbols) /\ Append(s.buf, Unescape(c)) \in Seq(Symbols)
  BY <1>1, UnescapeType
<1>4. <<>> \in Seq(Symbols) /\ <<>> \in Seq(Seq(Symbols)) /\ "yes" \in YesNo /\ "no" \in YesNo
  BY DEF YesNo
<1>5. Append(s.out, f) \in Seq(Seq(Seq(Symbols)))
  BY <1>1, <1>2
<1>6. CASE c = Newline
  <2>1. Feed(s, c) = Lex("no", "no", <<>>, <<>>, "no", s.out)
        \/ Feed(s, c) = Lex("no", "no", <<>>, <<>>, "no", Append(s.out, f))
    BY <1>6 DEF Feed, Between
  <2> HIDE DEF f
  <2>2. PICK o \in {s.out, Append(s.out, f)} : Feed(s, c) = Lex("no", "no", <<>>, <<>>, "no", o)
    BY <2>1
  <2>3. o \in Seq(Seq(Seq(Symbols)))
    BY <1>1, <1>5
  <2>4. Feed(s, c) \in Lexes /\ Feed(s, c).out = o
    <3>1. Lex("no", "no", <<>>, <<>>, "no", o) \in Lexes
          /\ Lex("no", "no", <<>>, <<>>, "no", o).out = o
      BY <1>4, <2>3, LexType
    <3> QED
      BY <2>2, <3>1
  <2> QED
    BY <1>2, <2>4
<1>7. CASE c # Newline
  <2>1. \E e, q \in YesNo, b \in Seq(Symbols), t \in Seq(Seq(Symbols)) :
          Feed(s, c) = Lex(e, q, b, t, "yes", s.out)
    <3>1. CASE s.esc = "yes"
      <4>1. Feed(s, c) = Lex("no", s.str, Append(s.buf, Unescape(c)), s.toks, "yes", s.out)
        BY <1>7, <3>1 DEF Feed
      <4> QED
        BY <1>1, <1>3, <1>4, <4>1
    <3>2. CASE s.esc # "yes" /\ c = Backslash
      <4>1. Feed(s, c) = Lex("yes", s.str, s.buf, s.toks, "yes", s.out)
        BY <1>7, <3>2 DEF Feed
      <4> QED
        BY <1>1, <1>4, <4>1
    <3>3. CASE s.esc # "yes" /\ c # Backslash /\ c = Quote
      <4>1. Feed(s, c) = Lex("no", "no", <<>>, Append(s.toks, s.buf), "yes", s.out)
            \/ Feed(s, c) = Lex("no", "yes", <<>>, f, "yes", s.out)
        BY <1>7, <3>3 DEF Feed
      <4> HIDE DEF f
      <4> QED
        BY <1>1, <1>2, <1>4, <4>1
    <3>4. CASE s.esc # "yes" /\ c # Backslash /\ c # Quote
      <4>1. Feed(s, c) = Lex("no", "no", <<>>, f, "yes", s.out)
            \/ Feed(s, c) = Lex("no", s.str, Append(s.buf, c), s.toks, "yes", s.out)
        BY <1>7, <3>4 DEF Feed
      <4> HIDE DEF f
      <4> QED
        BY <1>1, <1>2, <1>3, <1>4, <4>1
    <3> QED
      BY <3>1, <3>2, <3>3, <3>4
  <2>2. PICK e \in YesNo, q \in YesNo, b \in Seq(Symbols), t \in Seq(Seq(Symbols)) :
          Feed(s, c) = Lex(e, q, b, t, "yes", s.out)
    BY <2>1
  <2>3. Feed(s, c) \in Lexes /\ Feed(s, c).out = s.out
    <3> DEFINE o == s.out
    <3>1. o \in Seq(Seq(Seq(Symbols))) /\ "yes" \in YesNo
      BY <1>1, <1>4
    <3> HIDE DEF o
    <3>2. Lex(e, q, b, t, "yes", o) \in Lexes /\ Lex(e, q, b, t, "yes", o).out = o
      BY <3>1, LexType
    <3> QED
      BY <2>2, <3>2 DEF o
  <2> QED
    BY <2>3
<1> QED
  BY <1>6, <1>7

LEMMA ReplayGrows ==
  ASSUME NEW s \in Lexes, NEW w \in Seq(Symbols)
  PROVE  Begins(s.out, Text!Replayed(s, w).out)
<1> DEFINE D == {u \in Lexes : Begins(s.out, u.out)}
<1>1. s \in D
  BY DEF Begins, Lexes
<1>2. ASSUME NEW u \in D, NEW c \in Symbols
      PROVE  Feed(u, c) \in D
  <2>1. u \in Lexes /\ Begins(s.out, u.out)
    OBVIOUS
  <2>2. Feed(u, c) \in Lexes
    BY <2>1, FeedGrows
  <2>3. CASE Feed(u, c).out = u.out
    BY <2>1, <2>2, <2>3
  <2>4. CASE \E x \in Seq(Seq(Symbols)) : Feed(u, c).out = Append(u.out, x)
    <3>1. PICK x \in Seq(Seq(Symbols)) : Feed(u, c).out = Append(u.out, x)
      BY <2>4
    <3>2. u.out \in Seq(Seq(Seq(Symbols))) /\ s.out \in Seq(Seq(Seq(Symbols)))
      BY <2>1 DEF Lexes
    <3>3. Begins(s.out, Append(u.out, x))
      BY <2>1, <3>2, AppendProperties, LenProperties DEF Begins
    <3> QED
      BY <2>2, <3>1, <3>3
  <2> QED
    BY <2>1, <2>3, <2>4, FeedGrows
<1> HIDE DEF D
<1>3. Text!Replayed(s, w) \in D
  BY <1>1, <1>2, Text!ReplayPreserves
<1> QED
  BY <1>3 DEF D

-----------------------------------------------------------------------------
(* The invariant: reading the rest gives what was sent                     *)

Answer(b) == IF b THEN "yes" ELSE "no"

\* the state of the lexer as Feed has it
Now == Lex(Answer(in_escape), Answer(in_string), buffer, tokens, Answer(begun), decoded)

LexInv ==
  /\ sent \in Packets /\ unread \in Seq(Symbols)
  /\ in_escape \in BOOLEAN /\ in_string \in BOOLEAN /\ begun \in BOOLEAN
  /\ Now \in Lexes
  /\ Text!Replayed(Now, unread) = Between(AllTokens(sent))

LEMMA LexStart == LInit => LexInv
<1> SUFFICES ASSUME LInit PROVE LexInv
  OBVIOUS
<1>1. Now = Between(<<>>)
  BY DEF LInit, Now, Answer, Between
<1>2. <<>> \in Seq(Symbols) /\ <<>> \in Seq(Seq(Symbols)) /\ <<>> \in Seq(Seq(Seq(Symbols)))
  OBVIOUS
<1>3. Between(<<>>) \in Lexes
  BY <1>2, LexType DEF Between, YesNo
<1> QED
  BY <1>1, <1>3, PacketRead DEF LInit, LexInv

\* a step of the machine is a step of Feed
LEMMA LexFeeds ==
  ASSUME LexInv, LNext
  PROVE  /\ unread # <<>> /\ unread' = Tail(unread) /\ sent' = sent
         /\ Now' = Feed(Now, Head(unread))
         /\ in_escape' \in BOOLEAN /\ in_string' \in BOOLEAN /\ begun' \in BOOLEAN
<1> DEFINE c == Head(unread)
<1>1. in_escape \in BOOLEAN /\ in_string \in BOOLEAN /\ begun \in BOOLEAN
  BY DEF LexInv
<1>2. CASE EndCommand
  BY <1>1, <1>2 DEF EndCommand, Reset, AddToken, Now, Answer, Feed, Lex, Between, Flushed
<1>3. CASE Escaped(c)
  BY <1>1, <1>3 DEF Escaped, Advance, Now, Answer, Feed, Lex
<1>4. CASE BeginEscape(c)
  BY <1>1, <1>4 DEF BeginEscape, Advance, Now, Answer, Feed, Lex
<1>5. CASE BeginString(c)
  BY <1>1, <1>5 DEF BeginString, AddToken, Advance, Now, Answer, Feed, Lex, Flushed, Quote,
                    Backslash
<1>6. CASE EndString(c)
  BY <1>1, <1>6 DEF EndString, Advance, Now, Answer, Feed, Lex, Quote, Backslash
<1>7. CASE Separator(c)
  BY <1>1, <1>7 DEF Separator, AddToken, Advance, Now, Answer, Feed, Lex, Flushed, Blanks, Quote,
                    Backslash, Space, Newline
<1>8. CASE Plain(c)
  BY <1>1, <1>8 DEF Plain, Advance, Now, Answer, Feed, Lex
<1> QED
  BY <1>2, <1>3, <1>4, <1>5, <1>6, <1>7, <1>8 DEF LNext, Read

LEMMA LexKeeps == LexInv /\ [LNext]_lvars => LexInv'
<1> SUFFICES ASSUME LexInv, [LNext]_lvars PROVE LexInv'
  OBVIOUS
<1>1. CASE LNext
  <2>1. /\ unread # <<>> /\ unread' = Tail(unread) /\ sent' = sent
        /\ Now' = Feed(Now, Head(unread))
        /\ in_escape' \in BOOLEAN /\ in_string' \in BOOLEAN /\ begun' \in BOOLEAN
    BY <1>1, LexFeeds
  <2>2. unread \in Seq(Symbols) /\ Head(unread) \in Symbols /\ Tail(unread) \in Seq(Symbols)
    BY <2>1, HeadTailProperties DEF LexInv
  <2>3. Now' \in Lexes
    BY <2>1, <2>2, FeedGrows DEF LexInv
  <2>4. Text!Replayed(Now, unread) = Text!Replayed(Feed(Now, Head(unread)), Tail(unread))
    BY <2>1, <2>2, Text!ReplayHead
  <2> QED
    BY <2>1, <2>2, <2>3, <2>4 DEF LexInv
<1>2. CASE UNCHANGED lvars
  BY <1>2 DEF LexInv, Now, lvars, lexer
<1> QED
  BY <1>1, <1>2

LEMMA LexCorrect == LSpec => []LexInv
BY LexStart, LexKeeps, PTL DEF LSpec

\* What has been decoded is the beginning of what was sent.
LEMMA DecodedBegins == LexInv => Begins(decoded, AllTokens(sent))
<1> SUFFICES ASSUME LexInv PROVE Begins(decoded, AllTokens(sent))
  OBVIOUS
<1>1. Now.out = decoded /\ Between(AllTokens(sent)).out = AllTokens(sent)
  BY DEF Now, Lex, Between
<1>2. Begins(Now.out, Text!Replayed(Now, unread).out)
  BY ReplayGrows DEF LexInv
<1> QED
  BY <1>1, <1>2 DEF LexInv

LEMMA AllTokensIs ==
  ASSUME LexInv
  PROVE  /\ Len(AllTokens(sent)) = Len(sent)
         /\ \A k \in 1 .. Len(AllTokens(sent)) : AllTokens(sent)[k] = Tokens(sent[k])
<1>1. DOMAIN sent = 1 .. Len(sent) /\ Len(sent) \in Nat
  BY PacketCommands DEF LexInv
<1> QED
  BY <1>1 DEF AllTokens

\* server/main.c:770-834, client/main.c:701-717: no command of any packet is
\* dropped, neither for a newline inside a value nor for a string or an escape
\* left open.
THEOREM NoneDroppedCorrect == LSpec => []NoneDropped
<1>1. LexInv => NoneDropped
  <2> SUFFICES ASSUME LexInv, unread = <<>> PROVE Len(decoded) = Len(sent)
    BY DEF NoneDropped
  <2>1. Now = Between(AllTokens(sent))
    BY Text!ReplayNothing DEF LexInv
  <2>2. decoded = AllTokens(sent)
    BY <2>1 DEF Now, Between, Lex
  <2> QED
    BY <2>2, AllTokensIs
<1> QED
  BY <1>1, LexCorrect, PTL

\* dstrutils.c:441-575, client/main.c:701-717: for every packet and all values,
\* whatever quotes, backslashes, newlines and blanks they hold, each command
\* comes out as the words and values it was made of, in order.
THEOREM DecodesCorrect == LSpec => DecodesInOrder
<1>1. LexInv /\ LexInv' /\ Begins(decoded, AllTokens(sent))' /\ [LNext]_lvars =>
        [decoded' # decoded =>
           decoded' = Append(decoded, Tokens(sent[Len(decoded) + 1]))]_lvars
  <2> SUFFICES ASSUME LexInv, LexInv', Begins(decoded, AllTokens(sent))', LNext,
                      decoded' # decoded
               PROVE  decoded' = Append(decoded, Tokens(sent[Len(decoded) + 1]))
    BY DEF lvars
  <2>1. sent' = sent /\ decoded' = Append(decoded, AddToken)
    BY DEF LNext, Read, EndCommand, Escaped, BeginEscape, BeginString, EndString, Separator, Plain,
           Advance
  <2>2. decoded \in Seq(Seq(Seq(Symbols))) /\ decoded' \in Seq(Seq(Seq(Symbols)))
    BY DEF LexInv, Now, Lex, Lexes
  <2>3. Begins(decoded', AllTokens(sent))
    BY <2>1 DEF AllTokens
  <2> DEFINE n == Len(decoded) + 1
  <2>4. n \in 1 .. Len(decoded') /\ decoded'[n] = AddToken
    BY <2>1, <2>2
  <2>5. AddToken = AllTokens(sent)[n] /\ n \in 1 .. Len(AllTokens(sent))
    BY <2>3, <2>4 DEF Begins
  <2> QED
    BY <2>1, <2>5, AllTokensIs
<1> QED
  BY <1>1, DecodedBegins, LexCorrect, PTL DEF LSpec, DecodesInOrder

-----------------------------------------------------------------------------
(* Splitting                                                               *)

\* the part of s between two places
Part(s, a, b) == SubSeq(s, a + 1, b)

LEMMA PartType ==
  ASSUME NEW A, NEW s \in Seq(A), NEW a \in 0 .. Len(s), NEW b \in a .. Len(s)
  PROVE  /\ Sub(s, a, b - a) = Part(s, a, b)
         /\ Part(s, a, b) \in Seq(A)
         /\ Len(Part(s, a, b)) = b - a
<1>1. Len(s) \in Nat /\ a \in Nat /\ b \in Nat /\ a <= b /\ b <= Len(s)
  BY LenProperties
<1>2. a + (b - a) = b /\ a + 1 \in Int /\ b \in Int
  BY <1>1
<1>3. Sub(s, a, b - a) = Part(s, a, b)
  BY <1>2 DEF Sub, Part
<1>4. \A k \in a + 1 .. b : s[k] \in A
  BY <1>1, ElementOfSeq
<1>5. /\ SubSeq(s, a + 1, b) \in Seq(A)
      /\ Len(SubSeq(s, a + 1, b)) = IF a + 1 <= b THEN b - (a + 1) + 1 ELSE 0
  BY <1>2, <1>4, SubSeqProperties
<1> QED
  BY <1>1, <1>3, <1>5 DEF Part

LEMMA PartsJoin ==
  ASSUME NEW A, NEW s \in Seq(A), NEW a \in 0 .. Len(s), NEW b \in a .. Len(s),
         NEW c \in b .. Len(s)
  PROVE  Part(s, a, b) \o Part(s, b, c) = Part(s, a, c)
<1>1. Len(s) \in Nat
  BY LenProperties
<1>2. a + 1 \in 1 .. Len(s) + 1 /\ b \in (a + 1) - 1 .. Len(s)
  BY <1>1
<1> QED
  BY <1>2, ConcatAdjacentSubSeq DEF Part

LEMMA PartAll ==
  ASSUME NEW A, NEW s \in Seq(A)
  PROVE  Part(s, 0, 0) = <<>> /\ Part(s, 0, Len(s)) = s
BY SubSeqEmpty, SubSeqFull DEF Part

\* A part that ends where the next separator begins holds none.
LEMMA PartHoldsNone ==
  ASSUME NEW A, NEW s \in Seq(A), NEW o \in Seq(A), o # <<>>,
         NEW a \in 0 .. Len(s), NEW b \in a .. Len(s), \A i \in Places(s, o, a) : b <= i
  PROVE  Places(Part(s, a, b), o, 0) = {}
<1>1. Len(s) \in Nat /\ Len(o) \in Nat /\ Len(o) # 0 /\ a \in Nat /\ b \in Nat /\ a <= b /\ b <= Len(s)
  BY LenProperties, EmptySeq
<1>2. Part(s, a, b) \in Seq(A) /\ Len(Part(s, a, b)) = b - a
  BY PartType
<1>3. ASSUME NEW k \in Places(Part(s, a, b), o, 0)
      PROVE  FALSE
  <2>1. /\ k \in Nat /\ k + Len(o) <= b - a
        /\ SubSeq(Part(s, a, b), k + 1, k + Len(o)) = o
    BY <1>1, <1>2, <1>3 DEF Places
  <2>2. /\ a + 1 \in 1 .. Len(s) /\ b \in 1 .. Len(s)
        /\ k + 1 \in 1 .. b - (a + 1) + 1 /\ k + Len(o) \in 1 .. b - (a + 1) + 1
        /\ (a + 1) + (k + 1) - 1 = (a + k) + 1 /\ (a + 1) + (k + Len(o)) - 1 = (a + k) + Len(o)
    BY <1>1, <2>1
  <2>3. SubSeq(SubSeq(s, a + 1, b), k + 1, k + Len(o))
          = SubSeq(s, (a + 1) + (k + 1) - 1, (a + 1) + (k + Len(o)) - 1)
    <3> DEFINE i == a + 1
               m == k + 1
               n == k + Len(o)
    <3>1. i \in 1 .. Len(s) /\ b \in 1 .. Len(s) /\ m \in 1 .. b - i + 1 /\ n \in 1 .. b - i + 1
      BY <2>2
    <3> HIDE DEF i, m, n
    <3>2. SubSeq(SubSeq(s, i, b), m, n) = SubSeq(s, i + m - 1, i + n - 1)
      BY <3>1, SubSeqOfSubSeq
    <3> QED
      BY <3>2 DEF i, m, n
  <2>4. SubSeq(s, (a + k) + 1, (a + k) + Len(o)) = o
    BY <2>1, <2>2, <2>3 DEF Part
  <2>5. a + k \in a .. Len(s) - Len(o)
    BY <1>1, <2>1
  <2>6. a + k \in Places(s, o, a)
    BY <2>4, <2>5 DEF Places
  <2>7. b <= a + k
    BY <2>6
  <2> QED
    BY <1>1, <2>1, <2>7
<1> QED
  BY <1>3

\* what joining makes of the pieces before one more
Prefix(list, glue) == IF list = <<>> THEN <<>> ELSE Join(list, glue) \o glue

LEMMA JoinAppend ==
  ASSUME NEW A, NEW list \in Seq(Seq(A)), NEW glue \in Seq(A), NEW x \in Seq(A)
  PROVE  Join(Append(list, x), glue) = Prefix(list, glue) \o x
<1> DEFINE N == Len(list)
           more == Append(list, x)
           With(l) == [i \in DOMAIN l |-> IF i = 1 THEN l[i] ELSE glue \o l[i]]
<1>1. /\ N \in Nat /\ DOMAIN list = 1 .. N /\ more \in Seq(Seq(A)) /\ DOMAIN more = 1 .. N + 1
      /\ \A i \in 1 .. N : more[i] = list[i] /\ list[i] \in Seq(A)
      /\ more[N + 1] = x
  BY AppendProperties, LenProperties, ElementOfSeq
<1>2. \A l : Join(l, glue) = Text!FlattenSeq(With(l))
  BY FlatIs DEF Join
<1> HIDE DEF more
<1>3. With(list) \in Seq(Seq(A)) /\ Len(With(list)) = N
  <2>1. \A i \in 1 .. N : glue \o list[i] \in Seq(A)
    BY <1>1, ConcatProperties
  <2> QED
    BY <1>1, <2>1
<1>4. With(more) = Append(With(list), IF N = 0 THEN x ELSE glue \o x)
  <2> DEFINE y == IF N = 0 THEN x ELSE glue \o x
  <2>1. N + 1 = 1 <=> N = 0
    BY <1>1
  <2>2. /\ DOMAIN With(more) = 1 .. N + 1
        /\ \A i \in 1 .. N : With(more)[i] = With(list)[i]
        /\ With(more)[N + 1] = y
    BY <1>1, <2>1
  <2>3. y \in Seq(A)
    BY ConcatProperties
  <2>4. /\ Append(With(list), y) \in Seq(Seq(A)) /\ Len(Append(With(list), y)) = N + 1
        /\ \A i \in 1 .. N : Append(With(list), y)[i] = With(list)[i]
        /\ Append(With(list), y)[N + 1] = y
    BY <1>3, <2>3, AppendProperties
  <2>5. With(more) = [i \in 1 .. N + 1 |-> With(more)[i]]
    BY <1>1
  <2> HIDE DEF With, y
  <2>6. Append(With(list), y) = [i \in 1 .. N + 1 |-> Append(With(list), y)[i]]
    <3> DEFINE z == Append(With(list), y)
    <3>1. z \in Seq(Seq(A)) /\ Len(z) = N + 1
      BY <2>4
    <3> HIDE DEF z
    <3>2. z = [i \in 1 .. N + 1 |-> z[i]]
      BY <3>1
    <3> QED
      BY <3>2 DEF z
  <2>7. \A i \in 1 .. N + 1 : i \in 1 .. N \/ i = N + 1
    BY <1>1
  <2>8. \A i \in 1 .. N + 1 : With(more)[i] = Append(With(list), y)[i]
    BY <2>2, <2>4, <2>7
  <2>9. With(more) = Append(With(list), y)
    BY <2>5, <2>6, <2>8
  <2> QED
    BY <2>9 DEF y
<1>5. Join(list, glue) \in Seq(A)
  BY <1>2, <1>3, Text!FlattenType
<1> HIDE DEF With
<1>7. Join(more, glue) = Join(list, glue) \o (IF N = 0 THEN x ELSE glue \o x)
  <2> DEFINE y == IF N = 0 THEN x ELSE glue \o x
  <2>1. y \in Seq(A)
    BY ConcatProperties
  <2> HIDE DEF y
  <2>2. Text!FlattenSeq(Append(With(list), y)) = Text!FlattenSeq(With(list)) \o y
    BY <1>3, <2>1, Text!FlattenAppend
  <2>3. With(more) = Append(With(list), y)
    BY <1>4 DEF y
  <2>4. Join(more, glue) = Text!FlattenSeq(With(more))
        /\ Join(list, glue) = Text!FlattenSeq(With(list))
    BY <1>2
  <2>5. Join(more, glue) = Join(list, glue) \o y
    BY <2>2, <2>3, <2>4
  <2> QED
    BY <2>5 DEF y
<1>8. Join(more, glue) = Prefix(list, glue) \o x
  <2>1. CASE N = 0
    <3>1. list = <<>>
      BY <2>1, EmptySeq
    <3>2. Join(list, glue) = <<>>
      <4>1. With(list) = <<>>
        BY <1>3, <2>1, EmptySeq
      <4> QED
        BY <1>2, <4>1, Text!FlattenNothing
    <3> QED
      BY <1>7, <2>1, <3>1, <3>2 DEF Prefix
  <2>2. CASE N # 0
    <3>1. list # <<>>
      BY <2>2
    <3>2. Join(list, glue) \o (glue \o x) = (Join(list, glue) \o glue) \o x
      BY <1>5, ConcatAssociative
    <3> QED
      BY <1>7, <2>2, <3>1, <3>2 DEF Prefix
  <2> QED
    BY <2>1, <2>2
<1> QED
  BY <1>8 DEF more

NoneIn(list) == \A i \in DOMAIN list : Places(list[i], on, 0) = {}

\* While pieces are sought, those found are the text up to j and hold no
\* separator, and there is room for two more.
Looping ==
  /\ max # 1 /\ j \in 0 .. Len(text) /\ result \in Seq(Seq(Alphabet))
  /\ Prefix(result, on) = Part(text, 0, j)
  /\ NoneIn(result)
  /\ max > 0 => Len(result) + 2 <= max

SplitInv ==
  /\ splitting \in {"idle", "loop", "done"}
  /\ splitting # "idle" => text \in TextsToSplit /\ on \in Separators /\ max \in 0 .. MaxPieces
  /\ splitting = "loop" => Looping
  /\ SplitJoins

LEMMA CallSplits ==
  ASSUME NEW t \in TextsToSplit, NEW o \in Separators, NEW m \in 0 .. MaxPieces, Call(t, o, m)
  PROVE  SplitInv'
<1>1. /\ text' = t /\ on' = o /\ max' = m /\ j' = 0
      /\ t \in Seq(Alphabet) /\ o \in Seq(Alphabet) /\ m \in Nat
  BY SplitAssumption DEF Call
<1>2. CASE m = 1
  <2>1. result' = <<t>> /\ splitting' = "done"
    BY <1>2 DEF Call
  <2>2. Join(<<t>>, o) = t
    <3>1. <<>> \in Seq(Seq(Alphabet)) /\ Append(<<>>, t) = <<t>>
      OBVIOUS
    <3>2. Join(Append(<<>>, t), o) = Prefix(<<>>, o) \o t
      BY <1>1, <3>1, JoinAppend
    <3> QED
      BY <1>1, <3>1, <3>2, ConcatEmptySeq DEF Prefix
  <2>3. SplitJoins'
    <3>1. Join(result', on') = text' /\ Len(result') = 1 /\ DOMAIN result' = {1} /\ Limit' = 1
      BY <1>1, <1>2, <2>1, <2>2 DEF Limit
    <3> QED
      BY <1>1, <1>2, <3>1 DEF SplitJoins
  <2> QED
    BY <1>1, <2>1, <2>3 DEF SplitInv
<1>3. CASE m # 1
  <2>1. result' = <<>> /\ splitting' = "loop"
    BY <1>3 DEF Call
  <2>2. Part(t, 0, 0) = <<>> /\ Len(t) \in Nat
    BY <1>1, LenProperties, PartAll
  <2>3. Looping'
    <3>1. <<>> \in Seq(Seq(Alphabet)) /\ 0 \in 0 .. Len(t)
      BY <2>2
    <3>2. max' > 0 => Len(result') + 2 <= max'
      BY <1>1, <1>3, <2>1
    <3>3. NoneIn(result)'
      BY <2>1 DEF NoneIn
    <3> QED
      BY <1>1, <1>3, <2>1, <2>2, <3>1, <3>2, <3>3 DEF Looping, Prefix
  <2> QED
    BY <1>1, <2>1, <2>3 DEF SplitInv, SplitJoins
<1> QED
  BY <1>2, <1>3

\* a piece that ends with a separator
LEMMA PieceFound ==
  ASSUME SplitInv, splitting = "loop", NEW i \in Places(text, on, j),
         \A h \in Places(text, on, j) : i <= h
  PROVE  LET piece == Sub(text, j, i - j) IN
         /\ piece \in Seq(Alphabet) /\ i + Len(on) \in 0 .. Len(text)
         /\ Prefix(Append(result, piece), on) = Part(text, 0, i + Len(on))
         /\ Append(result, piece) \in Seq(Seq(Alphabet)) /\ NoneIn(Append(result, piece))
<1>1. Looping /\ text \in Seq(Alphabet) /\ on \in Seq(Alphabet) /\ on # <<>>
  BY SplitAssumption DEF SplitInv
<1>2. /\ Len(text) \in Nat /\ Len(on) \in Nat
      /\ j \in 0 .. Len(text) /\ i \in j .. Len(text) /\ i + Len(on) \in i .. Len(text)
      /\ SubSeq(text, i + 1, i + Len(on)) = on
  BY <1>1, LenProperties DEF Looping, Places
<1> DEFINE piece == Sub(text, j, i - j)
<1>3. piece = Part(text, j, i) /\ piece \in Seq(Alphabet)
  BY <1>1, <1>2, PartType
<1>4. Places(piece, on, 0) = {}
  BY <1>1, <1>2, <1>3, PartHoldsNone
<1> HIDE DEF piece
<1>5. /\ Append(result, piece) \in Seq(Seq(Alphabet)) /\ Append(result, piece) # <<>>
      /\ DOMAIN Append(result, piece) = 1 .. Len(result) + 1 /\ DOMAIN result = 1 .. Len(result)
      /\ \A k \in 1 .. Len(result) : Append(result, piece)[k] = result[k]
      /\ Append(result, piece)[Len(result) + 1] = piece
      /\ Len(result) \in Nat
  BY <1>1, <1>3, AppendProperties, LenProperties DEF Looping
<1>6. NoneIn(Append(result, piece))
  BY <1>1, <1>4, <1>5 DEF Looping, NoneIn
<1>7. Prefix(Append(result, piece), on) = Part(text, 0, i + Len(on))
  <2>1. Join(Append(result, piece), on) = Prefix(result, on) \o piece
    BY <1>1, <1>3, JoinAppend DEF Looping
  <2>2. Prefix(result, on) \o piece = Part(text, 0, i)
    <3>1. 0 \in 0 .. Len(text) /\ j \in 0 .. Len(text) /\ i \in j .. Len(text)
      BY <1>2
    <3>2. Part(text, 0, j) \o Part(text, j, i) = Part(text, 0, i)
      BY <1>1, <3>1, PartsJoin
    <3> QED
      BY <1>1, <1>3, <3>2 DEF Looping
  <2>3. Part(text, 0, i) \o on = Part(text, 0, i + Len(on))
    <3>1. i \in 0 .. Len(text) /\ on = Part(text, i, i + Len(on))
      BY <1>2 DEF Part
    <3>2. Part(text, 0, i) \o Part(text, i, i + Len(on)) = Part(text, 0, i + Len(on))
      <4>1. 0 \in 0 .. Len(text) /\ i \in 0 .. Len(text) /\ i + Len(on) \in i .. Len(text)
        BY <1>2
      <4> QED
        BY <1>1, <4>1, PartsJoin
    <3> QED
      BY <3>1, <3>2
  <2> QED
    BY <1>5, <2>1, <2>2, <2>3 DEF Prefix
<1>8. i + Len(on) \in 0 .. Len(text)
  BY <1>2
<1> QED
  BY <1>3, <1>5, <1>6, <1>7, <1>8 DEF piece

\* the last piece, after which the pieces joined are the text
LEMMA RestJoins ==
  ASSUME NEW s \in Seq(Alphabet), NEW o \in Seq(Alphabet), NEW list \in Seq(Seq(Alphabet)),
         NEW k \in 0 .. Len(s), Prefix(list, o) = Part(s, 0, k)
  PROVE  /\ Sub(s, k, Len(s) - k) \in Seq(Alphabet)
         /\ Sub(s, k, Len(s) - k) = Part(s, k, Len(s))
         /\ Join(Append(list, Sub(s, k, Len(s) - k)), o) = s
<1>1. Len(s) \in Nat /\ Len(s) \in k .. Len(s) /\ 0 \in 0 .. Len(s) /\ k \in 0 .. Len(s)
  BY LenProperties
<1> DEFINE rest == Sub(s, k, Len(s) - k)
<1>2. rest = Part(s, k, Len(s)) /\ rest \in Seq(Alphabet)
  BY <1>1, PartType
<1>3. Part(s, 0, k) \o Part(s, k, Len(s)) = s
  <2>1. Part(s, 0, k) \o Part(s, k, Len(s)) = Part(s, 0, Len(s))
    BY <1>1, PartsJoin
  <2> QED
    BY <2>1, PartAll
<1> HIDE DEF rest
<1>4. Join(Append(list, rest), o) = Prefix(list, o) \o rest
  BY <1>2, JoinAppend
<1> QED
  BY <1>2, <1>3, <1>4 DEF rest

LEMMA TurnSplits ==
  ASSUME SplitInv, Turn
  PROVE  SplitInv'
<1>1. PICK i \in Places(text, on, j) :
        /\ \A h \in Places(text, on, j) : i <= h
        /\ j' = i + Len(on)
        /\ IF Len(result) + 2 = Limit
             THEN /\ result' = result \o <<Sub(text, j, i - j), Sub(text, j', Len(text) - j')>>
                  /\ splitting' = "done"
             ELSE /\ result' = Append(result, Sub(text, j, i - j))
                  /\ UNCHANGED splitting
  BY DEF Turn
<1>2. splitting = "loop" /\ UNCHANGED <<text, on, max>>
  BY DEF Turn
<1>3. /\ Looping /\ text \in Seq(Alphabet) /\ on \in Seq(Alphabet)
      /\ text \in TextsToSplit /\ on \in Separators /\ max \in 0 .. MaxPieces
      /\ MaxPieces \in Nat /\ result \in Seq(Seq(Alphabet)) /\ Len(result) \in Nat
  BY <1>2, SplitAssumption, LenProperties DEF SplitInv, Looping
<1> DEFINE piece == Sub(text, j, i - j)
           found == Append(result, piece)
           rest == Sub(text, j', Len(text) - j')
<1>4. /\ piece \in Seq(Alphabet) /\ j' \in 0 .. Len(text)
      /\ Prefix(found, on) = Part(text, 0, j')
      /\ found \in Seq(Seq(Alphabet)) /\ NoneIn(found)
  BY <1>1, <1>2, PieceFound
<1>5. Len(found) = Len(result) + 1
  BY <1>3, <1>4, AppendProperties
<1>6. CASE Len(result) + 2 = Limit
  <2>1. result' = result \o <<piece, rest>> /\ splitting' = "done"
    BY <1>1, <1>6
  <2>2. rest \in Seq(Alphabet) /\ Join(Append(found, rest), on) = text
    BY <1>3, <1>4, RestJoins
  <2> HIDE DEF piece, rest
  <2>3. result \o <<piece, rest>> = Append(found, rest)
    BY <1>3, <1>4, <2>2
  <2> HIDE DEF found
  <2>4. result' = Append(found, rest)
    BY <2>1, <2>3
  <2>5. /\ Len(result') = Limit /\ Limit \in Nat /\ DOMAIN result' = 1 .. Limit
        /\ DOMAIN found = 1 .. Limit - 1
        /\ \A k \in 1 .. Limit - 1 : result'[k] = found[k]
    BY <1>3, <1>4, <1>5, <1>6, <2>2, <2>4, AppendProperties, LenProperties
  <2>6. Limit' = Limit
    BY <1>2 DEF Limit
  <2>7. ASSUME NEW k \in DOMAIN result', Places(result'[k], on, 0) # {}
        PROVE  k = Limit
    BY <1>4, <2>5, <2>7 DEF NoneIn
  <2>8. max > 0 => Len(result') <= max
    BY <1>3, <2>5 DEF Limit
  <2>9. SplitJoins'
    <3>1. Join(result', on') = text'
      BY <1>2, <2>2, <2>4
    <3>2. \A k \in DOMAIN result' : Places(result'[k], on', 0) # {} => k = Len(result') /\ k = Limit'
      BY <1>2, <2>5, <2>6, <2>7
    <3> QED
      BY <1>2, <2>8, <3>1, <3>2 DEF SplitJoins
  <2> QED
    BY <1>2, <1>3, <2>1, <2>9 DEF SplitInv
<1>7. CASE Len(result) + 2 # Limit
  <2>1. result' = found /\ splitting' = "loop"
    BY <1>1, <1>2, <1>7
  <2>2. max > 0 => Len(found) + 2 <= max
    BY <1>3, <1>5, <1>7 DEF Looping, Limit
  <2> HIDE DEF found
  <2>3. NoneIn(result)'
    BY <1>2, <1>4, <2>1 DEF NoneIn
  <2>4. Looping'
    BY <1>2, <1>3, <1>4, <2>1, <2>2, <2>3 DEF Looping
  <2> QED
    BY <1>2, <1>3, <2>1, <2>4 DEF SplitInv, SplitJoins
<1> QED
  BY <1>6, <1>7

LEMMA FinishSplits ==
  ASSUME SplitInv, Finish
  PROVE  SplitInv'
<1>1. /\ splitting = "loop" /\ splitting' = "done" /\ UNCHANGED <<text, on, max>>
      /\ Places(text, on, j) = {}
      /\ result' = Append(result, Sub(text, j, Len(text) - j))
  BY DEF Finish
<1>2. /\ Looping /\ text \in Seq(Alphabet) /\ on \in Seq(Alphabet) /\ on # <<>>
      /\ text \in TextsToSplit /\ on \in Separators /\ max \in 0 .. MaxPieces
      /\ MaxPieces \in Nat /\ result \in Seq(Seq(Alphabet)) /\ Len(result) \in Nat
  BY <1>1, SplitAssumption, LenProperties DEF SplitInv, Looping
<1> DEFINE rest == Sub(text, j, Len(text) - j)
<1>3. rest \in Seq(Alphabet) /\ rest = Part(text, j, Len(text)) /\ Join(Append(result, rest), on) = text
  BY <1>2, RestJoins DEF Looping
<1>4. Places(rest, on, 0) = {}
  <2>1. j \in 0 .. Len(text) /\ Len(text) \in j .. Len(text)
    BY <1>2, LenProperties DEF Looping
  <2> QED
    BY <1>1, <1>2, <1>3, <2>1, PartHoldsNone
<1>5. result' = Append(result, rest)
  BY <1>1
<1> HIDE DEF rest
<1>6. /\ Len(result') = Len(result) + 1 /\ DOMAIN result' = 1 .. Len(result) + 1
      /\ DOMAIN result = 1 .. Len(result)
      /\ \A k \in 1 .. Len(result) : result'[k] = result[k]
      /\ result'[Len(result) + 1] = rest
  BY <1>2, <1>3, <1>5, AppendProperties, LenProperties
<1>7. \A k \in DOMAIN result' : Places(result'[k], on, 0) = {}
  BY <1>2, <1>4, <1>6 DEF Looping, NoneIn
<1>8. max > 0 => Len(result') <= max
  BY <1>2, <1>6 DEF Looping
<1>9. SplitJoins'
  BY <1>1, <1>3, <1>5, <1>7, <1>8 DEF SplitJoins
<1> QED
  BY <1>1, <1>2, <1>9 DEF SplitInv

\* dstrutils.c:232-245,359-440: for all texts, separators and limits the pieces
\* joined are the text again, only a last piece that the limit has left whole
\* holds a separator, and there are no more pieces than the limit.
THEOREM SplitCorrect == SSpec => []SplitJoins
<1>1. SInit => SplitInv
  BY DEF SInit, SplitInv, SplitJoins
<1>2. SplitInv /\ [SNext]_svars => SplitInv'
  <2> SUFFICES ASSUME SplitInv, [SNext]_svars PROVE SplitInv'
    OBVIOUS
  <2>1. CASE UNCHANGED svars
    BY <2>1 DEF svars, SplitInv, SplitJoins, Looping, NoneIn, Limit
  <2> QED
    BY <2>1, CallSplits, TurnSplits, FinishSplits DEF SNext
<1>3. SplitInv => SplitJoins
  BY DEF SplitInv
<1> QED
  BY <1>1, <1>2, <1>3, PTL DEF SSpec

-----------------------------------------------------------------------------
(* The user interface                                                      *)

Copy == INSTANCE Replay WITH Op <- Parsed
Show == INSTANCE Replay WITH Op <- Shown

\* the copy after some lines, the window after some events
Copied(s, lines)  == FoldLeft(Parsed, s, lines)
Showed(w, events) == FoldLeft(Shown, w, events)

LEMMA CopiedIsReplayed == \A s, lines : Copied(s, lines) = Copy!Replayed(s, lines)
BY DEF Copied, FoldLeft, MapThenFoldSet, Max,
       Copy!Replayed, Copy!FoldLeft, Copy!MapThenFoldSet, Copy!Max

LEMMA ShowedIsReplayed == \A w, events : Showed(w, events) = Show!Replayed(w, events)
BY DEF Showed, FoldLeft, MapThenFoldSet, Max,
       Show!Replayed, Show!FoldLeft, Show!MapThenFoldSet, Show!Max

-----------------------------------------------------------------------------
(* The invariant                                                           *)

AnyLine ==
  {Line("STATE", c) : c \in ConnectionStates \cup {"exiting"}}
    \cup {Line("SERVER", s) : s \in Servers}
    \cup {Line("SSET", v) : v \in Infos}
    \cup {Line("MUTED", flag) : flag \in BOOLEAN}

AnyEvent == {l \in AnyLine : l.arg # "exiting" \/ l.op # "STATE"}

\* svcc, and so the copy, has the server's info only while connected.
GoodCopies == {s \in Copies : s.connection = "connected" \/ s.info = None}

\* the lines that svcc prints in a state
MayFollow ==
  {p \in GoodCopies \X AnyLine :
     /\ p[2].op = "STATE" /\ p[2].arg = "connecting" => p[1].connection # "connected"
     /\ p[2].op = "SERVER" => p[1].connection = "disconnected" \/ p[1].server = p[2].arg
     /\ p[2].op = "SSET" => p[1].connection = "connected"}

\* Each line on its way will meet the copy in the state in which svcc printed
\* it, and after the last the copy is svcc's state.
CopyInv ==
  /\ client \in GoodCopies /\ state \in GoodCopies
  /\ client.connection # "disconnected" => client.server \in Servers
  /\ pipe \in Seq(AnyLine) /\ stdoutList \in Seq(AnyLine)
  /\ Copied(state, stdoutList \o pipe) = client
  /\ Copy!Legal(MayFollow, state, stdoutList \o pipe)

Statuses ==
  {<<"not running">>} \cup {Status(c, s) : c \in ConnectionStates, s \in Servers \cup {None}}

Windows == [connection : ConnectionStates, server : Servers \cup {None},
            info : Infos \cup {None}, status : Statuses]

\* whether a window says what a copy says
Says(w, s) ==
  /\ w.connection = s.connection /\ w.server = s.server /\ w.info = s.info
  /\ w.status \in {<<"not running">>, Status(s.connection, s.server)}

\* Until svcc has ended the status bar says that it is not running only before
\* the first event.
WindowInv ==
  /\ window \in Windows /\ eventList \in Seq(AnyEvent)
  /\ svc /\ alive => /\ Says(Showed(window, eventList), state)
                     /\ window.status = <<"not running">>
                          => window.connection = "disconnected"

Positions ==
  /\ {alive, terminated, endReceived, svc} \subseteq BOOLEAN
  /\ changes \in 0 .. MaxChanges
  /\ reader \in {"none", "test", "read", "eof", "ended"}
  /\ gui \in {"idle", "lines", "update", "join", "joinExit", "closed"}

FrontEndInv == Positions /\ CopyInv /\ WindowInv

-----------------------------------------------------------------------------
(* Lines                                                                   *)

LEMMA LineCases ==
  ASSUME NEW l \in AnyLine
  PROVE  \/ l.op = "STATE" /\ l.arg \in ConnectionStates \cup {"exiting"}
         \/ l.op = "SERVER" /\ l.arg \in Servers
         \/ l.op = "SSET" /\ l.arg \in Infos
         \/ l.op = "MUTED" /\ l.arg \in BOOLEAN
BY DEF AnyLine, Line

LEMMA LineType ==
  /\ \A c \in ConnectionStates : Line("STATE", c) \in AnyLine
  /\ \A s \in Servers : Line("SERVER", s) \in AnyLine
  /\ \A v \in Infos : Line("SSET", v) \in AnyLine
  /\ \A flag \in BOOLEAN : Line("MUTED", flag) \in AnyLine
  /\ Line("STATE", "exiting") \in AnyLine
BY DEF AnyLine

LEMMA ParsedIs ==
  ASSUME NEW s \in Copies, NEW l \in AnyLine
  PROVE  /\ Parsed(s, l) \in Copies
         /\ ~IsNews(s, l) => Parsed(s, l) = s
         /\ IsNews(s, l) =>
              /\ Parsed(s, l).connection = IF l.op = "STATE" THEN l.arg ELSE s.connection
              /\ Parsed(s, l).server = IF l.op = "SERVER" THEN l.arg ELSE s.server
              /\ Parsed(s, l).info = IF l.op = "SSET" THEN l.arg
                                     ELSE IF l.op = "STATE" /\ l.arg = "disconnected" THEN None
                                     ELSE s.info
              /\ Parsed(s, l).muted = IF l.op = "MUTED" THEN l.arg ELSE s.muted
              /\ l.op = "STATE" => l.arg \in ConnectionStates
<1>1. s = [connection |-> s.connection, server |-> s.server, info |-> s.info,
           muted |-> s.muted]
  BY DEF Copies
<1>2. /\ s.connection \in ConnectionStates /\ s.server \in Servers \cup {None}
      /\ s.info \in Infos \cup {None} /\ s.muted \in BOOLEAN
  BY DEF Copies
<1>3. CASE ~IsNews(s, l)
  BY <1>3 DEF Parsed
<1>4. CASE IsNews(s, l) /\ l.op = "STATE"
  <2>1. l.arg \in ConnectionStates
    BY <1>4 DEF IsNews
  <2>2. Parsed(s, l) = [s EXCEPT !.connection = l.arg,
                                 !.info = IF l.arg = "disconnected" THEN None ELSE s.info]
    BY <1>4 DEF Parsed
  <2> QED
    BY <1>2, <1>4, <2>1, <2>2 DEF Copies
<1>5. CASE IsNews(s, l) /\ l.op = "SERVER"
  <2>1. Parsed(s, l) = [s EXCEPT !.server = l.arg] /\ l.arg \in Servers
    BY <1>5, LineCases DEF Parsed
  <2> QED
    BY <1>2, <1>5, <2>1 DEF Copies
<1>6. CASE IsNews(s, l) /\ l.op = "SSET"
  <2>1. Parsed(s, l) = [s EXCEPT !.info = l.arg] /\ l.arg \in Infos
    BY <1>6, LineCases DEF Parsed
  <2> QED
    BY <1>2, <1>6, <2>1 DEF Copies
<1>7. CASE IsNews(s, l) /\ l.op = "MUTED"
  <2>1. Parsed(s, l) = [s EXCEPT !.muted = l.arg] /\ l.arg \in BOOLEAN
    BY <1>7, LineCases DEF Parsed
  <2> QED
    BY <1>2, <1>7, <2>1 DEF Copies
<1> QED
  BY <1>3, <1>4, <1>5, <1>6, <1>7, LineCases

LEMMA CopyEqual ==
  ASSUME NEW s \in Copies, NEW t \in Copies,
         s.connection = t.connection, s.server = t.server, s.info = t.info, s.muted = t.muted
  PROVE  s = t
BY DEF Copies

LEMMA ParsedGood ==
  ASSUME NEW s, NEW l, <<s, l>> \in MayFollow
  PROVE  s \in GoodCopies /\ l \in AnyLine /\ Parsed(s, l) \in GoodCopies
<1>1. s \in GoodCopies /\ l \in AnyLine /\ s \in Copies
  BY DEF MayFollow, GoodCopies
<1>2. /\ l.op = "STATE" /\ l.arg = "connecting" => s.connection # "connected"
      /\ l.op = "SSET" => s.connection = "connected"
  BY DEF MayFollow
<1>3. CASE ~IsNews(s, l)
  BY <1>1, <1>3, ParsedIs
<1>4. CASE IsNews(s, l)
  <2>1. Parsed(s, l).connection = "connected" \/ Parsed(s, l).info = None
    BY <1>1, <1>2, <1>4, ParsedIs DEF GoodCopies, ConnectionStates
  <2> QED
    BY <1>1, <2>1, ParsedIs DEF GoodCopies
<1> QED
  BY <1>1, <1>3, <1>4

LEMMA HeadTailOfPrepend ==
  ASSUME NEW X, NEW x \in X, NEW s \in Seq(X)
  PROVE  /\ Head(<<x>> \o s) = x /\ Tail(<<x>> \o s) = s /\ <<x>> \o s # <<>>
OBVIOUS

-----------------------------------------------------------------------------
(* The copy                                                                *)

\* svcc prints lines that lead the copy from its old state to the new one.
LEMMA PrintKeepsCopy ==
  ASSUME CopyInv, NEW lines \in Seq(AnyLine), pipe' = pipe \o lines,
         UNCHANGED <<state, stdoutList>>,
         client' \in GoodCopies, client'.connection # "disconnected" => client'.server \in Servers,
         Copied(client, lines) = client', Copy!Legal(MayFollow, client, lines)
  PROVE  CopyInv'
<1> DEFINE way == stdoutList \o pipe
<1>1. /\ way \in Seq(AnyLine) /\ pipe' \in Seq(AnyLine)
      /\ stdoutList' \o pipe' = way \o lines
  BY ConcatProperties, ConcatAssociative DEF CopyInv
<1>2. Copied(state, way) = client /\ Copy!Legal(MayFollow, state, way)
  BY DEF CopyInv
<1> HIDE DEF way
<1>3. Copied(state, way \o lines) = Copied(Copied(state, way), lines)
  BY <1>1, Copy!ReplayConcat, CopiedIsReplayed
<1>4. Copy!Legal(MayFollow, state, way \o lines)
  BY <1>1, <1>2, Copy!LegalConcat, CopiedIsReplayed
<1> QED
  BY <1>1, <1>2, <1>3, <1>4 DEF CopyInv

\* what becomes of one line or two
LEMMA PrintOne ==
  ASSUME NEW s, NEW l, <<s, l>> \in MayFollow
  PROVE  /\ <<l>> \in Seq(AnyLine)
         /\ Copied(s, <<l>>) = Parsed(s, l) /\ Copy!Legal(MayFollow, s, <<l>>)
<1>1. l \in AnyLine
  BY ParsedGood
<1> QED
  BY <1>1, Copy!ReplayOne, Copy!LegalOne, CopiedIsReplayed

LEMMA PrintTwo ==
  ASSUME NEW s, NEW l, NEW m, <<s, l>> \in MayFollow, <<Parsed(s, l), m>> \in MayFollow
  PROVE  /\ <<l, m>> \in Seq(AnyLine)
         /\ Copied(s, <<l, m>>) = Parsed(Parsed(s, l), m)
         /\ Copy!Legal(MayFollow, s, <<l, m>>)
<1>1. /\ <<l>> \in Seq(AnyLine) /\ m \in AnyLine /\ <<l, m>> = Append(<<l>>, m)
      /\ <<l, m>> \in Seq(AnyLine)
  BY PrintOne, ParsedGood
<1>2. Copied(s, <<l>>) = Parsed(s, l) /\ Copy!Legal(MayFollow, s, <<l>>)
  BY PrintOne
<1>3. \A q \in Seq(AnyLine) : \A x \in AnyLine :
        /\ Copied(s, Append(q, x)) = Parsed(Copied(s, q), x)
        /\ Copy!Legal(MayFollow, s, Append(q, x)) <=>
             Copy!Legal(MayFollow, s, q) /\ <<Copied(s, q), x>> \in MayFollow
  BY Copy!ReplayAppend, Copy!LegalAppend, CopiedIsReplayed
<1>4. /\ Copied(s, Append(<<l>>, m)) = Parsed(Copied(s, <<l>>), m)
      /\ Copy!Legal(MayFollow, s, Append(<<l>>, m)) <=>
           Copy!Legal(MayFollow, s, <<l>>) /\ <<Copied(s, <<l>>), m>> \in MayFollow
  BY <1>1, <1>3, Zenon
<1> QED
  BY <1>1, <1>2, <1>4

LEMMA ConnectKeepsCopy ==
  ASSUME CopyInv, NEW s \in Servers, Connect(s)
  PROVE  CopyInv'
<1> DEFINE l == Line("SERVER", s)
           m == Line("STATE", "connecting")
<1>1. /\ client.connection = "disconnected" /\ client \in GoodCopies /\ client \in Copies
      /\ client' = [client EXCEPT !.connection = "connecting", !.server = s]
      /\ UNCHANGED <<state, stdoutList>>
      /\ pipe' = pipe \o StateLines(client')
  BY DEF Connect, ChangeState, Change, threads, stateVars, CopyInv, GoodCopies
<1>2. /\ client' \in Copies /\ client' \in GoodCopies
      /\ client'.connection = "connecting" /\ client'.server = s
      /\ client'.info = client.info /\ client'.muted = client.muted
  BY <1>1 DEF GoodCopies, Copies, ConnectionStates
<1>3. StateLines(client') = <<l, m>>
  BY <1>2 DEF StateLines
<1>4. /\ l \in AnyLine /\ l.op = "SERVER" /\ l.arg = s
      /\ m \in AnyLine /\ m.op = "STATE" /\ m.arg = "connecting"
  BY LineType DEF Line, ConnectionStates
<1> HIDE DEF l, m
<1>5. <<client, l>> \in MayFollow
  BY <1>1, <1>4 DEF MayFollow
<1>6. /\ IsNews(client, l)
      /\ Parsed(client, l) \in GoodCopies /\ Parsed(client, l) \in Copies
      /\ Parsed(client, l).connection = "disconnected" /\ Parsed(client, l).server = s
      /\ Parsed(client, l).info = client.info /\ Parsed(client, l).muted = client.muted
  <2>1. IsNews(client, l)
    BY <1>4 DEF IsNews
  <2>2. Parsed(client, l) \in GoodCopies
    BY <1>5, ParsedGood
  <2> QED
    BY <1>1, <1>4, <2>1, <2>2, ParsedIs
<1> DEFINE p == Parsed(client, l)
<1> HIDE DEF p
<1>7. <<p, m>> \in MayFollow
  BY <1>4, <1>6 DEF MayFollow, p
<1>8. IsNews(p, m)
  BY <1>4, <1>6 DEF IsNews, ConnectionStates, p
<1>9. /\ Parsed(p, m) \in Copies
      /\ Parsed(p, m).connection = "connecting" /\ Parsed(p, m).server = s
      /\ Parsed(p, m).info = client.info /\ Parsed(p, m).muted = client.muted
  BY <1>4, <1>6, <1>8, ParsedIs DEF p
<1>10. Parsed(p, m) = client'
  BY <1>2, <1>9, CopyEqual
<1>11. /\ <<l, m>> \in Seq(AnyLine) /\ Copied(client, <<l, m>>) = Parsed(p, m)
       /\ Copy!Legal(MayFollow, client, <<l, m>>)
  BY <1>5, <1>7, PrintTwo DEF p
<1> QED
  BY <1>1, <1>2, <1>3, <1>10, <1>11, PrintKeepsCopy

LEMMA ConnectedKeepsCopy ==
  ASSUME CopyInv, Connected
  PROVE  CopyInv'
<1> DEFINE l == Line("SERVER", client.server)
           m == Line("STATE", "connected")
<1>1. /\ client.connection = "connecting" /\ client \in GoodCopies /\ client \in Copies
      /\ client.server \in Servers /\ client.info = None
      /\ client' = [client EXCEPT !.connection = "connected"]
      /\ UNCHANGED <<state, stdoutList>>
      /\ pipe' = pipe \o StateLines(client')
  BY DEF Connected, ChangeState, Change, threads, stateVars, CopyInv, GoodCopies
<1>2. /\ client' \in Copies /\ client' \in GoodCopies
      /\ client'.connection = "connected" /\ client'.server = client.server
      /\ client'.info = client.info /\ client'.muted = client.muted
  BY <1>1 DEF GoodCopies, Copies, ConnectionStates
<1>3. StateLines(client') = <<l, m>>
  BY <1>2 DEF StateLines
<1>4. /\ l \in AnyLine /\ l.op = "SERVER" /\ l.arg = client.server
      /\ m \in AnyLine /\ m.op = "STATE" /\ m.arg = "connected"
  BY <1>1, LineType DEF Line, ConnectionStates
<1> HIDE DEF l, m
<1>5. <<client, l>> \in MayFollow
  BY <1>1, <1>4 DEF MayFollow
<1>6. Parsed(client, l) = client
  <2>1. IsNews(client, l)
    BY <1>4 DEF IsNews
  <2>2. /\ Parsed(client, l) \in Copies
        /\ Parsed(client, l).connection = client.connection
        /\ Parsed(client, l).server = client.server
        /\ Parsed(client, l).info = client.info /\ Parsed(client, l).muted = client.muted
    BY <1>1, <1>4, <2>1, ParsedIs
  <2> QED
    BY <1>1, <2>2, CopyEqual
<1>7. <<client, m>> \in MayFollow
  BY <1>1, <1>4 DEF MayFollow
<1>8. IsNews(client, m)
  BY <1>1, <1>4 DEF IsNews, ConnectionStates
<1>9. /\ Parsed(client, m) \in Copies
      /\ Parsed(client, m).connection = "connected"
      /\ Parsed(client, m).server = client.server
      /\ Parsed(client, m).info = client.info /\ Parsed(client, m).muted = client.muted
  BY <1>1, <1>4, <1>8, ParsedIs
<1>10. Parsed(client, m) = client'
  BY <1>2, <1>9, CopyEqual
<1>11. /\ <<l, m>> \in Seq(AnyLine) /\ Copied(client, <<l, m>>) = Parsed(client, m)
       /\ Copy!Legal(MayFollow, client, <<l, m>>)
  BY <1>5, <1>6, <1>7, PrintTwo
<1> QED
  BY <1>1, <1>2, <1>3, <1>10, <1>11, PrintKeepsCopy

LEMMA DisconnectKeepsCopy ==
  ASSUME CopyInv, Disconnect
  PROVE  CopyInv'
<1> DEFINE m == Line("STATE", "disconnected")
<1>1. /\ client.connection # "disconnected" /\ client \in GoodCopies /\ client \in Copies
      /\ client' = [client EXCEPT !.connection = "disconnected", !.info = None]
      /\ UNCHANGED <<state, stdoutList>>
      /\ pipe' = pipe \o StateLines(client')
  BY DEF Disconnect, ChangeState, Change, threads, stateVars, CopyInv, GoodCopies
<1>2. /\ client' \in Copies /\ client' \in GoodCopies
      /\ client'.connection = "disconnected" /\ client'.server = client.server
      /\ client'.info = None /\ client'.muted = client.muted
  BY <1>1 DEF GoodCopies, Copies, ConnectionStates
<1>3. StateLines(client') = <<m>>
  BY <1>2 DEF StateLines
<1>4. m \in AnyLine /\ m.op = "STATE" /\ m.arg = "disconnected"
  BY LineType DEF Line, ConnectionStates
<1> HIDE DEF m
<1>5. <<client, m>> \in MayFollow
  BY <1>1, <1>4 DEF MayFollow
<1>6. IsNews(client, m)
  BY <1>1, <1>4 DEF IsNews, ConnectionStates
<1>7. /\ Parsed(client, m) \in Copies
      /\ Parsed(client, m).connection = "disconnected"
      /\ Parsed(client, m).server = client.server
      /\ Parsed(client, m).info = None /\ Parsed(client, m).muted = client.muted
  BY <1>1, <1>4, <1>6, ParsedIs
<1>8. Parsed(client, m) = client'
  BY <1>2, <1>7, CopyEqual
<1> QED
  BY <1>1, <1>2, <1>3, <1>5, <1>8, PrintOne, PrintKeepsCopy

LEMMA SsetKeepsCopy ==
  ASSUME CopyInv, NEW v \in Infos, Sset(v)
  PROVE  CopyInv'
<1> DEFINE m == Line("SSET", v)
<1>1. /\ client.connection = "connected" /\ client \in GoodCopies /\ client \in Copies
      /\ client.server \in Servers
      /\ client' = [client EXCEPT !.info = v]
      /\ UNCHANGED <<state, stdoutList>>
      /\ pipe' = pipe \o <<m>>
  BY DEF Sset, Change, threads, stateVars, CopyInv, GoodCopies
<1>2. /\ client' \in Copies /\ client' \in GoodCopies
      /\ client'.connection = "connected" /\ client'.server = client.server
      /\ client'.info = v /\ client'.muted = client.muted
  BY <1>1 DEF GoodCopies, Copies, ConnectionStates
<1>3. m \in AnyLine /\ m.op = "SSET" /\ m.arg = v
  BY LineType DEF Line
<1> HIDE DEF m
<1>4. <<client, m>> \in MayFollow
  BY <1>1, <1>3 DEF MayFollow
<1>5. IsNews(client, m)
  BY <1>3 DEF IsNews
<1>6. /\ Parsed(client, m) \in Copies
      /\ Parsed(client, m).connection = "connected"
      /\ Parsed(client, m).server = client.server
      /\ Parsed(client, m).info = v /\ Parsed(client, m).muted = client.muted
  BY <1>1, <1>3, <1>5, ParsedIs
<1>7. Parsed(client, m) = client'
  BY <1>2, <1>6, CopyEqual
<1> QED
  BY <1>1, <1>2, <1>4, <1>7, PrintOne, PrintKeepsCopy

LEMMA MuteKeepsCopy ==
  ASSUME CopyInv, NEW flag \in BOOLEAN, Mute(flag)
  PROVE  CopyInv'
<1> DEFINE m == Line("MUTED", flag)
<1>1. /\ client \in GoodCopies /\ client \in Copies
      /\ client.connection # "disconnected" => client.server \in Servers
      /\ client' = [client EXCEPT !.muted = flag]
      /\ UNCHANGED <<state, stdoutList>>
      /\ pipe' = pipe \o <<m>>
  BY DEF Mute, Change, threads, stateVars, CopyInv, GoodCopies
<1>2. /\ client' \in Copies /\ client' \in GoodCopies
      /\ client'.connection = client.connection /\ client'.server = client.server
      /\ client'.info = client.info /\ client'.muted = flag
  BY <1>1 DEF GoodCopies, Copies
<1>3. m \in AnyLine /\ m.op = "MUTED" /\ m.arg = flag
  BY LineType DEF Line
<1> HIDE DEF m
<1>4. <<client, m>> \in MayFollow
  BY <1>1, <1>3 DEF MayFollow
<1>5. CASE IsNews(client, m)
  <2>1. /\ Parsed(client, m) \in Copies
        /\ Parsed(client, m).connection = client.connection
        /\ Parsed(client, m).server = client.server
        /\ Parsed(client, m).info = client.info /\ Parsed(client, m).muted = flag
    BY <1>1, <1>3, <1>5, ParsedIs
  <2>2. Parsed(client, m) = client'
    BY <1>2, <2>1, CopyEqual
  <2> QED
    BY <1>1, <1>2, <1>4, <2>2, PrintOne, PrintKeepsCopy
<1>6. CASE ~IsNews(client, m)
  <2>1. flag = client.muted
    BY <1>3, <1>6 DEF IsNews
  <2>2. client' = client
    BY <1>1, <1>2, <2>1, CopyEqual
  <2>3. Parsed(client, m) = client'
    BY <1>6, <2>2 DEF Parsed
  <2> QED
    BY <1>1, <1>2, <1>4, <2>3, PrintOne, PrintKeepsCopy
<1> QED
  BY <1>5, <1>6

\* the last line of svcc is no news
LEMMA QuitKeepsCopy ==
  ASSUME CopyInv, Quit
  PROVE  CopyInv'
<1> DEFINE m == Line("STATE", "exiting")
<1>1. /\ client \in GoodCopies /\ client' = client
      /\ UNCHANGED <<state, stdoutList>> /\ pipe' = pipe \o <<m>>
  BY DEF Quit, Dies, threads, stateVars, CopyInv
<1>2. m \in AnyLine /\ m.op = "STATE" /\ m.arg = "exiting"
  BY LineType DEF Line
<1> HIDE DEF m
<1>3. <<client, m>> \in MayFollow
  BY <1>1, <1>2 DEF MayFollow
<1>4. ~IsNews(client, m)
  BY <1>2 DEF IsNews, ConnectionStates
<1>5. Parsed(client, m) = client
  BY <1>4 DEF Parsed
<1> QED
  BY <1>1, <1>3, <1>5, PrintOne, PrintKeepsCopy DEF CopyInv

LEMMA ReadKeepsCopy ==
  ASSUME CopyInv, ReadLine
  PROVE  CopyInv'
<1>1. /\ pipe # <<>> /\ stdoutList' = Append(stdoutList, Head(pipe)) /\ pipe' = Tail(pipe)
      /\ client' = client /\ state' = state
  BY DEF ReadLine, Others, stateVars
<1>2. /\ pipe \in Seq(AnyLine) /\ stdoutList \in Seq(AnyLine)
      /\ Head(pipe) \in AnyLine /\ pipe' \in Seq(AnyLine) /\ <<Head(pipe)>> \in Seq(AnyLine)
  BY <1>1, HeadTailProperties DEF CopyInv
<1>3. /\ stdoutList' \in Seq(AnyLine) /\ stdoutList' = stdoutList \o <<Head(pipe)>>
  BY <1>1, <1>2, AppendIsConcat, AppendProperties
<1>4. stdoutList' \o pipe' = stdoutList \o pipe
  <2>1. (stdoutList \o <<Head(pipe)>>) \o Tail(pipe) = stdoutList \o (<<Head(pipe)>> \o Tail(pipe))
    BY <1>1, <1>2, ConcatAssociative
  <2>2. <<Head(pipe)>> \o Tail(pipe) = pipe
    BY <1>1, <1>2, Copy!HeadAndTail
  <2> QED
    BY <1>1, <1>3, <2>1, <2>2
<1> QED
  BY <1>1, <1>2, <1>3, <1>4 DEF CopyInv

\* The GUI thread takes a line that may follow the state of the copy.
LEMMA TakeKeepsCopy ==
  ASSUME CopyInv, TakeLine
  PROVE  CopyInv' /\ <<state, Head(stdoutList)>> \in MayFollow
<1>1. /\ stdoutList # <<>> /\ stdoutList' = Tail(stdoutList)
      /\ state' = Parsed(state, Head(stdoutList))
      /\ client' = client /\ pipe' = pipe
  BY DEF TakeLine, svccVars
<1> DEFINE way == stdoutList \o pipe
<1>2. /\ pipe \in Seq(AnyLine) /\ stdoutList \in Seq(AnyLine) /\ way \in Seq(AnyLine)
      /\ Head(stdoutList) \in AnyLine /\ stdoutList' \in Seq(AnyLine)
      /\ Len(stdoutList) \in Nat /\ Len(stdoutList) > 0
  BY <1>1, HeadTailProperties, ConcatProperties, EmptySeq DEF CopyInv
<1>3. way # <<>> /\ Head(way) = Head(stdoutList) /\ Tail(way) = stdoutList' \o pipe'
  <2>1. <<Head(stdoutList)>> \in Seq(AnyLine)
    BY <1>2
  <2>2. stdoutList = <<Head(stdoutList)>> \o Tail(stdoutList)
    BY <1>1, <1>2, Copy!HeadAndTail
  <2>3. way = <<Head(stdoutList)>> \o (Tail(stdoutList) \o pipe)
    BY <1>1, <1>2, <2>1, <2>2, ConcatAssociative
  <2>4. Tail(stdoutList) \o pipe \in Seq(AnyLine)
    BY <1>1, <1>2, ConcatProperties
  <2> HIDE DEF way
  <2>5. Head(way) = Head(stdoutList) /\ Tail(way) = Tail(stdoutList) \o pipe /\ way # <<>>
    BY <1>2, <2>3, <2>4, HeadTailOfPrepend
  <2> QED
    BY <1>1, <2>5
<1>4. Copied(state, way) = client /\ Copy!Legal(MayFollow, state, way)
  BY DEF CopyInv
<1> HIDE DEF way
<1>5. Copied(state, way) = Copied(Parsed(state, Head(way)), Tail(way))
  BY <1>2, <1>3, Copy!ReplayHead, CopiedIsReplayed
<1>6. <<state, Head(way)>> \in MayFollow
      /\ Copy!Legal(MayFollow, Parsed(state, Head(way)), Tail(way))
  BY <1>2, <1>3, <1>4, Copy!LegalHead
<1>7. state' \in GoodCopies
  BY <1>1, <1>3, <1>6, ParsedGood
<1> QED
  BY <1>1, <1>2, <1>3, <1>4, <1>5, <1>6, <1>7 DEF CopyInv

LEMMA NextCopy == CopyInv /\ [Next]_vars => CopyInv'
<1> SUFFICES ASSUME CopyInv, [Next]_vars PROVE CopyInv'
  OBVIOUS
<1>1. CASE \E s \in Servers : Connect(s)
  BY <1>1, ConnectKeepsCopy
<1>2. CASE Connected
  BY <1>2, ConnectedKeepsCopy
<1>3. CASE Disconnect
  BY <1>3, DisconnectKeepsCopy
<1>4. CASE \E v \in Infos : Sset(v)
  BY <1>4, SsetKeepsCopy
<1>5. CASE \E flag \in BOOLEAN : Mute(flag)
  BY <1>5, MuteKeepsCopy
<1>6. CASE Quit
  BY <1>6, QuitKeepsCopy
<1>7. CASE Crash
  <2>1. pipe' = pipe \o <<>> /\ UNCHANGED <<client, state, stdoutList>>
    BY <1>7 DEF Crash, Dies, threads, stateVars
  <2>2. pipe' = pipe
    BY <2>1, ConcatEmptySeq DEF CopyInv
  <2> QED
    BY <2>1, <2>2 DEF CopyInv
<1>8. CASE ReadLine
  BY <1>8, ReadKeepsCopy
<1>9. CASE TakeLine
  BY <1>9, TakeKeepsCopy
<1>10. CASE \/ TestEnd \/ EndWithinLine \/ ReadEof
            \/ ProcessIO \/ ProcessIODead \/ NoMoreLines \/ JoinReader \/ UpdateSVCState
            \/ Exit \/ UNCHANGED vars
  <2>1. UNCHANGED <<client, state, stdoutList, pipe>>
    BY <1>10 DEF TestEnd, EndWithinLine, ReadEof, Others, ProcessIO, ProcessIODead, KillSVC,
                 NoMoreLines, JoinReader, UpdateSVCState, Exit, vars, svccVars, threads, stateVars
  <2> QED
    BY <2>1 DEF CopyInv
<1> QED
  BY <1>1, <1>2, <1>3, <1>4, <1>5, <1>6, <1>7, <1>8, <1>9, <1>10
     DEF Next, Svcc, ReaderThread, Timer

-----------------------------------------------------------------------------
(* The window                                                              *)

LEMMA StatusType ==
  /\ <<"not running">> \in Statuses
  /\ \A c \in ConnectionStates, s \in Servers \cup {None} : Status(c, s) \in Statuses
<1> DEFINE S == {Status(c, s) : c \in ConnectionStates, s \in Servers \cup {None}}
<1>1. Statuses = {<<"not running">>} \cup S
  BY DEF Statuses
<1>2. \A c \in ConnectionStates, s \in Servers \cup {None} : Status(c, s) \in S
  OBVIOUS
<1> HIDE DEF S
<1> QED
  BY <1>1, <1>2

LEMMA ShownIs ==
  ASSUME NEW w \in Windows, NEW l \in AnyEvent
  PROVE  /\ Shown(w, l) \in Windows
         /\ Shown(w, l).connection = IF l.op = "STATE" THEN l.arg ELSE w.connection
         /\ Shown(w, l).server = IF l.op = "SERVER" THEN l.arg ELSE w.server
         /\ Shown(w, l).status = IF l.op = "STATE" THEN Status(l.arg, w.server) ELSE w.status
         /\ Shown(w, l).info = IF l.op = "SSET" THEN l.arg
                               ELSE IF l.op = "STATE" /\ l.arg = "disconnected"
                                       /\ w.connection = "connected" THEN None
                               ELSE w.info
<1>1. /\ w.connection \in ConnectionStates /\ w.server \in Servers \cup {None}
      /\ w.info \in Infos \cup {None} /\ w.status \in Statuses
  BY DEF Windows
<1>2. l \in AnyLine
  BY DEF AnyEvent
<1>3. CASE l.op = "STATE"
  <2>1. l.arg \in ConnectionStates
    BY <1>2, <1>3, LineCases DEF AnyEvent
  <2>2. Status(l.arg, w.server) \in Statuses
    BY <1>1, <2>1, StatusType
  <2> DEFINE i == IF l.arg = "disconnected" /\ w.connection = "connected" THEN None ELSE w.info
             st == Status(l.arg, w.server)
  <2>3. Shown(w, l) = [w EXCEPT !.connection = l.arg, !.status = st, !.info = i]
    BY <1>3 DEF Shown
  <2>4. i \in Infos \cup {None} /\ st \in Statuses
    BY <1>1, <2>2
  <2> HIDE DEF i, st
  <2>5. /\ Shown(w, l) \in Windows
        /\ Shown(w, l).connection = l.arg /\ Shown(w, l).server = w.server
        /\ Shown(w, l).status = st /\ Shown(w, l).info = i
    BY <1>1, <2>1, <2>3, <2>4 DEF Windows
  <2> QED
    BY <1>3, <2>5 DEF i, st
<1>4. CASE l.op = "SERVER"
  <2>1. Shown(w, l) = [w EXCEPT !.server = l.arg] /\ l.arg \in Servers
    BY <1>2, <1>4, LineCases DEF Shown
  <2> QED
    BY <1>1, <1>4, <2>1 DEF Windows
<1>5. CASE l.op = "SSET"
  <2>1. Shown(w, l) = [w EXCEPT !.info = l.arg] /\ l.arg \in Infos
    BY <1>2, <1>5, LineCases DEF Shown
  <2> QED
    BY <1>1, <1>5, <2>1 DEF Windows
<1>6. CASE l.op = "MUTED"
  <2>1. Shown(w, l) = w
    BY <1>6 DEF Shown
  <2> QED
    BY <1>6, <2>1
<1> QED
  BY <1>2, <1>3, <1>4, <1>5, <1>6, LineCases

LEMMA ShowedType ==
  ASSUME NEW w \in Windows, NEW events \in Seq(AnyEvent)
  PROVE  Showed(w, events) \in Windows
<1>1. \A d \in Windows, x \in AnyEvent : Shown(d, x) \in Windows
  BY ShownIs
<1> QED
  BY <1>1, Show!ReplayPreserves, ShowedIsReplayed

LEMMA NotRunningIsNoStatus == \A c, s : Status(c, s) = <<"not running">> => c = "not running"
BY DEF Status

\* News that may follow what the copy says keep copy and window together.
LEMMA NewsShown ==
  ASSUME NEW w \in Windows, NEW s, NEW l, <<s, l>> \in MayFollow, IsNews(s, l), Says(w, s)
  PROVE  l \in AnyEvent /\ Says(Shown(w, l), Parsed(s, l))
<1>1. s \in GoodCopies /\ s \in Copies /\ l \in AnyLine
  BY DEF MayFollow, GoodCopies
<1>2. l \in AnyEvent /\ (l.op = "STATE" => l.arg \in ConnectionStates)
  BY <1>1, ParsedIs DEF AnyEvent, ConnectionStates
<1> DEFINE w1 == Shown(w, l)
           s1 == Parsed(s, l)
<1>3. /\ w1.connection = IF l.op = "STATE" THEN l.arg ELSE w.connection
      /\ w1.server = IF l.op = "SERVER" THEN l.arg ELSE w.server
      /\ w1.status = IF l.op = "STATE" THEN Status(l.arg, w.server) ELSE w.status
      /\ w1.info = IF l.op = "SSET" THEN l.arg
                   ELSE IF l.op = "STATE" /\ l.arg = "disconnected"
                           /\ w.connection = "connected" THEN None
                   ELSE w.info
  BY <1>2, ShownIs
<1>4. /\ s1.connection = IF l.op = "STATE" THEN l.arg ELSE s.connection
      /\ s1.server = IF l.op = "SERVER" THEN l.arg ELSE s.server
      /\ s1.info = IF l.op = "SSET" THEN l.arg
                   ELSE IF l.op = "STATE" /\ l.arg = "disconnected" THEN None
                   ELSE s.info
  BY <1>1, ParsedIs
<1> HIDE DEF w1, s1
<1>5. /\ w.connection = s.connection /\ w.server = s.server /\ w.info = s.info
      /\ w.status \in {<<"not running">>, Status(s.connection, s.server)}
      /\ s.connection = "connected" \/ s.info = None
  BY <1>1 DEF Says, GoodCopies
<1>6. w1.connection = s1.connection /\ w1.server = s1.server
  BY <1>3, <1>4, <1>5
<1>7. w1.info = s1.info
  BY <1>3, <1>4, <1>5
<1>8. w1.status \in {<<"not running">>, Status(s1.connection, s1.server)}
  <2>1. CASE l.op = "STATE"
    BY <1>3, <1>4, <1>5, <2>1
  <2>2. CASE l.op = "SERVER"
    <3>1. s.connection = "disconnected" \/ s.server = l.arg
      BY <2>2 DEF MayFollow
    <3> QED
      BY <1>3, <1>4, <1>5, <2>2, <3>1 DEF Status
  <2>3. CASE l.op # "STATE" /\ l.op # "SERVER"
    BY <1>3, <1>4, <1>5, <2>3
  <2> QED
    BY <2>1, <2>2, <2>3
<1> QED
  BY <1>2, <1>6, <1>7, <1>8 DEF Says, w1, s1

LEMMA TakeKeepsWindow ==
  ASSUME CopyInv, WindowInv, TakeLine
  PROVE  WindowInv'
<1> DEFINE l == Head(stdoutList)
<1>1. /\ state' = Parsed(state, l) /\ eventList' = eventList \o EventsOf(state, l)
      /\ svc' = svc /\ alive' = alive /\ window' = window
  BY DEF TakeLine, svccVars
<1>2. <<state, l>> \in MayFollow
  BY TakeKeepsCopy
<1> HIDE DEF l
<1>3. /\ window \in Windows /\ eventList \in Seq(AnyEvent)
      /\ Showed(window, eventList) \in Windows
  BY ShowedType DEF WindowInv
<1>4. CASE ~IsNews(state, l)
  <2>1. eventList' = eventList \o <<>> /\ state' = state
    BY <1>1, <1>4 DEF EventsOf, Parsed
  <2>2. eventList' = eventList
    BY <1>3, <2>1, ConcatEmptySeq
  <2> QED
    BY <1>1, <2>1, <2>2 DEF WindowInv
<1>5. CASE IsNews(state, l)
  <2>1. l \in AnyEvent
    <3>1. state \in Copies /\ l \in AnyLine
      BY <1>2 DEF MayFollow, GoodCopies
    <3> QED
      BY <1>5, <3>1, ParsedIs DEF AnyEvent, ConnectionStates
  <2>2. eventList' = eventList \o <<l>>
    BY <1>1, <1>5 DEF EventsOf
  <2>3. eventList' = Append(eventList, l) /\ eventList' \in Seq(AnyEvent)
    BY <1>3, <2>1, <2>2, AppendIsConcat, AppendProperties
  <2>4. Showed(window', eventList') = Shown(Showed(window, eventList), l)
    <3>1. Showed(window, Append(eventList, l)) = Shown(Showed(window, eventList), l)
      BY <1>3, <2>1, Show!ReplayAppend, ShowedIsReplayed
    <3> QED
      BY <1>1, <2>3, <3>1
  <2>5. ASSUME svc, alive
        PROVE  Says(Showed(window', eventList'), state')
    <3>1. Says(Showed(window, eventList), state)
      BY <2>5 DEF WindowInv
    <3> QED
      BY <1>1, <1>2, <1>3, <1>5, <2>4, <3>1, NewsShown
  <2> QED
    BY <1>1, <1>3, <2>3, <2>5 DEF WindowInv
<1> QED
  BY <1>4, <1>5

\* An update shows the events to a window that no longer says that svcc is not
\* running: this makes no difference to anything but the status bar.
LEMMA UpdateKeepsWindow ==
  ASSUME CopyInv, WindowInv, UpdateSVCState
  PROVE  WindowInv'
<1>1. /\ window' = IF svc /\ alive THEN Showed(Running(window), eventList)
                                   ELSE NotRunning(window)
      /\ eventList' = <<>> /\ svc' = svc /\ alive' = alive /\ state' = state
  BY DEF UpdateSVCState, svccVars, Showed
<1>2. window \in Windows /\ eventList \in Seq(AnyEvent) /\ eventList' \in Seq(AnyEvent)
  <2>1. <<>> \in Seq(AnyEvent)
    OBVIOUS
  <2> QED
    BY <1>1, <2>1 DEF WindowInv
<1>3. /\ window.connection \in ConnectionStates /\ window.server \in Servers \cup {None}
      /\ window.info \in Infos \cup {None} /\ window.status \in Statuses
  BY <1>2 DEF Windows
<1>4. CASE ~(svc /\ alive)
  <2> DEFINE n == <<"not running">>
  <2>1. n \in Statuses /\ window' = [window EXCEPT !.status = n]
    BY <1>1, <1>4, StatusType DEF NotRunning
  <2> HIDE DEF n
  <2>2. window' \in Windows
    BY <1>2, <1>3, <2>1 DEF Windows
  <2> QED
    BY <1>1, <1>2, <1>4, <2>2 DEF WindowInv
<1>5. CASE svc /\ alive
  <2> DEFINE run == Running(window)
  <2>1. <<"disconnected">> \in Statuses
    <3>1. Status("disconnected", None) = <<"disconnected">>
      BY DEF Status
    <3>2. "disconnected" \in ConnectionStates
      BY DEF ConnectionStates
    <3> QED
      BY <3>1, <3>2, StatusType
  <2>2. /\ run \in Windows /\ run.connection = window.connection
        /\ run.server = window.server /\ run.info = window.info
        /\ run.status = IF window.status = <<"not running">> THEN <<"disconnected">>
                        ELSE window.status
    BY <1>2, <1>3, <2>1 DEF Running, Windows
  <2> DEFINE R == {p \in Windows \X Windows :
                     /\ p[1].connection = p[2].connection /\ p[1].server = p[2].server
                     /\ p[1].info = p[2].info
                     /\ p[2].status # <<"not running">>
                     /\ \/ p[1].status = p[2].status
                        \/ /\ p[1].status = <<"not running">>
                           /\ p[1].connection = "disconnected"
                           /\ p[2].status = <<"disconnected">>}
  <2>3. <<window, run>> \in R
    <3>1. window.status = <<"not running">> => window.connection = "disconnected"
      BY <1>5 DEF WindowInv
    <3>2. <<"disconnected">> # <<"not running">>
      OBVIOUS
    <3> HIDE DEF run
    <3> QED
      BY <1>2, <2>2, <3>1, <3>2
  <2>4. ASSUME NEW a, NEW b, NEW x \in AnyEvent, <<a, b>> \in R
        PROVE  <<Shown(a, x), Shown(b, x)>> \in R
    <3>1. a \in Windows /\ b \in Windows
      BY <2>4
    <3>2. /\ a.connection = b.connection /\ a.server = b.server /\ a.info = b.info
          /\ b.status # <<"not running">>
          /\ \/ a.status = b.status
             \/ /\ a.status = <<"not running">> /\ a.connection = "disconnected"
                /\ b.status = <<"disconnected">>
      BY <2>4
    <3> DEFINE a1 == Shown(a, x)
               b1 == Shown(b, x)
    <3>a. /\ a1 \in Windows
          /\ a1.connection = IF x.op = "STATE" THEN x.arg ELSE a.connection
          /\ a1.server = IF x.op = "SERVER" THEN x.arg ELSE a.server
          /\ a1.status = IF x.op = "STATE" THEN Status(x.arg, a.server) ELSE a.status
          /\ a1.info = IF x.op = "SSET" THEN x.arg
                       ELSE IF x.op = "STATE" /\ x.arg = "disconnected"
                               /\ a.connection = "connected" THEN None
                       ELSE a.info
      BY <3>1, ShownIs
    <3>b. /\ b1 \in Windows
          /\ b1.connection = IF x.op = "STATE" THEN x.arg ELSE b.connection
          /\ b1.server = IF x.op = "SERVER" THEN x.arg ELSE b.server
          /\ b1.status = IF x.op = "STATE" THEN Status(x.arg, b.server) ELSE b.status
          /\ b1.info = IF x.op = "SSET" THEN x.arg
                       ELSE IF x.op = "STATE" /\ x.arg = "disconnected"
                               /\ b.connection = "connected" THEN None
                       ELSE b.info
      BY <3>1, ShownIs
    <3> HIDE DEF a1, b1
    <3>3. /\ a1 \in Windows /\ b1 \in Windows
          /\ a1.connection = b1.connection /\ a1.server = b1.server /\ a1.info = b1.info
      BY <3>a, <3>b, <3>2
    <3>4. CASE x.op = "STATE"
      <4>1. x.arg \in ConnectionStates
        BY <3>4, LineCases DEF AnyEvent
      <4>2. a1.status = Status(x.arg, a.server) /\ b1.status = Status(x.arg, a.server)
        BY <3>a, <3>b, <3>2, <3>4
      <4>3. b1.status # <<"not running">>
        BY <4>1, <4>2, NotRunningIsNoStatus DEF ConnectionStates
      <4> QED
        BY <3>3, <4>2, <4>3 DEF a1, b1
    <3>5. CASE x.op # "STATE"
      <4>1. a1.status = a.status /\ b1.status = b.status /\ a1.connection = a.connection
        BY <3>a, <3>b, <3>5
      <4> QED
        BY <3>2, <3>3, <4>1 DEF a1, b1
    <3> QED
      BY <3>4, <3>5
  <2> HIDE DEF R, run
  <2>5. <<Showed(window, eventList), Showed(run, eventList)>> \in R
    BY <1>2, <2>3, <2>4, Show!ReplayRelates, ShowedIsReplayed
  <2>6. window' = Showed(run, eventList)
    BY <1>1, <1>5 DEF run
  <2>7. Says(Showed(window, eventList), state)
    BY <1>5 DEF WindowInv
  <2>8. window' \in Windows /\ Says(window', state) /\ window'.status # <<"not running">>
    <3> DEFINE old == Showed(window, eventList)
    <3> HIDE DEF old
    <3>1. <<old, window'>> \in R /\ Says(old, state)
      BY <2>5, <2>6, <2>7 DEF old
    <3>2. /\ window' \in Windows /\ window'.status # <<"not running">>
          /\ window'.connection = old.connection /\ window'.server = old.server
          /\ window'.info = old.info
          /\ \/ old.status = window'.status
             \/ /\ old.connection = "disconnected"
                /\ window'.status = <<"disconnected">>
      BY <3>1 DEF R
    <3>3. /\ old.connection = state.connection /\ old.server = state.server
          /\ old.info = state.info
          /\ old.status \in {<<"not running">>, Status(state.connection, state.server)}
      BY <3>1 DEF Says
    <3>4. window'.status = Status(state.connection, state.server)
      BY <3>2, <3>3 DEF Status
    <3> QED
      BY <3>2, <3>3, <3>4 DEF Says
  <2>9. Showed(window', eventList') = window'
    BY <1>1, Show!ReplayNothing, ShowedIsReplayed
  <2> QED
    BY <1>1, <1>2, <2>8, <2>9 DEF WindowInv
<1> QED
  BY <1>4, <1>5

LEMMA NextWindow == CopyInv /\ WindowInv /\ [Next]_vars => WindowInv'
<1> SUFFICES ASSUME CopyInv, WindowInv, [Next]_vars PROVE WindowInv'
  OBVIOUS
<1>1. CASE TakeLine
  BY <1>1, TakeKeepsWindow
<1>2. CASE UpdateSVCState
  BY <1>2, UpdateKeepsWindow
<1>3. CASE \/ Svcc \/ ReaderThread \/ ProcessIO \/ ProcessIODead \/ NoMoreLines \/ JoinReader
           \/ Exit \/ UNCHANGED vars
  <2>1. /\ UNCHANGED <<state, eventList, window>>
        /\ (svc' => svc) /\ (alive' => alive)
    <3>1. CASE Svcc
      <4>1. \A c, lines : Change(c, lines) => /\ UNCHANGED <<state, eventList, window>>
                                             /\ svc' = svc /\ alive' = alive
        BY DEF Change, stateVars
      <4>2. \A lines : Dies(lines) => /\ UNCHANGED <<state, eventList, window>>
                                       /\ svc' = svc /\ alive' = FALSE
        BY DEF Dies, stateVars
      <4>3. (\E c, lines : Change(c, lines)) \/ (\E lines : Dies(lines))
        BY <3>1 DEF Svcc, Connect, Connected, Disconnect, Sset, Mute, Quit, Crash, ChangeState
      <4> QED
        BY <4>1, <4>2, <4>3
    <3>2. CASE ReaderThread
      BY <3>2 DEF ReaderThread, TestEnd, ReadLine, EndWithinLine, ReadEof, Others, stateVars
    <3>3. CASE \/ ProcessIO \/ ProcessIODead \/ NoMoreLines \/ JoinReader \/ Exit \/ UNCHANGED vars
      BY <3>3 DEF ProcessIO, ProcessIODead, KillSVC, NoMoreLines, JoinReader, Exit, vars, svccVars,
                  threads, stateVars
    <3> QED
      BY <1>3, <3>1, <3>2, <3>3
  <2> QED
    BY <2>1 DEF WindowInv
<1> QED
  BY <1>1, <1>2, <1>3 DEF Next, Timer

-----------------------------------------------------------------------------
(* The rest of the state, and the theorems                                 *)

LEMMA NextPositions == Positions /\ [Next]_vars => Positions'
<1> SUFFICES ASSUME Positions, [Next]_vars PROVE Positions'
  OBVIOUS
<1> USE DEF Positions
<1>1. CASE Svcc
  <2>1. MaxChanges \in Nat
    BY FrontEndAssumption
  <2>2. CASE \E c \in {client'} : \E lines : Change(c, lines)
    <3>1. /\ changes' = changes + 1 /\ changes < MaxChanges
          /\ UNCHANGED <<alive, terminated, reader, endReceived, svc, gui>>
      BY <2>2 DEF Change, threads, stateVars
    <3> QED
      BY <2>1, <3>1
  <2>3. CASE \E lines : Dies(lines)
    BY <2>3 DEF Dies, threads, stateVars
  <2>4. ASSUME NEW c, NEW lines, Change(c, lines)
        PROVE  \E d \in {client'} : \E m : Change(d, m)
    BY <2>4 DEF Change
  <2> QED
    BY <1>1, <2>2, <2>3, <2>4
       DEF Svcc, Connect, Connected, Disconnect, Sset, Mute, Quit, Crash, ChangeState
<1>2. CASE ReaderThread
  BY <1>2 DEF ReaderThread, TestEnd, ReadLine, EndWithinLine, ReadEof, Reader, Others,
              stateVars
<1>3. CASE ProcessIODead
  BY <1>3 DEF ProcessIODead, KillSVC, Terminate, Gui, stateVars
<1>4. CASE Exit /\ svc
  BY <1>4 DEF Exit, KillSVC, Terminate, Gui, stateVars
<1>5. CASE Exit /\ ~svc
  BY <1>5 DEF Exit, Gui, svccVars, threads, stateVars
<1>6. CASE ProcessIO \/ TakeLine \/ NoMoreLines \/ JoinReader \/ UpdateSVCState
  BY <1>6 DEF ProcessIO, TakeLine, NoMoreLines, JoinReader, UpdateSVCState, Gui, svccVars,
              threads, stateVars
<1>7. CASE UNCHANGED vars
  BY <1>7 DEF vars, svccVars, threads, stateVars
<1> QED
  BY <1>1, <1>2, <1>3, <1>4, <1>5, <1>6, <1>7 DEF Next, Timer

LEMMA InitFrontEnd == Init => FrontEndInv
<1> SUFFICES ASSUME Init PROVE FrontEndInv
  OBVIOUS
<1>1. Positions
  <2>1. changes \in 0 .. MaxChanges
    BY FrontEndAssumption DEF Init
  <2>2. {alive, terminated, endReceived, svc} \subseteq BOOLEAN
    <3>1. svc \in BOOLEAN /\ alive = svc /\ terminated = FALSE /\ endReceived = FALSE
      BY DEF Init
    <3> QED
      BY <3>1
  <2>3. /\ reader \in {"none", "test", "read", "eof", "ended"}
        /\ gui \in {"idle", "lines", "update", "join", "joinExit", "closed"}
    BY DEF Init
  <2> QED
    BY <2>1, <2>2, <2>3 DEF Positions
<1>2. CopyInv
  <2>1. Disconnected \in GoodCopies /\ Disconnected.connection = "disconnected"
    BY DEF Disconnected, GoodCopies, Copies, ConnectionStates
  <2>2. /\ <<>> \in Seq(AnyLine) /\ stdoutList \o pipe = <<>>
    BY ConcatEmptySeq DEF Init
  <2> QED
    BY <2>1, <2>2, Copy!ReplayNothing, Copy!LegalNothing, CopiedIsReplayed DEF Init, CopyInv
<1>3. WindowInv
  <2>1. /\ Blank \in Windows /\ <<>> \in Seq(AnyEvent)
        /\ Blank.connection = "disconnected" /\ Says(Blank, Disconnected)
    BY DEF Blank, Disconnected, Windows, Statuses, ConnectionStates, Says
  <2> QED
    BY <2>1, Show!ReplayNothing, ShowedIsReplayed DEF Init, WindowInv
<1> QED
  BY <1>1, <1>2, <1>3 DEF FrontEndInv

LEMMA FrontEndCorrect == Spec => []FrontEndInv
<1>1. FrontEndInv /\ [Next]_vars => FrontEndInv'
  BY NextPositions, NextCopy, NextWindow DEF FrontEndInv
<1> QED
  BY <1>1, InitFrontEnd, PTL DEF Spec

\* Types of the user interface; a word that is no connection state, as the one
\* svcc ends with, never becomes the state of the copy or of the window.
THEOREM FrontEndTypes == Spec => []TypeOK
<1>1. ASSUME FrontEndInv
      PROVE  TypeOK
  <2>1. client \in Copies /\ state \in Copies /\ window.connection \in ConnectionStates
    BY <1>1 DEF FrontEndInv, CopyInv, WindowInv, GoodCopies, Windows
  <2>2. \A l \in AnyLine : IsLine(l)
    BY LineCases DEF IsLine
  <2>3. \A l \in AnyEvent : IsLine(l)
    BY <2>2 DEF AnyEvent
  <2>4. \A k \in DOMAIN pipe : IsLine(pipe[k])
    BY <1>1, <2>2 DEF FrontEndInv, CopyInv
  <2>5. \A k \in DOMAIN stdoutList : IsLine(stdoutList[k])
    BY <1>1, <2>2 DEF FrontEndInv, CopyInv
  <2>6. \A k \in DOMAIN eventList : IsLine(eventList[k])
    <3>1. eventList \in Seq(AnyEvent)
      BY <1>1 DEF FrontEndInv, WindowInv
    <3> HIDE DEF AnyEvent
    <3>2. \A k \in DOMAIN eventList : eventList[k] \in AnyEvent
      BY <3>1
    <3> QED
      BY <2>3, <3>2
  <2>7. Positions
    BY <1>1 DEF FrontEndInv
  <2> QED
    BY <2>1, <2>4, <2>5, <2>6, <2>7 DEF TypeOK, Positions
<1> QED
  BY <1>1, FrontEndCorrect, PTL

\* svcstate.cpp:33-210, svcreaderthread.cpp:23-38: no line is lost, doubled or
\* overtaken between the two threads, whatever svcc does.
THEOREM CopyCorrect == Spec => []CopyFollows
<1>1. FrontEndInv => CopyFollows
  BY DEF FrontEndInv, CopyInv, CopyFollows, Copied
<1> QED
  BY <1>1, FrontEndCorrect, PTL

\* svcwindow.cpp:194-305: the window and its events say what the copy says, and
\* the status bar names the server of the connection it shows.
THEOREM WindowCorrect == Spec => []WindowFollows
<1>1. ASSUME FrontEndInv, svc, alive
      PROVE  LET w == FoldLeft(Shown, window, eventList)
             IN  /\ <<w.connection, w.server, w.info>>
                      = <<state.connection, state.server, state.info>>
                 /\ w.status \in {<<"not running">>, Status(state.connection, state.server)}
  <2>1. Says(Showed(window, eventList), state)
    BY <1>1 DEF FrontEndInv, WindowInv
  <2> QED
    BY <2>1 DEF Says, Showed
<1>2. FrontEndInv => WindowFollows
  BY <1>1 DEF WindowFollows
<1> QED
  BY <1>2, FrontEndCorrect, PTL
=============================================================================
