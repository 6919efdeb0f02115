-------------------------- MODULE PacketCage_proofs --------------------------
(***************************************************************************)
(* Proofs about the jitter buffer, for any clock, any number of slots and  *)
(* any losses, reordering and duplicates: the count and the flags agree    *)
(* with the slots, the slots with the clock; no newer packet is refused.   *)
(***************************************************************************)
EXTENDS PacketCage, FiniteSetTheorems, TLAPS

\* CountMatchesSlots preserves itself once the types are known.
CageInv == TypeOK /\ CountMatchesSlots

-----------------------------------------------------------------------------
(* Arithmetic                                                              *)

LEMMA WindowType == Window \in Nat /\ Window > 0
BY MaxTimeAssumption DEF Window

LEMMA PointType ==
  ASSUME NEW pos \in Int, NEW delta \in Int
  PROVE  Point(pos, delta) \in Slots
<1>1. Size \in Nat /\ Size > 0
  BY CageAssumption
<1> QED
  BY <1>1 DEF Point, Slots

LEMMA TimesType ==
  ASSUME NEW time \in Int, NEW delta \in Int
  PROVE  TimeIncBy(time, delta) \in Times
BY MaxTimeAssumption DEF TimeIncBy, Times, Window

LEMMA IncType == \A time \in Times : TimeInc(time) \in Times
BY MaxTimeAssumption DEF TimeInc, Times

LEMMA SubType ==
  ASSUME NEW time1 \in Int, NEW time2 \in Int
  PROVE  SubTime(time1, time2) \in Int
<1>1. \A d \in Int : d % Window \in Int
  BY WindowType
<1> QED
  BY <1>1, WindowType DEF SubTime

LEMMA OverrunType ==
  ASSUME NEW time \in Times, NEW from \in Times
  PROVE  Overrun(time, from) \in Int
<1>1. TimeIncBy(from, Size - 1) \in Int /\ time \in Int
  BY TimesType, CageAssumption DEF Times
<1> QED
  BY <1>1, SubType DEF Overrun

-----------------------------------------------------------------------------
(* The clock: how far apart two times are, around the wrap                 *)

Half == Window \div 2

Gap(time1, time2) == IF time1 >= time2 THEN time1 - time2 ELSE time1 - time2 + Window

LEMMA HalfWindow == Half \in Nat /\ Window = 2 * Half /\ Size < Half
<1>1. Half \in Nat /\ Window = 2 * Half
  BY MaxTimeAssumption DEF Half, Window
<1>2. Size < Half
  BY ClockAssumption, CageAssumption, WindowType, <1>1 DEF Half
<1> QED
  BY <1>1, <1>2

\* a remainder of a number below twice the divisor
LEMMA Wrap ==
  ASSUME NEW m \in Nat, m > 0, NEW x \in 0 .. 2 * m - 1
  PROVE  x % m = IF x < m THEN x ELSE x - m
OBVIOUS

LEMMA NewerGap ==
  ASSUME NEW time1 \in Times, NEW time2 \in Times
  PROVE  /\ Gap(time1, time2) \in 0 .. Window - 1
         /\ IsNewer(time1, time2) <=> Gap(time1, time2) > 0 /\ Gap(time1, time2) < Half
<1>1. time1 \in Int /\ time2 \in Int /\ time1 >= 0 /\ time2 >= 0
      /\ time1 < Window /\ time2 < Window
  BY MaxTimeAssumption DEF Times, Window
<1>2. IsNewer(time1, time2) <=>
        (time1 - time2 > 0 /\ time1 - time2 < Half)
          \/ (time1 - time2 < 0 /\ time1 - time2 < -Half)
  BY <1>1, HalfWindow DEF IsNewer, Half
<1>3. Gap(time1, time2) \in 0 .. Window - 1
  BY <1>1, HalfWindow DEF Gap
<1>4. CASE time1 >= time2
  <2>1. Gap(time1, time2) = time1 - time2 /\ ~(time1 - time2 < 0)
    BY <1>1, <1>4 DEF Gap
  <2> QED
    BY <1>2, <1>3, <2>1
<1>5. CASE time1 < time2
  BY <1>1, <1>2, <1>3, <1>5, HalfWindow DEF Gap
<1> QED
  BY <1>1, <1>4, <1>5

LEMMA SubGap ==
  ASSUME NEW time1 \in Times, NEW time2 \in Times, IsNewer(time1, time2) \/ time1 = time2
  PROVE  SubTime(time1, time2) = Gap(time1, time2)
<1>1. time1 \in Int /\ time2 \in Int /\ time1 >= 0 /\ time2 >= 0
      /\ time1 < Window /\ time2 < Window /\ Window \in Nat /\ Window > 0
  BY MaxTimeAssumption DEF Times, Window
<1>2. time1 - time2 + Window \in 0 .. 2 * Window - 1
  BY <1>1
<1>3. (time1 - time2 + Window) % Window = Gap(time1, time2)
  BY <1>1, <1>2, Wrap DEF Gap
<1>4. CASE IsNewer(time1, time2)
  BY <1>3, <1>4 DEF SubTime
<1>5. CASE ~IsNewer(time1, time2)
  <2>1. time1 = time2 /\ time1 - time2 = 0 /\ -(time1 - time2) + Window = Window
    BY <1>1, <1>5
  <2>2. Window % Window = 0 /\ Gap(time1, time2) = 0
    BY <1>1, <2>1, Wrap DEF Gap
  <2> QED
    BY <1>5, <2>1, <2>2 DEF SubTime
<1> QED
  BY <1>4, <1>5

LEMMA IncBy ==
  ASSUME NEW time \in Times, NEW k \in 0 .. Window - 1
  PROVE  TimeIncBy(time, k) = IF time + k < Window THEN time + k ELSE time + k - Window
<1>1. time \in Int /\ time >= 0 /\ time < Window /\ Window \in Nat /\ Window > 0
  BY MaxTimeAssumption DEF Times, Window
<1>2. time + k \in 0 .. 2 * Window - 1
  BY <1>1
<1> QED
  BY <1>1, <1>2, Wrap DEF TimeIncBy

\* After the pops the packet is due within the cage, at its own time.
LEMMA OverrunFits ==
  ASSUME NEW time \in Times, NEW from \in Times, time = from \/ IsNewer(time, from),
         NEW n, n = Overrun(time, from), NEW base, base = TimeIncBy(from, n)
  PROVE  /\ n \in 0 .. Window - 1
         /\ SubTime(time, base) \in Slots
         /\ TimeIncBy(base, SubTime(time, base)) = time
<1> DEFINE last == TimeIncBy(from, Size - 1)
<1>1. /\ time \in Int /\ from \in Int /\ time >= 0 /\ from >= 0
      /\ time < Window /\ from < Window /\ Size \in Nat /\ Size >= 2
  BY MaxTimeAssumption, CageAssumption DEF Times, Window
<1>2. Size - 1 \in 0 .. Window - 1
  BY <1>1, HalfWindow
<1>3. /\ last \in Times
      /\ last = IF from + (Size - 1) < Window THEN from + (Size - 1)
                ELSE from + (Size - 1) - Window
  BY <1>1, <1>2, IncBy, TimesType
<1>4. n = IF IsNewer(time, last) THEN SubTime(time, last) ELSE 0
  BY DEF Overrun
<1> HIDE DEF last
<1>5. last \in Int /\ last >= 0 /\ last < Window
  BY <1>3, MaxTimeAssumption DEF Times, Window
<1>6. Gap(time, from) < Half
  <2>1. CASE time = from
    BY <1>1, <2>1, HalfWindow DEF Gap
  <2>2. CASE IsNewer(time, from)
    BY <2>2, NewerGap
  <2> QED
    BY <2>1, <2>2
<1>7. CASE IsNewer(time, last)
  <2>1. n = Gap(time, last) /\ n \in 0 .. Window - 1 /\ n > 0 /\ n < Half
    BY <1>3, <1>4, <1>7, NewerGap, SubGap
  <2>2. /\ base = IF from + n < Window THEN from + n ELSE from + n - Window
        /\ base \in Times
    BY <1>1, <2>1, IncBy, TimesType
  <2>3. Gap(time, base) = Size - 1
    BY <1>1, <1>3, <1>5, <1>6, <2>1, <2>2, HalfWindow DEF Gap
  <2>4. SubTime(time, base) = Size - 1
    BY <1>1, <2>2, <2>3, NewerGap, SubGap, HalfWindow
  <2>5. base \in Int /\ base >= 0 /\ base < Window
    BY <2>2, MaxTimeAssumption DEF Times, Window
  <2>6. TimeIncBy(base, Size - 1) = time
    BY <1>1, <1>2, <2>2, <2>3, <2>5, IncBy, HalfWindow DEF Gap
  <2> QED
    BY <1>1, <2>1, <2>4, <2>6 DEF Slots
<1>8. CASE ~IsNewer(time, last)
  <2>1. n = 0 /\ base = from
    BY <1>1, <1>4, <1>8, IncBy, HalfWindow
  <2>2. ~(Gap(time, last) > 0 /\ Gap(time, last) < Half)
    BY <1>3, <1>8, NewerGap
  <2>3. Gap(time, from) \in 0 .. Size - 1
    BY <1>1, <1>3, <1>5, <1>6, <2>2, HalfWindow DEF Gap
  <2>4. SubTime(time, base) = Gap(time, from)
    BY <2>1, SubGap
  <2>5. TimeIncBy(from, Gap(time, from)) = time
    <3>1. Gap(time, from) \in 0 .. Window - 1
      BY NewerGap
    <3>2. TimeIncBy(from, Gap(time, from)) = IF from + Gap(time, from) < Window
            THEN from + Gap(time, from) ELSE from + Gap(time, from) - Window
      BY <3>1, IncBy
    <3> QED
      BY <1>1, <3>2, WindowType DEF Gap
  <2> QED
    BY <1>1, <2>1, <2>3, <2>4, <2>5, HalfWindow DEF Slots
<1> QED
  BY <1>7, <1>8

\* going on by n ticks and then by i
LEMMA IncTwice ==
  ASSUME NEW time \in Times, NEW n \in Slots, NEW i \in Slots, n + i < Size
  PROVE  TimeIncBy(TimeIncBy(time, n), i) = TimeIncBy(time, n + i)
<1>1. /\ time \in Int /\ time >= 0 /\ time < Window
      /\ Size \in Nat /\ n \in 0 .. Size - 1 /\ i \in 0 .. Size - 1
  BY MaxTimeAssumption, CageAssumption DEF Times, Window, Slots
<1>2. /\ n \in 0 .. Window - 1 /\ i \in 0 .. Window - 1
      /\ n + i \in 0 .. Window - 1
  BY <1>1, HalfWindow
<1>3. /\ TimeIncBy(time, n) \in Times
      /\ TimeIncBy(time, n) = IF time + n < Window THEN time + n ELSE time + n - Window
  BY <1>1, <1>2, TimesType, IncBy
<1>4. TimeIncBy(time, n + i) =
        IF time + (n + i) < Window THEN time + (n + i) ELSE time + (n + i) - Window
  BY <1>2, IncBy
<1>5. TimeIncBy(TimeIncBy(time, n), i) =
        IF TimeIncBy(time, n) + i < Window THEN TimeIncBy(time, n) + i
        ELSE TimeIncBy(time, n) + i - Window
  BY <1>2, <1>3, IncBy
<1> QED
  BY <1>1, <1>3, <1>4, <1>5, HalfWindow

LEMMA AheadIsGap ==
  ASSUME NEW time1 \in Times, NEW time2 \in Times
  PROVE  Ahead(time1, time2) = Gap(time1, time2) /\ Gap(time1, time2) \in 0 .. Window - 1
<1>1. time1 \in Int /\ time2 \in Int /\ time1 >= 0 /\ time2 >= 0
      /\ time1 < Window /\ time2 < Window /\ Window \in Nat /\ Window > 0
  BY MaxTimeAssumption DEF Times, Window
<1>2. Gap(time1, time2) \in 0 .. Window - 1
  BY <1>1 DEF Gap
<1>3. CASE time1 >= time2
  BY <1>1, <1>2, <1>3 DEF Ahead, Gap
<1>4. CASE time1 < time2
  <2>1. time1 - time2 = -1 * Window + Gap(time1, time2)
    BY <1>1, <1>4 DEF Gap
  <2> QED
    BY <1>1, <1>2, <2>1 DEF Ahead
<1> QED
  BY <1>1, <1>2, <1>3, <1>4

\* The gaps of three times add up unless they go around the clock.
LEMMA GapSum ==
  ASSUME NEW a \in Times, NEW b \in Times, NEW c \in Times
  PROVE  /\ Gap(a, b) + Gap(b, c) < Window => Gap(a, c) = Gap(a, b) + Gap(b, c)
         /\ Gap(a, b) <= Gap(a, c) => Gap(b, c) = Gap(a, c) - Gap(a, b)
         /\ Gap(a, a) = 0
<1>1. a \in Int /\ b \in Int /\ c \in Int /\ a >= 0 /\ b >= 0 /\ c >= 0
      /\ a < Window /\ b < Window /\ c < Window /\ Window \in Nat
  BY MaxTimeAssumption DEF Times, Window
<1> QED
  BY <1>1 DEF Gap

LEMMA GapOfInc ==
  ASSUME NEW time \in Times, NEW k \in 0 .. Window - 1
  PROVE  TimeIncBy(time, k) \in Times /\ Gap(TimeIncBy(time, k), time) = k
<1>1. time \in Int /\ time >= 0 /\ time < Window /\ Window \in Nat
  BY MaxTimeAssumption DEF Times, Window
<1>2. TimeIncBy(time, k) = IF time + k < Window THEN time + k ELSE time + k - Window
  BY IncBy
<1>3. TimeIncBy(time, k) \in Times
  BY <1>1, TimesType
<1> QED
  BY <1>1, <1>2, <1>3 DEF Gap

\* the clock that stands at c goes one tick on
LEMMA GapBack ==
  ASSUME NEW a \in Times, NEW b \in Times, NEW c \in Times,
         Gap(b, c) = 1, Gap(a, c) >= 1
  PROVE  Gap(a, b) = Gap(a, c) - 1
<1>1. a \in Int /\ b \in Int /\ c \in Int /\ a >= 0 /\ b >= 0 /\ c >= 0
      /\ a < Window /\ b < Window /\ c < Window /\ Window \in Nat
  BY MaxTimeAssumption DEF Times, Window
<1> QED
  BY <1>1 DEF Gap

LEMMA IncIsIncBy ==
  ASSUME NEW time \in Times
  PROVE  TimeInc(time) = TimeIncBy(time, 1)
<1>1. 1 \in 0 .. Window - 1 /\ Window \in Nat
  BY HalfWindow, CageAssumption
<1>2. TimeIncBy(time, 1) = IF time + 1 < Window THEN time + 1 ELSE time + 1 - Window
  BY <1>1, IncBy
<1>3. time \in 0 .. MaxTime /\ Window = MaxTime + 1 /\ MaxTime \in Nat
  BY MaxTimeAssumption DEF Times, Window
<1> QED
  BY <1>2, <1>3 DEF TimeInc

\* The pops bring the clock nearer to the packet, never past it.
LEMMA OverrunGap ==
  ASSUME NEW time \in Times, NEW from \in Times, time = from \/ IsNewer(time, from),
         NEW n, n = Overrun(time, from), NEW base, base = TimeIncBy(from, n)
  PROVE  /\ base \in Times /\ n \in Nat
         /\ Gap(time, base) = SubTime(time, base) /\ Gap(time, base) \in Slots
         /\ Gap(time, from) = n + Gap(time, base)
<1>1. /\ n \in 0 .. Window - 1
      /\ SubTime(time, base) \in Slots
      /\ TimeIncBy(base, SubTime(time, base)) = time
  BY OverrunFits
<1>2. base \in Times /\ Gap(base, from) = n
  BY <1>1, GapOfInc
<1>3. SubTime(time, base) \in 0 .. Window - 1 /\ SubTime(time, base) < Half
  BY <1>1, HalfWindow, CageAssumption DEF Slots
<1>4. Gap(time, base) = SubTime(time, base)
  BY <1>1, <1>2, <1>3, GapOfInc
<1>5. n < Half
  <2> DEFINE last == TimeIncBy(from, Size - 1)
  <2>1. from \in Int /\ Size - 1 \in Int
    BY CageAssumption DEF Times
  <2>2. last \in Times
    BY <2>1, TimesType
  <2>3. n = IF IsNewer(time, last) THEN SubTime(time, last) ELSE 0
    BY DEF Overrun
  <2> HIDE DEF last
  <2>4. CASE IsNewer(time, last)
    BY <2>2, <2>3, <2>4, NewerGap, SubGap
  <2>5. CASE ~IsNewer(time, last)
    BY <2>3, <2>5, HalfWindow, CageAssumption
  <2> QED
    BY <2>4, <2>5
<1>6. Gap(time, from) = Gap(time, base) + Gap(base, from)
  <2>1. Gap(time, base) + Gap(base, from) < Window
    BY <1>1, <1>2, <1>3, <1>4, <1>5, HalfWindow
  <2> QED
    BY <1>2, <2>1, GapSum
<1> QED
  BY <1>1, <1>2, <1>3, <1>4, <1>6

-----------------------------------------------------------------------------
(* The ring of slots                                                       *)

LEMMA PointIs ==
  ASSUME NEW pos \in Slots, NEW i \in 0 .. Size
  PROVE  Point(pos, i) = IF pos + i < Size THEN pos + i ELSE pos + i - Size
<1>1. Size \in Nat /\ Size > 0 /\ pos \in 0 .. Size - 1
  BY CageAssumption DEF Slots
<1>2. pos + i \in 0 .. 2 * Size - 1
  BY <1>1
<1> QED
  BY <1>1, <1>2, Wrap DEF Point

LEMMA PointInjective ==
  ASSUME NEW pos \in Slots, NEW i \in Slots, NEW j \in Slots,
         Point(pos, i) = Point(pos, j)
  PROVE  i = j
<1>1. Size \in Nat /\ pos \in 0 .. Size - 1 /\ i \in 0 .. Size - 1 /\ j \in 0 .. Size - 1
  BY CageAssumption DEF Slots
<1> QED
  BY <1>1, PointIs

\* every slot is some way behind the first
LEMMA PointOnto ==
  ASSUME NEW pos \in Slots, NEW j \in Slots
  PROVE  \E i \in Slots : Point(pos, i) = j
<1> DEFINE i == IF j >= pos THEN j - pos ELSE j - pos + Size
<1>1. Size \in Nat /\ pos \in 0 .. Size - 1 /\ j \in 0 .. Size - 1
  BY CageAssumption DEF Slots
<1>2. i \in Slots /\ i \in 0 .. Size
  BY <1>1 DEF Slots
<1>3. Point(pos, i) = j
  BY <1>1, <1>2, PointIs
<1> QED
  BY <1>2, <1>3

\* A slot the pops leave is as far behind the new head as it was behind the
\* old one, less the pops.
LEMMA Left ==
  ASSUME NEW pos \in Slots, NEW n \in Nat, NEW i \in Slots,
         Point(Point(pos, n), i) \notin {Point(pos, k) : k \in 0 .. (IF n < Size THEN n ELSE Size) - 1}
  PROVE  n \in Slots /\ n + i < Size /\ Point(Point(pos, n), i) = Point(pos, n + i)
<1>1. Size \in Nat /\ Size > 0 /\ pos \in 0 .. Size - 1 /\ i \in 0 .. Size - 1
  BY CageAssumption DEF Slots
<1>2. Point(pos, n) \in Slots /\ Point(Point(pos, n), i) \in Slots
  BY <1>1, PointType DEF Slots
<1>3. CASE n >= Size
  <2>1. PICK k \in Slots : Point(pos, k) = Point(Point(pos, n), i)
    BY <1>2, PointOnto
  <2> QED
    BY <1>1, <1>3, <2>1 DEF Slots
<1>4. CASE n < Size
  <2>1. n \in Slots /\ n \in 0 .. Size
    BY <1>1, <1>4 DEF Slots
  <2>2. Point(pos, n) = IF pos + n < Size THEN pos + n ELSE pos + n - Size
    BY <2>1, PointIs
  <2>3. Point(Point(pos, n), i) = IF Point(pos, n) + i < Size THEN Point(pos, n) + i
                                  ELSE Point(pos, n) + i - Size
    BY <1>1, <1>2, PointIs
  <2>4. CASE n + i < Size
    <3>1. Point(pos, n + i) = IF pos + (n + i) < Size THEN pos + (n + i)
                              ELSE pos + (n + i) - Size
      BY <1>1, <2>1, <2>4, PointIs
    <3> QED
      BY <1>1, <2>1, <2>2, <2>3, <2>4, <3>1
  <2>5. CASE n + i >= Size
    <3>1. n + i - Size \in 0 .. n - 1 /\ n + i - Size \in 0 .. Size
      BY <1>1, <1>4, <2>5
    <3>2. Point(pos, n + i - Size) = IF pos + (n + i - Size) < Size THEN pos + (n + i - Size)
                                     ELSE pos + (n + i - Size) - Size
      BY <3>1, PointIs
    <3>3. Point(Point(pos, n), i) = Point(pos, n + i - Size)
      BY <1>1, <1>4, <2>2, <2>3, <2>5, <3>2
    <3> QED
      BY <1>4, <3>1, <3>3
  <2> QED
    BY <1>1, <2>4, <2>5
<1> QED
  BY <1>1, <1>3, <1>4

\* the only slot that one pop takes is the first
LEMMA FirstSlot ==
  ASSUME NEW pos \in Slots
  PROVE  {Point(pos, k) : k \in 0 .. (IF 1 < Size THEN 1 ELSE Size) - 1} = {pos}
<1>1. (IF 1 < Size THEN 1 ELSE Size) - 1 = 0 /\ Size \in Nat /\ pos \in 0 .. Size - 1
  BY CageAssumption DEF Slots
<1>2. Point(pos, 0) = pos
  BY <1>1, PointIs
<1>3. \A k \in 0 .. 0 : k = 0
  OBVIOUS
<1> QED
  BY <1>1, <1>2, <1>3

-----------------------------------------------------------------------------
(* Counting the slots                                                      *)

LEMMA FilledFinite == Filled \subseteq Slots /\ IsFiniteSet(Filled)
<1>1. IsFiniteSet(Slots)
  BY FS_Interval, CageAssumption DEF Slots
<1> QED
  BY <1>1, FS_Subset DEF Filled

\* what is left of a finite set when some of it is taken out
LEMMA TakeOut ==
  ASSUME NEW S, IsFiniteSet(S), NEW P
  PROVE  /\ IsFiniteSet(S \ P) /\ IsFiniteSet(S \cap P)
         /\ Cardinality(S) \in Nat /\ Cardinality(S \ P) \in Nat
         /\ Cardinality(S \cap P) \in Nat
         /\ Cardinality(S \ P) = Cardinality(S) - Cardinality(S \cap P)
<1>1. IsFiniteSet(S \ P) /\ IsFiniteSet(S \cap P)
  BY FS_Subset
<1>2. Cardinality(S \ P) = Cardinality(S) - Cardinality(S \cap P)
  BY FS_Difference
<1> QED
  BY <1>1, <1>2, FS_CardinalityType

-----------------------------------------------------------------------------
(* The two operations                                                      *)

LEMMA PutPreserves ==
  ASSUME CageInv, NEW time \in Times, PutData(time), played' \in Times \cup {NULL}
  PROVE  /\ head' \in Slots /\ head_time' \in Times
         /\ cage_starvation' \in BOOLEAN /\ new_cage' \in BOOLEAN
         /\ elements_count' \in Int
         /\ audio_queue' \in [Slots -> Times \cup {NULL}]
         /\ mishap' \in BOOLEAN
         /\ CountMatchesSlots'
<1>1. CASE ~Accepts(time)
  BY <1>1 DEF PutData, cage, CageInv, TypeOK, CountMatchesSlots, Filled
<1>2. CASE Accepts(time)
  <2> DEFINE from  == IF new_cage THEN time ELSE head_time
             n     == Overrun(time, from)
             base  == TimeIncBy(from, n)
             P     == Popped(n)
             slots == [i \in Slots |-> IF i \in P THEN NULL ELSE audio_queue[i]]
             count == elements_count - Cardinality({i \in P : audio_queue[i] # NULL})
             pos   == Point(Point(head, n), SubTime(time, base))
             empty == n > 0 /\ count = 0
  <2>1. /\ head' = Point(head, n) /\ head_time' = base
        /\ cage_starvation' = Starving(n) /\ new_cage' = empty
        /\ elements_count' = count + 1
        /\ audio_queue' = [slots EXCEPT ![pos] = time]
        /\ mishap' = (mishap \/ empty \/ slots[pos] # NULL)
    BY <1>2 DEF PutData
  <2>2. from \in Times
    BY DEF CageInv, TypeOK
  <2>3. n \in Int
    BY <2>2, OverrunType
  <2>4. from \in Int /\ time \in Int /\ head \in Int
    BY <2>2 DEF Times, CageInv, TypeOK, Slots
  <2>5. base \in Times
    BY <2>3, <2>4, TimesType
  <2>6. Point(head, n) \in Slots
    BY <2>3, <2>4, PointType
  <2>7. pos \in Slots
    <3>1. base \in Int /\ Point(head, n) \in Int
      BY <2>5, <2>6 DEF Times, Slots
    <3>2. SubTime(time, base) \in Int
      BY <3>1, <2>4, SubType
    <3> HIDE DEF base
    <3> QED
      BY <3>1, <3>2, PointType
  <2>8. P \subseteq Slots
    <3>1. \A i \in Int : Point(head, i) \in Slots
      BY <2>4, PointType
    <3> QED
      BY <3>1, <2>3, CageAssumption DEF Popped
  <2> HIDE DEF from, n, base, P, pos
  <2>9. slots \in [Slots -> Times \cup {NULL}]
    BY DEF CageInv, TypeOK
  <2>10. audio_queue' \in [Slots -> Times \cup {NULL}]
    BY <2>1, <2>9
  <2>11. {i \in P : audio_queue[i] # NULL} = Filled \cap P
    BY <2>8 DEF Filled
  <2>12. elements_count \in Int /\ elements_count >= Cardinality(Filled)
    BY DEF CageInv, TypeOK, CountMatchesSlots
  <2>13. /\ IsFiniteSet(Filled \ P) /\ Cardinality(Filled \ P) \in Nat
         /\ Cardinality(Filled) \in Nat /\ Cardinality(Filled \cap P) \in Nat
         /\ Cardinality(Filled \ P) = Cardinality(Filled) - Cardinality(Filled \cap P)
    BY FilledFinite, TakeOut
  <2>14. Filled' = (Filled \ P) \cup {pos}
    <3>1. time # NULL
      BY CageAssumption
    <3>2. Filled' = {i \in Slots : audio_queue'[i] # NULL}
      BY DEF Filled
    <3>3. \A i \in Slots : audio_queue'[i] = IF i = pos THEN time ELSE slots[i]
      BY <2>1, <2>7, <2>9
    <3>4. \A i \in Slots : slots[i] # NULL <=> i \in Filled \ P
      BY DEF Filled
    <3> HIDE DEF slots
    <3> QED
      BY <3>1, <3>2, <3>3, <3>4, <2>7, FilledFinite
  <2>15. Cardinality(Filled') = IF pos \in Filled \ P THEN Cardinality(Filled \ P)
                                ELSE Cardinality(Filled \ P) + 1
    BY <2>13, <2>14, FS_AddElement
  <2>16. slots[pos] = NULL => pos \notin Filled \ P
    BY <2>7 DEF Filled
  <2>17. count \in Int /\ count >= Cardinality(Filled \ P)
    BY <2>11, <2>12, <2>13
  <2>18. elements_count = Cardinality(Filled) => count = Cardinality(Filled \ P)
    BY <2>11, <2>12, <2>13
  <2> HIDE DEF count, slots
  <2>19. elements_count' >= Cardinality(Filled')
    BY <2>1, <2>13, <2>15, <2>17
  <2>20. ASSUME ~mishap'
         PROVE  /\ elements_count' = Cardinality(Filled')
                /\ new_cage' <=> Filled' = {}
                /\ new_cage' => cage_starvation'
    <3>1. ~mishap /\ ~empty /\ slots[pos] = NULL
      BY <2>20, <2>1
    <3>2. elements_count = Cardinality(Filled)
      BY <3>1 DEF CageInv, CountMatchesSlots
    <3>3. elements_count' = Cardinality(Filled')
      BY <3>1, <3>2, <2>1, <2>13, <2>15, <2>16, <2>17, <2>18
    <3> QED
      BY <3>1, <3>3, <2>1, <2>14
  <2>21. CountMatchesSlots'
    BY <2>19, <2>20 DEF CountMatchesSlots
  <2>22. mishap' \in BOOLEAN /\ new_cage' \in BOOLEAN /\ cage_starvation' \in BOOLEAN
    BY <2>1 DEF Starving, CageInv, TypeOK
  <2>23. elements_count' \in Int
    BY <2>1, <2>17
  <2> QED
    BY <2>1, <2>5, <2>6, <2>10, <2>21, <2>22, <2>23
<1> QED
  BY <1>1, <1>2

LEMMA GetPreserves ==
  ASSUME CageInv, GetData, mishap' = mishap
  PROVE  /\ head' \in Slots /\ head_time' \in Times
         /\ cage_starvation' \in BOOLEAN /\ new_cage' \in BOOLEAN
         /\ elements_count' \in Int
         /\ audio_queue' \in [Slots -> Times \cup {NULL}]
         /\ played' \in Times \cup {NULL}
         /\ CountMatchesSlots'
<1>1. CASE cage_starvation
  BY <1>1 DEF GetData, cage, CageInv, TypeOK, CountMatchesSlots, Filled
<1>2. CASE ~cage_starvation
  <2> DEFINE count == elements_count - Taken
  <2>1. /\ played' = audio_queue[head] /\ elements_count' = count
        /\ audio_queue' = [audio_queue EXCEPT ![head] = NULL]
        /\ head' = Point(head, 1) /\ head_time' = TimeInc(head_time)
        /\ cage_starvation' = (count = 0) /\ new_cage' = Renewed(count)
    BY <1>2 DEF GetData
  <2>2. head \in Slots /\ head \in Int /\ audio_queue \in [Slots -> Times \cup {NULL}]
    BY DEF CageInv, TypeOK, Slots
  <2>3. Filled' = Filled \ {head}
    <3>1. Filled' = {i \in Slots : audio_queue'[i] # NULL}
      BY DEF Filled
    <3>2. \A i \in Slots : audio_queue'[i] = IF i = head THEN NULL ELSE audio_queue[i]
      BY <2>1, <2>2
    <3> QED
      BY <3>1, <3>2, <2>2 DEF Filled
  <2>4. /\ Cardinality(Filled) \in Nat /\ IsFiniteSet(Filled')
        /\ Cardinality(Filled') \in Nat
        /\ Cardinality(Filled') = Cardinality(Filled) - Taken
    <3>1. Taken = IF head \in Filled THEN 1 ELSE 0
      BY <2>2 DEF Taken, Filled
    <3> QED
      BY <3>1, <2>3, FilledFinite, TakeOut, FS_RemoveElement, FS_CardinalityType
  <2>5. elements_count \in Int /\ elements_count >= Cardinality(Filled) /\ Taken \in {0, 1}
    BY DEF CageInv, TypeOK, CountMatchesSlots, Taken
  <2>6. count \in Int /\ count >= Cardinality(Filled')
    BY <2>4, <2>5
  <2>7. ASSUME ~mishap'
        PROVE  /\ elements_count' = Cardinality(Filled')
               /\ new_cage' <=> Filled' = {}
               /\ new_cage' => cage_starvation'
    <3>1. elements_count = Cardinality(Filled) /\ ~new_cage
      BY <2>7, <1>2 DEF CageInv, CountMatchesSlots
    <3>2. count = Cardinality(Filled')
      BY <3>1, <2>4, <2>5
    <3>3. Cardinality(Filled') = 0 <=> Filled' = {}
      BY <2>4, FS_EmptySet
    <3> HIDE DEF count
    <3> QED
      BY <3>1, <3>2, <3>3, <2>1 DEF Renewed
  <2>8. CountMatchesSlots'
    BY <2>1, <2>6, <2>7 DEF CountMatchesSlots
  <2>9. head' \in Slots /\ head_time' \in Times
    BY <2>1, <2>2, PointType, IncType DEF CageInv, TypeOK
  <2>10. new_cage' \in BOOLEAN /\ cage_starvation' \in BOOLEAN
    BY <2>1 DEF Renewed, CageInv, TypeOK
  <2>11. played' \in Times \cup {NULL} /\ audio_queue' \in [Slots -> Times \cup {NULL}]
    BY <2>1, <2>2
  <2> QED
    BY <2>1, <2>6, <2>8, <2>9, <2>10, <2>11
<1> QED
  BY <1>1, <1>2

-----------------------------------------------------------------------------
(* The slots and the clock                                                 *)

LEMMA PutKeepsClock ==
  ASSUME CageInv, SlotsFollowClock, NEW time \in Times, PutData(time)
  PROVE  SlotsFollowClock'
<1>1. CASE ~Accepts(time)
  BY <1>1 DEF PutData, cage, SlotsFollowClock
<1>2. CASE Accepts(time)
  <2> DEFINE from  == IF new_cage THEN time ELSE head_time
             n     == Overrun(time, from)
             base  == TimeIncBy(from, n)
             P     == Popped(n)
             slots == [i \in Slots |-> IF i \in P THEN NULL ELSE audio_queue[i]]
             pos   == Point(Point(head, n), SubTime(time, base))
  <2> SUFFICES ASSUME ~mishap', NEW i \in Slots
               PROVE  audio_queue'[Point(head', i)] \in {NULL, TimeIncBy(head_time', i)}
    BY DEF SlotsFollowClock
  <2>1. /\ head' = Point(head, n) /\ head_time' = base /\ ~mishap
        /\ audio_queue' = [slots EXCEPT ![pos] = time]
    BY <1>2 DEF PutData
  <2>2. /\ from \in Times /\ (time = from \/ IsNewer(time, from))
        /\ head \in Slots /\ head \in Int /\ from \in Int
    BY <1>2 DEF CageInv, TypeOK, Accepts, Slots, Times
  <2>3. /\ n \in 0 .. Window - 1
        /\ SubTime(time, base) \in Slots
        /\ TimeIncBy(base, SubTime(time, base)) = time
    BY <2>2, OverrunFits
  <2>4. n \in Nat /\ n \in Int
    BY <2>3
  <2>5. Point(head, n) \in Slots /\ Point(Point(head, n), i) \in Slots
    <3>1. \A p \in Int, d \in Int : Point(p, d) \in Slots
      BY PointType
    <3>2. \A p \in Slots : p \in Int
      BY DEF Slots
    <3> HIDE DEF n
    <3> QED
      BY <2>2, <2>4, <3>1, <3>2
  <2>6. P = {Point(head, k) : k \in 0 .. (IF n < Size THEN n ELSE Size) - 1}
    BY DEF Popped
  <2> HIDE DEF from, n, base, P
  <2>7. CASE Point(Point(head, n), i) = pos
    <3>1. i = SubTime(time, base)
      BY <2>3, <2>5, <2>7, PointInjective
    <3>2. audio_queue'[pos] = time
      BY <2>1, <2>5, <2>7
    <3> QED
      BY <2>1, <2>3, <2>7, <3>1, <3>2
  <2>8. CASE Point(Point(head, n), i) # pos
    <3>1. audio_queue'[Point(head', i)] = slots[Point(Point(head, n), i)]
      BY <2>1, <2>5, <2>8
    <3>2. CASE Point(Point(head, n), i) \in P
      BY <2>5, <3>1, <3>2
    <3>3. CASE Point(Point(head, n), i) \notin P
      <4>1. slots[Point(Point(head, n), i)] = audio_queue[Point(Point(head, n), i)]
        BY <2>5, <3>3
      <4>2. n \in Slots /\ n + i < Size /\ Point(Point(head, n), i) = Point(head, n + i)
        BY <2>2, <2>4, <2>6, <3>3, Left
      <4>3. n + i \in Slots
        BY <4>2, CageAssumption DEF Slots
      <4>4. CASE new_cage
        <5>1. Filled = {}
          BY <2>1, <4>4 DEF CageInv, CountMatchesSlots
        <5>2. audio_queue[Point(Point(head, n), i)] = NULL
          BY <2>5, <5>1 DEF Filled
        <5> QED
          BY <3>1, <4>1, <5>2
      <4>5. CASE ~new_cage
        <5>1. from = head_time
          BY <4>5 DEF from
        <5>2. audio_queue[Point(head, n + i)] \in {NULL, TimeIncBy(head_time, n + i)}
          BY <2>1, <4>3 DEF SlotsFollowClock
        <5>3. TimeIncBy(base, i) = TimeIncBy(head_time, n + i)
          BY <2>2, <4>2, <5>1, IncTwice DEF base
        <5> QED
          BY <2>1, <3>1, <4>1, <4>2, <5>2, <5>3
      <4> QED
        BY <4>4, <4>5
    <3> QED
      BY <3>2, <3>3
  <2> QED
    BY <2>7, <2>8
<1> QED
  BY <1>1, <1>2

LEMMA GetKeepsClock ==
  ASSUME CageInv, SlotsFollowClock, GetData, mishap' = mishap
  PROVE  SlotsFollowClock'
<1>1. CASE cage_starvation
  BY <1>1 DEF GetData, cage, SlotsFollowClock
<1>2. CASE ~cage_starvation
  <2> SUFFICES ASSUME ~mishap', NEW i \in Slots
               PROVE  audio_queue'[Point(head', i)] \in {NULL, TimeIncBy(head_time', i)}
    BY DEF SlotsFollowClock
  <2>1. /\ audio_queue' = [audio_queue EXCEPT ![head] = NULL] /\ ~mishap
        /\ head' = Point(head, 1) /\ head_time' = TimeInc(head_time)
    BY <1>2 DEF GetData
  <2>2. /\ head \in Slots /\ head \in 0 .. Size - 1 /\ head_time \in Times
        /\ audio_queue \in [Slots -> Times \cup {NULL}]
    BY DEF CageInv, TypeOK, Slots
  <2>3. Size \in Nat /\ Size >= 2 /\ 1 \in Slots /\ 0 \in Slots
    BY CageAssumption DEF Slots
  <2>4. head' \in Slots /\ Point(head', i) \in Slots
    <3>1. \A p \in Int, d \in Int : Point(p, d) \in Slots
      BY PointType
    <3>2. \A p \in Slots : p \in Int
      BY DEF Slots
    <3>3. head \in Int /\ 1 \in Int /\ i \in Int
      BY <2>2, <3>2
    <3>4. head' \in Slots /\ head' \in Int
      BY <2>1, <3>1, <3>2, <3>3
    <3> QED
      BY <3>1, <3>3, <3>4
  <2>5. TimeInc(head_time) = TimeIncBy(head_time, 1)
    BY <2>2, IncIsIncBy
  <2>6. CASE Point(head', i) = head
    BY <2>1, <2>2, <2>6
  <2>7. CASE Point(head', i) # head
    <3>1. audio_queue'[Point(head', i)] = audio_queue[Point(head', i)]
      BY <2>1, <2>2, <2>4, <2>7
    <3>2. {Point(head, k) : k \in 0 .. (IF 1 < Size THEN 1 ELSE Size) - 1} = {head}
      BY <2>2, FirstSlot
    <3>3. 1 + i < Size /\ Point(head', i) = Point(head, 1 + i)
      <4>1. head' = Point(head, 1)
        BY <2>1
      <4>2. Point(Point(head, 1), i) \notin {Point(head, k) : k \in 0 .. (IF 1 < Size THEN 1 ELSE Size) - 1}
        BY <2>7, <3>2, <4>1
      <4>3. 1 \in Nat
        OBVIOUS
      <4> HIDE DEF Point
      <4> QED
        BY <2>2, <4>1, <4>2, <4>3, Left
    <3>4. 1 + i \in Slots
      BY <3>3, <2>3 DEF Slots
    <3>5. audio_queue[Point(head, 1 + i)] \in {NULL, TimeIncBy(head_time, 1 + i)}
      BY <2>1, <3>4 DEF SlotsFollowClock
    <3>6. TimeIncBy(head_time', i) = TimeIncBy(head_time, 1 + i)
      BY <2>1, <2>2, <2>3, <2>5, <3>3, IncTwice
    <3> QED
      BY <3>1, <3>3, <3>5, <3>6
  <2> QED
    BY <2>6, <2>7
<1> QED
  BY <1>1, <1>2

-----------------------------------------------------------------------------
(* The invariant                                                           *)

LEMMA InitCage == Init => CageInv
<1> SUFFICES ASSUME Init PROVE CageInv
  OBVIOUS
<1>1. 0 \in Slots /\ 0 \in Times
  BY CageAssumption, MaxTimeAssumption DEF Slots, Times
<1>2. TypeOK
  <2>1. /\ head \in Slots /\ head_time \in Times /\ sent \in Times
        /\ newest \in Times \cup {NULL}
    BY <1>1 DEF Init
  <2>2. audio_queue \in [Slots -> Times \cup {NULL}]
    BY DEF Init
  <2>3. /\ cage_starvation \in BOOLEAN /\ new_cage \in BOOLEAN
        /\ mishap \in BOOLEAN
    BY DEF Init
  <2>4. /\ elements_count \in Int /\ played \in Times \cup {NULL}
        /\ network \subseteq Times
    BY DEF Init
  <2> QED
    BY <2>1, <2>2, <2>3, <2>4 DEF TypeOK
<1>3. Filled = {} /\ Cardinality(Filled) = 0
  BY FS_EmptySet DEF Init, Filled
<1> QED
  BY <1>2, <1>3 DEF Init, CageInv, CountMatchesSlots

LEMMA NextCage == CageInv /\ [Next]_vars => CageInv'
<1> SUFFICES ASSUME CageInv, [Next]_vars PROVE CageInv'
  OBVIOUS
<1>1. CASE Send
  <2>1. TimeInc(sent) \in Times
    BY IncType DEF CageInv, TypeOK
  <2> QED
    BY <1>1, <2>1 DEF Send, cage, CageInv, TypeOK, CountMatchesSlots, Filled
<1>2. CASE Lose
  BY <1>2 DEF Lose, cage, CageInv, TypeOK, CountMatchesSlots, Filled
<1>3. CASE ReceiveSome
  <2> PICK t \in network, again \in {FALSE, MayDuplicate} : Receive(t, again)
    BY <1>3 DEF ReceiveSome
  <2>1. /\ network' \subseteq network /\ newest' \in {t, newest, NULL}
        /\ PutData(t) /\ played' = played /\ sent' = sent
    BY DEF Receive, Newest
  <2>2. t \in Times /\ network' \subseteq Times /\ newest' \in Times \cup {NULL}
    BY <2>1 DEF CageInv, TypeOK
  <2>3. played' \in Times \cup {NULL} /\ sent' \in Times
    BY <2>1 DEF CageInv, TypeOK
  <2> QED
    BY <2>1, <2>2, <2>3, PutPreserves DEF CageInv, TypeOK
<1>4. CASE Get
  <2>1. GetData /\ mishap' = mishap
        /\ sent' = sent /\ newest' = newest /\ network' = network
    BY <1>4 DEF Get, traffic
  <2>2. /\ mishap' \in BOOLEAN
        /\ sent' \in Times /\ newest' \in Times \cup {NULL} /\ network' \subseteq Times
    BY <2>1 DEF CageInv, TypeOK
  <2> QED
    BY <2>1, <2>2, GetPreserves DEF CageInv, TypeOK
<1>5. CASE UNCHANGED vars
  BY <1>5 DEF vars, traffic, cage, CageInv, TypeOK, CountMatchesSlots, Filled
<1> QED
  BY <1>1, <1>2, <1>3, <1>4, <1>5 DEF Next

LEMMA CageCorrect == Spec => []CageInv
BY InitCage, NextCage, PTL DEF Spec

\* The types of the cage, its packets and its traffic, under any network.
THEOREM TypeCorrect == Spec => []TypeOK
<1>1. CageInv => TypeOK
  BY DEF CageInv
<1> QED
  BY <1>1, CageCorrect, PTL

\* packet_cage.c:85-89,123-124,136-138: elements_count never falls below the
\* packets in the slots, and until the first overwrite or emptying overrun
\* the count, the slots and the two flags agree, at any size of the cage.
THEOREM CountCorrect == Spec => []CountMatchesSlots
<1>1. CageInv => CountMatchesSlots
  BY DEF CageInv
<1> QED
  BY <1>1, CageCorrect, PTL

\* packet_cage.c:120-123: until the first overwrite or emptying overrun every
\* packet waits in the slot that is played when the clock of the cage reaches
\* its time, at any width of the clock and any size of the cage.
THEOREM ClockCorrect == Spec => []SlotsFollowClock
<1>1. Init => SlotsFollowClock
  <2> SUFFICES ASSUME Init, NEW i \in Slots
               PROVE  audio_queue[Point(head, i)] = NULL
    BY DEF SlotsFollowClock
  <2>1. 0 \in Int /\ i \in Int
    BY DEF Slots
  <2>2. Point(0, i) \in Slots
    BY <2>1, PointType
  <2> QED
    BY <2>2 DEF Init
<1>2. CageInv /\ SlotsFollowClock /\ [Next]_vars => SlotsFollowClock'
  <2> SUFFICES ASSUME CageInv, SlotsFollowClock, [Next]_vars
               PROVE  SlotsFollowClock'
    OBVIOUS
  <2>1. CASE Send \/ Lose \/ UNCHANGED vars
    <3>1. UNCHANGED <<cage, mishap>>
      BY <2>1 DEF Send, Lose, vars
    <3> QED
      BY <3>1 DEF cage, SlotsFollowClock
  <2>2. CASE ReceiveSome
    <3> PICK t \in network, again \in {FALSE, MayDuplicate} : Receive(t, again)
      BY <2>2 DEF ReceiveSome
    <3>1. PutData(t) /\ t \in Times
      BY DEF Receive, CageInv, TypeOK
    <3> QED
      BY <3>1, PutKeepsClock
  <2>3. CASE Get
    BY <2>3, GetKeepsClock DEF Get
  <2> QED
    BY <2>1, <2>2, <2>3 DEF Next
<1> QED
  BY <1>1, <1>2, CageCorrect, PTL DEF Spec

-----------------------------------------------------------------------------
(* How far the clock of the cage is behind the packets                     *)

\* Unless the gap has been too long, the newest packet delivered is not far
\* behind the sender, and the clock of a cage that holds packets is not far
\* behind the newest, nor past any of those it holds; no packet in flight is
\* far behind the sender either.
Lags ==
  /\ newest # NULL => Ahead(sent, newest) <= MaxGap
  /\ \A t \in network : Ahead(sent, t) <= Delay
  /\ ~mishap /\ ~new_cage /\ newest # NULL =>
       /\ Ahead(newest, head_time) < Size + Delay
       /\ \A i \in Slots : audio_queue[Point(head, i)] # NULL
                             => i <= Ahead(newest, head_time)

\* the constants that bound them fit into half of the clock
LEMMA Bounds ==
  /\ Size \in Nat /\ Size >= 2 /\ Delay \in Nat /\ MaxGap \in Nat /\ Window \in Nat
  /\ Size + Delay + MaxGap < Half /\ Delay <= MaxGap
BY CageAssumption, ClockAssumption, WindowType DEF Half

\* A cage that is not new holds a packet, so that its clock is not past the
\* newest one; a newer one is ahead of that clock by less than half the window.
LEMMA NewerIsAhead ==
  ASSUME CageInv, Lags, ~mishap, ~new_cage, newest # NULL,
         NEW time \in Times, Ahead(sent, time) < Ahead(sent, newest)
  PROVE  /\ Gap(time, head_time) = Gap(time, newest) + Gap(newest, head_time)
         /\ Gap(time, newest) > 0 /\ Gap(time, newest) <= MaxGap
         /\ IsNewer(time, head_time)
<1>1. sent \in Times /\ newest \in Times /\ head_time \in Times
  BY DEF CageInv, TypeOK
<1>2. /\ Gap(sent, newest) <= MaxGap /\ Gap(newest, head_time) < Size + Delay
      /\ Gap(sent, time) < Gap(sent, newest)
  BY <1>1, AheadIsGap DEF Lags
<1>3. /\ Gap(sent, newest) \in Nat /\ Gap(newest, head_time) \in Nat
      /\ Gap(sent, time) \in Nat
  BY <1>1, AheadIsGap
<1>4. Gap(time, newest) = Gap(sent, newest) - Gap(sent, time)
  BY <1>1, <1>2, <1>3, GapSum
<1>5. Gap(time, newest) > 0 /\ Gap(time, newest) <= MaxGap /\ Gap(time, newest) \in Nat
  BY <1>2, <1>3, <1>4, Bounds
<1>6. Gap(time, newest) + Gap(newest, head_time) < Half
  BY <1>2, <1>3, <1>5, Bounds, HalfWindow
<1>7. Gap(time, head_time) = Gap(time, newest) + Gap(newest, head_time)
  BY <1>1, <1>3, <1>5, <1>6, GapSum, HalfWindow
<1> QED
  BY <1>1, <1>3, <1>5, <1>6, <1>7, NewerGap

LEMMA PutKeepsLags ==
  ASSUME CageInv, Lags, NEW time \in network, PutData(time), sent' = sent,
         newest # NULL,
         newest' = IF Ahead(sent, time) < Ahead(sent, newest) THEN time ELSE newest,
         network' \subseteq network
  PROVE  Lags'
<1>1. /\ sent \in Times /\ newest \in Times /\ head_time \in Times /\ time \in Times
      /\ newest' \in Times /\ head \in Slots
  BY DEF CageInv, TypeOK
<1>2. /\ Gap(sent, newest) <= MaxGap /\ Gap(sent, time) <= Delay
      /\ newest' = IF Gap(sent, time) < Gap(sent, newest) THEN time ELSE newest
  BY <1>1, AheadIsGap DEF Lags
<1>3. /\ Gap(sent, newest) \in Nat /\ Gap(sent, time) \in Nat
      /\ Gap(newest, head_time) \in Nat /\ Gap(newest, time) \in Nat
      /\ Gap(time, newest) \in Nat /\ Gap(time, head_time) \in Nat
  BY <1>1, AheadIsGap
<1>4. Ahead(sent', newest') <= MaxGap
  <2>1. Gap(sent, newest') <= MaxGap
    BY <1>2, <1>3, Bounds
  <2> QED
    BY <1>1, <2>1, AheadIsGap
<1>5. \A t \in network' : Ahead(sent', t) <= Delay
  BY DEF Lags
<1>6. ASSUME ~mishap', ~new_cage'
      PROVE  /\ Ahead(newest', head_time') < Size + Delay
             /\ \A i \in Slots : audio_queue'[Point(head', i)] # NULL
                                   => i <= Ahead(newest', head_time')
  <2>1. CASE ~Accepts(time)
    <3>1. /\ UNCHANGED <<head, head_time, new_cage, audio_queue, mishap>>
          /\ ~IsNewer(time, head_time)
      BY <2>1 DEF PutData, cage, Accepts
    <3>2. ~(Ahead(sent, time) < Ahead(sent, newest))
      BY <1>1, <1>6, <3>1, NewerIsAhead
    <3>3. newest' = newest
      BY <3>2
    <3> QED
      BY <1>6, <3>1, <3>3 DEF Lags
  <2>2. CASE Accepts(time)
    <3> DEFINE from  == IF new_cage THEN time ELSE head_time
               n     == Overrun(time, from)
               base  == TimeIncBy(from, n)
               P     == Popped(n)
               slots == [i \in Slots |-> IF i \in P THEN NULL ELSE audio_queue[i]]
               pos   == Point(Point(head, n), SubTime(time, base))
    <3>1. /\ head' = Point(head, n) /\ head_time' = base /\ ~mishap
          /\ audio_queue' = [slots EXCEPT ![pos] = time]
      BY <1>6, <2>2 DEF PutData
    <3>2. /\ from \in Times /\ (time = from \/ IsNewer(time, from))
          /\ head \in Int /\ from \in Int
      BY <1>1, <2>2 DEF Accepts, Slots, Times
    <3>3. /\ base \in Times /\ n \in Nat /\ n \in Int
          /\ Gap(time, base) = SubTime(time, base) /\ Gap(time, base) \in Slots
          /\ Gap(time, from) = n + Gap(time, base)
      BY <1>1, <3>2, OverrunGap
    <3>4. P = {Point(head, k) : k \in 0 .. (IF n < Size THEN n ELSE Size) - 1}
      BY DEF Popped
    <3> HIDE DEF from, n, base, P
    <3>5. Gap(time, base) \in Nat /\ Gap(time, base) < Size
      BY <3>3, Bounds DEF Slots
    \* the packet is not past the newest; where there were packets, the newest
    \* is as much nearer to the clock as the clock has moved
    <3>6. /\ Gap(newest', base) < Size + Delay /\ Gap(time, base) <= Gap(newest', base)
          /\ ~new_cage => Gap(newest', base) >= Gap(newest, head_time) - n
      <4>1. CASE newest' = time
        <5>1. Gap(newest', base) < Size + Delay /\ Gap(time, base) <= Gap(newest', base)
          BY <3>5, <4>1, Bounds
        <5>2. ASSUME ~new_cage
              PROVE  Gap(newest', base) >= Gap(newest, head_time) - n
          <6>1. Gap(time, head_time) = n + Gap(time, base)
            BY <3>3, <5>2 DEF from
          <6>2. CASE Gap(sent, time) < Gap(sent, newest)
            <7>1. Gap(time, head_time) = Gap(time, newest) + Gap(newest, head_time)
              BY <1>1, <3>1, <5>2, <6>2, AheadIsGap, NewerIsAhead
            <7> QED
              BY <1>3, <3>3, <3>5, <4>1, <6>1, <7>1
          <6>3. CASE ~(Gap(sent, time) < Gap(sent, newest))
            BY <1>2, <1>3, <3>3, <3>5, <4>1, <6>1, <6>3
          <6> QED
            BY <6>2, <6>3
        <5> QED
          BY <5>1, <5>2
      <4>2. CASE newest' = newest /\ ~(Gap(sent, time) < Gap(sent, newest))
        <5>1. Gap(newest, time) = Gap(sent, time) - Gap(sent, newest)
          BY <1>1, <1>3, <4>2, GapSum
        <5>2. Gap(newest, time) <= Delay
          BY <1>2, <1>3, <5>1, Bounds
        <5>3. Gap(newest, base) = Gap(newest, time) + Gap(time, base)
          <6>1. Gap(newest, time) + Gap(time, base) < Window
            BY <1>3, <3>5, <5>2, Bounds, HalfWindow
          <6> QED
            BY <1>1, <3>3, <6>1, GapSum
        <5>4. Gap(newest, base) < Size + Delay /\ Gap(time, base) <= Gap(newest, base)
          BY <1>3, <3>5, <5>2, <5>3, Bounds
        <5>5. ASSUME ~new_cage
              PROVE  Gap(newest, base) >= Gap(newest, head_time) - n
          <6>1. Gap(time, head_time) = n + Gap(time, base)
            BY <3>3, <5>5 DEF from
          <6>2. Gap(time, head_time) < Half
            <7>1. IsNewer(time, head_time)
              BY <2>2, <5>5 DEF Accepts
            <7> QED
              BY <1>1, <7>1, NewerGap
          <6>3. Gap(newest, head_time) = Gap(newest, time) + Gap(time, head_time)
            <7>1. Gap(newest, time) + Gap(time, head_time) < Window
              BY <1>3, <5>2, <6>2, Bounds, HalfWindow
            <7> QED
              BY <1>1, <7>1, GapSum
          <6> QED
            BY <1>3, <3>3, <3>5, <5>3, <6>1, <6>3
        <5> QED
          BY <4>2, <5>4, <5>5
      <4> QED
        BY <1>2, <4>1, <4>2
    <3>7. ASSUME NEW i \in Slots, audio_queue'[Point(head', i)] # NULL
          PROVE  i <= Gap(newest', base)
      <4>1. Point(head, n) \in Slots /\ Point(Point(head, n), i) \in Slots
        <5>1. \A p \in Int, d \in Int : Point(p, d) \in Slots
          BY PointType
        <5>2. \A p \in Slots : p \in Int
          BY DEF Slots
        <5> QED
          BY <3>2, <3>3, <5>1, <5>2
      <4>2. CASE Point(Point(head, n), i) = pos
        <5>1. i = Gap(time, base)
          BY <3>3, <4>1, <4>2, PointInjective
        <5> QED
          BY <3>6, <5>1
      <4>3. CASE Point(Point(head, n), i) # pos
        <5>1. audio_queue'[Point(head', i)] = slots[Point(Point(head, n), i)]
          BY <3>1, <4>1, <4>3
        <5>2. Point(Point(head, n), i) \notin P
          BY <3>7, <4>1, <5>1
        <5>3. audio_queue[Point(Point(head, n), i)] # NULL
          BY <3>7, <4>1, <5>1, <5>2
        <5>4. n \in Slots /\ n + i < Size /\ Point(Point(head, n), i) = Point(head, n + i)
          BY <1>1, <3>3, <3>4, <5>2, Left
        <5>5. n + i \in Slots /\ i \in Nat
          BY <3>3, <5>4, Bounds DEF Slots
        <5>6. ~new_cage
          <6>1. Filled # {}
            BY <4>1, <5>3 DEF Filled
          <6> QED
            BY <3>1, <6>1 DEF CageInv, CountMatchesSlots
        <5>7. n + i <= Ahead(newest, head_time)
          BY <3>1, <5>3, <5>4, <5>5, <5>6 DEF Lags
        <5>8. n + i <= Gap(newest, head_time)
          BY <1>1, <5>7, AheadIsGap
        <5>9. Gap(newest', base) \in Nat
          BY <1>1, <3>3, AheadIsGap
        <5> QED
          BY <1>3, <3>3, <3>6, <5>5, <5>6, <5>8, <5>9
      <4> QED
        BY <4>2, <4>3
    <3>8. Ahead(newest', head_time') = Gap(newest', base)
      BY <1>1, <3>1, <3>3, AheadIsGap
    <3> QED
      BY <3>6, <3>7, <3>8
  <2> QED
    BY <2>1, <2>2
<1> QED
  BY <1>4, <1>5, <1>6 DEF Lags

\* A new cage sets its clock to the packet it gets; any other has no newest.
LEMMA FirstKeepsLags ==
  ASSUME CageInv, CageInv', Lags, NEW time \in network, PutData(time), sent' = sent,
         newest = NULL, newest' = Newest(time), network' \subseteq network
  PROVE  Lags'
<1>1. \A t \in network' : Ahead(sent', t) <= Delay
  BY DEF Lags
<1>2. newest' = IF new_cage THEN time ELSE NULL
  BY DEF Newest
<1>3. CASE ~new_cage
  BY <1>1, <1>2, <1>3 DEF Lags
<1>4. CASE new_cage
  <2>1. newest' = time /\ time \in Times /\ head \in Slots /\ head \in Int
        /\ audio_queue \in [Slots -> Times \cup {NULL}]
    BY <1>2, <1>4 DEF CageInv, TypeOK, Slots
  <2>2. Ahead(sent', newest') <= MaxGap
    <3>1. Ahead(sent, time) <= Delay /\ sent \in Times
      BY DEF Lags, CageInv, TypeOK
    <3> QED
      BY <2>1, <3>1, Bounds, AheadIsGap
  <2>3. ASSUME ~mishap'
        PROVE  /\ Ahead(newest', head_time') < Size + Delay
               /\ \A i \in Slots : audio_queue'[Point(head', i)] # NULL
                                     => i <= Ahead(newest', head_time')
    <3> DEFINE n     == Overrun(time, time)
               base  == TimeIncBy(time, n)
               slots == [i \in Slots |-> IF i \in Popped(n) THEN NULL ELSE audio_queue[i]]
               pos   == Point(Point(head, n), SubTime(time, base))
    <3>1. /\ head' = Point(head, n) /\ head_time' = base /\ ~mishap
          /\ audio_queue' = [slots EXCEPT ![pos] = time]
      BY <1>4, <2>3 DEF PutData, Accepts
    <3>2. /\ base \in Times /\ n \in Nat /\ n \in Int
          /\ Gap(time, base) = SubTime(time, base) /\ Gap(time, base) \in Slots
      BY <2>1, OverrunGap
    <3> HIDE DEF n, base
    <3>3. Point(head, n) \in Slots /\ Point(head, n) \in Int
      <4>1. Point(head, n) \in Slots
        BY <2>1, <3>2, PointType
      <4> QED
        BY <4>1 DEF Slots
    <3>4. Filled = {}
      BY <1>4, <3>1 DEF CageInv, CountMatchesSlots
    <3>5. ASSUME NEW i \in Slots, audio_queue'[Point(head', i)] # NULL
          PROVE  i = Gap(time, base)
      <4>1. Point(Point(head, n), i) \in Slots
        <5>1. i \in Int
          BY DEF Slots
        <5> QED
          BY <3>3, <5>1, PointType
      <4>2. slots[Point(Point(head, n), i)] = NULL
        BY <3>4, <4>1 DEF Filled
      <4>3. Point(Point(head, n), i) = pos
        BY <3>1, <3>5, <4>1, <4>2
      <4> QED
        BY <3>2, <3>3, <4>3, PointInjective
    <3>6. Ahead(newest', head_time') = Gap(time, base)
      BY <2>1, <3>1, <3>2, AheadIsGap
    <3>7. Gap(time, base) \in Nat /\ Gap(time, base) < Size
      BY <3>2, Bounds DEF Slots
    <3>8. Ahead(newest', head_time') < Size + Delay
      BY <3>6, <3>7, Bounds
    <3>9. \A i \in Slots : audio_queue'[Point(head', i)] # NULL
                              => i <= Ahead(newest', head_time')
      BY <3>5, <3>6, <3>7
    <3> QED
      BY <3>8, <3>9
  <2> QED
    BY <1>1, <2>2, <2>3 DEF Lags
<1> QED
  BY <1>3, <1>4

LEMMA GetKeepsLags ==
  ASSUME CageInv, CageInv', Lags, Get
  PROVE  Lags'
<1>1. /\ sent' = sent /\ newest' = newest /\ network' = network /\ mishap' = mishap
      /\ GetData
  BY DEF Get, traffic
<1>2. /\ newest' # NULL => Ahead(sent', newest') <= MaxGap
      /\ \A t \in network' : Ahead(sent', t) <= Delay
  BY <1>1 DEF Lags
<1>3. ASSUME ~mishap', ~new_cage', newest' # NULL
      PROVE  /\ Ahead(newest', head_time') < Size + Delay
             /\ \A i \in Slots : audio_queue'[Point(head', i)] # NULL
                                   => i <= Ahead(newest', head_time')
  <2>1. CASE cage_starvation
    BY <1>1, <1>3, <2>1 DEF GetData, cage, Lags
  <2>2. CASE ~cage_starvation
    <3>1. /\ head' = Point(head, 1) /\ head_time' = TimeInc(head_time) /\ ~new_cage
          /\ audio_queue' = [audio_queue EXCEPT ![head] = NULL]
      BY <1>1, <1>3, <2>2 DEF GetData, Renewed
    <3>2. /\ head \in Slots /\ head' \in Slots /\ head_time \in Times
          /\ newest \in Times /\ audio_queue \in [Slots -> Times \cup {NULL}]
      BY <1>1, <1>3 DEF CageInv, TypeOK
    <3>3. ASSUME NEW i \in Slots, audio_queue'[Point(head', i)] # NULL
          PROVE  i + 1 <= Gap(newest, head_time)
      <4>1. Point(head', i) \in Slots
        <5>1. head' \in Int /\ i \in Int
          BY <3>2 DEF Slots
        <5> QED
          BY <5>1, PointType
      <4>2. audio_queue[Point(head', i)] # NULL /\ Point(head', i) # head
        BY <3>1, <3>2, <3>3, <4>1
      <4>3. {Point(head, k) : k \in 0 .. (IF 1 < Size THEN 1 ELSE Size) - 1} = {head}
        BY <3>2, FirstSlot
      <4>4. 1 + i < Size /\ Point(Point(head, 1), i) = Point(head, 1 + i)
        <5>1. Point(Point(head, 1), i) \notin
                {Point(head, k) : k \in 0 .. (IF 1 < Size THEN 1 ELSE Size) - 1}
          BY <3>1, <4>2, <4>3
        <5>2. 1 \in Nat
          OBVIOUS
        <5> HIDE DEF Point
        <5> QED
          BY <3>2, <5>1, <5>2, Left
      <4>5. 1 + i \in Slots /\ i \in Nat
        BY <4>4, Bounds DEF Slots
      <4>6. 1 + i <= Ahead(newest, head_time)
        BY <1>1, <1>3, <3>1, <4>2, <4>4, <4>5 DEF Lags
      <4> QED
        BY <3>2, <4>5, <4>6, AheadIsGap
    <3>4. \E i \in Slots : audio_queue'[Point(head', i)] # NULL
      <4>1. Filled' # {}
        BY <1>3 DEF CageInv, CountMatchesSlots
      <4>2. PICK j \in Slots : audio_queue'[j] # NULL
        BY <4>1 DEF Filled
      <4>3. \E i \in Slots : Point(head', i) = j
        BY <3>2, <4>2, PointOnto
      <4> QED
        BY <4>2, <4>3
    <3>5. Gap(newest, head_time) \in Nat /\ Gap(newest, head_time) < Size + Delay
      BY <1>1, <1>3, <3>1, <3>2, AheadIsGap DEF Lags
    <3>6. Gap(newest, head_time) >= 1
      BY <3>3, <3>4, <3>5 DEF Slots
    <3>7. head_time' \in Times /\ Gap(head_time', head_time) = 1
      <4>1. 1 \in 0 .. Window - 1
        BY Bounds, HalfWindow
      <4>2. head_time' = TimeIncBy(head_time, 1)
        BY <3>1, <3>2, IncIsIncBy
      <4> QED
        BY <3>2, <4>1, <4>2, GapOfInc
    <3>8. Gap(newest, head_time') = Gap(newest, head_time) - 1
      BY <3>2, <3>5, <3>6, <3>7, GapBack
    <3>9. Ahead(newest', head_time') = Gap(newest, head_time) - 1
      BY <1>1, <3>2, <3>7, <3>8, AheadIsGap
    <3>10. Ahead(newest', head_time') < Size + Delay
      BY <3>5, <3>9, Bounds
    <3>11. \A i \in Slots : audio_queue'[Point(head', i)] # NULL
                               => i <= Ahead(newest', head_time')
      BY <3>3, <3>5, <3>9 DEF Slots
    <3> QED
      BY <3>10, <3>11
  <2> QED
    BY <2>1, <2>2
<1> QED
  BY <1>2, <1>3 DEF Lags

LEMMA NextLags == CageInv /\ CageInv' /\ Lags /\ [Next]_vars => Lags'
<1> SUFFICES ASSUME CageInv, CageInv', Lags, [Next]_vars PROVE Lags'
  OBVIOUS
<1>1. CASE Send
  <2>1. /\ newest' # NULL => newest' = newest /\ Ahead(sent', newest) <= MaxGap
        /\ \A t \in network : Ahead(sent', t) <= Delay
        /\ network' = network \cup {sent'}
        /\ UNCHANGED <<head, head_time, new_cage, audio_queue, mishap>>
    BY <1>1 DEF Send, cage
  <2>2. Ahead(sent', sent') <= Delay
    <3>1. sent' \in Times
      BY DEF CageInv, TypeOK
    <3> QED
      BY <3>1, AheadIsGap, GapSum, Bounds
  <2> QED
    BY <2>1, <2>2 DEF Lags
<1>2. CASE Lose
  BY <1>2 DEF Lose, cage, Lags
<1>3. CASE ReceiveSome
  <2> PICK t \in network, again \in {FALSE, MayDuplicate} : Receive(t, again)
    BY <1>3 DEF ReceiveSome
  <2>1. /\ network' \subseteq network /\ PutData(t) /\ sent' = sent
        /\ newest' = Newest(t)
    BY DEF Receive
  <2>2. CASE newest # NULL
    <3>1. newest' = IF Ahead(sent, t) < Ahead(sent, newest) THEN t ELSE newest
      BY <2>1, <2>2 DEF Newest
    <3> QED
      BY <2>1, <2>2, <3>1, PutKeepsLags
  <2>3. CASE newest = NULL
    BY <2>1, <2>3, FirstKeepsLags
  <2> QED
    BY <2>2, <2>3
<1>4. CASE Get
  BY <1>4, GetKeepsLags
<1>5. CASE UNCHANGED vars
  BY <1>5 DEF vars, traffic, cage, Lags
<1> QED
  BY <1>1, <1>2, <1>3, <1>4, <1>5 DEF Next

LEMMA LagsCorrect == Spec => []Lags
<1>1. Init => Lags
  <2> SUFFICES ASSUME Init PROVE Lags
    OBVIOUS
  <2>1. 0 \in Times /\ Ahead(0, 0) = 0
    <3>1. 0 \in Times
      BY MaxTimeAssumption DEF Times
    <3> QED
      BY <3>1, AheadIsGap, GapSum
  <2> QED
    BY <2>1, Bounds DEF Init, Lags
<1> QED
  BY <1>1, NextLags, CageCorrect, PTL DEF Spec

\* packet_cage.c:106: until the first overwrite or emptying overrun a packet
\* newer than all before it is stored, at any width of the clock, if it comes
\* at most MaxGap after them, after any gap at all if the cage is new.
THEOREM NewerCorrect == Spec => NewerIsStored
<1> DEFINE Stores ==
      \A t \in network : ~mishap /\ newest' = t /\ newest' # newest
                            => \E i \in Slots : audio_queue'[i] = t
<1>1. CageInv /\ Lags /\ [Next]_vars => [Stores]_vars
  <2> SUFFICES ASSUME CageInv, Lags, Next,
                      NEW t \in network, ~mishap, newest' = t, newest' # newest
               PROVE  \E i \in Slots : audio_queue'[i] = t
    BY DEF vars, traffic
  <2>1. ReceiveSome
    <3>1. t # NULL
      BY CageAssumption DEF CageInv, TypeOK
    <3> QED
      BY <3>1 DEF Next, Send, Lose, Get, traffic
  <2>2. PICK u \in network, again \in {FALSE, MayDuplicate} : Receive(u, again)
    BY <2>1 DEF ReceiveSome
  <2>3. newest' = Newest(u) /\ PutData(u)
    BY <2>2 DEF Receive
  <2>4. /\ t \in Times /\ t # NULL /\ t = u
        /\ head \in Slots /\ head_time \in Times
    <3>1. t \in Times /\ t # NULL
      BY CageAssumption DEF CageInv, TypeOK
    <3> QED
      BY <2>3, <3>1 DEF Newest, CageInv, TypeOK
  <2>5. Accepts(t)
    <3>1. CASE newest = NULL
      BY <2>3, <2>4, <3>1 DEF Accepts, Newest
    <3>2. CASE newest # NULL
      <4>1. Ahead(sent, t) < Ahead(sent, newest)
        BY <2>3, <2>4, <3>2 DEF Newest
      <4> QED
        BY <2>4, <3>2, <4>1, NewerIsAhead DEF Accepts
    <3> QED
      BY <3>1, <3>2
  <2> DEFINE from  == IF new_cage THEN t ELSE head_time
             n     == Overrun(t, from)
             base  == TimeIncBy(from, n)
             slots == [i \in Slots |-> IF i \in Popped(n) THEN NULL ELSE audio_queue[i]]
             pos   == Point(Point(head, n), SubTime(t, base))
  <2>6. audio_queue' = [slots EXCEPT ![pos] = t]
    BY <2>3, <2>4, <2>5 DEF PutData
  <2>7. pos \in Slots
    <3>1. from \in Times /\ (t = from \/ IsNewer(t, from)) /\ head \in Int
      BY <2>4, <2>5 DEF Accepts, Slots
    <3>2. n \in Nat /\ SubTime(t, base) \in Slots
      BY <2>4, <3>1, OverrunFits
    <3>3. \A p \in Int, d \in Int : Point(p, d) \in Slots
      BY PointType
    <3>4. \A p \in Slots : p \in Int
      BY DEF Slots
    <3> HIDE DEF n, base
    <3> QED
      BY <3>1, <3>2, <3>3, <3>4
  <2> QED
    BY <2>6, <2>7
<1> QED
  BY <1>1, CageCorrect, LagsCorrect, PTL DEF Spec, NewerIsStored
=============================================================================
