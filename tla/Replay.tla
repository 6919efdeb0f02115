------------------------------- MODULE Replay -------------------------------
(***************************************************************************)
(* What FoldLeft computes: the last value of a run that starts with base   *)
(* and makes one step for each element.  The models replay commands, lines *)
(* and events with FoldLeft; a proof about one of them instantiates this   *)
(* module with the operator that it folds.                                 *)
(***************************************************************************)
EXTENDS Integers, Sequences, SequencesExt, SequenceTheorems, WellFoundedInduction, TLAPS

CONSTANT Op(_, _)   \* the value after an element

\* The values of a replay: run[k] is the one after k elements.
IsRun(run, base, seq) ==
  /\ run[0] = base
  /\ \A k \in 1 .. Len(seq) : run[k] = Op(run[k - 1], seq[k])

Replayed(base, seq) == FoldLeft(Op, base, seq)

-----------------------------------------------------------------------------
(* Induction over a set of natural numbers                                 *)

LEMMA Induction ==
  ASSUME NEW T, 0 \in T, \A n \in Nat : n \in T => n + 1 \in T
  PROVE  Nat \subseteq T
<1> SUFFICES ASSUME Nat \ T # {}
             PROVE  FALSE
  OBVIOUS
<1>1. \E x \in Nat \ T : \A y \in Nat \ T : ~(<<y, x>> \in OpToRel(<, Nat))
  BY NatLessThanWellFounded, WFMin, Zenon
<1>2. PICK x \in Nat \ T : \A y \in Nat \ T : ~(y < x)
  BY <1>1, Zenon DEF OpToRel
<1>3. x # 0
  BY <1>2
<1>4. x - 1 \in Nat /\ x - 1 < x /\ (x - 1) + 1 = x
  BY <1>2, <1>3
<1>5. x - 1 \in T
  BY <1>2, <1>4
<1> QED
  BY <1>2, <1>4, <1>5

LEMMA Least ==
  ASSUME NEW S \in SUBSET Nat, S # {}
  PROVE  \E n \in S : \A m \in S : n <= m
<1>1. \E x \in S : \A y \in S : ~(<<y, x>> \in OpToRel(<, Nat))
  BY NatLessThanWellFounded, WFMin, Zenon
<1>2. PICK x \in S : \A y \in S : ~(y < x)
  BY <1>1 DEF OpToRel
<1> QED
  BY <1>2

\* the same up to a bound
LEMMA InductionUpTo ==
  ASSUME NEW N \in Nat, NEW T, 0 \in T, \A n \in 0 .. N - 1 : n \in T => n + 1 \in T
  PROVE  0 .. N \subseteq T
<1> DEFINE U == {n \in Nat : n \in T \/ n > N}
<1>1. 0 \in U
  OBVIOUS
<1>2. \A n \in Nat : n \in U => n + 1 \in U
  OBVIOUS
<1> HIDE DEF U
<1>3. Nat \subseteq U
  BY <1>1, <1>2, Induction
<1> QED
  BY <1>3 DEF U

-----------------------------------------------------------------------------
(* FoldLeft                                                                *)

\* the largest of a set of numbers
LEMMA MaxIs ==
  ASSUME NEW n \in Nat, NEW s \in SUBSET (1 .. n), n \in s
  PROVE  Max(s) = n
<1>1. n \in s /\ \A y \in s : n >= y
  OBVIOUS
<1>2. \A x \in s : (\A y \in s : x >= y) => x = n
  <2> TAKE x \in s
  <2>1. n >= x /\ x \in Int
    OBVIOUS
  <2> QED
    BY <2>1
<1>3. Max(s) \in s /\ \A y \in s : Max(s) >= y
  BY <1>1 DEF Max
<1> QED
  BY <1>2, <1>3

\* the recursive function in the definition of FoldLeft
IsFold(g, base, seq, n) ==
  g = [s \in SUBSET (1 .. n) |-> IF s = {} THEN base ELSE Op(g[s \ {Max(s)}], seq[Max(s)])]

LEMMA FoldExists ==
  ASSUME NEW base, NEW seq
  PROVE  \A n \in Nat : \E g : IsFold(g, base, seq, n)
<1> DEFINE T == {n \in Nat : \E g : IsFold(g, base, seq, n)}
<1>1. 0 \in T
  <2> DEFINE g == [s \in SUBSET (1 .. 0) |-> base]
  <2>1. \A s \in SUBSET (1 .. 0) : s = {}
    OBVIOUS
  <2>2. IsFold(g, base, seq, 0)
    BY <2>1 DEF IsFold
  <2> QED
    BY <2>2
<1>2. ASSUME NEW n \in Nat, n \in T
      PROVE  n + 1 \in T
  <2>1. PICK g : IsFold(g, base, seq, n)
    BY <1>2
  <2> DEFINE h == [s \in SUBSET (1 .. n + 1) |->
                     IF s \in SUBSET (1 .. n) THEN g[s]
                     ELSE Op(g[s \ {n + 1}], seq[n + 1])]
             F(s) == IF s = {} THEN base ELSE Op(h[s \ {Max(s)}], seq[Max(s)])
  <2>2. ASSUME NEW s \in SUBSET (1 .. n + 1)
        PROVE  h[s] = F(s)
    <3>1. CASE s \in SUBSET (1 .. n)
      <4>1. h[s] = g[s] /\ h[s \ {Max(s)}] = g[s \ {Max(s)}]
        BY <3>1
      <4>2. g[s] = IF s = {} THEN base ELSE Op(g[s \ {Max(s)}], seq[Max(s)])
        BY <2>1, <3>1 DEF IsFold
      <4> QED
        BY <4>1, <4>2
    <3>2. CASE s \notin SUBSET (1 .. n)
      <4>1. n + 1 \in s /\ s \ {n + 1} \in SUBSET (1 .. n) /\ s # {}
        BY <3>2
      <4>2. Max(s) = n + 1
        BY <4>1, MaxIs
      <4>3. h[s \ {n + 1}] = g[s \ {n + 1}]
        BY <4>1
      <4>4. h[s] = Op(g[s \ {n + 1}], seq[n + 1])
        BY <3>2
      <4> QED
        BY <4>1, <4>2, <4>3, <4>4
    <3> QED
      BY <3>1, <3>2
  <2>3. h = [s \in SUBSET (1 .. n + 1) |-> F(s)]
    BY <2>2
  <2>4. IsFold(h, base, seq, n + 1)
    BY <2>3 DEF IsFold
  <2> QED
    BY <2>4
<1> HIDE DEF T
<1>3. Nat \subseteq T
  BY <1>1, <1>2, Induction
<1> QED
  BY <1>3 DEF T

\* FoldLeft is the end of a run, which the values over 1 .. k make up.
LEMMA ReplayedIsRun ==
  ASSUME NEW base, NEW X, NEW seq \in Seq(X)
  PROVE  \E run : IsRun(run, base, seq) /\ Replayed(base, seq) = run[Len(seq)]
<1> DEFINE N == Len(seq)
           iter == CHOOSE g : IsFold(g, base, seq, N)
           run == [k \in 0 .. N |-> iter[1 .. k]]
<1>1. N \in Nat /\ DOMAIN seq = 1 .. N
  OBVIOUS
<1>2. Replayed(base, seq) = iter[1 .. N]
  BY <1>1 DEF Replayed, IsFold, FoldLeft, MapThenFoldSet
<1>3. IsFold(iter, base, seq, N)
  BY <1>1, FoldExists
<1> HIDE DEF iter
<1>4. run[0] = base
  <2>1. run[0] = iter[1 .. 0] /\ 1 .. 0 = {}
    BY <1>1
  <2> QED
    BY <1>3, <2>1 DEF IsFold
<1>5. ASSUME NEW k \in 1 .. N
      PROVE  run[k] = Op(run[k - 1], seq[k])
  <2> HIDE DEF N
  <2>1. k \in Nat /\ k \in 1 .. k /\ 1 .. k \in SUBSET (1 .. N)
    BY <1>1
  <2>2. Max(1 .. k) = k /\ (1 .. k) \ {k} = 1 .. k - 1
    BY <2>1, MaxIs
  <2>3. iter[1 .. k] = Op(iter[1 .. k - 1], seq[k])
    BY <1>3, <2>1, <2>2 DEF IsFold
  <2> QED
    BY <1>1, <2>3
<1>6. run[N] = iter[1 .. N]
  BY <1>1
<1> HIDE DEF run
<1>7. IsRun(run, base, seq)
  BY <1>4, <1>5 DEF IsRun
<1> QED
  BY <1>2, <1>6, <1>7

\* Any run ends there.
LEMMA RunIsReplayed ==
  ASSUME NEW base, NEW X, NEW seq \in Seq(X), NEW run, IsRun(run, base, seq)
  PROVE  Replayed(base, seq) = run[Len(seq)]
<1>1. PICK other : IsRun(other, base, seq) /\ Replayed(base, seq) = other[Len(seq)]
  BY ReplayedIsRun
<1> DEFINE T == {k \in 0 .. Len(seq) : run[k] = other[k]}
<1>2. Len(seq) \in Nat
  OBVIOUS
<1>3. 0 \in T
  BY <1>1, <1>2 DEF IsRun
<1>4. ASSUME NEW n \in 0 .. Len(seq) - 1, n \in T
      PROVE  n + 1 \in T
  <2>1. n + 1 \in 1 .. Len(seq) /\ n + 1 \in 0 .. Len(seq) /\ (n + 1) - 1 = n
    BY <1>2
  <2>2. /\ run[n + 1] = Op(run[(n + 1) - 1], seq[n + 1])
        /\ other[n + 1] = Op(other[(n + 1) - 1], seq[n + 1])
    BY <1>1, <2>1 DEF IsRun
  <2> QED
    BY <1>4, <2>1, <2>2
<1> HIDE DEF T
<1>5. 0 .. Len(seq) \subseteq T
  BY <1>2, <1>3, <1>4, InductionUpTo
<1> QED
  BY <1>1, <1>2, <1>5 DEF T

-----------------------------------------------------------------------------
(* What the models need of it                                              *)

LEMMA ReplayNothing == \A base : Replayed(base, <<>>) = base
<1> SUFFICES ASSUME NEW base PROVE Replayed(base, <<>>) = base
  OBVIOUS
<1>1. <<>> \in Seq({}) /\ Len(<<>>) = 0
  OBVIOUS
<1>2. PICK run : IsRun(run, base, <<>>) /\ Replayed(base, <<>>) = run[Len(<<>>)]
  BY <1>1, ReplayedIsRun
<1> QED
  BY <1>1, <1>2 DEF IsRun

LEMMA ReplayConcat ==
  ASSUME NEW base, NEW X, NEW s \in Seq(X), NEW t \in Seq(X)
  PROVE  Replayed(base, s \o t) = Replayed(Replayed(base, s), t)
<1>1. /\ s \o t \in Seq(X) /\ Len(s \o t) = Len(s) + Len(t)
      /\ Len(s) \in Nat /\ Len(t) \in Nat
      /\ \A i \in 1 .. Len(s) + Len(t) :
           (s \o t)[i] = IF i <= Len(s) THEN s[i] ELSE t[i - Len(s)]
  BY ConcatProperties, LenProperties
<1>2. PICK run : /\ IsRun(run, base, s \o t)
                 /\ Replayed(base, s \o t) = run[Len(s \o t)]
  BY <1>1, ReplayedIsRun
<1>3. /\ run[0] = base
      /\ \A k \in 1 .. Len(s) + Len(t) : run[k] = Op(run[k - 1], (s \o t)[k])
  BY <1>1, <1>2 DEF IsRun
<1>4. IsRun(run, base, s)
  <2>1. \A k \in 1 .. Len(s) : k \in 1 .. Len(s) + Len(t) /\ (s \o t)[k] = s[k]
    BY <1>1
  <2> QED
    BY <1>3, <2>1 DEF IsRun
<1>5. Replayed(base, s) = run[Len(s)]
  BY <1>4, RunIsReplayed
<1> DEFINE rest == [k \in 0 .. Len(t) |-> run[Len(s) + k]]
<1>6. IsRun(rest, run[Len(s)], t)
  <2>1. rest[0] = run[Len(s)]
    BY <1>1
  <2>2. ASSUME NEW k \in 1 .. Len(t)
        PROVE  rest[k] = Op(rest[k - 1], t[k])
    <3>1. /\ Len(s) + k \in 1 .. Len(s) + Len(t) /\ (Len(s) + k) - 1 = Len(s) + (k - 1)
          /\ k \in 0 .. Len(t) /\ k - 1 \in 0 .. Len(t)
      BY <1>1
    <3>2. (s \o t)[Len(s) + k] = t[k]
      <4>1. ~(Len(s) + k <= Len(s)) /\ (Len(s) + k) - Len(s) = k
        BY <1>1
      <4> QED
        BY <1>1, <3>1, <4>1
    <3>3. run[Len(s) + k] = Op(run[(Len(s) + k) - 1], (s \o t)[Len(s) + k])
      BY <1>3, <3>1
    <3> QED
      BY <3>1, <3>2, <3>3
  <2> HIDE DEF rest
  <2> QED
    BY <2>1, <2>2 DEF IsRun
<1>7. rest[Len(t)] = run[Len(s) + Len(t)]
  BY <1>1
<1> HIDE DEF rest
<1>8. Replayed(run[Len(s)], t) = rest[Len(t)]
  BY <1>6, RunIsReplayed
<1> QED
  BY <1>1, <1>2, <1>5, <1>7, <1>8

LEMMA ReplayOne == \A base, x : Replayed(base, <<x>>) = Op(base, x)
<1> SUFFICES ASSUME NEW base, NEW x PROVE Replayed(base, <<x>>) = Op(base, x)
  OBVIOUS
<1> DEFINE seq == <<x>>
<1>1. seq \in Seq({x}) /\ Len(seq) = 1 /\ seq[1] = x
  OBVIOUS
<1> HIDE DEF seq
<1>2. PICK run : IsRun(run, base, seq) /\ Replayed(base, seq) = run[Len(seq)]
  BY <1>1, ReplayedIsRun
<1>3. run[0] = base /\ run[1] = Op(run[1 - 1], seq[1])
  BY <1>1, <1>2 DEF IsRun
<1>4. 1 - 1 = 0
  OBVIOUS
<1> QED
  BY <1>1, <1>2, <1>3, <1>4 DEF seq

LEMMA ReplayAppend ==
  ASSUME NEW base, NEW X, NEW s \in Seq(X), NEW x \in X
  PROVE  Replayed(base, Append(s, x)) = Op(Replayed(base, s), x)
<1>1. Append(s, x) = s \o <<x>> /\ <<x>> \in Seq(X)
  BY AppendIsConcat
<1>2. \A t \in Seq(X) : Replayed(base, s \o t) = Replayed(Replayed(base, s), t)
  BY ReplayConcat
<1>3. Replayed(base, s \o <<x>>) = Replayed(Replayed(base, s), <<x>>)
  BY <1>1, <1>2, Zenon
<1> QED
  BY <1>1, <1>3, ReplayOne

LEMMA HeadAndTail ==
  ASSUME NEW X, NEW s \in Seq(X), s # <<>>
  PROVE  s = <<Head(s)>> \o Tail(s)
<1>1. Len(s) \in Nat /\ Len(s) >= 1 /\ SubSeq(s, 1, Len(s)) = s
  BY EmptySeq, SubSeqFull
<1>2. SubSeq(s, 1, Len(s)) = <<s[1]>> \o SubSeq(s, 1 + 1, Len(s))
  BY <1>1, SubSeqRecursiveFirst
<1> QED
  BY <1>1, <1>2, TailIsSubSeq

LEMMA ReplayHead ==
  ASSUME NEW base, NEW X, NEW s \in Seq(X), s # <<>>
  PROVE  Replayed(base, s) = Replayed(Op(base, Head(s)), Tail(s))
<1>1. Head(s) \in X /\ Tail(s) \in Seq(X) /\ <<Head(s)>> \in Seq(X)
  BY HeadTailProperties
<1>2. s = <<Head(s)>> \o Tail(s)
  BY HeadAndTail
<1>3. \A h, t \in Seq(X) : Replayed(base, h \o t) = Replayed(Replayed(base, h), t)
  BY ReplayConcat
<1>4. Replayed(base, <<Head(s)>> \o Tail(s)) = Replayed(Replayed(base, <<Head(s)>>), Tail(s))
  BY <1>1, <1>3, Zenon
<1> QED
  BY <1>2, <1>4, ReplayOne

\* What every step preserves, the replay preserves.
LEMMA ReplayPreserves ==
  ASSUME NEW D, NEW X, \A d \in D, x \in X : Op(d, x) \in D,
         NEW base \in D, NEW seq \in Seq(X)
  PROVE  Replayed(base, seq) \in D
<1>1. PICK run : IsRun(run, base, seq) /\ Replayed(base, seq) = run[Len(seq)]
  BY ReplayedIsRun
<1> DEFINE T == {k \in 0 .. Len(seq) : run[k] \in D}
<1>2. Len(seq) \in Nat
  OBVIOUS
<1>3. 0 \in T
  BY <1>1, <1>2 DEF IsRun
<1>4. ASSUME NEW n \in 0 .. Len(seq) - 1, n \in T
      PROVE  n + 1 \in T
  <2>1. n + 1 \in 1 .. Len(seq) /\ n + 1 \in 0 .. Len(seq) /\ (n + 1) - 1 = n
    BY <1>2
  <2>2. run[n + 1] = Op(run[(n + 1) - 1], seq[n + 1]) /\ seq[n + 1] \in X
    BY <1>1, <2>1, ElementOfSeq DEF IsRun
  <2> QED
    BY <1>4, <2>1, <2>2
<1> HIDE DEF T
<1>5. 0 .. Len(seq) \subseteq T
  BY <1>2, <1>3, <1>4, InductionUpTo
<1> QED
  BY <1>1, <1>2, <1>5 DEF T

\* What a step preserves of two values, the replays from both preserve.
LEMMA ReplayRelates ==
  ASSUME NEW R, NEW X, \A a, b : \A x \in X : <<a, b>> \in R => <<Op(a, x), Op(b, x)>> \in R,
         NEW base1, NEW base2, <<base1, base2>> \in R, NEW seq \in Seq(X)
  PROVE  <<Replayed(base1, seq), Replayed(base2, seq)>> \in R
<1>1. PICK run1 : IsRun(run1, base1, seq) /\ Replayed(base1, seq) = run1[Len(seq)]
  BY ReplayedIsRun
<1>2. PICK run2 : IsRun(run2, base2, seq) /\ Replayed(base2, seq) = run2[Len(seq)]
  BY ReplayedIsRun
<1> DEFINE T == {k \in 0 .. Len(seq) : <<run1[k], run2[k]>> \in R}
<1>3. Len(seq) \in Nat
  OBVIOUS
<1>4. 0 \in T
  BY <1>1, <1>2, <1>3 DEF IsRun
<1>5. ASSUME NEW n \in 0 .. Len(seq) - 1, n \in T
      PROVE  n + 1 \in T
  <2>1. n + 1 \in 1 .. Len(seq) /\ n + 1 \in 0 .. Len(seq) /\ (n + 1) - 1 = n
    BY <1>3
  <2>2. /\ run1[n + 1] = Op(run1[(n + 1) - 1], seq[n + 1])
        /\ run2[n + 1] = Op(run2[(n + 1) - 1], seq[n + 1])
        /\ seq[n + 1] \in X
    BY <1>1, <1>2, <2>1, ElementOfSeq DEF IsRun
  <2> QED
    BY <1>5, <2>1, <2>2
<1> HIDE DEF T
<1>6. 0 .. Len(seq) \subseteq T
  BY <1>3, <1>4, <1>5, InductionUpTo
<1> QED
  BY <1>1, <1>2, <1>3, <1>6 DEF T

-----------------------------------------------------------------------------
(* Replays in which every element meets a value that it may meet           *)

\* L is the set of pairs of a value and an element that may follow it.
Legal(L, base, seq) ==
  \A k \in 1 .. Len(seq) : <<Replayed(base, SubSeq(seq, 1, k - 1)), seq[k]>> \in L

\* the beginnings of a concatenation
LEMMA Beginnings ==
  ASSUME NEW X, NEW s \in Seq(X), NEW t \in Seq(X)
  PROVE  /\ \A k \in 0 .. Len(s) : SubSeq(s \o t, 1, k) = SubSeq(s, 1, k)
         /\ \A k \in 0 .. Len(t) : SubSeq(s \o t, 1, Len(s) + k) = s \o SubSeq(t, 1, k)
<1>1. /\ s \o t \in Seq(X) /\ Len(s \o t) = Len(s) + Len(t)
      /\ Len(s) \in Nat /\ Len(t) \in Nat
      /\ \A i \in 1 .. Len(s) + Len(t) :
           (s \o t)[i] = IF i <= Len(s) THEN s[i] ELSE t[i - Len(s)]
  BY ConcatProperties, LenProperties
<1>2. ASSUME NEW u \in Seq(X), NEW k \in 0 .. Len(u)
      PROVE  /\ SubSeq(u, 1, k) \in Seq(X) /\ Len(SubSeq(u, 1, k)) = k
             /\ \A i \in 1 .. k : SubSeq(u, 1, k)[i] = u[i]
  <2>1. Len(u) \in Nat /\ \A i \in 1 .. k : u[i] \in X
    BY ElementOfSeq, LenProperties
  <2>2. /\ SubSeq(u, 1, k) \in Seq(X)
        /\ Len(SubSeq(u, 1, k)) = IF 1 <= k THEN k - 1 + 1 ELSE 0
        /\ \A i \in 1 .. k - 1 + 1 : SubSeq(u, 1, k)[i] = u[1 + i - 1]
    BY <2>1, SubSeqProperties
  <2>3. \A i \in 1 .. k : i \in 1 .. k - 1 + 1 /\ 1 + i - 1 = i
    BY <2>1
  <2> QED
    BY <2>1, <2>2, <2>3
<1>3. ASSUME NEW k \in 0 .. Len(s)
      PROVE  SubSeq(s \o t, 1, k) = SubSeq(s, 1, k)
  <2>1. k \in 0 .. Len(s \o t)
    BY <1>1
  <2>2. /\ SubSeq(s \o t, 1, k) \in Seq(X) /\ Len(SubSeq(s \o t, 1, k)) = k
        /\ \A i \in 1 .. k : SubSeq(s \o t, 1, k)[i] = (s \o t)[i]
    BY <1>1, <1>2, <2>1
  <2>3. /\ SubSeq(s, 1, k) \in Seq(X) /\ Len(SubSeq(s, 1, k)) = k
        /\ \A i \in 1 .. k : SubSeq(s, 1, k)[i] = s[i]
    BY <1>2
  <2>4. \A i \in 1 .. k : (s \o t)[i] = s[i]
    BY <1>1
  <2> QED
    BY <2>2, <2>3, <2>4, SeqEqual
<1>4. ASSUME NEW k \in 0 .. Len(t)
      PROVE  SubSeq(s \o t, 1, Len(s) + k) = s \o SubSeq(t, 1, k)
  <2>1. Len(s) + k \in 0 .. Len(s \o t)
    BY <1>1
  <2>2. /\ SubSeq(s \o t, 1, Len(s) + k) \in Seq(X)
        /\ Len(SubSeq(s \o t, 1, Len(s) + k)) = Len(s) + k
        /\ \A i \in 1 .. Len(s) + k : SubSeq(s \o t, 1, Len(s) + k)[i] = (s \o t)[i]
    BY <1>1, <1>2, <2>1
  <2>3. /\ SubSeq(t, 1, k) \in Seq(X) /\ Len(SubSeq(t, 1, k)) = k
        /\ \A i \in 1 .. k : SubSeq(t, 1, k)[i] = t[i]
    BY <1>2
  <2>4. /\ s \o SubSeq(t, 1, k) \in Seq(X) /\ Len(s \o SubSeq(t, 1, k)) = Len(s) + k
        /\ \A i \in 1 .. Len(s) + k : (s \o SubSeq(t, 1, k))[i] =
             IF i <= Len(s) THEN s[i] ELSE SubSeq(t, 1, k)[i - Len(s)]
    BY <2>3, ConcatProperties
  <2>5. \A i \in 1 .. Len(s) + k : (s \o t)[i] = (s \o SubSeq(t, 1, k))[i]
    <3> TAKE i \in 1 .. Len(s) + k
    <3>1. i \in 1 .. Len(s) + Len(t) /\ (~(i <= Len(s)) => i - Len(s) \in 1 .. k)
      BY <1>1
    <3> QED
      BY <1>1, <2>3, <2>4, <3>1
  <2> QED
    BY <2>2, <2>4, <2>5, SeqEqual
<1> QED
  BY <1>3, <1>4

LEMMA LegalConcat ==
  ASSUME NEW L, NEW base, NEW X, NEW s \in Seq(X), NEW t \in Seq(X)
  PROVE  Legal(L, base, s \o t) <=> Legal(L, base, s) /\ Legal(L, Replayed(base, s), t)
<1>1. /\ Len(s \o t) = Len(s) + Len(t) /\ Len(s) \in Nat /\ Len(t) \in Nat
      /\ \A i \in 1 .. Len(s) + Len(t) :
           (s \o t)[i] = IF i <= Len(s) THEN s[i] ELSE t[i - Len(s)]
  BY ConcatProperties, LenProperties
<1> DEFINE U(k) == <<Replayed(base, SubSeq(s \o t, 1, k - 1)), (s \o t)[k]>>
           V(k) == <<Replayed(base, SubSeq(s, 1, k - 1)), s[k]>>
           W(k) == <<Replayed(Replayed(base, s), SubSeq(t, 1, k - 1)), t[k]>>
<1>2. ASSUME NEW k \in 1 .. Len(s)
      PROVE  U(k) = V(k)
  <2>1. k - 1 \in 0 .. Len(s) /\ (s \o t)[k] = s[k]
    BY <1>1
  <2>2. SubSeq(s \o t, 1, k - 1) = SubSeq(s, 1, k - 1)
    BY <2>1, Beginnings
  <2> QED
    BY <2>1, <2>2
<1>3. ASSUME NEW k \in 1 .. Len(t)
      PROVE  U(Len(s) + k) = W(k)
  <2>1. /\ k - 1 \in 0 .. Len(t) /\ (Len(s) + k) - 1 = Len(s) + (k - 1)
        /\ (Len(s) + k) - Len(s) = k
    BY <1>1
  <2>2. (s \o t)[Len(s) + k] = t[k]
    <3>1. Len(s) + k \in 1 .. Len(s) + Len(t) /\ ~(Len(s) + k <= Len(s))
      BY <1>1
    <3> QED
      BY <1>1, <2>1, <3>1
  <2>3. SubSeq(s \o t, 1, Len(s) + (k - 1)) = s \o SubSeq(t, 1, k - 1)
    BY <2>1, Beginnings
  <2>4. SubSeq(t, 1, k - 1) \in Seq(X)
    <3>1. \A i \in 1 .. k - 1 : t[i] \in X
      BY <1>1, ElementOfSeq
    <3> QED
      BY <1>1, <2>1, <3>1, SubSeqProperties
  <2>5. \A u \in Seq(X) : Replayed(base, s \o u) = Replayed(Replayed(base, s), u)
    BY ReplayConcat
  <2>6. Replayed(base, s \o SubSeq(t, 1, k - 1)) = Replayed(Replayed(base, s), SubSeq(t, 1, k - 1))
    BY <2>4, <2>5, Zenon
  <2> QED
    BY <2>1, <2>2, <2>3, <2>6
<1>4. ASSUME NEW k \in 1 .. Len(s) + Len(t)
      PROVE  k \in 1 .. Len(s) \/ \E i \in 1 .. Len(t) : k = Len(s) + i
  <2>1. k > Len(s) => k - Len(s) \in 1 .. Len(t) /\ k = Len(s) + (k - Len(s))
    BY <1>1
  <2> QED
    BY <1>1, <2>1
<1>5. Legal(L, base, s \o t) <=> \A k \in 1 .. Len(s) + Len(t) : U(k) \in L
  BY <1>1 DEF Legal
<1>6. Legal(L, base, s) <=> \A k \in 1 .. Len(s) : V(k) \in L
  BY DEF Legal
<1>7. Legal(L, Replayed(base, s), t) <=> \A k \in 1 .. Len(t) : W(k) \in L
  BY DEF Legal
<1>8. \A k \in 1 .. Len(s) : k \in 1 .. Len(s) + Len(t)
  BY <1>1
<1>9. \A k \in 1 .. Len(t) : Len(s) + k \in 1 .. Len(s) + Len(t)
  BY <1>1
<1> HIDE DEF U, V, W
<1> QED
  BY <1>2, <1>3, <1>4, <1>5, <1>6, <1>7, <1>8, <1>9

LEMMA LegalNothing == \A L, base : Legal(L, base, <<>>)
BY DEF Legal

LEMMA LegalOne == \A L, base, x : Legal(L, base, <<x>>) <=> <<base, x>> \in L
<1> SUFFICES ASSUME NEW L, NEW base, NEW x
             PROVE  Legal(L, base, <<x>>) <=> <<base, x>> \in L
  OBVIOUS
<1> DEFINE seq == <<x>>
<1>1. Len(seq) = 1 /\ seq[1] = x
  OBVIOUS
<1> HIDE DEF seq
<1>2. SubSeq(seq, 1, 1 - 1) = <<>>
  BY SubSeqEmpty
<1>3. Legal(L, base, seq) <=> <<Replayed(base, SubSeq(seq, 1, 1 - 1)), seq[1]>> \in L
  BY <1>1 DEF Legal
<1> QED
  BY <1>1, <1>2, <1>3, ReplayNothing DEF seq

LEMMA LegalAppend ==
  ASSUME NEW L, NEW base, NEW X, NEW s \in Seq(X), NEW x \in X
  PROVE  Legal(L, base, Append(s, x)) <=>
           Legal(L, base, s) /\ <<Replayed(base, s), x>> \in L
<1>1. Append(s, x) = s \o <<x>> /\ <<x>> \in Seq(X)
  BY AppendIsConcat
<1>2. \A t \in Seq(X) : Legal(L, base, s \o t) <=>
        Legal(L, base, s) /\ Legal(L, Replayed(base, s), t)
  BY LegalConcat
<1>3. Legal(L, base, s \o <<x>>) <=> Legal(L, base, s) /\ Legal(L, Replayed(base, s), <<x>>)
  BY <1>1, <1>2, Zenon
<1> QED
  BY <1>1, <1>3, LegalOne

LEMMA LegalHead ==
  ASSUME NEW L, NEW base, NEW X, NEW s \in Seq(X), s # <<>>
  PROVE  Legal(L, base, s) <=>
           <<base, Head(s)>> \in L /\ Legal(L, Op(base, Head(s)), Tail(s))
<1>1. Tail(s) \in Seq(X) /\ <<Head(s)>> \in Seq(X)
  BY HeadTailProperties
<1>2. s = <<Head(s)>> \o Tail(s)
  BY HeadAndTail
<1>3. \A h, t \in Seq(X) : Legal(L, base, h \o t) <=>
        Legal(L, base, h) /\ Legal(L, Replayed(base, h), t)
  BY LegalConcat
<1>4. Legal(L, base, <<Head(s)>> \o Tail(s)) <=>
        Legal(L, base, <<Head(s)>>) /\ Legal(L, Replayed(base, <<Head(s)>>), Tail(s))
  BY <1>1, <1>3, Zenon
<1> QED
  BY <1>2, <1>4, LegalOne, ReplayOne

\* What every legal step preserves, a legal replay preserves.
LEMMA LegalPreserves ==
  ASSUME NEW L, NEW D, NEW X, \A d \in D, x \in X : <<d, x>> \in L => Op(d, x) \in D,
         NEW base \in D, NEW seq \in Seq(X), Legal(L, base, seq)
  PROVE  Replayed(base, seq) \in D
<1> DEFINE T == {k \in 0 .. Len(seq) : Replayed(base, SubSeq(seq, 1, k)) \in D}
<1>1. Len(seq) \in Nat /\ SubSeq(seq, 1, Len(seq)) = seq
  BY LenProperties, SubSeqFull
<1>2. 0 \in T
  <2>1. SubSeq(seq, 1, 0) = <<>> /\ 0 \in 0 .. Len(seq)
    BY <1>1, SubSeqEmpty
  <2> QED
    BY <2>1, ReplayNothing
<1>3. ASSUME NEW n \in 0 .. Len(seq) - 1, n \in T
      PROVE  n + 1 \in T
  <2>1. /\ n + 1 \in 1 .. Len(seq) /\ n + 1 \in 0 .. Len(seq) /\ (n + 1) - 1 = n
        /\ 1 \in 1 .. Len(seq) /\ n + 1 \in 1 .. n + 1
    BY <1>1
  <2>2. seq[n + 1] \in X /\ SubSeq(seq, 1, n) \in Seq(X)
    <3>1. \A i \in 1 .. n : seq[i] \in X
      BY <1>1, ElementOfSeq
    <3>2. SubSeq(seq, 1, n) \in Seq(X)
      BY <1>1, <3>1, SubSeqProperties
    <3> QED
      BY <2>1, <3>2, ElementOfSeq
  <2>3. SubSeq(seq, 1, n + 1) = SubSeq(seq, 1, n) \o <<seq[n + 1]>>
    <3>1. SubSeq(seq, 1, n + 1) = SubSeq(seq, 1, (n + 1) - 1) \o <<seq[n + 1]>>
      <4>1. n + 1 \in 1 .. Len(seq)
        BY <2>1
      <4> QED
        BY <2>1, SubSeqRecursiveSecond
    <3> QED
      BY <2>1, <3>1
  <2>4. SubSeq(seq, 1, n + 1) = Append(SubSeq(seq, 1, n), seq[n + 1])
    BY <2>2, <2>3, AppendIsConcat
  <2>5. \A s \in Seq(X), x \in X : Replayed(base, Append(s, x)) = Op(Replayed(base, s), x)
    BY ReplayAppend
  <2>6. Replayed(base, SubSeq(seq, 1, n + 1)) = Op(Replayed(base, SubSeq(seq, 1, n)), seq[n + 1])
    BY <2>2, <2>4, <2>5, Zenon
  <2>7. <<Replayed(base, SubSeq(seq, 1, n)), seq[n + 1]>> \in L
    BY <2>1 DEF Legal
  <2> QED
    BY <1>3, <2>1, <2>2, <2>6, <2>7
<1> HIDE DEF T
<1>4. 0 .. Len(seq) \subseteq T
  BY <1>1, <1>2, <1>3, InductionUpTo
<1> QED
  <2>1. Len(seq) \in T
    BY <1>1, <1>4
  <2> QED
    BY <1>1, <2>1 DEF T
-----------------------------------------------------------------------------
(* FlattenSeq                                                              *)

\* the recursive function in the definition of FlattenSeq
IsFlatten(g, seqs, n) == g = [i \in 1 .. n |-> IF i = 1 THEN seqs[i] ELSE g[i - 1] \o seqs[i]]

LEMMA FlattenExists ==
  ASSUME NEW seqs
  PROVE  \A n \in Nat : \E g : IsFlatten(g, seqs, n)
<1> DEFINE T == {n \in Nat : \E g : IsFlatten(g, seqs, n)}
<1>1. 0 \in T
  <2> DEFINE g == [i \in 1 .. 0 |-> <<>>]
  <2>1. \A i \in 1 .. 0 : FALSE
    OBVIOUS
  <2>2. IsFlatten(g, seqs, 0)
    BY <2>1 DEF IsFlatten
  <2> QED
    BY <2>2
<1>2. ASSUME NEW n \in Nat, n \in T
      PROVE  n + 1 \in T
  <2>1. PICK g : IsFlatten(g, seqs, n)
    BY <1>2
  <2>2. /\ DOMAIN g = 1 .. n
        /\ \A i \in 1 .. n : g[i] = IF i = 1 THEN seqs[i] ELSE g[i - 1] \o seqs[i]
    BY <2>1 DEF IsFlatten
  <2> DEFINE last == IF n + 1 = 1 THEN seqs[n + 1] ELSE g[n] \o seqs[n + 1]
             h == [i \in 1 .. n + 1 |-> IF i = n + 1 THEN last ELSE g[i]]
             F(i) == IF i = 1 THEN seqs[i] ELSE h[i - 1] \o seqs[i]
  <2>3. ASSUME NEW i \in 1 .. n + 1
        PROVE  h[i] = F(i)
    <3>1. CASE i = n + 1
      <4>1. h[i] = last
        BY <3>1
      <4>2. i # 1 => i - 1 = n /\ i - 1 \in 1 .. n + 1 /\ i - 1 # n + 1
        BY <3>1
      <4>3. i # 1 => h[i - 1] = g[n]
        BY <4>2
      <4> QED
        BY <3>1, <4>1, <4>3
    <3>2. CASE i # n + 1
      <4>1. i \in 1 .. n /\ h[i] = g[i]
        BY <3>2
      <4>2. i # 1 => i - 1 \in 1 .. n + 1 /\ i - 1 # n + 1
        BY <3>2
      <4>3. i # 1 => h[i - 1] = g[i - 1]
        BY <4>2
      <4> QED
        BY <2>2, <4>1, <4>3
    <3> QED
      BY <3>1, <3>2
  <2>4. h = [i \in 1 .. n + 1 |-> F(i)]
    BY <2>3
  <2>5. IsFlatten(h, seqs, n + 1)
    BY <2>4 DEF IsFlatten
  <2> QED
    BY <2>5
<1> HIDE DEF T
<1>3. Nat \subseteq T
  BY <1>1, <1>2, Induction
<1> QED
  BY <1>3 DEF T

\* FlattenSeq appends one sequence after the other.
IsFlat(flat, X, seqs) ==
  /\ flat[0] = <<>>
  /\ \A k \in 0 .. Len(seqs) : flat[k] \in Seq(X)
  /\ \A k \in 1 .. Len(seqs) : flat[k] = flat[k - 1] \o seqs[k]

LEMMA FlattenIsFlat ==
  ASSUME NEW X, NEW seqs \in Seq(Seq(X))
  PROVE  \E flat : IsFlat(flat, X, seqs) /\ FlattenSeq(seqs) = flat[Len(seqs)]
<1> DEFINE N == Len(seqs)
           g == CHOOSE h : IsFlatten(h, seqs, N)
           flat == [k \in 0 .. N |-> IF k = 0 THEN <<>> ELSE g[k]]
<1>1. N \in Nat /\ (N = 0 => seqs = <<>>) /\ \A k \in 1 .. N : seqs[k] \in Seq(X)
  BY EmptySeq, ElementOfSeq
<1>2. N # 0 => FlattenSeq(seqs) = g[N]
  BY DEF FlattenSeq, IsFlatten
<1>3. N = 0 => FlattenSeq(seqs) = <<>>
  BY <1>1 DEF FlattenSeq
<1>4. IsFlatten(g, seqs, N)
  BY <1>1, FlattenExists
<1> HIDE DEF g, N
<1>5. flat[0] = <<>> /\ \A k \in 1 .. N : flat[k] = g[k]
  BY <1>1
<1>6. ASSUME NEW k \in 1 .. N
      PROVE  flat[k] = IF k = 1 THEN seqs[k] ELSE flat[k - 1] \o seqs[k]
  <2>1. g[k] = IF k = 1 THEN seqs[k] ELSE g[k - 1] \o seqs[k]
    BY <1>4 DEF IsFlatten
  <2>2. k # 1 => k - 1 \in 1 .. N
    BY <1>1
  <2> QED
    BY <1>5, <2>1, <2>2
<1>7. FlattenSeq(seqs) = flat[N]
  BY <1>1, <1>2, <1>3, <1>5
<1> HIDE DEF flat
<1>8. ASSUME NEW k \in 1 .. N, flat[k - 1] \in Seq(X)
      PROVE  flat[k] = flat[k - 1] \o seqs[k] /\ flat[k] \in Seq(X)
  <2>1. k = 1 => flat[k - 1] = <<>>
    BY <1>5
  <2>2. seqs[k] \in Seq(X)
    BY <1>1
  <2>3. <<>> \o seqs[k] = seqs[k]
    BY <2>2, ConcatEmptySeq
  <2>4. flat[k - 1] \o seqs[k] \in Seq(X)
    BY <1>8, <2>2, ConcatProperties
  <2> QED
    BY <1>6, <2>1, <2>3, <2>4
<1> DEFINE T == {k \in 0 .. N : flat[k] \in Seq(X)}
<1>9. 0 \in T
  <2>1. 0 \in 0 .. N /\ <<>> \in Seq(X)
    BY <1>1
  <2> QED
    BY <1>5, <2>1
<1>10. ASSUME NEW n \in 0 .. N - 1, n \in T
       PROVE  n + 1 \in T
  <2>1. n + 1 \in 1 .. N /\ n + 1 \in 0 .. N /\ (n + 1) - 1 = n
    BY <1>1
  <2>2. flat[(n + 1) - 1] \in Seq(X)
    BY <1>10, <2>1
  <2> QED
    BY <1>8, <2>1, <2>2
<1> HIDE DEF T
<1>11. 0 .. N \subseteq T
  BY <1>1, <1>9, <1>10, InductionUpTo
<1>12. ASSUME NEW k \in 1 .. N
       PROVE  flat[k] = flat[k - 1] \o seqs[k]
  <2>1. k - 1 \in 0 .. N
    BY <1>1
  <2>2. flat[k - 1] \in Seq(X)
    BY <1>11, <2>1 DEF T
  <2> QED
    BY <1>8, <2>2
<1>13. IsFlat(flat, X, seqs)
  BY <1>5, <1>11, <1>12 DEF IsFlat, T, N
<1> QED
  BY <1>7, <1>13 DEF N

\* A replay of sequences in a row: run[k] is the value after k of them.
LEMMA ReplayFlatten ==
  ASSUME NEW base, NEW X, NEW seqs \in Seq(Seq(X)), NEW L
  PROVE  \E run :
           /\ run[0] = base
           /\ \A k \in 1 .. Len(seqs) : run[k] = Replayed(run[k - 1], seqs[k])
           /\ Replayed(base, FlattenSeq(seqs)) = run[Len(seqs)]
           /\ (\A k \in 1 .. Len(seqs) : Legal(L, run[k - 1], seqs[k]))
                => Legal(L, base, FlattenSeq(seqs))
<1> DEFINE N == Len(seqs)
<1>1. PICK flat : IsFlat(flat, X, seqs) /\ FlattenSeq(seqs) = flat[N]
  BY FlattenIsFlat
<1> DEFINE run == [k \in 0 .. N |-> Replayed(base, flat[k])]
<1>2. N \in Nat /\ (\A k \in 1 .. N : seqs[k] \in Seq(X))
  BY ElementOfSeq
<1> HIDE DEF N
<1>3. /\ flat[0] = <<>>
      /\ \A k \in 0 .. N : flat[k] \in Seq(X)
      /\ \A k \in 1 .. N : flat[k] = flat[k - 1] \o seqs[k]
  BY <1>1 DEF IsFlat, N
<1>4. \A k \in 0 .. N : run[k] = Replayed(base, flat[k])
  OBVIOUS
<1> HIDE DEF run
<1>5. run[0] = base
  BY <1>2, <1>3, <1>4, ReplayNothing
<1>6. ASSUME NEW k \in 1 .. N
      PROVE  /\ run[k] = Replayed(run[k - 1], seqs[k])
             /\ Legal(L, base, flat[k]) <=>
                  Legal(L, base, flat[k - 1]) /\ Legal(L, run[k - 1], seqs[k])
  <2>1. k \in 0 .. N /\ k - 1 \in 0 .. N
    BY <1>2
  <2>2. flat[k - 1] \in Seq(X) /\ seqs[k] \in Seq(X) /\ flat[k] = flat[k - 1] \o seqs[k]
    BY <1>2, <1>3, <2>1
  <2>3. run[k] = Replayed(base, flat[k]) /\ run[k - 1] = Replayed(base, flat[k - 1])
    BY <1>4, <2>1
  <2>4. Replayed(base, flat[k - 1] \o seqs[k]) = Replayed(Replayed(base, flat[k - 1]), seqs[k])
    BY <2>2, ReplayConcat
  <2>5. Legal(L, base, flat[k - 1] \o seqs[k]) <=>
          Legal(L, base, flat[k - 1]) /\ Legal(L, Replayed(base, flat[k - 1]), seqs[k])
    BY <2>2, LegalConcat
  <2> QED
    BY <2>2, <2>3, <2>4, <2>5
<1>7. Replayed(base, FlattenSeq(seqs)) = run[N]
  BY <1>1, <1>2, <1>4
<1>8. ASSUME \A k \in 1 .. N : Legal(L, run[k - 1], seqs[k])
      PROVE  Legal(L, base, FlattenSeq(seqs))
  <2> DEFINE T == {k \in 0 .. N : Legal(L, base, flat[k])}
  <2>1. 0 \in T
    BY <1>2, <1>3, LegalNothing
  <2>2. ASSUME NEW n \in 0 .. N - 1, n \in T
        PROVE  n + 1 \in T
    <3>1. n + 1 \in 1 .. N /\ n + 1 \in 0 .. N /\ (n + 1) - 1 = n
      BY <1>2
    <3>2. Legal(L, base, flat[(n + 1) - 1]) /\ Legal(L, run[(n + 1) - 1], seqs[n + 1])
      BY <1>8, <2>2, <3>1
    <3> QED
      BY <1>6, <3>1, <3>2
  <2> HIDE DEF T
  <2>3. 0 .. N \subseteq T
    BY <1>2, <2>1, <2>2, InductionUpTo
  <2> QED
    BY <1>1, <1>2, <2>3 DEF T
<1> QED
  BY <1>5, <1>6, <1>7, <1>8 DEF N

\* The other way round: any run through the sequences is the replay.
LEMMA ReplayParts ==
  ASSUME NEW base, NEW X, NEW seqs \in Seq(Seq(X)), NEW run, run[0] = base,
         \A k \in 1 .. Len(seqs) : run[k] = Replayed(run[k - 1], seqs[k])
  PROVE  Replayed(base, FlattenSeq(seqs)) = run[Len(seqs)]
<1>1. PICK other :
        /\ other[0] = base
        /\ \A k \in 1 .. Len(seqs) : other[k] = Replayed(other[k - 1], seqs[k])
        /\ Replayed(base, FlattenSeq(seqs)) = other[Len(seqs)]
        /\ (\A k \in 1 .. Len(seqs) : Legal({}, other[k - 1], seqs[k]))
             => Legal({}, base, FlattenSeq(seqs))
  BY ReplayFlatten
<1>2. Len(seqs) \in Nat
  BY LenProperties
<1> DEFINE T == {k \in 0 .. Len(seqs) : run[k] = other[k]}
<1>3. 0 \in T
  BY <1>1, <1>2
<1>4. ASSUME NEW n \in 0 .. Len(seqs) - 1, n \in T
      PROVE  n + 1 \in T
  <2>1. n + 1 \in 1 .. Len(seqs) /\ n + 1 \in 0 .. Len(seqs) /\ (n + 1) - 1 = n
    BY <1>2
  <2> QED
    BY <1>1, <1>4, <2>1
<1> HIDE DEF T
<1>5. 0 .. Len(seqs) \subseteq T
  BY <1>2, <1>3, <1>4, InductionUpTo
<1> QED
  BY <1>1, <1>2, <1>5 DEF T

LEMMA FlattenAppend ==
  ASSUME NEW X, NEW seqs \in Seq(Seq(X)), NEW x \in Seq(X)
  PROVE  FlattenSeq(Append(seqs, x)) = FlattenSeq(seqs) \o x
<1> DEFINE N == Len(seqs)
           more == Append(seqs, x)
<1>1. /\ N \in Nat /\ more \in Seq(Seq(X)) /\ Len(more) = N + 1
      /\ \A k \in 1 .. N : more[k] = seqs[k]
      /\ more[N + 1] = x
  BY AppendProperties, LenProperties
<1> HIDE DEF N, more
<1>2. PICK flat : IsFlat(flat, X, seqs) /\ FlattenSeq(seqs) = flat[N]
  BY FlattenIsFlat DEF N
<1>3. PICK flat2 : IsFlat(flat2, X, more) /\ FlattenSeq(more) = flat2[N + 1]
  BY <1>1, FlattenIsFlat
<1> DEFINE T == {k \in 0 .. N : flat[k] = flat2[k]}
<1>4. 0 \in T
  BY <1>1, <1>2, <1>3 DEF IsFlat
<1>5. ASSUME NEW n \in 0 .. N - 1, n \in T
      PROVE  n + 1 \in T
  <2>1. n + 1 \in 1 .. N /\ n + 1 \in 0 .. N /\ n + 1 \in 1 .. N + 1 /\ (n + 1) - 1 = n
    BY <1>1
  <2>2. flat[n + 1] = flat[n] \o seqs[n + 1]
    BY <1>2, <2>1 DEF IsFlat, N
  <2>3. flat2[n + 1] = flat2[n] \o more[n + 1]
    BY <1>1, <1>3, <2>1 DEF IsFlat
  <2> QED
    BY <1>1, <1>5, <2>1, <2>2, <2>3
<1> HIDE DEF T
<1>6. 0 .. N \subseteq T
  BY <1>1, <1>4, <1>5, InductionUpTo
<1>7. flat[N] = flat2[N]
  BY <1>1, <1>6 DEF T
<1>8. flat2[N + 1] = flat2[N] \o x
  <2>1. N + 1 \in 1 .. N + 1 /\ (N + 1) - 1 = N
    BY <1>1
  <2> QED
    BY <1>1, <1>3, <2>1 DEF IsFlat
<1> QED
  BY <1>2, <1>3, <1>7, <1>8 DEF more

LEMMA FlattenNothing == FlattenSeq(<<>>) = <<>>
BY DEF FlattenSeq

LEMMA FlattenOne ==
  ASSUME NEW X, NEW x \in Seq(X)
  PROVE  FlattenSeq(<<x>>) = x
<1>1. <<>> \in Seq(Seq(X)) /\ Append(<<>>, x) = <<x>>
  OBVIOUS
<1>2. FlattenSeq(Append(<<>>, x)) = FlattenSeq(<<>>) \o x
  BY <1>1, FlattenAppend
<1> QED
  BY <1>1, <1>2, FlattenNothing, ConcatEmptySeq

LEMMA FlattenType ==
  ASSUME NEW X, NEW seqs \in Seq(Seq(X))
  PROVE  FlattenSeq(seqs) \in Seq(X)
<1>1. PICK flat : IsFlat(flat, X, seqs) /\ FlattenSeq(seqs) = flat[Len(seqs)]
  BY FlattenIsFlat
<1>2. Len(seqs) \in 0 .. Len(seqs)
  BY LenProperties
<1> QED
  BY <1>1, <1>2 DEF IsFlat
=============================================================================
