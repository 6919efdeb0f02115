---------------------------- MODULE Libsvc_proofs ----------------------------
(***************************************************************************)
(* Proofs about what the threads of libsvc share.  PacketQueue, for every  *)
(* ring size of at least two and every set of packets: types, the protocol *)
(* of the gate, and that packets are neither lost, doubled nor reordered.  *)
(* PeerList, for every set of peers: types, the links of the list, that    *)
(* every callback mixes each member once and reads live memory only, and   *)
(* that the close destroys every cage and decoder.                         *)
(***************************************************************************)
EXTENDS PacketQueue, PeerList, SequenceTheorems, TLAPS

-----------------------------------------------------------------------------
(* The queue of captured packets                                           *)

(***************************************************************************)
(* queue_mutex is held by the thread that is between lock and unlock.      *)
(***************************************************************************)
MutexInv ==
  /\ queue_mutex = "push" <=> pushPc \in {"gate", "store"}
  /\ queue_mutex = "pop" <=> popPc \in {"take", "close"}

\* There is a packet, or the push that opened the gate is about to store one.
Ready == ~IsEmpty \/ pushPc = "store"

(***************************************************************************)
(* GateMatchesRing says nothing while a thread is inside the code, so it   *)
(* is not inductive.  GateInv follows the gate through every program point *)
(* of the send thread.                                                     *)
(***************************************************************************)
GateInv ==
  /\ popPc \in {"leave", "lock", "take"} => Ready
  /\ popPc = "leave" => queue_empty_mutex
  /\ popPc = "close" => ~queue_empty_mutex
  /\ popPc \in {"idle", "lock", "take"} => (queue_empty_mutex <=> ~Ready)

\* From its call on, a push carries a packet.
ArgInv == pushPc # "idle" => pushArg \in Packets

QInv == QTypeOK /\ MutexInv /\ GateInv /\ ArgInv

\* The invariant implies the three properties of the gate.
LEMMA QInvImplies == QInv => GateMatchesRing /\ NeverTakesFromEmpty /\ CloseNeverBlocks
  BY DEF QInv, QTypeOK, MutexInv, GateInv, Ready, GateMatchesRing,
         NeverTakesFromEmpty, CloseNeverBlocks, IsEmpty

\* next_point_in_queue stays in the ring and always moves.
LEMMA NextPointInRing ==
  ASSUME NEW i \in Slots
  PROVE  NextPoint(i) \in Slots /\ NextPoint(i) # i
  BY SizeAssumption DEF Slots, NextPoint

LEMMA QInitInv == QInit => QInv
  BY SizeAssumption DEF QInit, QInv, QTypeOK, MutexInv, GateInv, ArgInv, Ready, IsEmpty, Slots

LEMMA QStepInv == QInv /\ [QNext]_qvars => QInv'
<1> SUFFICES ASSUME QInv, [QNext]_qvars PROVE QInv'
  OBVIOUS
<1> USE DEF QInv, QTypeOK, MutexInv, GateInv, ArgInv, Ready, IsEmpty, ring, pusher, popper
<1>1. ASSUME NEW p \in Packets, PushCall(p) PROVE QInv'
  BY <1>1 DEF PushCall
<1>2. CASE PushLock
  BY <1>2 DEF PushLock
<1>3. CASE PushOpenGate
  BY <1>3 DEF PushOpenGate
<1>4. CASE PushFull
  \* a ring of two slots or more is not full while it is empty
  BY <1>4, NextPointInRing DEF PushFull
<1>5. CASE PushStore
  BY <1>5, NextPointInRing DEF PushStore
<1>6. CASE PopEnterGate
  BY <1>6 DEF PopEnterGate
<1>7. CASE PopLeaveGate
  BY <1>7 DEF PopLeaveGate
<1>8. CASE PopLock
  BY <1>8 DEF PopLock
<1>9. CASE PopTake
  BY <1>9, NextPointInRing DEF PopTake
<1>10. CASE PopClose
  BY <1>10 DEF PopClose
<1>11. CASE UNCHANGED qvars
  BY <1>11 DEF qvars
<1> QED
  BY <1>1, <1>2, <1>3, <1>4, <1>5, <1>6, <1>7, <1>8, <1>9, <1>10, <1>11
     DEF QNext, Push, Pop

LEMMA QInductive == QSpec => []QInv
  BY QInitInv, QStepInv, PTL DEF QSpec

\* Ring indices, slots and program counters keep their types.
THEOREM QTypeCorrect == QSpec => []QTypeOK
  BY QInductive, PTL DEF QInv

\* packet_queue.c:47,71: the gate is locked exactly over an empty ring
\* whenever no thread is inside the code that moves it.
THEOREM GateCorrect == QSpec => []GateMatchesRing
  BY QInductive, QInvImplies, PTL

\* packet_queue.c:66-71: the send thread never takes from an empty ring and
\* never blocks on the gate while it holds queue_mutex.
THEOREM TakeCorrect == QSpec => [](NeverTakesFromEmpty /\ CloseNeverBlocks)
  BY QInductive, QInvImplies, PTL

-----------------------------------------------------------------------------
(* Refinement                                                              *)

LEMMA CountBounds ==
  ASSUME QTypeOK
  PROVE  /\ Count \in 0 .. Size - 1
         /\ Count = 0 <=> IsEmpty
         /\ Count = Size - 1 <=> NextPoint(tail) = head
  BY SizeAssumption DEF QTypeOK, Count, IsEmpty, NextPoint, Slots

LEMMA ContentType ==
  ASSUME QTypeOK
  PROVE  /\ Content \in Seq(Packets \cup {Junk})
         /\ Len(Content) = Count
         /\ \A i \in 1 .. Count : Content[i] = audio_queue[At(i)]
<1>1. Count \in Nat
  BY CountBounds, SizeAssumption
<1>2. ASSUME NEW i \in 1 .. Count PROVE audio_queue[At(i)] \in Packets \cup {Junk}
  BY <1>2, CountBounds, SizeAssumption DEF QTypeOK, At, Slots
<1> QED
  BY <1>1, <1>2 DEF Content

\* What the ring says it holds are packets: the slot nobody wrote is never
\* among them.
FilledInv == QInv /\ Content \in Seq(Packets)

LEMMA RefineInit == QInit => FilledInv /\ Kept!Init
<1> SUFFICES ASSUME QInit PROVE FilledInv /\ Kept!Init
  OBVIOUS
<1>1. Count = 0
  BY SizeAssumption DEF QInit, Count
<1>2. Content = <<>>
  BY <1>1 DEF Content
<1>3. audio_queue[head] = Junk
  BY SizeAssumption DEF QInit, Slots
<1> QED
  BY <1>2, <1>3, QInitInv DEF QInit, Kept!Init, Pending, FilledInv

\* A push that finds room appends to the contents of the ring.
LEMMA StoreAppends ==
  ASSUME QInv, PushStore
  PROVE  Content' = Append(Content, pushArg) /\ Len(Content) < Size - 1
         /\ audio_queue'[head'] = audio_queue[head]
<1> USE DEF QInv
<1>0. QTypeOK'
  BY QStepInv DEF QNext, Push, QInv
<1>1. Count < Size - 1
  BY CountBounds, SizeAssumption DEF PushStore
<1>2. Count' = Count + 1 /\ head' = head
  BY SizeAssumption DEF PushStore, Count, NextPoint, QTypeOK, Slots
<1>3. At(Count + 1) = NextPoint(tail)
  BY SizeAssumption DEF At, Count, NextPoint, QTypeOK, Slots, PushStore
<1>4. ASSUME NEW i \in 1 .. Count
      PROVE  At(i) # NextPoint(tail) /\ At(i) \in Slots
  BY <1>1, SizeAssumption DEF At, Count, NextPoint, QTypeOK, Slots
<1>5. NextPoint(tail) \in Slots /\ NextPoint(tail) # head
  BY NextPointInRing DEF QTypeOK, PushStore
<1>6. audio_queue' = [audio_queue EXCEPT ![NextPoint(tail)] = pushArg]
  BY DEF PushStore
<1>7. pushArg \in Packets \cup {Junk} /\ audio_queue \in [Slots -> Packets \cup {Junk}]
      /\ head \in Slots
  BY DEF QTypeOK
<1>8. Count \in Nat
  BY CountBounds, SizeAssumption
<1>9. Content' = [i \in 1 .. Count + 1 |-> audio_queue'[At(i)]]
  BY <1>2 DEF Content, At
<1>10. ASSUME NEW i \in 1 .. Count + 1
       PROVE audio_queue'[At(i)] = IF i = Count + 1 THEN pushArg ELSE audio_queue[At(i)]
  BY <1>3, <1>4, <1>5, <1>6, <1>7, <1>8
<1>11. /\ Append(Content, pushArg) \in Seq(Packets \cup {Junk})
       /\ Len(Append(Content, pushArg)) = Count + 1
       /\ \A i \in 1 .. Count + 1 : Append(Content, pushArg)[i] =
            IF i = Count + 1 THEN pushArg ELSE audio_queue[At(i)]
  BY ContentType, <1>7, <1>8
<1>12. Content' = Append(Content, pushArg)
  <2>1. /\ Content' \in Seq(Packets \cup {Junk})
        /\ Len(Content') = Count + 1
        /\ \A i \in 1 .. Count + 1 : Content'[i] = audio_queue'[At(i)]
    BY <1>8, <1>9, <1>10, <1>4, <1>7
  <2> QED
    BY <2>1, <1>10, <1>11, SeqEqual
<1> QED
  BY <1>1, <1>2, <1>5, <1>6, <1>7, <1>12, ContentType

\* A pop hands out the slot at head and moves the contents down by one.
LEMMA TakeShifts ==
  ASSUME QInv, PopTake
  PROVE  Content # <<>> /\ audio_queue'[head'] = Head(Content) /\ Content' = Tail(Content)
<1> USE DEF QInv
<1>1. Count > 0 /\ Count \in Nat
  BY CountBounds, SizeAssumption DEF GateInv, Ready, MutexInv, PopTake
<1>2. Count' = Count - 1
  BY <1>1, SizeAssumption DEF PopTake, Count, NextPoint, QTypeOK, Slots
<1>3. head' = At(1)
  BY SizeAssumption DEF PopTake, NextPoint, At, QTypeOK, Slots
<1>4. ASSUME NEW i \in 1 .. Count - 1 PROVE At(i)' = At(i + 1)
  BY <1>1, CountBounds, SizeAssumption DEF PopTake, NextPoint, At, QTypeOK, Slots
<1>5. audio_queue' = audio_queue
  BY DEF PopTake
<1>6. /\ Content # <<>> /\ Head(Content) = audio_queue[At(1)]
      /\ Tail(Content) \in Seq(Packets \cup {Junk})
      /\ Len(Tail(Content)) = Count - 1
      /\ \A i \in 1 .. Count - 1 : Tail(Content)[i] = Content[i + 1]
  BY <1>1, ContentType, HeadTailProperties
<1>7. QTypeOK'
  BY QStepInv DEF QNext, Pop, QInv
<1>8. /\ Content' \in Seq(Packets \cup {Junk})
      /\ Len(Content') = Count - 1
      /\ \A i \in 1 .. Count - 1 : Content'[i] = audio_queue[At(i + 1)]
  <2>1. Content' = [i \in 1 .. Count - 1 |-> audio_queue[At(i + 1)]]
    BY <1>2, <1>4, <1>5 DEF Content
  <2>2. ASSUME NEW i \in 1 .. Count - 1
        PROVE  audio_queue[At(i + 1)] \in Packets \cup {Junk}
    BY <1>1, ContentType, CountBounds, SizeAssumption DEF At, QTypeOK, Slots
  <2> QED
    BY <2>1, <2>2, <1>1
<1>9. ASSUME NEW i \in 1 .. Count - 1 PROVE Content[i + 1] = audio_queue[At(i + 1)]
  BY <1>1, ContentType
<1>10. Content' = Tail(Content)
  BY <1>6, <1>8, <1>9, SeqEqual
<1> QED
  BY <1>3, <1>5, <1>6, <1>10

\* The ring goes on holding packets.
LEMMA FilledStep == FilledInv /\ [QNext]_qvars => FilledInv'
<1> SUFFICES ASSUME FilledInv, [QNext]_qvars PROVE Content' \in Seq(Packets)
  BY QStepInv DEF FilledInv
<1>1. CASE PushStore
  <2>1. pushArg \in Packets /\ Content \in Seq(Packets)
    BY <1>1 DEF PushStore, FilledInv, QInv, ArgInv
  <2>2. Content' = Append(Content, pushArg)
    BY <1>1, StoreAppends DEF FilledInv
  <2> QED
    BY <2>1, <2>2
<1>2. CASE PopTake
  <2>1. Content # <<>> /\ Content' = Tail(Content) /\ Content \in Seq(Packets)
    BY <1>2, TakeShifts DEF FilledInv
  <2> QED
    BY <2>1, HeadTailProperties
<1>3. ASSUME ~PushStore, ~PopTake PROVE UNCHANGED ring
  BY <1>3 DEF QNext, Push, Pop, qvars, PushCall, PushLock, PushOpenGate, PushFull,
              PopEnterGate, PopLeaveGate, PopLock, PopClose
<1>4. ASSUME UNCHANGED ring PROVE Content' = Content
  BY <1>4 DEF ring, Content, Count, At
<1> QED
  BY <1>1, <1>2, <1>3, <1>4 DEF FilledInv

\* Every step accepts, rejects, hands out the oldest packet or nothing, or
\* stutters.
LEMMA RefineStep == FilledInv /\ [QNext]_qvars => [Kept!OrderNext]_(Kept!vars)
<1> SUFFICES ASSUME FilledInv, [QNext]_qvars PROVE [Kept!OrderNext]_(Kept!vars)
  OBVIOUS
<1>0. QInv /\ Content \in Seq(Packets) /\ audio_queue[head] \in Packets \cup {Junk}
  BY DEF FilledInv, QInv, QTypeOK
<1>1. CASE PushStore
  <2>1. pushArg \in Packets /\ pushResult' = 0 /\ popped' = popped
    BY <1>0, <1>1 DEF PushStore, QInv, ArgInv, popper
  <2>2. Content' = Append(Content, pushArg) /\ audio_queue'[head'] = audio_queue[head]
    BY <1>0, <1>1, StoreAppends
  <2>3. ASSUME audio_queue[head] # Junk
        PROVE  <<audio_queue[head]>> \o Append(Content, pushArg)
                 = Append(<<audio_queue[head]>> \o Content, pushArg)
    BY <1>0, <2>1, <2>3, AppendIsConcat, ConcatAssociative
  <2>4. Pending' = Append(Pending, pushArg)
    BY <2>2, <2>3 DEF Pending
  <2>5. Kept!Accept(pushArg)
    BY <2>1, <2>4 DEF Kept!Accept
  <2> QED
    BY <2>1, <2>5 DEF Kept!OrderNext
<1>2. CASE PushFull
  <2>1. Len(Content) = Size - 1
    BY <1>0, <1>2, CountBounds, ContentType DEF PushFull, QInv
  <2>2. Len(Pending) >= Size - 1
    <3>1. CASE audio_queue[head] = Junk
      BY <2>1, <3>1, SizeAssumption DEF Pending
    <3>2. CASE audio_queue[head] # Junk
      <4>1. Len(<<audio_queue[head]>> \o Content) = 1 + Len(Content)
        BY <1>0, <3>2
      <4> QED
        BY <2>1, <3>2, <4>1, SizeAssumption DEF Pending
    <3> QED
      BY <3>1, <3>2
  <2>3. UNCHANGED <<Pending, popped>> /\ pushResult' = 1
    BY <1>2 DEF PushFull, Pending, Content, Count, At, ring, popper
  <2> QED
    BY <2>2, <2>3 DEF Kept!OrderNext, Kept!Reject
<1>3. CASE PopTake
  <2>1. popped' = audio_queue[head] /\ pushResult' = pushResult
    BY <1>3 DEF PopTake, pusher
  <2>2. /\ Content # <<>>
        /\ audio_queue'[head'] = Head(Content)
        /\ Content' = Tail(Content)
    BY <1>0, <1>3, TakeShifts
  <2>3. /\ Head(Content) \in Packets
        /\ Content = <<Head(Content)>> \o Tail(Content)
    BY <1>0, <2>2, HeadTailProperties
  <2>4. Pending' = Content
    BY <2>2, <2>3, JunkAssumption DEF Pending
  <2>5. CASE audio_queue[head] = Junk
    BY <2>1, <2>4, <2>5 DEF Pending, Kept!OrderNext, Kept!TakeNothing
  <2>6. CASE audio_queue[head] # Junk
    <3> DEFINE s == <<audio_queue[head]>> \o Content
    <3>1. Head(s) = audio_queue[head] /\ Tail(s) = Content /\ s # <<>>
      BY <1>0, <2>6
    <3>2. Pending = s
      BY <2>6 DEF Pending
    <3> QED
      BY <2>1, <2>4, <3>1, <3>2 DEF Kept!OrderNext, Kept!Take
  <2> QED
    BY <2>5, <2>6
<1>4. ASSUME UNCHANGED <<ring, pushResult, popped>> PROVE UNCHANGED Kept!vars
  BY <1>4 DEF Kept!vars, Pending, Content, Count, At, ring
<1>5. ASSUME ~PushStore, ~PushFull, ~PopTake
      PROVE  UNCHANGED <<ring, pushResult, popped>>
  BY <1>5 DEF QNext, Push, Pop, qvars, PushCall, PushLock, PushOpenGate,
              PopEnterGate, PopLeaveGate, PopLock, PopClose, ring, pusher, popper
<1> QED
  BY <1>1, <1>2, <1>3, <1>4, <1>5

\* packet_queue.c:44-74: for every ring size of at least two no packet accepted
\* is lost, doubled or overtaken, a pop hands out the oldest packet or none, and
\* push refuses only when Size - 1 packets wait.
THEOREM OrderCorrect == QSpec => KeepsOrder
<1>1. QSpec => []FilledInv
  BY RefineInit, FilledStep, PTL DEF QSpec
<1> QED
  BY <1>1, RefineInit, RefineStep, PTL DEF QSpec, Kept!OrderSpec, KeepsOrder

-----------------------------------------------------------------------------
(* The list of peers                                                       *)

(***************************************************************************)
(* AudioReadsLive and MixesAllOnce are not inductive: they say nothing of  *)
(* where the cursor goes next.  WalkInv places it: the walk has mixed the  *)
(* first members, in order, and stands at the one after them.              *)
(***************************************************************************)
WalkInv ==
  /\ audio.pc = "walk" =>
       /\ due = joined
       /\ Len(mixer) <= Len(joined)
       /\ \A k \in 1 .. Len(mixer) : mixer[k] = joined[k]
       /\ audio.peer = IF Len(mixer) = Len(joined) THEN NULL ELSE joined[Len(mixer) + 1]
  /\ audio.pc = "mix" => mixer = due

\* The one peer that the main thread is adding or destroying outside the mutex.
MainInv ==
  /\ main.pc = "join" =>
       /\ main.peer \in Peers \ Range(joined)
       /\ next[main.peer] = peer_list /\ prev[main.peer] = NULL
  /\ main.pc \in {"destroy", "close destroy"} => main.peer \in Peers \ Range(joined)
  /\ main.pc = "closed" => joined = <<>>

\* Live memory is a member's or that of the peer in the main thread's hands.
CageInv ==
  /\ \A p \in Range(joined) : cage[p] = "live"
  /\ main.pc = "join" => cage[main.peer] = "live"
  /\ \A p \in Peers : cage[p] = "live" =>
       \/ p \in Range(joined)
       \/ main.pc \in {"join", "destroy", "close destroy"} /\ p = main.peer

IInv == PTypeOK /\ ListLinked /\ WalkInv /\ MainInv /\ CageInv

LEMMA IInvImplies == IInv => AudioReadsLive /\ MixesAllOnce /\ CloseDestroysCages
<1> SUFFICES ASSUME IInv PROVE AudioReadsLive /\ MixesAllOnce /\ CloseDestroysCages
  OBVIOUS
<1> USE DEF IInv
<1>1. AudioReadsLive
  <2> SUFFICES ASSUME audio.pc = "walk", audio.peer # NULL PROVE cage[audio.peer] = "live"
    BY DEF AudioReadsLive
  <2>1. audio.peer = joined[Len(mixer) + 1] /\ Len(mixer) + 1 \in DOMAIN joined
    BY DEF WalkInv, PTypeOK
  <2> QED
    BY <2>1 DEF CageInv, Range
<1>2. MixesAllOnce
  BY DEF WalkInv, MixesAllOnce
<1>3. CloseDestroysCages
  BY DEF ListLinked, MainInv, CageInv, CloseDestroysCages, Range
<1> QED
  BY <1>1, <1>2, <1>3

\* What a step leaves alone keeps its part of the invariant.
LEMMA ListKept == ListLinked /\ UNCHANGED <<list, joined>> => ListLinked'
  BY DEF ListLinked, list
LEMMA WalkKept == WalkInv /\ UNCHANGED <<audio, mixer, joined, due>> => WalkInv'
  BY DEF WalkInv
LEMMA MainKept == MainInv /\ UNCHANGED <<main, list, joined>> => MainInv'
  BY DEF MainInv, list
LEMMA CageKept == CageInv /\ UNCHANGED <<main, cage, joined>> => CageInv'
  BY DEF CageInv

LEMMA InitInv == PInit => IInv
  BY PeerListAssumption
     DEF PInit, IInv, PTypeOK, ListLinked, WalkInv, MainInv, CageInv, PeersOrNull,
         MainPCs, AudioPCs, Range

-----------------------------------------------------------------------------
(* The two steps that change the list                                      *)

\* The members as a function on 1 .. Len(members).
LEMMA MembersShape ==
  ASSUME PTypeOK
  PROVE  /\ Len(joined) \in Nat /\ DOMAIN joined = 1 .. Len(joined)
         /\ \A k \in 1 .. Len(joined) : joined[k] \in Peers /\ joined[k] # NULL
  BY PeerListAssumption DEF PTypeOK

LEMMA JoinLinkInv == IInv /\ JoinLink => IInv'
<1> SUFFICES ASSUME IInv, JoinLink PROVE IInv'
  OBVIOUS
<1> DEFINE new == main.peer
           n == Len(joined)
<1> USE DEF IInv
<1>1. new \in Peers /\ new \notin Range(joined)
  BY DEF JoinLink, MainInv
<1>2. /\ n \in Nat /\ DOMAIN joined = 1 .. n
      /\ \A k \in 1 .. n : joined[k] \in Peers /\ joined[k] # NULL /\ joined[k] # new
  BY <1>1, MembersShape DEF Range
<1>3. /\ joined' \in Seq(Peers) /\ Len(joined') = n + 1 /\ DOMAIN joined' = 1 .. n + 1
      /\ joined'[1] = new
      /\ \A k \in 1 .. n : joined'[k + 1] = joined[k]
      /\ \A k \in 2 .. n + 1 : joined'[k] = joined[k - 1] /\ k - 1 \in 1 .. n
  BY <1>1 DEF JoinLink, PTypeOK
<1> HIDE DEF n, new
<1>4. Range(joined') = Range(joined) \cup {new}
  <2>1. Range(joined) \subseteq Range(joined')
    <3> SUFFICES ASSUME NEW k \in 1 .. n PROVE joined[k] \in Range(joined')
      BY <1>2 DEF Range
    <3>1. k + 1 \in DOMAIN joined' /\ joined'[k + 1] = joined[k]
      BY <1>2, <1>3
    <3> QED
      BY <3>1 DEF Range
  <2>2. new \in Range(joined')
    BY <1>2, <1>3 DEF Range
  <2>3. ASSUME NEW k \in 1 .. n + 1 PROVE joined'[k] \in Range(joined) \cup {new}
    <3>1. k = 1 \/ k \in 2 .. n + 1
      BY <1>2
    <3> QED
      BY <1>2, <1>3, <3>1 DEF Range
  <2>4. Range(joined') \subseteq Range(joined) \cup {new}
    BY <1>3, <2>3 DEF Range
  <2> QED
    BY <2>1, <2>2, <2>4
<1>5. PTypeOK'
  <2>1. peer_list' \in PeersOrNull /\ prev' \in [Peers -> PeersOrNull] /\ peer_count' \in Nat
    BY <1>1 DEF JoinLink, PTypeOK, PeersOrNull, new
  <2>2. main' \in [pc : MainPCs, peer : PeersOrNull]
    BY DEF JoinLink, Main, MainPCs, PeersOrNull
  <2> QED
    BY <1>3, <2>1, <2>2 DEF JoinLink, PTypeOK
<1>6. ListLinked'
  <2>1. ASSUME NEW i \in 1 .. n + 1, NEW j \in 1 .. n + 1, i # j PROVE joined'[i] # joined'[j]
    <3>1. /\ i = 1 \/ i \in 2 .. n + 1
          /\ j = 1 \/ j \in 2 .. n + 1
          /\ i - 1 # j - 1
      BY <1>2, <2>1
    <3>2. \A k, l \in 1 .. n : k # l => joined[k] # joined[l]
      BY DEF ListLinked, n
    <3>3. CASE i = 1
      BY <1>2, <1>3, <2>1, <3>1, <3>3
    <3>4. CASE j = 1
      BY <1>2, <1>3, <2>1, <3>1, <3>4
    <3>5. CASE i \in 2 .. n + 1 /\ j \in 2 .. n + 1
      BY <1>3, <3>1, <3>2, <3>5
    <3> QED
      BY <3>1, <3>3, <3>4, <3>5
  <2>2. peer_list' = joined'[1] /\ peer_count' = n + 1
    BY <1>3 DEF JoinLink, ListLinked, n, new
  <2>3. /\ next[new] = IF n = 0 THEN NULL ELSE joined[1]
        /\ prev[new] = NULL
        /\ prev' = IF n = 0 THEN prev ELSE [prev EXCEPT ![joined[1]] = new]
        /\ next' = next /\ prev \in [Peers -> PeersOrNull]
    <3>1. peer_list = IF n = 0 THEN NULL ELSE joined[1]
      BY DEF ListLinked, n
    <3>2. next[new] = peer_list /\ prev[new] = NULL /\ next' = next
      BY DEF JoinLink, MainInv, new
    <3>3. prev' = IF peer_list = NULL THEN prev ELSE [prev EXCEPT ![peer_list] = new]
      BY DEF JoinLink, new
    <3>4. n # 0 => joined[1] # NULL
      BY <1>2
    <3> QED
      BY <3>1, <3>2, <3>3, <3>4 DEF PTypeOK
  <2>4. ASSUME NEW k \in 1 .. n + 1
        PROVE  /\ next'[joined'[k]] = IF k = n + 1 THEN NULL ELSE joined'[k + 1]
               /\ prev'[joined'[k]] = IF k = 1 THEN NULL ELSE joined'[k - 1]
    <3>1. CASE k = 1
      BY <1>1, <1>2, <1>3, <2>3, <3>1
    <3>2. CASE k \in 2 .. n + 1
      <4> DEFINE j == k - 1
      <4>1. j \in 1 .. n /\ joined'[k] = joined[j] /\ (k = n + 1 <=> j = n) /\ (k = 2 <=> j = 1)
        BY <1>2, <1>3, <3>2
      <4>2. /\ next[joined[j]] = IF j = n THEN NULL ELSE joined[j + 1]
            /\ prev[joined[j]] = IF j = 1 THEN NULL ELSE joined[j - 1]
        BY <4>1 DEF ListLinked, n
      <4>3. j # n => joined'[k + 1] = joined[j + 1]
        BY <1>2, <1>3, <3>2
      <4>4. j # 1 => joined'[k - 1] = joined[j - 1] /\ joined[j] # joined[1]
        BY <1>2, <1>3, <3>2, <4>1 DEF ListLinked, n
      <4> HIDE DEF j
      <4> QED
        BY <1>1, <1>2, <1>3, <2>3, <3>2, <4>1, <4>2, <4>3, <4>4
    <3> QED
      BY <1>2, <3>1, <3>2
  <2> QED
    BY <1>2, <1>3, <2>1, <2>2, <2>4 DEF ListLinked
<1>7. WalkInv'
  BY DEF JoinLink, WalkInv, MutexFree
<1>8. MainInv' /\ CageInv'
  BY <1>1, <1>4 DEF JoinLink, MainInv, CageInv, Main, new
<1> QED
  BY <1>5, <1>6, <1>7, <1>8

LEMMA LeaveUnlinkInv ==
  ASSUME NEW p \in Peers, IInv, LeaveUnlink(p)
  PROVE  IInv'
<1> DEFINE n == Len(joined)
<1> USE DEF IInv
<1>1. /\ n \in Nat /\ DOMAIN joined = 1 .. n
      /\ \A k \in 1 .. n : joined[k] \in Peers /\ joined[k] # NULL
  BY MembersShape
<1>2. PICK i \in 1 .. n :
        /\ joined[i] = p
        /\ joined' = [k \in 1 .. n - 1 |-> joined[IF k < i THEN k ELSE k + 1]]
  BY <1>1 DEF LeaveUnlink, Forget
<1> HIDE DEF n
\* where the others were, and where they are now
<1> DEFINE Old(k) == IF k < i THEN k ELSE k + 1
           New(k) == IF k < i THEN k ELSE k - 1
<1>3. /\ DOMAIN joined' = 1 .. n - 1 /\ n - 1 \in Nat
      /\ \A k \in 1 .. n - 1 : joined'[k] = joined[Old(k)] /\ Old(k) \in 1 .. n /\ Old(k) # i
      /\ \A k \in 1 .. n : k # i => New(k) \in 1 .. n - 1 /\ Old(New(k)) = k
  BY <1>1, <1>2
<1>4. joined' \in Seq(Peers) /\ Len(joined') = n - 1
  <2>1. \A k \in 1 .. n - 1 : joined[Old(k)] \in Peers
    BY <1>1, <1>3
  <2> QED
    BY <1>2, <1>3, <2>1
<1>5. \A j, k \in 1 .. n : j # k => joined[j] # joined[k]
  BY DEF ListLinked, n
<1>6. Range(joined') = Range(joined) \ {p}
  <2>1. ASSUME NEW k \in 1 .. n, joined[k] # p PROVE joined[k] \in Range(joined')
    <3>1. New(k) \in DOMAIN joined' /\ joined'[New(k)] = joined[k]
      BY <1>2, <1>3, <2>1
    <3> QED
      BY <3>1 DEF Range
  <2>2. ASSUME NEW k \in 1 .. n - 1 PROVE joined'[k] \in Range(joined) /\ joined'[k] # p
    BY <1>1, <1>2, <1>3, <1>5 DEF Range
  <2> QED
    BY <1>1, <1>3, <2>1, <2>2 DEF Range
<1>7. /\ next[p] = IF i = n THEN NULL ELSE joined[i + 1]
      /\ prev[p] = IF i = 1 THEN NULL ELSE joined[i - 1]
  BY <1>2 DEF ListLinked, n
<1>8. PTypeOK'
  <2>1. peer_count' \in Nat
    BY <1>3 DEF LeaveUnlink, Unlink, ListLinked, n
  <2>2. next' \in [Peers -> PeersOrNull] /\ prev' \in [Peers -> PeersOrNull] /\ peer_list' \in PeersOrNull
    BY DEF LeaveUnlink, Unlink, PTypeOK, PeersOrNull
  <2>3. main' \in [pc : MainPCs, peer : PeersOrNull]
    BY DEF LeaveUnlink, Main, MainPCs, PeersOrNull
  <2> QED
    BY <1>4, <2>1, <2>2, <2>3 DEF LeaveUnlink, PTypeOK
<1>9. ListLinked'
  <2>1. ASSUME NEW j \in 1 .. n - 1, NEW k \in 1 .. n - 1, j # k PROVE joined'[j] # joined'[k]
    <3>1. Old(j) # Old(k)
      BY <1>1, <2>1
    <3> QED
      BY <1>3, <1>5, <3>1
  <2>2. peer_list' = IF n - 1 = 0 THEN NULL ELSE joined'[1]
    <3>1. peer_list = joined[1]
      BY <1>1 DEF ListLinked, n
    <3>2. peer_list' = IF peer_list = p THEN next[p] ELSE peer_list
      BY DEF LeaveUnlink, Unlink
    <3>3. CASE i = 1
      <4>1. peer_list' = IF n = 1 THEN NULL ELSE joined[2]
        BY <1>2, <1>7, <3>1, <3>2, <3>3
      <4>2. n # 1 => 1 \in 1 .. n - 1 /\ joined'[1] = joined[2]
        BY <1>1, <1>3, <3>3
      <4> QED
        BY <1>1, <4>1, <4>2
    <3>4. CASE i # 1
      <4>1. 1 \in 1 .. n /\ 1 \in 1 .. n - 1 /\ joined'[1] = joined[1] /\ joined[1] # p
        BY <1>1, <1>2, <1>3, <1>5, <3>4
      <4>2. peer_list' = joined'[1]
        BY <3>1, <3>2, <4>1
      <4> QED
        BY <1>1, <4>1, <4>2
    <3> QED
      BY <3>3, <3>4
  <2>3. peer_count' = n - 1
    BY DEF LeaveUnlink, Unlink, ListLinked, n
  <2>4. ASSUME NEW k \in 1 .. n, k # i
        PROVE  /\ next'[joined[k]] = IF k + 1 = i THEN next[p] ELSE next[joined[k]]
               /\ prev'[joined[k]] = IF k = i + 1 THEN prev[p] ELSE prev[joined[k]]
    <3>1. joined[k] \in Peers /\ next \in [Peers -> PeersOrNull] /\ prev \in [Peers -> PeersOrNull]
      BY <1>1 DEF PTypeOK
    <3>2. (prev[p] # NULL /\ prev[p] = joined[k]) <=> k + 1 = i
      BY <1>1, <1>5, <1>7
    <3>3. (next[p] # NULL /\ next[p] = joined[k]) <=> k = i + 1
      BY <1>1, <1>5, <1>7
    <3> QED
      BY <3>1, <3>2, <3>3 DEF LeaveUnlink, Unlink
  <2>5. ASSUME NEW k \in 1 .. n - 1
        PROVE  /\ next'[joined'[k]] = IF k = n - 1 THEN NULL ELSE joined'[k + 1]
               /\ prev'[joined'[k]] = IF k = 1 THEN NULL ELSE joined'[k - 1]
    <3> DEFINE o == Old(k)
    <3>1. o \in 1 .. n /\ o # i /\ joined'[k] = joined[o]
      BY <1>3
    <3>2. /\ next[joined[o]] = IF o = n THEN NULL ELSE joined[o + 1]
          /\ prev[joined[o]] = IF o = 1 THEN NULL ELSE joined[o - 1]
      BY <3>1 DEF ListLinked, n
    <3>3. k # n - 1 => joined'[k + 1] = joined[Old(k + 1)]
      BY <1>1, <1>3
    <3>4. k # 1 => joined'[k - 1] = joined[Old(k - 1)]
      BY <1>1, <1>3
    <3>5. /\ next'[joined[o]] = IF o + 1 = i THEN next[p] ELSE next[joined[o]]
          /\ prev'[joined[o]] = IF o = i + 1 THEN prev[p] ELSE prev[joined[o]]
      BY <2>4, <3>1
    <3>6. next'[joined[o]] = IF k = n - 1 THEN NULL ELSE joined'[k + 1]
      BY <1>1, <1>2, <1>7, <3>1, <3>2, <3>3, <3>5
    <3>7. prev'[joined[o]] = IF k = 1 THEN NULL ELSE joined'[k - 1]
      BY <1>1, <1>2, <1>7, <3>1, <3>2, <3>4, <3>5
    <3> QED
      BY <3>1, <3>6, <3>7
  <2> QED
    BY <1>4, <2>1, <2>2, <2>3, <2>5 DEF ListLinked
<1>10. WalkInv'
  BY DEF LeaveUnlink, WalkInv, MutexFree
<1>11. MainInv' /\ CageInv'
  BY <1>6 DEF LeaveUnlink, MayLeave, MainInv, CageInv, Main
<1> QED
  BY <1>8, <1>9, <1>10, <1>11

-----------------------------------------------------------------------------
(* The steps of the audio thread that move the cursor                      *)

LEMMA WalkInvStep ==
  ASSUME IInv, WalkBegin \/ WalkPeer \/ WalkEnd
  PROVE  WalkInv'
<1> USE PeerListAssumption DEF IInv, PTypeOK, WalkInv, ListLinked, AudioAt, list
<1>1. CASE WalkBegin
  BY <1>1 DEF WalkBegin
<1>2. CASE WalkPeer
  <2>1. Len(mixer) < Len(joined) /\ audio.peer = joined[Len(mixer) + 1]
    BY <1>2 DEF WalkPeer
  <2>2. next[audio.peer] = IF Len(mixer) + 1 = Len(joined) THEN NULL ELSE joined[Len(mixer) + 2]
    BY <2>1
  <2>3. mixer' = Append(mixer, audio.peer) /\ audio' = [pc |-> "walk", peer |-> next[audio.peer]]
    BY <1>2 DEF WalkPeer
  <2>4. /\ Len(mixer') = Len(mixer) + 1
        /\ \A k \in 1 .. Len(mixer') : mixer'[k] = joined[k]
    BY <1>2, <2>1, <2>3 DEF WalkPeer
  <2> QED
    BY <1>2, <2>1, <2>2, <2>3, <2>4 DEF WalkPeer
<1>3. CASE WalkEnd
  <2>1. Len(mixer) = Len(joined)
    BY <1>3 DEF WalkEnd
  <2>2. mixer = due
    BY <1>3, <2>1, SeqEqual DEF WalkEnd
  <2> QED
    BY <1>3, <2>2 DEF WalkEnd
<1> QED
  BY <1>1, <1>2, <1>3

LEMMA StepInv == IInv /\ [PNext]_pvars => IInv'
<1> SUFFICES ASSUME IInv, [PNext]_pvars PROVE IInv'
  OBVIOUS
<1> USE DEF IInv, Main, AudioAt
<1>1. CASE SvcInit
  <2>1. PTypeOK'
    BY <1>1 DEF SvcInit, PTypeOK, MainPCs, AudioPCs, PeersOrNull, list
  <2>2. ListLinked'
    BY <1>1, ListKept DEF SvcInit
  <2>3. WalkInv'
    BY <1>1 DEF SvcInit, WalkInv
  <2>4. MainInv'
    BY <1>1 DEF SvcInit, MainInv, list
  <2>5. CageInv'
    BY <1>1 DEF SvcInit, CageInv
  <2> QED
    BY <2>1, <2>2, <2>3, <2>4, <2>5
<1>2. ASSUME NEW p \in Peers, JoinPrepare(p) PROVE IInv'
  <2>1. p \notin Range(joined)
    BY <1>2 DEF JoinPrepare, CageInv
  <2>2. PTypeOK'
    BY <1>2 DEF JoinPrepare, PTypeOK, MainPCs, PeersOrNull
  <2>3. ListLinked'
    <3>1. \A k \in 1 .. Len(joined) : joined[k] # p
      BY <2>1 DEF Range, PTypeOK
    <3>2. \A k \in 1 .. Len(joined) :
            next'[joined[k]] = next[joined[k]] /\ prev'[joined[k]] = prev[joined[k]]
      BY <1>2, <3>1 DEF JoinPrepare, PTypeOK
    <3> QED
      BY <1>2, <3>2 DEF JoinPrepare, ListLinked
  <2>4. WalkInv'
    BY <1>2, WalkKept DEF JoinPrepare
  <2>5. MainInv'
    BY <1>2, <2>1 DEF JoinPrepare, MainInv, PTypeOK
  <2>6. CageInv'
    BY <1>2, <2>1 DEF JoinPrepare, CageInv, PTypeOK
  <2> QED
    BY <2>2, <2>3, <2>4, <2>5, <2>6
<1>3. CASE JoinLink
  BY <1>3, JoinLinkInv
<1>4. ASSUME NEW p \in Peers, LeaveUnlink(p) PROVE IInv'
  BY <1>4, LeaveUnlinkInv
<1>5. CASE LeaveDestroy
  <2>1. PTypeOK'
    BY <1>5 DEF LeaveDestroy, PTypeOK, MainPCs, AudioPCs, PeersOrNull, list
  <2>2. ListLinked'
    BY <1>5, ListKept DEF LeaveDestroy
  <2>3. WalkInv'
    BY <1>5, WalkKept DEF LeaveDestroy
  <2>4. MainInv'
    BY <1>5 DEF LeaveDestroy, MainInv, list
  <2>5. CageInv'
    <3>1. main.peer \in Peers /\ main.peer \notin Range(joined)
      BY <1>5 DEF LeaveDestroy, MainInv
    <3>2. \A p \in Peers : cage'[p] = IF p = main.peer THEN "freed" ELSE cage[p]
      BY <1>5, <3>1 DEF LeaveDestroy, PTypeOK
    <3>3. main.pc # "join" /\ main'.pc # "join" /\ joined' = joined
      BY <1>5 DEF LeaveDestroy
    <3>4. Range(joined) \subseteq Peers
      BY MembersShape DEF Range
    <3> QED
      BY <3>1, <3>2, <3>3, <3>4 DEF CageInv
  <2> QED
    BY <2>1, <2>2, <2>3, <2>4, <2>5
<1>6. CASE CloseAudio
  <2>1. PTypeOK'
    BY <1>6 DEF CloseAudio, PTypeOK, MainPCs, AudioPCs, PeersOrNull, list
  <2>2. ListLinked'
    BY <1>6, ListKept DEF CloseAudio
  <2>3. WalkInv'
    BY <1>6 DEF CloseAudio, WalkInv
  <2>4. MainInv'
    BY <1>6 DEF CloseAudio, MainInv, list
  <2>5. CageInv'
    BY <1>6 DEF CloseAudio, CageInv
  <2> QED
    BY <2>1, <2>2, <2>3, <2>4, <2>5
<1>7. CASE CloseEnd
  <2>1. joined = <<>>
    <3>1. Len(joined) # 0 => joined[1] # NULL
      BY PeerListAssumption DEF PTypeOK
    <3>2. Len(joined) = 0
      BY <1>7, <3>1 DEF CloseEnd, ListLinked
    <3> QED
      BY <3>2, EmptySeq DEF PTypeOK
  <2>2. PTypeOK'
    BY <1>7 DEF CloseEnd, PTypeOK, MainPCs, PeersOrNull, list
  <2>3. ListLinked' /\ WalkInv'
    BY <1>7, ListKept, WalkKept DEF CloseEnd
  <2>4. MainInv' /\ CageInv'
    BY <1>7, <2>1 DEF CloseEnd, MainInv, CageInv
  <2> QED
    BY <2>2, <2>3, <2>4
<1>8. CASE WalkBegin
  <2>1. PTypeOK'
    BY <1>8 DEF WalkBegin, PTypeOK, AudioPCs, PeersOrNull, list
  <2>2. ListLinked' /\ MainInv' /\ CageInv'
    BY <1>8, ListKept, MainKept, CageKept DEF WalkBegin
  <2>3. WalkInv'
    BY <1>8, WalkInvStep
  <2> QED
    BY <2>1, <2>2, <2>3
<1>9. CASE WalkPeer
  <2>1. audio.peer \in Peers /\ next[audio.peer] \in PeersOrNull
    BY <1>9 DEF WalkPeer, PTypeOK, PeersOrNull
  <2>2. PTypeOK'
    BY <1>9, <2>1 DEF WalkPeer, PTypeOK, AudioPCs, list
  <2>3. ListLinked' /\ MainInv' /\ CageInv'
    BY <1>9, ListKept, MainKept, CageKept DEF WalkPeer
  <2> QED
    BY <1>9, <2>2, <2>3, WalkInvStep
<1>10. CASE WalkEnd
  <2>1. PTypeOK'
    BY <1>10 DEF WalkEnd, PTypeOK, AudioPCs, PeersOrNull, list
  <2>2. ListLinked' /\ MainInv' /\ CageInv'
    BY <1>10, ListKept, MainKept, CageKept DEF WalkEnd
  <2>3. WalkInv'
    BY <1>10, WalkInvStep
  <2> QED
    BY <2>1, <2>2, <2>3
<1>11. CASE Mix
  <2>1. PTypeOK'
    BY <1>11 DEF Mix, PTypeOK, AudioPCs, PeersOrNull, list
  <2>2. ListLinked' /\ MainInv' /\ CageInv'
    BY <1>11, ListKept, MainKept, CageKept DEF Mix
  <2>3. WalkInv'
    BY <1>11 DEF Mix, WalkInv
  <2> QED
    BY <2>1, <2>2, <2>3
<1>12. CASE UNCHANGED pvars
  BY <1>12, ListKept, WalkKept, MainKept, CageKept DEF pvars, PTypeOK, list
<1> QED
  BY <1>1, <1>2, <1>3, <1>4, <1>5, <1>6, <1>7, <1>8, <1>9, <1>10, <1>11, <1>12
     DEF PNext, OwnerStep, AudioStep

LEMMA Inductive == PSpec => []IInv
  BY InitInv, StepInv, PTL DEF PSpec

-----------------------------------------------------------------------------
\* libsvc_incoming.c: the list, the two threads and the mixer keep their types,
\* and peer_count never falls below zero.
THEOREM TypeCorrect == PSpec => []PTypeOK
<1>1. IInv => PTypeOK
  BY DEF IInv
<1> QED
  BY <1>1, Inductive, PTL

\* libsvc_incoming.c:41-70: joins and leaves keep the list linked in both
\* directions and in order.
THEOREM ListCorrect == PSpec => []ListLinked
<1>1. IInv => ListLinked
  BY DEF IInv
<1> QED
  BY <1>1, Inductive, PTL

\* libsvc_incoming.c:25-39: no callback reads a cage that has been destroyed.
THEOREM AudioCorrect == PSpec => []AudioReadsLive
  BY Inductive, IInvImplies, PTL

\* libsvc_incoming.c:28-33: each callback mixes every member once.
THEOREM MixCorrect == PSpec => []MixesAllOnce
  BY Inductive, IInvImplies, PTL

\* libsvc.c:75-83: svc_close destroys the cage and decoder of every peer.
THEOREM CloseCorrect == PSpec => []CloseDestroysCages
  BY Inductive, IInvImplies, PTL
=============================================================================
