-------------------------- MODULE SvcLogic_proofs --------------------------
(***************************************************************************)
(* Proofs about SvcLogic for any clients, settings and times: types, and   *)
(* that the mark of a peer reaches every client.                           *)
(***************************************************************************)
EXTENDS SvcLogic, SequenceTheorems, TLAPS

(***************************************************************************)
(* ClientsToldAll speaks of the moments between two rounds only.  Within a *)
(* round each client has been told a peer's mark as it stands, or the mark *)
(* waits for the broadcast, or the peer is gone and the client may keep a  *)
(* mark it had; and whose audio was relayed has the mark, or had it until  *)
(* its timeout.                                                            *)
(***************************************************************************)
ToldOrDirty ==
  \A c \in on, p \in Peers :
    dirty[p] \/ told[c][p] = speaking[p] \/ (p \notin on /\ ~speaking[p])

CleanBetween == pc \in {"start", "handler", "armed", "test", "wait"} => dirty = Silence

HeardMarked ==
  \A c \in Peers : \A p \in heard[c] : speaking[p] \/ Expired(p)

IInv == TypeOK /\ ToldOrDirty /\ CleanBetween /\ HeardMarked

-----------------------------------------------------------------------------
LEMMA InitInv == Init => IInv
<1> SUFFICES ASSUME Init PROVE IInv
  OBVIOUS
<1>1. inbox \in [Peers -> Seq(Events)]
  <2>1. <<>> \in Seq(Events)
    BY EmptySeq
  <2> QED
    BY <2>1 DEF Init
<1>2. -1 \in -1 .. SpeakTime
  BY LogicAssumption
<1>3. TypeOK
  BY <1>1, <1>2, LogicAssumption DEF Init, TypeOK, Silence, Nobody
<1>4. ToldOrDirty /\ CleanBetween /\ HeardMarked
  BY DEF Init, ToldOrDirty, CleanBetween, HeardMarked, Nobody
<1> QED
  BY <1>3, <1>4 DEF IInv

\* The handlers in HandleEvent are all there are.
LEMMA HandlerCases ==
  ASSUME TypeOK, NEW p \in Peers, HandleEvent(p)
  PROVE  \/ HandleConnect(p) \/ HandleDisconnect(p) \/ OnAudioPacket(p)
         \/ UNCHANGED <<on, keys, told, heard>>
<1>1. Head(inbox[p]) \in Events
  BY HeadTailProperties DEF TypeOK, HandleEvent
<1> QED
  BY <1>1 DEF HandleEvent, Events

\* What on_audio_packet does with the packet of a peer that is not muted.
LEMMA NotMuted ==
  ASSUME TypeOK, NEW p \in Peers, OnAudioPacket(p), ~setting[p].muted
  PROVE  /\ UNCHANGED <<on, setting, told>>
         /\ left' = [left EXCEPT ![p] = SpeakTime]
         /\ speaking' = [speaking EXCEPT ![p] = TRUE]
         /\ dirty' = [q \in Peers |-> dirty[q] \/ (q = p /\ ~speaking[p])]
         /\ heard' = [c \in Peers |-> IF c \in Listeners(p) THEN heard[c] \cup {p}
                                                           ELSE heard[c]]
<1>1. /\ UNCHANGED <<on, setting, told>>
      /\ left' = [left EXCEPT ![p] = SpeakTime]
      /\ IF speaking[p] THEN UNCHANGED <<speaking, dirty>>
                        ELSE DdSet({p}, [speaking EXCEPT ![p] = TRUE])
      /\ SendAudio(p, Listeners(p))
  BY Zenon DEF OnAudioPacket, PeerGet, Timeout
<1>2. /\ speaking' = [speaking EXCEPT ![p] = TRUE]
      /\ dirty' = [q \in Peers |-> dirty[q] \/ (q = p /\ ~speaking[p])]
  <2>1. CASE speaking[p]
    BY <1>1, <2>1 DEF TypeOK
  <2>2. CASE ~speaking[p]
    BY <1>1, <2>2 DEF DdSet
  <2> QED
    BY <2>1, <2>2
<1> QED
  BY <1>1, <1>2 DEF SendAudio

\* What the server frees at its end keeps its type.
LEMMA FreeType ==
  FreePeers => /\ on' = {} /\ inbox' \in [Peers -> Seq(Events)]
               /\ speaking' \in [Peers -> BOOLEAN]
               /\ left' \in [Peers -> -1 .. SpeakTime]
               /\ told' \in [Peers -> [Peers -> BOOLEAN]]
<1> SUFFICES ASSUME FreePeers
             PROVE  /\ on' = {} /\ inbox' \in [Peers -> Seq(Events)]
                    /\ speaking' \in [Peers -> BOOLEAN]
                    /\ left' \in [Peers -> -1 .. SpeakTime]
                    /\ told' \in [Peers -> [Peers -> BOOLEAN]]
  OBVIOUS
<1>1. Silence \in [Peers -> BOOLEAN]
  BY DEF Silence
<1>2. <<>> \in Seq(Events) /\ -1 \in -1 .. SpeakTime
  BY EmptySeq, LogicAssumption
<1> QED
  BY <1>1, <1>2, Zenon DEF FreePeers

LEMMA StepType == TypeOK /\ [Next]_vars => TypeOK'
<1> SUFFICES ASSUME TypeOK, [Next]_vars PROVE TypeOK'
  OBVIOUS
<1> USE LogicAssumption DEF TypeOK, Silence, Nobody, Expired, Events
<1>1. ASSUME NEW p \in Peers, Joins(p) \/ Speaks(p) \/ Leaves(p) PROVE TypeOK'
  <2>1. inbox' \in [Peers -> Seq(Events)]
    <3>1. \A event \in Events : /\ Append(inbox[p], event) \in Seq(Events)
                                /\ <<event>> \in Seq(Events)
      BY AppendProperties
    <3> QED
      BY <1>1, <3>1 DEF Joins, Speaks, Leaves, Post
  <2> QED
    BY <1>1, <2>1 DEF Joins, Speaks, Leaves, Post, keys
<1>2. ASSUME NEW p \in Peers, HandleEvent(p) PROVE TypeOK'
  <2>1. /\ pc' = "drain"
        /\ mainloop_done' \in BOOLEAN /\ inbox' \in [Peers -> Seq(Events)]
    BY <1>2 DEF HandleEvent
  <2>2. CASE HandleConnect(p)
    BY <2>1, <2>2 DEF HandleConnect, DdSet
  <2>3. CASE HandleDisconnect(p)
    BY <2>1, <2>3 DEF HandleDisconnect
  <2>4. CASE OnAudioPacket(p)
    <3> setting[p].muted \in BOOLEAN
      BY LogicAssumption DEF IInv, TypeOK
    <3>1. CASE setting[p].muted
      BY <2>1, <2>4, <3>1 DEF OnAudioPacket, PeerGet, keys
    <3>2. CASE ~setting[p].muted
      <4>0. /\ UNCHANGED <<on, setting, told>>
            /\ left' = [left EXCEPT ![p] = SpeakTime]
            /\ speaking' = [speaking EXCEPT ![p] = TRUE]
            /\ dirty' = [q \in Peers |-> dirty[q] \/ (q = p /\ ~speaking[p])]
            /\ heard' = [c \in Peers |-> IF c \in Listeners(p) THEN heard[c] \cup {p}
                                                              ELSE heard[c]]
        <5> HIDE DEF TypeOK
        <5> QED
          BY <2>4, <3>2, NotMuted
      <4>1. /\ speaking' \in [Peers -> BOOLEAN] /\ dirty' \in [Peers -> BOOLEAN]
            /\ left' \in [Peers -> -1 .. SpeakTime]
        BY <4>0
      <4>2. heard' \in [Peers -> SUBSET Peers]
        BY <4>0
      <4> QED
        BY <2>1, <4>0, <4>1, <4>2
    <3> QED
      BY <3>1, <3>2
  <2>5. CASE UNCHANGED <<on, keys, told, heard>>
    BY <2>1, <2>5 DEF keys
  <2> QED
    BY <1>2, <2>2, <2>3, <2>4, <2>5, HandlerCases
<1>3. CASE Tick
  BY <1>3 DEF Tick
<1>4. CASE Start \/ InstallHandler \/ ClearDone \/ NoMoreEvents
  BY <1>4 DEF Start, InstallHandler, ClearDone, NoMoreEvents, keys
<1>5. CASE OnLogic
  BY <1>5 DEF OnLogic, DdSet
<1>6. CASE Sigint
  <2>1. CASE UNCHANGED <<on, inbox, speaking, left, told>>
    BY <1>6, <2>1 DEF Sigint, keys, FreePeers
  <2>2. CASE FreePeers
    BY <1>6, <2>2, FreeType DEF Sigint, keys
  <2> QED
    BY <1>6, <2>1, <2>2 DEF Sigint, keys
<1>7. CASE FirstTest
  <2>1. CASE UNCHANGED <<inbox, on, speaking, left, told>>
    BY <1>7, <2>1 DEF FirstTest, EndRound
  <2>2. CASE FreePeers
    BY <1>7, <2>2, FreeType DEF FirstTest, EndRound
  <2> QED
    BY <1>7, <2>1, <2>2 DEF FirstTest
<1>8. CASE SendModified
  <2>1. CASE pc' = "ended"
    BY <1>8, <2>1, FreeType DEF SendModified, EndRound
  <2>2. CASE pc' # "ended"
    BY <1>8, <2>2 DEF SendModified, EndRound
  <2> QED
    BY <2>1, <2>2
<1>9. CASE UNCHANGED vars
  BY <1>9 DEF vars, keys
<1> QED
  BY <1>1, <1>2, <1>3, <1>4, <1>5, <1>6, <1>7, <1>8, <1>9 DEF Next, Starts

LEMMA StepInv == IInv /\ [Next]_vars => IInv'
<1> SUFFICES ASSUME IInv, [Next]_vars PROVE (ToldOrDirty /\ CleanBetween /\ HeardMarked)'
  BY StepType DEF IInv
<1> USE DEF IInv, TypeOK, ToldOrDirty, CleanBetween, HeardMarked, Silence, Nobody, Expired
<1>1. ASSUME NEW p \in Peers, Joins(p) \/ Speaks(p) \/ Leaves(p)
      PROVE  (ToldOrDirty /\ CleanBetween /\ HeardMarked)'
  BY <1>1 DEF Joins, Speaks, Leaves, Post, keys
<1>2. ASSUME NEW p \in Peers, HandleEvent(p)
      PROVE  (ToldOrDirty /\ CleanBetween /\ HeardMarked)'
  <2>1. pc' = "drain"
    BY <1>2 DEF HandleEvent
  <2>2. CASE HandleConnect(p)
    <3>1. ASSUME NEW c \in on', NEW q \in Peers
          PROVE  dirty'[q] \/ told'[c][q] = speaking'[q] \/ (q \notin on' /\ ~speaking'[q])
      <4>1. CASE c = p \/ q = p
        BY <2>2, <4>1 DEF HandleConnect, DdSet
      <4>2. CASE c # p /\ q # p
        <5>1. /\ c \in on /\ c \in Peers /\ told'[c] = [told[c] EXCEPT ![p] = FALSE]
              /\ speaking'[q] = speaking[q] /\ dirty'[q] = dirty[q]
          BY <2>2, <3>1, <4>2 DEF HandleConnect, DdSet
        <5>2. told'[c][q] = told[c][q] /\ (q \notin on => q \notin on')
          BY <2>2, <4>2, <5>1 DEF HandleConnect
        <5> QED
          BY <4>2, <5>1, <5>2
      <4> QED
        BY <4>1, <4>2
    <3>2. HeardMarked'
      BY <2>2 DEF HandleConnect, DdSet
    <3> QED
      BY <2>1, <3>1, <3>2
  <2>3. CASE HandleDisconnect(p)
    BY <2>1, <2>3 DEF HandleDisconnect
  <2>4. CASE OnAudioPacket(p)
    <3> setting[p].muted \in BOOLEAN
      BY LogicAssumption DEF IInv, TypeOK
    <3>1. CASE setting[p].muted
      BY <2>1, <2>4, <3>1 DEF OnAudioPacket, PeerGet, keys
    <3>2. CASE ~setting[p].muted
      <4>0. /\ UNCHANGED <<on, setting, told>>
            /\ left' = [left EXCEPT ![p] = SpeakTime]
            /\ speaking' = [speaking EXCEPT ![p] = TRUE]
            /\ dirty' = [q \in Peers |-> dirty[q] \/ (q = p /\ ~speaking[p])]
            /\ heard' = [c \in Peers |-> IF c \in Listeners(p) THEN heard[c] \cup {p}
                                                              ELSE heard[c]]
        <5> HIDE DEF TypeOK
        <5> QED
          BY <2>4, <3>2, NotMuted DEF IInv
      <4>1. ToldOrDirty'
        BY <4>0
      <4>2. \A c \in Peers : heard'[c] \subseteq heard[c] \cup {p}
        BY <4>0
      <4>3. HeardMarked'
        BY <4>0, <4>2, LogicAssumption
      <4> QED
        BY <2>1, <4>1, <4>3
    <3> QED
      BY <3>1, <3>2
  <2>5. CASE UNCHANGED <<on, keys, told, heard>>
    BY <2>1, <2>5 DEF keys
  <2> QED
    BY <1>2, <2>2, <2>3, <2>4, <2>5, HandlerCases
<1>3. CASE Tick
  BY <1>3 DEF Tick
<1>4. CASE Start \/ InstallHandler \/ ClearDone \/ NoMoreEvents
  BY <1>4 DEF Start, InstallHandler, ClearDone, NoMoreEvents, keys
<1>5. CASE OnLogic
  BY <1>5 DEF OnLogic, DdSet
<1>6. CASE Sigint
  BY <1>6 DEF Sigint, FreePeers, keys
<1>7. CASE FirstTest
  BY <1>7 DEF FirstTest, EndRound, FreePeers
<1>8. CASE SendModified
  BY <1>8 DEF SendModified, EndRound, FreePeers
<1>9. CASE UNCHANGED vars
  BY <1>9 DEF vars, keys
<1> QED
  BY <1>1, <1>2, <1>3, <1>4, <1>5, <1>6, <1>7, <1>8, <1>9 DEF Next, Starts

LEMMA Inductive == Spec => []IInv
  BY InitInv, StepInv, PTL DEF Spec

-----------------------------------------------------------------------------
\* The loop, its inbox and its keys keep their types.
THEOREM TypeCorrect == Spec => []TypeOK
  BY Inductive, PTL DEF IInv

\* main.c:106-119,782-822: between two rounds every client has been sent
\* every mark as it stands.
THEOREM ToldCorrect == Spec => []ClientsToldAll
<1>1. IInv => ClientsToldAll
  BY DEF IInv, ToldOrDirty, CleanBetween, ClientsToldAll, Silence, TypeOK
<1> QED
  BY <1>1, Inductive, PTL

\* main.tcl:36-53: whose audio a client has been sent in a round is shown to
\* it when the round ends, unless the mark is too old.
THEOREM HeardCorrect == Spec => HeardShown
<1>1. ASSUME IInv, [Next]_vars, pc = "send", pc' = "wait",
             NEW c \in on, NEW p \in heard[c]
      PROVE  told'[c][p] \/ Expired(p)
  <2>1. SendModified
    BY <1>1 DEF Next, Joins, Speaks, Leaves, Post, HandleEvent, Tick, Sigint, Starts,
       Start, InstallHandler, ClearDone, FirstTest, NoMoreEvents, OnLogic, vars
  <2>2. c \in Peers /\ p \in Peers /\ told'[c][p] = IF dirty[p] THEN speaking[p] ELSE told[c][p]
    BY <1>1, <2>1 DEF SendModified, IInv, TypeOK
  <2> QED
    BY <1>1, <2>2 DEF IInv, ToldOrDirty, HeardMarked
<1>2. IInv /\ [Next]_vars =>
        [pc = "send" /\ pc' = "wait" =>
           \A c \in on : \A p \in heard[c] : told'[c][p] \/ Expired(p)]_vars
  BY <1>1
<1> QED
  BY <1>2, Inductive, PTL DEF Spec, HeardShown
=============================================================================
