----------------------------- MODULE PacketCage -----------------------------
(***************************************************************************)
(* libsvc/packet_cage.c: the jitter buffer of one peer.  The receiving     *)
(* thread puts decoded packets, stamped with the sender's 16-bit clock; the *)
(* audio thread gets one packet per sound-card period.  Each call holds    *)
(* cage_mutex throughout, so each is one action.  A packet is its time.    *)
(* (tail_time is left out: the code maintains it and never uses it.)       *)
(*                                                                         *)
(* The environment is the sender and the network.  Packets are stamped     *)
(* with consecutive times, dropped while the sender is muted, lost,        *)
(* reordered and, if MayDuplicate, delivered again.  The clock runs on for *)
(* any number of packets that do not arrive; only how late a packet may    *)
(* come is bounded.                                                        *)
(***************************************************************************)
EXTENDS SerialTime, FiniteSets

CONSTANTS
  Size,          \* the slots of a cage, 5 in libsvc_incoming.c:43
  NULL,          \* an empty slot
  Delay,         \* a packet is at most this much older than the newest sent
  MaxGap,        \* how far the clock runs past the newest delivered while
                 \* NewerIsStored is claimed
  MayReorder,    \* whether the network reorders packets
  MayDuplicate   \* whether the network delivers a packet twice

ASSUME CageAssumption ==
  /\ Size \in Nat /\ Size >= 2
  /\ Delay \in Nat /\ MaxGap \in Nat /\ MaxGap > 0 /\ Delay <= MaxGap
  /\ {MayReorder, MayDuplicate} \subseteq BOOLEAN
  /\ NULL \notin Times
ASSUME ClockAssumption == Size + Delay + MaxGap < Window \div 2

VARIABLES
  head, head_time,    \* the slot to play next, and its time
  cage_starvation,    \* nothing is played while it holds
  new_cage,           \* the next packet sets the clock of the cage
  elements_count,
  audio_queue,        \* the slots
  played,             \* what the latest get returned
  sent,               \* the clock of the sender
  newest,             \* history: the newest time delivered, NULL after a gap
                      \* of more than MaxGap, until a new cage takes a packet
  network,            \* the packets in flight
  mishap              \* history: see PutData

cage    == <<head, head_time, cage_starvation, new_cage, elements_count,
             audio_queue>>
traffic == <<sent, newest, network>>
vars    == <<cage, played, traffic, mishap>>

Slots == 0 .. Size - 1

\* delta_point_in_cage; next_point_in_cage is the case delta = 1
Point(pos, delta) == (pos + delta) % Size

Init ==
  /\ head = 0 /\ head_time = 0
  /\ cage_starvation = TRUE /\ new_cage = TRUE
  /\ elements_count = 0
  /\ audio_queue = [i \in Slots |-> NULL]
  /\ played = NULL
  /\ sent = 0 /\ newest = 0 /\ network = {}
  /\ mishap = FALSE

-----------------------------------------------------------------------------
(* packet_cage_put_data                                                    *)

Accepts(time) == new_cage \/ IsNewer(time, head_time)

\* Mutant: the loop stops one pop early.
OverrunShort(time, from) ==
  LET last == TimeIncBy(from, Size)
  IN  IF IsNewer(time, last) THEN SubTime(time, last) ELSE 0

\* how often the loop pops to make room for the packet
Overrun(time, from) ==
  LET last == TimeIncBy(from, Size - 1)
  IN  IF IsNewer(time, last) THEN SubTime(time, last) ELSE 0

\* the slots n pops from head on empty
Popped(n) == {Point(head, i) : i \in 0 .. (IF n < Size THEN n ELSE Size) - 1}


\* an overrun by n ends the starvation
Starving(n) == cage_starvation /\ n = 0

\* History: a mishap is a packet stored over another one, or an overrun that
\* empties the cage and leaves new_cage set beside the packet it stores.
PutData(time) ==
  LET from   == IF new_cage THEN time ELSE head_time
      n      == Overrun(time, from)
      base   == TimeIncBy(from, n)
      slots  == [i \in Slots |-> IF i \in Popped(n) THEN NULL ELSE audio_queue[i]]
      count  == elements_count
                  - Cardinality({i \in Popped(n) : audio_queue[i] # NULL})
      pos    == Point(Point(head, n), SubTime(time, base))
      empty  == n > 0 /\ count = 0
  IN  IF Accepts(time)
        THEN /\ head' = Point(head, n)
             /\ head_time' = base
             /\ cage_starvation' = Starving(n)
             /\ new_cage' = empty
             /\ elements_count' = count + 1
             /\ audio_queue' = [slots EXCEPT ![pos] = time]
             /\ mishap' = (mishap \/ empty \/ slots[pos] # NULL)
        ELSE UNCHANGED <<cage, mishap>>

(* packet_cage_get_data                                                    *)

\* Mutant: an empty slot counts as a packet taken.
TakenAlways == 1

\* what a get takes from elements_count
Taken == IF audio_queue[head] # NULL THEN 1 ELSE 0

\* whether the cage is new once count packets are left
Renewed(count) == new_cage \/ count = 0

GetData ==
  IF cage_starvation
    THEN played' = NULL /\ UNCHANGED cage
    ELSE LET count == elements_count - Taken
         IN  /\ played' = audio_queue[head]
             /\ elements_count' = count
             /\ audio_queue' = [audio_queue EXCEPT ![head] = NULL]
             /\ head' = Point(head, 1)
             /\ head_time' = TimeInc(head_time)
             /\ cage_starvation' = (count = 0)
             /\ new_cage' = Renewed(count)

-----------------------------------------------------------------------------
\* how many ticks time1 is ahead of time2
Ahead(time1, time2) == (time1 - time2) % Window

\* create_network_packet_from_audio stamps the next packet
Send ==
  LET time == TimeInc(sent)
  IN  /\ \A t \in network : Ahead(time, t) <= Delay
      /\ sent' = time
      /\ network' = network \cup {time}
      /\ newest' = IF newest # NULL /\ Ahead(time, newest) <= MaxGap THEN newest ELSE NULL
      /\ UNCHANGED <<cage, played, mishap>>

\* send_callback drops a packet while the client is muted or no peer, for as
\* long as that lasts; the network loses one
Lose ==
  /\ \E t \in network : network' = network \ {t}
  /\ UNCHANGED <<cage, played, sent, newest, mishap>>

\* the newest delivered once the packet of this time is
Newest(time) ==
  IF newest = NULL THEN IF new_cage THEN time ELSE NULL
  ELSE IF Ahead(sent, time) < Ahead(sent, newest) THEN time ELSE newest

\* svc_packet_recieve, on the receiving thread
Receive(time, again) ==
  /\ MayReorder \/ \A t \in network : Ahead(sent, t) <= Ahead(sent, time)
  /\ network' = IF again THEN network ELSE network \ {time}
  /\ newest' = Newest(time)
  /\ PutData(time)
  /\ UNCHANGED <<played, sent>>

Get ==
  /\ GetData
  /\ UNCHANGED <<traffic, mishap>>

ReceiveSome == \E t \in network, again \in {FALSE, MayDuplicate} : Receive(t, again)

Next == Send \/ Lose \/ ReceiveSome \/ Get

Spec == Init /\ [][Next]_vars

\* the packet sent first of those in flight arrives
ReceiveOldest ==
  \E t \in network :
    /\ \A u \in network : Ahead(sent, u) <= Ahead(sent, t)
    /\ Receive(t, FALSE)

\* The sender keeps talking, a packet in flight arrives sooner or later unless
\* it is lost, and the sound card asks for audio once in a period.
Fairness == WF_vars(Send) /\ WF_vars(ReceiveOldest) /\ WF_vars(Get)

FairSpec == Spec /\ Fairness

-----------------------------------------------------------------------------
(* Properties                                                              *)

Filled == {i \in Slots : audio_queue[i] # NULL}

\* Types of the cage and of its traffic.
TypeOK ==
  /\ head \in Slots /\ head_time \in Times
  /\ cage_starvation \in BOOLEAN /\ new_cage \in BOOLEAN
  /\ elements_count \in Int
  /\ audio_queue \in [Slots -> Times \cup {NULL}]
  /\ played \in Times \cup {NULL}
  /\ sent \in Times /\ newest \in Times \cup {NULL} /\ network \subseteq Times
  /\ mishap \in BOOLEAN

\* packet_cage.c:85-89,123-124,136-138: elements_count never falls below the
\* number of packets in the slots, so the cage never starves on top of a
\* packet.  packet_cage.c:95-98,145-149: until the first mishap the two are
\* equal, and a cage is new, so that the next packet may set its clock, exactly
\* when it holds nothing; only a starving cage is new.
CountMatchesSlots ==
  /\ elements_count >= Cardinality(Filled)
  /\ ~mishap => /\ elements_count = Cardinality(Filled)
                /\ new_cage <=> Filled = {}
                /\ new_cage => cage_starvation

\* packet_cage.c:120-123: until the first mishap every packet waits in the
\* slot that will be played when the clock of the cage reaches its time.
SlotsFollowClock ==
  ~mishap => \A i \in Slots :
    audio_queue[Point(head, i)] \in {NULL, TimeIncBy(head_time, i)}

\* packet_cage.c:106: until the first mishap a packet newer than all that came
\* before, and at most MaxGap after them, is never mistaken for an old one: it
\* is stored, however the playout, losses and late packets moved the clock of
\* the cage; so is the first packet a new cage gets after any longer gap.  A
\* cage that starves over packets may refuse newer ones after such a gap
\* (README, section 4).
NewerIsStored ==
  [][\A t \in network :
       ~mishap /\ newest' = t /\ newest' # newest
         => \E i \in Slots : audio_queue'[i] = t]_vars


\* packet_cage.c:105 "We only place the packet when it is newer then the one
\* expected or we have no packets in the queue."
PlacesOnlyNewer ==
  [][\A t \in network :
       (\E i \in Slots : audio_queue'[i] = t /\ audio_queue[i] # t)
         => IsNewer(t, head_time) \/ elements_count = 0]_vars
=============================================================================
