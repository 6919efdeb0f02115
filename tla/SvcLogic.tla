------------------------------ MODULE SvcLogic ------------------------------
(***************************************************************************)
(* main of network/svcenet/server/main.c with the sample script main.tcl:  *)
(* clients come and go, their audio is relayed to the peers of the same    *)
(* channel and marks them as speaking, on_logic takes the mark back        *)
(* SPEAK_TIME later, each round ends with a broadcast of the keys that     *)
(* have changed, and SIGINT ends the loop.  MUTED, DEAFEN and CHANNEL are  *)
(* for other scripts to set, in on_logic here.  A connection and the slot  *)
(* it gets go by one name; SvcServer has the table of slots.  Time passes  *)
(* in ticks; of SPEAKING_TIMEOUT only its distance from the present        *)
(* matters.                                                                *)
(***************************************************************************)
EXTENDS Integers, Sequences

CONSTANTS
  Peers,      \* clients, and the slots they get
  Settings,   \* [muted, deafen, channel] a script may give a peer
  Initial,    \* the one on_peer_connect gives it
  SpeakTime,  \* SPEAK_TIME, in ticks
  InboxBound  \* events ENet holds for the server, of one client

ASSUME LogicAssumption ==
  /\ SpeakTime \in Nat
  /\ InboxBound \in Nat \ {0}
  /\ \A s \in Settings : s.muted \in BOOLEAN /\ s.deafen \in BOOLEAN
  /\ Initial \in Settings

VARIABLES
  pc,        \* "start", "handler", "armed", "test": before the main loop;
             \* "wait": enet_host_service(50), "drain": the inner loop,
             \* "logic", "send", "ended"
  mainloop_done,
  inbox,     \* of each client, the events ENet will report, in order
  on,        \* the slots in use
  setting,   \* MUTED, DEAFEN and CHANNEL of each slot
  speaking,  \* the public key SPEAKING
  dirty,     \* whether that key waits for a broadcast
  left,      \* SPEAKING_TIMEOUT minus the present, -1 for all that is past
  told,      \* told[c][p]: the value of p's key in the dictionary of client c
  heard      \* history: whose audio each client was sent since the broadcast

keys == <<setting, speaking, dirty, left>>
vars == <<pc, mainloop_done, inbox, on, keys, told, heard>>

Silence == [p \in Peers |-> FALSE]
Nobody  == [c \in Peers |-> {}]

Init ==
  /\ pc = "start" /\ mainloop_done = FALSE
  /\ inbox = [p \in Peers |-> <<>>] /\ on = {}
  /\ setting = [p \in Peers |-> Initial]
  /\ speaking = Silence /\ dirty = Silence
  /\ left = [p \in Peers |-> -1]
  /\ told = [c \in Peers |-> Silence]
  /\ heard = Nobody

Events == {"connect", "disconnect", "audio", "malformed"}

NoEvent == \A p \in Peers : inbox[p] = <<>>

Expired(p) == left[p] < 0

\* Mutant: setting an existing key does not mark it.
DdSetClean(set, values) ==
  /\ speaking' = values
  /\ UNCHANGED dirty

\* dd_set of SPEAKING for the peers in set
DdSet(set, values) ==
  /\ speaking' = values
  /\ dirty' = [p \in Peers |-> dirty[p] \/ p \in set]

-----------------------------------------------------------------------------
(* The clients, the network and the clock                                  *)

Post(p, event) ==
  /\ pc \notin {"start", "ended"} /\ Len(inbox[p]) < InboxBound
  /\ inbox' = [inbox EXCEPT ![p] = Append(@, event)]
  /\ UNCHANGED <<pc, mainloop_done, on, keys, told, heard>>

Joins(p) == p \notin on /\ inbox[p] = <<>> /\ Post(p, "connect")

\* until it disconnects
Sends(p) == p \in on /\ \A k \in DOMAIN inbox[p] : inbox[p][k] # "disconnect"

\* a datagram of its own, or one that names another sender or a wrong length
Speaks(p) == Sends(p) /\ \E event \in {"audio", "malformed"} : Post(p, event)

\* ENet drops what it holds of a connection that ends
Leaves(p) ==
  /\ Sends(p)
  /\ inbox' = [inbox EXCEPT ![p] = <<"disconnect">>]
  /\ UNCHANGED <<pc, mainloop_done, on, keys, told, heard>>

Tick ==
  /\ left' = [p \in Peers |-> IF Expired(p) THEN -1 ELSE left[p] - 1]
  /\ UNCHANGED <<pc, mainloop_done, inbox, on, setting, speaking, dirty, told, heard>>

\* free_peers and enet_host_destroy, or the end of the process: every
\* connection ends
FreePeers ==
  /\ on' = {} /\ inbox' = [p \in Peers |-> <<>>]
  /\ speaking' = Silence /\ left' = [p \in Peers |-> -1]
  /\ told' = [c \in Peers |-> Silence]

\* sigint, once it is installed; before that the signal ends the process
Sigint ==
  \/ /\ pc \notin {"start", "handler", "ended"}
     /\ mainloop_done' = TRUE
     /\ UNCHANGED <<pc, inbox, on, keys, told, heard>>
  \/ /\ pc \in {"start", "handler"}
     /\ pc' = "ended"
     /\ FreePeers
     /\ UNCHANGED <<mainloop_done, setting, dirty, heard>>

-----------------------------------------------------------------------------
(* Events                                                                  *)

\* dd_new and on_peer_connect; the snapshot the client gets holds the value
\* of every key; the PADD gives the others an empty dictionary for the peer,
\* also where they still had one, and the next broadcast the new key
HandleConnect(p) ==
  /\ on' = on \cup {p}
  /\ setting' = [setting EXCEPT ![p] = Initial]
  /\ DdSet({p}, [speaking EXCEPT ![p] = FALSE])
  /\ left' = [left EXCEPT ![p] = -1]
  /\ told' = [c \in Peers |-> IF c = p THEN speaking' ELSE [told[c] EXCEPT ![p] = FALSE]]
  /\ UNCHANGED heard

\* on_peer_disconnect, PDEL and dd_free: the server forgets the peer; no
\* client decodes the PDEL, which has no newline (SvcServer), so the others
\* keep its dictionary
HandleDisconnect(p) ==
  /\ on' = on \ {p}
  /\ speaking' = [speaking EXCEPT ![p] = FALSE]
  /\ dirty' = [dirty EXCEPT ![p] = FALSE]
  /\ left' = [left EXCEPT ![p] = -1]
  /\ told' = [told EXCEPT ![p] = Silence]
  /\ heard' = [c \in Peers |-> IF c = p THEN {} ELSE heard[c] \ {p}]
  /\ UNCHANGED setting

\* peerget pub of the keys a script has set; peers_list is the set on
PeerGet(p) == setting[p]

\* channel_peers without the sender and the deafened
Listeners(p) ==
  {c \in on \ {p} : PeerGet(c).channel = PeerGet(p).channel /\ ~PeerGet(c).deafen}

\* sendaudio to each of set
SendAudio(p, set) ==
  heard' = [c \in Peers |-> IF c \in set THEN heard[c] \cup {p} ELSE heard[c]]

\* [expr [millitime] + $SPEAK_TIME]
Timeout(p) == SpeakTime

\* Mutant: the timeout of a muted peer is renewed, and its mark set.
OnAudioPacketMarksMuted(p) ==
  /\ left' = [left EXCEPT ![p] = Timeout(p)]
  /\ IF speaking[p] THEN UNCHANGED <<speaking, dirty>>
                    ELSE DdSet({p}, [speaking EXCEPT ![p] = TRUE])
  /\ SendAudio(p, IF PeerGet(p).muted THEN {} ELSE Listeners(p))
  /\ UNCHANGED <<on, setting, told>>

\* on_audio_packet
OnAudioPacket(p) ==
  /\ UNCHANGED <<on, setting, told>>
  /\ IF PeerGet(p).muted THEN UNCHANGED <<keys, heard>>
     ELSE /\ left' = [left EXCEPT ![p] = Timeout(p)]
          /\ IF speaking[p] THEN UNCHANGED <<speaking, dirty>>
                            ELSE DdSet({p}, [speaking EXCEPT ![p] = TRUE])
          /\ SendAudio(p, Listeners(p))

\* an event of the outer or the inner call of enet_host_service;
\* decode_audio_packet refuses what is malformed
HandleEvent(p) ==
  /\ pc \in {"wait", "drain"} /\ inbox[p] # <<>>
  /\ CASE Head(inbox[p]) = "connect"    -> HandleConnect(p)
       [] Head(inbox[p]) = "disconnect" -> HandleDisconnect(p)
       [] Head(inbox[p]) = "audio"      -> OnAudioPacket(p)
       [] Head(inbox[p]) = "malformed"  -> UNCHANGED <<on, keys, told, heard>>
  /\ inbox' = [inbox EXCEPT ![p] = Tail(@)]
  /\ pc' = "drain"
  /\ UNCHANGED mainloop_done

-----------------------------------------------------------------------------
(* The main loop                                                           *)

\* Mutant: the broadcast goes on although nobody has been asked to end it.
EndRoundForever(ended) == "wait"

\* the test of the loop, which comes before the first round and after each
EndRound(ended) == IF ended THEN "ended" ELSE "wait"

\* scripts, address and host come first; without one of them the server ends
Start ==
  /\ pc = "start"
  /\ pc' \in {"handler", "ended"}
  /\ UNCHANGED <<mainloop_done, inbox, on, keys, told, heard>>

\* signal(SIGINT, sigint)
InstallHandler ==
  /\ pc = "handler"
  /\ pc' = "armed"
  /\ UNCHANGED <<mainloop_done, inbox, on, keys, told, heard>>

\* mainloop_done = 0, whatever the handler has stored
ClearDone ==
  /\ pc = "armed"
  /\ mainloop_done' = FALSE
  /\ pc' = "test"
  /\ UNCHANGED <<inbox, on, keys, told, heard>>

FirstTest ==
  /\ pc = "test"
  /\ pc' = EndRound(mainloop_done)
  /\ IF pc' = "ended" THEN FreePeers ELSE UNCHANGED <<inbox, on, speaking, left, told>>
  /\ UNCHANGED <<mainloop_done, setting, dirty, heard>>

Starts == Start \/ InstallHandler \/ ClearDone \/ FirstTest

\* 50 ms without an event, or the inner loop finds none
NoMoreEvents ==
  /\ pc \in {"wait", "drain"} /\ NoEvent
  /\ pc' = "logic"
  /\ UNCHANGED <<mainloop_done, inbox, on, keys, told, heard>>

\* Mutant: the mark is taken back at its timeout, not after it.
OnLogicEarly ==
  /\ pc = "logic"
  /\ LET silent == {p \in on : speaking[p] /\ left[p] <= 0}
     IN  DdSet(silent, [p \in Peers |-> speaking[p] /\ p \notin silent])
  /\ UNCHANGED setting
  /\ pc' = "send"
  /\ UNCHANGED <<mainloop_done, inbox, on, left, told, heard>>

\* on_logic, and what another script in its place sets
OnLogic ==
  /\ pc = "logic"
  /\ LET silent == {p \in on : speaking[p] /\ Expired(p)}
     IN  DdSet(silent, [p \in Peers |-> speaking[p] /\ p \notin silent])
  /\ \/ UNCHANGED setting
     \/ \E p \in on, s \in Settings : setting' = [setting EXCEPT ![p] = s]
  /\ pc' = "send"
  /\ UNCHANGED <<mainloop_done, inbox, on, left, told, heard>>

\* send_modified_data and enet_host_flush, and then the next round or the end
SendModified ==
  /\ pc = "send"
  /\ pc' = EndRound(mainloop_done)
  /\ dirty' = Silence /\ heard' = Nobody
  /\ IF pc' = "ended" THEN FreePeers
     ELSE /\ told' = [c \in Peers |-> [p \in Peers |->
                        IF c \in on /\ dirty[p] THEN speaking[p] ELSE told[c][p]]]
          /\ UNCHANGED <<on, inbox, speaking, left>>
  /\ UNCHANGED <<mainloop_done, setting>>

Next ==
  \/ \E p \in Peers : Joins(p) \/ Speaks(p) \/ Leaves(p) \/ HandleEvent(p)
  \/ Tick \/ Sigint \/ Starts \/ NoMoreEvents \/ OnLogic \/ SendModified

Spec == Init /\ [][Next]_vars

(***************************************************************************)
(* The loop keeps running, ENet passes over no client for ever, and time   *)
(* passes.  The inner loop ends only when it finds no event, and packets   *)
(* keep arriving: that is assumed to happen again and again, since each    *)
(* client sends one packet in some 21 ms and a handler takes far less.     *)
(* enet_host_service answers at once then, which is strong fairness: the   *)
(* next packet may arrive before the call.                                 *)
(***************************************************************************)
Fairness ==
  /\ WF_vars(Tick) /\ WF_vars(Starts) /\ \A p \in Peers : WF_vars(HandleEvent(p))
  /\ []<>NoEvent /\ SF_vars(NoMoreEvents)
  /\ WF_vars(OnLogic) /\ WF_vars(SendModified)

FairSpec == Spec /\ Fairness

-----------------------------------------------------------------------------
(* Properties                                                              *)

\* Types of the loop, its inbox and its keys.
TypeOK ==
  /\ pc \in {"start", "handler", "armed", "test", "wait", "drain", "logic", "send", "ended"}
  /\ mainloop_done \in BOOLEAN
  /\ inbox \in [Peers -> Seq(Events)]
  /\ on \subseteq Peers
  /\ setting \in [Peers -> Settings]
  /\ speaking \in [Peers -> BOOLEAN] /\ dirty \in [Peers -> BOOLEAN]
  /\ left \in [Peers -> -1 .. SpeakTime]
  /\ told \in [Peers -> [Peers -> BOOLEAN]]
  /\ heard \in [Peers -> SUBSET Peers]

\* main.c:106-119,782-822: when the loop goes back to waiting the clients
\* have been sent every mark as it stands, whatever was set and taken back
\* and whoever joined since the previous broadcast.
ClientsToldAll ==
  pc = "wait" => \A c \in on, p \in on : told[c][p] = speaking[p]

\* main.tcl:36-53: whose audio a client has been sent in a round is shown to
\* it as speaking when the round ends, unless the mark is already too old.
HeardShown ==
  [][pc = "send" /\ pc' = "wait" =>
       \A c \in on : \A p \in heard[c] : told'[c][p] \/ Expired(p)]_vars

\* main.tcl:37,61-65: a peer shown as speaking has its mark taken back, and
\* the clients are told, unless it speaks again and is not muted, or leaves:
\* the mark of a peer that leaves while it is set stays with the clients until
\* its slot is given away (README, section 4).  Other peers' audio may keep the
\* inner loop of main.c busy meanwhile.
SpeakingEnds ==
  \A c \in Peers, p \in Peers :
    told[c][p] ~> \/ ~told[c][p]
                  \/ p \notin on
                  \/ left[p] = SpeakTime /\ ~setting[p].muted

\* main.tcl:36-43, main.c:603-635,950-962: a peer that goes on speaking
\* without a pause longer than SPEAK_TIME is shown to every client that stays,
\* the one that joined in the middle of it included, and from then on without
\* a gap.
SpeakerShown ==
  \A c \in Peers, p \in Peers :
    <>[](~Expired(p) /\ c \in on) => <>[](told[c][p])

\* main.c:181-184,910-976: SIGINT ends the server although events keep coming
\* and only the end of a round tests for it; but a SIGINT between lines 910 and
\* 913, which clears mainloop_done, is lost.
SigintStops == (mainloop_done /\ pc # "armed") ~> pc = "ended"
=============================================================================
