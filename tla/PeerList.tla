------------------------------ MODULE PeerList ------------------------------
(***************************************************************************)
(* libsvc_incoming.c and the life of libsvc (svc_init, svc_close): the     *)
(* doubly linked list of the peers to be heard, which the program's main   *)
(* thread changes and the audio thread walks under peer_list_mutex.        *)
(*                                                                         *)
(* Atomicity: what a thread does between taking and releasing the mutex is *)
(* one action for join and leave; the walk is one action per peer, since   *)
(* the main thread works outside the mutex meanwhile (the first half of    *)
(* join, the second of leave).  What the cages hold is PacketCage's.       *)
(***************************************************************************)
EXTENDS Integers, Sequences, Functions

CONSTANTS
  Peers,   \* the svc_peer_t that malloc will return, each of them once
  NULL

ASSUME PeerListAssumption == NULL \notin Peers

VARIABLES
  peer_list, next, prev, peer_count,
  cage,     \* memory of each peer's cage and decoder: none, live, freed
  main,     \* what the main thread does: [pc, peer]
  audio,    \* what the audio thread does: [pc, peer], with FORALL_PEERS' cursor
  mixer,    \* mixer_buffer: whose audio it holds
  joined,   \* history: the peers that have joined and not left, latest first
  due       \* history: the members when the walk began

list == <<peer_list, next, prev, peer_count>>
pvars == <<list, cage, main, audio, mixer, joined, due>>

PeersOrNull == Peers \cup {NULL}

Main(pc, p)    == main' = [pc |-> pc, peer |-> p]
AudioAt(pc, p) == audio' = [pc |-> pc, peer |-> p]

\* the audio thread holds peer_list_mutex throughout the walk
MutexFree == audio.pc # "walk"

PInit ==
  /\ peer_list = NULL /\ peer_count = 0
  /\ next = [p \in Peers |-> NULL] /\ prev = [p \in Peers |-> NULL]
  /\ cage = [p \in Peers |-> "none"]
  /\ main = [pc |-> "start", peer |-> NULL]
  /\ audio = [pc |-> "off", peer |-> NULL]
  /\ mixer = <<>>
  /\ joined = <<>> /\ due = <<>>

-----------------------------------------------------------------------------
(* The main thread                                                         *)

\* svc_init: the list is ready before svc_init_audio starts the callbacks
SvcInit ==
  /\ main.pc = "start"
  /\ Main("idle", NULL)
  /\ AudioAt("idle", NULL)
  /\ UNCHANGED <<list, cage, mixer, joined, due>>

\* svc_peer_join before it locks the mutex
JoinPrepare(p) ==
  /\ main.pc = "idle"
  /\ cage[p] = "none"
  /\ cage' = [cage EXCEPT ![p] = "live"]
  /\ next' = [next EXCEPT ![p] = peer_list]
  /\ prev' = [prev EXCEPT ![p] = NULL]
  /\ Main("join", p)
  /\ UNCHANGED <<peer_list, peer_count, audio, mixer, joined, due>>

\* Mutant: the old first peer does not learn of the new one.
JoinLinkForward ==
  /\ main.pc = "join"
  /\ MutexFree
  /\ peer_list' = main.peer
  /\ peer_count' = peer_count + 1
  /\ joined' = <<main.peer>> \o joined
  /\ Main("idle", NULL)
  /\ UNCHANGED <<next, prev, cage, audio, mixer, due>>

\* svc_peer_join under the mutex
JoinLink ==
  /\ main.pc = "join"
  /\ MutexFree
  /\ peer_list' = main.peer
  /\ prev' = IF peer_list = NULL THEN prev ELSE [prev EXCEPT ![peer_list] = main.peer]
  /\ peer_count' = peer_count + 1
  /\ joined' = <<main.peer>> \o joined
  /\ Main("idle", NULL)
  /\ UNCHANGED <<next, cage, audio, mixer, due>>

Forget(p) ==
  \E i \in DOMAIN joined :
    /\ joined[i] = p
    /\ joined' = [k \in 1 .. Len(joined) - 1 |-> joined[IF k < i THEN k ELSE k + 1]]

\* Mutant: the successor keeps its pointer to the peer that leaves.
UnlinkForward(p) ==
  /\ peer_list' = IF peer_list = p THEN next[p] ELSE peer_list
  /\ next' = IF prev[p] = NULL THEN next ELSE [next EXCEPT ![prev[p]] = next[p]]
  /\ peer_count' = peer_count - 1
  /\ UNCHANGED prev

\* Mutant: the list goes on with the predecessor of the first peer.
UnlinkToPrev(p) ==
  /\ peer_list' = IF peer_list = p THEN prev[p] ELSE peer_list
  /\ next' = IF prev[p] = NULL THEN next ELSE [next EXCEPT ![prev[p]] = next[p]]
  /\ prev' = IF next[p] = NULL THEN prev ELSE [prev EXCEPT ![next[p]] = prev[p]]
  /\ peer_count' = peer_count - 1

\* svc_peer_leave under the mutex
Unlink(p) ==
  /\ peer_list' = IF peer_list = p THEN next[p] ELSE peer_list
  /\ next' = IF prev[p] = NULL THEN next ELSE [next EXCEPT ![prev[p]] = next[p]]
  /\ prev' = IF next[p] = NULL THEN prev ELSE [prev EXCEPT ![next[p]] = prev[p]]
  /\ peer_count' = peer_count - 1

\* the program lets a member leave, svc_incoming_close the first one
MayLeave(p) ==
  \/ main.pc = "idle" /\ p \in Range(joined)
  \/ main.pc = "close" /\ p = peer_list

\* Mutant: the peer is unlinked without the mutex.
LeaveUnlinkNoMutex(p) ==
  /\ MayLeave(p)
  /\ Unlink(p)
  /\ Forget(p)
  /\ Main(IF main.pc = "idle" THEN "destroy" ELSE "close destroy", p)
  /\ UNCHANGED <<cage, audio, mixer, due>>

\* svc_peer_leave up to the end of its critical section
LeaveUnlink(p) ==
  /\ MayLeave(p)
  /\ MutexFree
  /\ Unlink(p)
  /\ Forget(p)
  /\ Main(IF main.pc = "idle" THEN "destroy" ELSE "close destroy", p)
  /\ UNCHANGED <<cage, audio, mixer, due>>

\* svc_peer_leave after it has released the mutex
LeaveDestroy ==
  /\ main.pc \in {"destroy", "close destroy"}
  /\ cage' = [cage EXCEPT ![main.peer] = "freed"]
  /\ Main(IF main.pc = "destroy" THEN "idle" ELSE "close", NULL)
  /\ UNCHANGED <<list, audio, mixer, joined, due>>

\* svc_close up to svc_close_audio, which waits for the callback to return
CloseAudio ==
  /\ main.pc = "idle"
  /\ audio.pc = "idle"
  /\ Main("close", NULL)
  /\ AudioAt("off", NULL)
  /\ UNCHANGED <<list, cage, mixer, joined, due>>

\* svc_incoming_close when the list is empty, and the rest of svc_close
CloseEnd ==
  /\ main.pc = "close"
  /\ peer_list = NULL
  /\ Main("closed", NULL)
  /\ UNCHANGED <<list, cage, audio, mixer, joined, due>>

-----------------------------------------------------------------------------
(* The audio thread: svc_request_incoming_audio                            *)

\* mutex_lock of FORALL_PEERS
WalkBegin ==
  /\ audio.pc = "idle"
  /\ AudioAt("walk", peer_list)
  /\ mixer' = <<>>
  /\ due' = joined
  /\ UNCHANGED <<list, cage, main, joined>>

\* packet_cage_get_data, or the silent sound in its place
WalkPeer ==
  /\ audio.pc = "walk"
  /\ audio.peer # NULL
  /\ mixer' = Append(mixer, audio.peer)
  /\ AudioAt("walk", next[audio.peer])
  /\ UNCHANGED <<list, cage, main, joined, due>>

\* Mutant: the loop ends without if_peer_NULL_unlock.
WalkEndLocked ==
  /\ audio.pc = "walk"
  /\ audio.peer = NULL
  /\ UNCHANGED pvars

\* if_peer_NULL_unlock
WalkEnd ==
  /\ audio.pc = "walk"
  /\ audio.peer = NULL
  /\ AudioAt("mix", NULL)
  /\ UNCHANGED <<list, cage, main, mixer, joined, due>>

\* svc_mix_audio_streams and the end of the callback
Mix ==
  /\ audio.pc = "mix"
  /\ AudioAt("idle", NULL)
  /\ UNCHANGED <<list, cage, main, mixer, joined, due>>

-----------------------------------------------------------------------------
OwnerStep ==
  \/ SvcInit \/ JoinLink \/ LeaveDestroy \/ CloseAudio \/ CloseEnd
  \/ \E p \in Peers : JoinPrepare(p) \/ LeaveUnlink(p)

AudioStep == WalkBegin \/ WalkPeer \/ WalkEnd \/ Mix

PNext == OwnerStep \/ AudioStep

PSpec == PInit /\ [][PNext]_pvars

(***************************************************************************)
(* Both threads are scheduled.  A callback comes every 21 ms and holds the *)
(* mutex for a fraction of that, so the main thread, when it keeps asking  *)
(* for the mutex, gets it: strong fairness.  Whether the program joins,    *)
(* leaves or closes at all is its own affair.                              *)
(***************************************************************************)
PFairness ==
  /\ WF_pvars(WalkPeer) /\ WF_pvars(WalkEnd) /\ WF_pvars(Mix)
  /\ WF_pvars(LeaveDestroy) /\ WF_pvars(CloseEnd)
  /\ SF_pvars(JoinLink \/ (main.pc = "close" /\ \E p \in Peers : LeaveUnlink(p)))

PFairSpec == PSpec /\ PFairness

-----------------------------------------------------------------------------
(* Properties                                                              *)

MainPCs  == {"start", "idle", "join", "destroy", "close", "close destroy", "closed"}
AudioPCs == {"off", "idle", "walk", "mix"}

\* Types of the list, the threads and the history.
PTypeOK ==
  /\ peer_list \in PeersOrNull
  /\ next \in [Peers -> PeersOrNull] /\ prev \in [Peers -> PeersOrNull]
  /\ peer_count \in Nat
  /\ cage \in [Peers -> {"none", "live", "freed"}]
  /\ main \in [pc : MainPCs, peer : PeersOrNull]
  /\ audio \in [pc : AudioPCs, peer : PeersOrNull]
  /\ mixer \in Seq(Peers)
  /\ joined \in Seq(Peers) /\ due \in Seq(Peers)

\* libsvc_incoming.c:41-70: whatever the order of joins and leaves, the list
\* is the members, latest first, linked in both directions, and
\* peer_count is their number.
ListLinked ==
  LET n == Len(joined) IN
  /\ \A i, j \in 1 .. n : i # j => joined[i] # joined[j]
  /\ peer_list = IF n = 0 THEN NULL ELSE joined[1]
  /\ peer_count = n
  /\ \A k \in 1 .. n :
       /\ next[joined[k]] = IF k = n THEN NULL ELSE joined[k + 1]
       /\ prev[joined[k]] = IF k = 1 THEN NULL ELSE joined[k - 1]

\* libsvc_incoming.c:25-39,61-70, libsvc.c:75-83: the audio thread never
\* reaches a cage or a decoder that a leave or the close has destroyed.
AudioReadsLive == audio.pc = "walk" /\ audio.peer # NULL => cage[audio.peer] = "live"

\* libsvc_incoming.c:28-33: each callback mixes exactly the peers that are
\* members when the walk begins, each of them once.
MixesAllOnce == audio.pc = "mix" => mixer = due

\* libsvc_incoming.c:92-98: svc_close takes every peer off the list and destroys
\* its cage and its decoder, those of a peer that left earlier included.  It does
\* not give all memory back: no one frees the svc_peer_t that join allocated
\* (line 42) nor mixer_buffer (line 81).
CloseDestroysCages ==
  main.pc = "closed" =>
    joined = <<>> /\ peer_count = 0 /\ \A p \in Peers : cage[p] # "live"

\* A join or a close that has begun comes to its end, although callbacks take
\* the mutex again and again.
MainProceeds ==
  /\ main.pc = "join" ~> main.pc = "idle"
  /\ main.pc = "close" ~> main.pc = "closed"
=============================================================================
