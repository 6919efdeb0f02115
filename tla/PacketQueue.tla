---------------------------- MODULE PacketQueue ----------------------------
(***************************************************************************)
(* libsvc/packet_queue.c: the static ring between the audio thread, which  *)
(* pushes every captured period, and the send thread, which pops.  The     *)
(* ring is guarded by queue_mutex.  queue_empty_mutex is used as a gate: it *)
(* is locked while the ring is empty, the producer unlocks it, and the     *)
(* consumer passes through it (lock, unlock) before it takes a packet.     *)
(* The gate is unlocked by a thread that did not lock it, which POSIX      *)
(* leaves undefined for default mutexes; it is modelled as what the build  *)
(* on glibc does, a binary semaphore.                                      *)
(***************************************************************************)
EXTENDS Naturals, Sequences

CONSTANTS
  Size,      \* queue_size, 100 in libsvc.c:61
  Packets,   \* audio data, by identity
  Junk       \* the contents of a slot malloc() returned and nobody wrote

ASSUME SizeAssumption == Size \in Nat /\ Size >= 2
ASSUME JunkAssumption == Junk \notin Packets

VARIABLES
  head, tail,         \* indices of the ring
  audio_queue,        \* its slots
  queue_mutex,        \* "free", or the thread that holds it
  queue_empty_mutex,  \* the gate: TRUE while it is locked
  pushPc, pushArg,    \* the audio thread inside packet_queue_push_data
  pushResult,         \* what the latest push returned
  popPc, popped       \* the send thread inside packet_queue_pop_data

ring   == <<head, tail, audio_queue>>
pusher == <<pushPc, pushArg, pushResult>>
popper == <<popPc, popped>>
qvars   == <<ring, queue_mutex, queue_empty_mutex, pusher, popper>>

Slots == 0 .. Size - 1

\* next_point_in_queue
NextPoint(pos) == IF pos = Size - 1 THEN 0 ELSE pos + 1

\* packet_queue_is_empty_
IsEmpty == tail = head

\* packet_queue_create; the creating thread leaves the gate locked
QInit ==
  /\ head = 0
  /\ tail = 0
  /\ audio_queue = [i \in Slots |-> Junk]
  /\ queue_mutex = "free"
  /\ queue_empty_mutex = TRUE
  /\ pushPc = "idle" /\ pushArg = Junk /\ pushResult = 0
  /\ popPc = "idle" /\ popped = Junk

-----------------------------------------------------------------------------
(* packet_queue_push_data, on the audio thread                             *)

PushCall(p) ==
  /\ pushPc = "idle"
  /\ pushPc' = "lock"
  /\ pushArg' = p
  /\ UNCHANGED <<ring, queue_mutex, queue_empty_mutex, pushResult, popper>>

PushLock ==
  /\ pushPc = "lock"
  /\ queue_mutex = "free"
  /\ queue_mutex' = "push"
  /\ pushPc' = "gate"
  /\ UNCHANGED <<ring, queue_empty_mutex, pushArg, pushResult, popper>>

\* Mutant: push forgets to open the gate.
PushOpenGateNever ==
  /\ pushPc = "gate"
  /\ pushPc' = "store"
  /\ UNCHANGED <<ring, queue_mutex, queue_empty_mutex, pushArg, pushResult, popper>>

\* The gate opens before the packet is in the ring.
PushOpenGate ==
  /\ pushPc = "gate"
  /\ queue_empty_mutex' = (queue_empty_mutex /\ ~IsEmpty)
  /\ pushPc' = "store"
  /\ UNCHANGED <<ring, queue_mutex, pushArg, pushResult, popper>>

\* new_tail == head: the packet is dropped
PushFull ==
  /\ pushPc = "store"
  /\ NextPoint(tail) = head
  /\ pushResult' = 1
  /\ queue_mutex' = "free"
  /\ pushPc' = "idle"
  /\ UNCHANGED <<ring, queue_empty_mutex, pushArg, popper>>

\* Mutant: the packet is stored whether there is room or not.
PushStoreAnyway ==
  /\ pushPc = "store"
  /\ tail' = NextPoint(tail)
  /\ audio_queue' = [audio_queue EXCEPT ![NextPoint(tail)] = pushArg]
  /\ pushResult' = 0
  /\ queue_mutex' = "free"
  /\ pushPc' = "idle"
  /\ UNCHANGED <<head, queue_empty_mutex, pushArg, popper>>

PushStore ==
  /\ pushPc = "store"
  /\ NextPoint(tail) # head
  /\ tail' = NextPoint(tail)
  /\ audio_queue' = [audio_queue EXCEPT ![NextPoint(tail)] = pushArg]
  /\ pushResult' = 0
  /\ queue_mutex' = "free"
  /\ pushPc' = "idle"
  /\ UNCHANGED <<head, queue_empty_mutex, pushArg, popper>>

-----------------------------------------------------------------------------
(* packet_queue_pop_data, on the send thread                               *)

\* line 63: the thread sleeps here while the ring is empty
PopEnterGate ==
  /\ popPc = "idle"
  /\ ~queue_empty_mutex
  /\ queue_empty_mutex' = TRUE
  /\ popPc' = "leave"
  /\ UNCHANGED <<ring, queue_mutex, pusher, popped>>

PopLeaveGate ==
  /\ popPc = "leave"
  /\ queue_empty_mutex' = FALSE
  /\ popPc' = "lock"
  /\ UNCHANGED <<ring, queue_mutex, pusher, popped>>

PopLock ==
  /\ popPc = "lock"
  /\ queue_mutex = "free"
  /\ queue_mutex' = "pop"
  /\ popPc' = "take"
  /\ UNCHANGED <<ring, queue_empty_mutex, pusher, popped>>

\* The copy reads the slot at head, and only then head advances.
PopTake ==
  /\ popPc = "take"
  /\ popped' = audio_queue[head]
  /\ head' = NextPoint(head)
  /\ popPc' = "close"
  /\ UNCHANGED <<tail, audio_queue, queue_mutex, queue_empty_mutex, pusher>>

\* Mutant: the gate stays open over an empty ring.
PopCloseNever ==
  /\ popPc = "close"
  /\ queue_mutex' = "free"
  /\ popPc' = "idle"
  /\ UNCHANGED <<ring, queue_empty_mutex, pusher, popped>>

\* line 71: closes the gate, waiting for it if it is locked
PopClose ==
  /\ popPc = "close"
  /\ IsEmpty => ~queue_empty_mutex
  /\ queue_empty_mutex' = (queue_empty_mutex \/ IsEmpty)
  /\ queue_mutex' = "free"
  /\ popPc' = "idle"
  /\ UNCHANGED <<ring, pusher, popped>>

-----------------------------------------------------------------------------
Push == (\E p \in Packets : PushCall(p)) \/ PushLock \/ PushOpenGate
          \/ PushFull \/ PushStore
Pop  == PopEnterGate \/ PopLeaveGate \/ PopLock \/ PopTake \/ PopClose

QNext == Push \/ Pop

QSpec == QInit /\ [][QNext]_qvars

(***************************************************************************)
(* Both threads keep running.  The audio thread need not call push, but a  *)
(* call it has started goes on; it holds queue_mutex for a memcpy once in  *)
(* a sound-card period, so the send thread does get its turn at the mutex: *)
(* strong fairness of PopLock, and weak fairness of everything else.  Weak *)
(* fairness is enough for PushLock: the send thread empties the ring and   *)
(* then leaves the mutex alone.                                            *)
(***************************************************************************)
QFairness ==
  /\ WF_qvars(PushLock \/ PushOpenGate \/ PushFull \/ PushStore)
  /\ WF_qvars(PopEnterGate \/ PopLeaveGate \/ PopTake \/ PopClose)
  /\ SF_qvars(PopLock)

QFairSpec == QSpec /\ QFairness

-----------------------------------------------------------------------------
(* Properties                                                              *)

\* Types of the ring, of the mutexes and of the two program counters.
QTypeOK ==
  /\ head \in Slots /\ tail \in Slots
  /\ audio_queue \in [Slots -> Packets \cup {Junk}]
  /\ queue_mutex \in {"free", "push", "pop"}
  /\ queue_empty_mutex \in BOOLEAN
  /\ pushPc \in {"idle", "lock", "gate", "store"}
  /\ pushArg \in Packets \cup {Junk}
  /\ pushResult \in {0, 1}
  /\ popPc \in {"idle", "leave", "lock", "take", "close"}
  /\ popped \in Packets \cup {Junk}

\* packet_queue.c:47,63-71: whenever neither thread is inside the code that
\* moves the gate, the gate is locked exactly while the ring is empty.  A gate
\* left locked over a packet is a lost wake-up, a gate left open over an empty
\* ring makes the send thread take what is not there.
GateMatchesRing ==
  queue_mutex = "free" /\ popPc # "leave" => (queue_empty_mutex <=> IsEmpty)

\* packet_queue.c:66-69: the send thread never takes from an empty ring,
\* although it looked at the gate before it held queue_mutex.
NeverTakesFromEmpty == popPc = "take" => ~IsEmpty

\* packet_queue.c:71: the send thread closes the gate while it holds
\* queue_mutex; the gate is never locked there, or both threads would stop.
CloseNeverBlocks == popPc = "close" /\ IsEmpty => ~queue_empty_mutex

\* packet_queue.h:34: only an empty queue pauses the caller: a packet in the
\* ring makes the send thread complete a pop.
PacketWakesSender == (pushPc = "idle" /\ ~IsEmpty) ~> (popPc = "close")

-----------------------------------------------------------------------------
(* Refinement                                                              *)

\* the slot i places after head
At(i) == IF head + i < Size THEN head + i ELSE head + i - Size

Count == IF tail >= head THEN tail - head ELSE tail - head + Size

\* the packets between head and tail, which Count says are in the queue
Content == [i \in 1 .. Count |-> audio_queue[At(i)]]

\* the packets accepted and not popped yet: the slot at head holds one more,
\* once anything has been stored there
Pending == IF audio_queue[head] = Junk THEN Content ELSE <<audio_queue[head]>> \o Content

Promised == INSTANCE Fifo WITH
              Capacity  <- Size - 1,
              waiting   <- Content,
              delivered <- popped,
              status    <- pushResult

Kept == INSTANCE Fifo WITH
          Capacity  <- Size - 1,
          waiting   <- Pending,
          delivered <- popped,
          status    <- pushResult

\* packet_queue.c:44-74: whatever the two threads do, no accepted packet is
\* lost, doubled or overtaken, a pop hands out the oldest one or none, and push
\* refuses only when Size - 1 packets wait.
KeepsOrder == Kept!OrderSpec

\* packet_queue.h:32 says that pop "Copies a packet stored in the head of a
\* packet queue": the queue is a FIFO, and a pop hands out its head.
ImplementsFifo == Promised!Spec
=============================================================================
