-------------------------------- MODULE P2P --------------------------------
(***************************************************************************)
(* network/svcp2p/main.c: a full mesh over UDP.  Three threads meet at the *)
(* statistics: the main thread counts what it receives, libsvc's send      *)
(* thread counts in send_callback what it sends, and the statistics thread *)
(* reads and resets both counters.  The send thread's loop and svc_close   *)
(* are libsvc.c's; the main thread waits for the statistics thread at the  *)
(* end, and for no other.                                                  *)
(*                                                                         *)
(* Of the four counters the two of packets are modelled: those of bytes    *)
(* are updated beside them.  peer_list and the queue are PeerList's and    *)
(* PacketQueue's; here a peer has joined or not, and pop comes back        *)
(* whenever the audio thread likes.                                        *)
(***************************************************************************)
EXTENDS Naturals

CONSTANTS
  NPeers,    \* peers on the command line
  Hosts,     \* the addresses there are
  MaxSent,   \* calls of send_callback that send, at most
  MaxGot     \* datagrams that arrive, at most

ASSUME P2PAssumption ==
  /\ NPeers \in Nat /\ NPeers > 0
  /\ MaxSent \in Nat /\ MaxGot \in Nat

VARIABLES
  pc, send, stats,     \* where the main, the send and the statistics thread are
  lock,                \* global_stats_lock: "none", "free", its holder, "destroyed"
  initialized, done,
  libsvc,              \* "off", "running" while svc_running, "stopping", "destroyed"
  addr,                \* peers[i].address
  members,             \* peers that have joined libsvc and not left
  remote,              \* the sender of the datagram in hand
  up_packets, down_packets,
  loaded,              \* up_packets as the send thread has read it
  local,               \* l_up_packets and l_down_packets
  sent, got,           \* history: datagrams sent and received
  reported,            \* history: the sum of what has been printed
  fault                \* TRUE once something has been used that does not exist

threads  == <<pc, send, stats>>
counters == <<up_packets, down_packets, loaded, local, reported>>
setup    == <<initialized, libsvc, addr, members>>
vars     == <<threads, lock, setup, done, remote, counters, sent, got, fault>>

Peers == 1 .. NPeers

Init ==
  /\ pc = "start" /\ send = "off" /\ stats = "off"
  /\ lock = "none" /\ initialized = FALSE /\ done = FALSE
  /\ libsvc = "off" /\ members = {}
  /\ addr \in [Peers -> Hosts] /\ remote \in Hosts
  /\ up_packets = 0 /\ down_packets = 0 /\ loaded = 0
  /\ local = [up |-> 0, down |-> 0] /\ reported = [up |-> 0, down |-> 0]
  /\ sent = 0 /\ got = 0
  /\ fault = FALSE

Goto(l)   == pc' = l /\ UNCHANGED <<send, stats>>
SendTo(l) == send' = l /\ UNCHANGED <<pc, stats>>
StatTo(l) == stats' = l /\ UNCHANGED <<pc, send>>

\* mutex_lock of a mutex that may not exist
Acquire(t) ==
  IF lock \in {"none", "destroyed"} THEN fault' = TRUE /\ UNCHANGED lock
  ELSE lock = "free" /\ lock' = t /\ UNCHANGED fault

Release == lock' = "free" /\ UNCHANGED fault

-----------------------------------------------------------------------------
(* The main thread                                                         *)

\* svc_init, with the addresses resolved before it
StartLibsvc ==
  /\ pc = "start"
  /\ pc' = "join" /\ send' = "test" /\ UNCHANGED stats
  /\ libsvc' = "running"
  /\ UNCHANGED <<lock, initialized, addr, members, done, remote, counters, sent, got, fault>>

\* svc_peer_join of each peer
JoinPeers ==
  /\ pc = "join"
  /\ Goto("create")
  /\ members' = Peers
  /\ UNCHANGED <<lock, initialized, libsvc, addr, done, remote, counters, sent, got, fault>>

\* mutex_create and thread_create
StartStats ==
  /\ pc = "create"
  /\ pc' = "initialize" /\ stats' = "sleep" /\ UNCHANGED send
  /\ lock' = "free"
  /\ UNCHANGED <<setup, done, remote, counters, sent, got, fault>>

\* initialized = 1 and signal(SIGINT, sigint)
Initialize ==
  /\ pc = "initialize"
  /\ Goto("test")
  /\ initialized' = TRUE
  /\ UNCHANGED <<lock, libsvc, addr, members, done, remote, counters, sent, got, fault>>

\* while (!done)
Test ==
  /\ pc = "test"
  /\ Goto(IF done THEN "leave" ELSE "select")
  /\ UNCHANGED <<lock, setup, done, remote, counters, sent, got, fault>>

\* select times out or fails, or recvfrom does
SelectNothing ==
  /\ pc = "select"
  /\ Goto("test")
  /\ done' \in {done, TRUE}
  /\ UNCHANGED <<lock, setup, remote, counters, sent, got, fault>>

\* select and recvfrom: a datagram of anybody
Recv ==
  /\ pc = "select" /\ got < MaxGot
  /\ Goto("count")
  /\ remote' \in Hosts
  /\ got' = got + 1
  /\ UNCHANGED <<lock, setup, done, counters, sent, fault>>

CountLock ==
  /\ pc = "count"
  /\ Acquire("main")
  /\ Goto("add")
  /\ UNCHANGED <<setup, done, remote, counters, sent, got>>

CountAdd ==
  /\ pc = "add"
  /\ down_packets' = down_packets + 1
  /\ Release
  /\ Goto("deliver")
  /\ UNCHANGED <<setup, done, remote, up_packets, loaded, local, reported, sent, got>>

\* the first peer with the sender's address hears the packet
Listeners == {i \in Peers : addr[i] = remote /\ \A j \in Peers : j < i => addr[j] # remote}

Deliver ==
  /\ pc = "deliver"
  /\ fault' = (fault \/ ~(Listeners \subseteq members))
  /\ Goto("test")
  /\ UNCHANGED <<lock, setup, done, remote, counters, sent, got>>

\* svc_peer_leave of each peer
LeavePeers ==
  /\ pc = "leave"
  /\ members' = {}
  /\ Goto("close")
  /\ UNCHANGED <<lock, initialized, libsvc, addr, done, remote, counters, sent, got, fault>>

\* svc_close clears svc_running and detaches the send thread
StopSending ==
  /\ pc = "close" /\ libsvc = "running"
  /\ libsvc' = "stopping"
  /\ UNCHANGED <<threads, lock, initialized, addr, members, done, remote, counters, sent, got, fault>>

\* the rest of svc_close: encoder, queue and options are destroyed
DestroyLibsvc ==
  /\ pc = "close" /\ libsvc = "stopping"
  /\ libsvc' = "destroyed"
  /\ Goto("wait")
  /\ UNCHANGED <<lock, initialized, addr, members, done, remote, counters, sent, got, fault>>

\* thread_join, mutex_destroy; the send thread may be holding the lock
WaitForStats ==
  /\ pc = "wait" /\ stats = "ended"
  /\ lock' = "destroyed"
  /\ fault' = (lock # "free")
  /\ Goto("return")
  /\ UNCHANGED <<setup, done, remote, counters, sent, got>>

\* return from main, which ends all threads
Return ==
  /\ pc = "return"
  /\ Goto("end")
  /\ UNCHANGED <<lock, setup, done, remote, counters, sent, got, fault>>

\* the handler is installed while the main loop runs
Sigint ==
  /\ pc \in {"test", "select", "count", "add", "deliver"}
  /\ done' = TRUE
  /\ UNCHANGED <<threads, lock, setup, remote, counters, sent, got, fault>>

-----------------------------------------------------------------------------
(* The send thread                                                         *)

\* while (svc_running)
SendTest ==
  /\ send = "test"
  /\ SendTo(IF libsvc = "running" THEN "pop" ELSE "ended")
  /\ UNCHANGED <<lock, setup, done, remote, counters, sent, got, fault>>

\* packet_queue_pop_data and the encoder
Pop ==
  /\ send = "pop" /\ sent < MaxSent * NPeers
  /\ SendTo("callback")
  /\ fault' = (fault \/ libsvc = "destroyed")
  /\ UNCHANGED <<lock, setup, done, remote, counters, sent, got>>

\* Mutant: the callback does not wait for the program to be ready.
CallbackEager ==
  /\ send = "callback"
  /\ SendTo("lock") /\ sent' = sent + NPeers
  /\ UNCHANGED <<lock, setup, done, remote, counters, got, fault>>

\* send_callback: nothing before initialized, else a sendto for each peer
Callback ==
  /\ send = "callback"
  /\ IF initialized THEN SendTo("lock") /\ sent' = sent + NPeers
                    ELSE SendTo("test") /\ UNCHANGED sent
  /\ UNCHANGED <<lock, setup, done, remote, counters, got, fault>>

\* Mutant: the counter is updated without the lock.
StatsLockNone ==
  /\ send = "lock"
  /\ SendTo("load")
  /\ UNCHANGED <<lock, setup, done, remote, counters, sent, got, fault>>

StatsLock ==
  /\ send = "lock"
  /\ Acquire("send")
  /\ SendTo("load")
  /\ UNCHANGED <<setup, done, remote, counters, sent, got>>

\* up_packets += peers_count reads
StatsLoad ==
  /\ send = "load"
  /\ loaded' = up_packets
  /\ SendTo("store")
  /\ UNCHANGED <<lock, setup, done, remote, up_packets, down_packets, local, reported, sent, got,
                 fault>>

\* and writes
StatsStore ==
  /\ send = "store"
  /\ up_packets' = loaded + NPeers
  /\ Release
  /\ SendTo("test")
  /\ UNCHANGED <<setup, done, remote, down_packets, loaded, local, reported, sent, got>>

-----------------------------------------------------------------------------
(* The statistics thread: global_stats_runner                              *)

RunnerLock ==
  /\ stats = "sleep"
  /\ Acquire("stats")
  /\ StatTo("read")
  /\ UNCHANGED <<setup, done, remote, counters, sent, got>>

RunnerRead ==
  /\ stats = "read"
  /\ local' = [up |-> up_packets, down |-> down_packets]
  /\ StatTo("reset")
  /\ UNCHANGED <<lock, setup, done, remote, up_packets, down_packets, loaded, reported, sent, got,
                 fault>>

RunnerReset ==
  /\ stats = "reset"
  /\ up_packets' = 0 /\ down_packets' = 0
  /\ Release
  /\ StatTo("print")
  /\ UNCHANGED <<setup, done, remote, loaded, local, reported, sent, got>>

\* Mutant: the thread does not look at done.
RunnerPrintForever ==
  /\ stats = "print"
  /\ reported' = [up |-> reported.up + local.up, down |-> reported.down + local.down]
  /\ StatTo("sleep")
  /\ UNCHANGED <<lock, setup, done, remote, up_packets, down_packets, loaded, local, sent, got,
                 fault>>

\* the line is printed, then if (done) return
RunnerPrint ==
  /\ stats = "print"
  /\ reported' = [up |-> reported.up + local.up, down |-> reported.down + local.down]
  /\ StatTo(IF done THEN "ended" ELSE "sleep")
  /\ UNCHANGED <<lock, setup, done, remote, up_packets, down_packets, loaded, local, sent, got,
                 fault>>

-----------------------------------------------------------------------------
MainStep ==
  \/ StartLibsvc \/ JoinPeers \/ StartStats \/ Initialize
  \/ Test \/ SelectNothing \/ Recv \/ CountLock \/ CountAdd \/ Deliver
  \/ LeavePeers \/ StopSending \/ DestroyLibsvc \/ WaitForStats \/ Return

SendStep == SendTest \/ Pop \/ Callback \/ StatsLock \/ StatsLoad \/ StatsStore

StatsStep == RunnerLock \/ RunnerRead \/ RunnerReset \/ RunnerPrint

Next ==
  /\ ~fault /\ pc # "end"
  /\ MainStep \/ Sigint \/ SendStep \/ StatsStep

Spec == Init /\ [][Next]_vars

(***************************************************************************)
(* The threads are scheduled; each holds the lock for a moment in a period *)
(* of 21 ms, of a datagram or of 5 s, so a thread that waits for it gets   *)
(* it: strong fairness.  Pop may never come back.                          *)
(***************************************************************************)
Fairness ==
  /\ WF_vars(~fault /\ MainStep) /\ SF_vars(~fault /\ CountLock)
  /\ WF_vars(~fault /\ (StatsLoad \/ StatsStore)) /\ SF_vars(~fault /\ StatsLock)
  /\ WF_vars(~fault /\ StatsStep) /\ SF_vars(~fault /\ RunnerLock)

FairSpec == Spec /\ Fairness

-----------------------------------------------------------------------------
(* Properties                                                              *)

\* Types of the threads, the lock and the counters.
TypeOK ==
  /\ pc \in {"start", "join", "create", "initialize", "test", "select", "count", "add",
             "deliver", "leave", "close", "wait", "return", "end"}
  /\ send \in {"off", "test", "pop", "callback", "lock", "load", "store", "ended"}
  /\ stats \in {"off", "sleep", "read", "reset", "print", "ended"}
  /\ lock \in {"none", "free", "main", "send", "stats", "destroyed"}
  /\ initialized \in BOOLEAN /\ done \in BOOLEAN /\ fault \in BOOLEAN
  /\ libsvc \in {"off", "running", "stopping", "destroyed"}
  /\ addr \in [Peers -> Hosts] /\ members \subseteq Peers /\ remote \in Hosts
  /\ up_packets \in Nat /\ down_packets \in Nat /\ loaded \in Nat
  /\ local \in [up : Nat, down : Nat] /\ reported \in [up : Nat, down : Nat]
  /\ sent \in Nat /\ got \in Nat

\* main.c:75-84,117-121,227-231: whenever the lock is free each datagram is
\* accounted for once: in the lines printed, in what the statistics thread is
\* about to print, in the counter, or in the hands of the thread that will
\* count it; however the three threads interleave.
StatsExact ==
  lock = "free" =>
    /\ sent = reported.up + (IF stats = "print" THEN local.up ELSE 0) + up_packets
                + (IF send = "lock" THEN NPeers ELSE 0)
    /\ got = reported.down + (IF stats = "print" THEN local.down ELSE 0) + down_packets
               + (IF pc = "count" THEN 1 ELSE 0)

\* main.c:102,189-205,252-261: whatever the order of the threads, none uses the
\* lock, a peer or libsvc's memory before it exists, nor after its end as long
\* as svc_close has not come to its own: only then may the send thread, which
\* svc_close has detached, come too late.
UsedWhileThere == fault => libsvc = "destroyed" /\ send # "ended"

\* main.c:93-95,127-130,205,256-261: SIGINT ends the program, the thread it waits
\* for included, unless the detached send thread spoils it.
SigintEnds == done ~> (pc = "end" \/ fault)
=============================================================================
