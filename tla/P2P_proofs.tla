----------------------------- MODULE P2P_proofs -----------------------------
(***************************************************************************)
(* Proofs about P2P, for any number of peers, hosts and datagrams.         *)
(***************************************************************************)
EXTENDS P2P, TLAPS

-----------------------------------------------------------------------------
(* Types, in the parts a step is easily shown to keep                      *)

PlaceTypes ==
  /\ pc \in {"start", "join", "create", "initialize", "test", "select", "count", "add",
             "deliver", "leave", "close", "wait", "return", "end"}
  /\ send \in {"off", "test", "pop", "callback", "lock", "load", "store", "ended"}
  /\ stats \in {"off", "sleep", "read", "reset", "print", "ended"}
  /\ lock \in {"none", "free", "main", "send", "stats", "destroyed"}
  /\ libsvc \in {"off", "running", "stopping", "destroyed"}

FlagTypes == initialized \in BOOLEAN /\ done \in BOOLEAN /\ fault \in BOOLEAN

PeerTypes == addr \in [Peers -> Hosts] /\ members \subseteq Peers /\ remote \in Hosts

CounterTypes ==
  /\ up_packets \in Nat /\ down_packets \in Nat /\ loaded \in Nat
  /\ local \in [up : Nat, down : Nat] /\ reported \in [up : Nat, down : Nat]
  /\ sent \in Nat /\ got \in Nat

LEMMA TypeParts == TypeOK <=> PlaceTypes /\ FlagTypes /\ PeerTypes /\ CounterTypes
BY DEF TypeOK, PlaceTypes, FlagTypes, PeerTypes, CounterTypes

LEMMA InitType == Init => TypeOK
<1> SUFFICES ASSUME Init PROVE PlaceTypes /\ FlagTypes /\ PeerTypes /\ CounterTypes
  BY TypeParts
<1>1. PlaceTypes /\ FlagTypes /\ PeerTypes
  BY DEF Init, PlaceTypes, FlagTypes, PeerTypes
<1>2. CounterTypes
  BY DEF Init, CounterTypes
<1> QED
  BY <1>1, <1>2

LEMMA StepPlaces == PlaceTypes /\ [Next]_vars => PlaceTypes'
<1> SUFFICES ASSUME PlaceTypes, [Next]_vars PROVE PlaceTypes'
  OBVIOUS
<1> USE DEF PlaceTypes, threads, counters, setup, vars, Goto, SendTo, StatTo, Acquire, Release
<1>1. CASE UNCHANGED vars
  BY <1>1
<1>2. CASE MainStep
  BY <1>2 DEF MainStep, StartLibsvc, JoinPeers, StartStats, Initialize, Test, SelectNothing,
              Recv, CountLock, CountAdd, Deliver, LeavePeers, StopSending, DestroyLibsvc,
              WaitForStats, Return
<1>3. CASE Sigint
  BY <1>3 DEF Sigint
<1>4. CASE SendStep
  BY <1>4 DEF SendStep, SendTest, Pop, Callback, StatsLock, StatsLoad, StatsStore
<1>5. CASE StatsStep
  BY <1>5 DEF StatsStep, RunnerLock, RunnerRead, RunnerReset, RunnerPrint
<1> QED
  BY <1>1, <1>2, <1>3, <1>4, <1>5 DEF Next

LEMMA StepFlags == FlagTypes /\ [Next]_vars => FlagTypes'
BY DEF FlagTypes, threads, counters, setup, vars, Goto, SendTo, StatTo, Acquire, Release, Next,
       MainStep, StartLibsvc, JoinPeers, StartStats, Initialize, Test, SelectNothing, Recv,
       CountLock, CountAdd, Deliver, LeavePeers, StopSending, DestroyLibsvc, WaitForStats,
       Return, Sigint, SendStep, SendTest, Pop, Callback, StatsLock, StatsLoad, StatsStore,
       StatsStep, RunnerLock, RunnerRead, RunnerReset, RunnerPrint

LEMMA StepPeers == PeerTypes /\ [Next]_vars => PeerTypes'
BY DEF PeerTypes, threads, counters, setup, vars, Goto, SendTo, StatTo, Next,
       MainStep, StartLibsvc, JoinPeers, StartStats, Initialize, Test, SelectNothing, Recv,
       CountLock, CountAdd, Deliver, LeavePeers, StopSending, DestroyLibsvc, WaitForStats,
       Return, Sigint, SendStep, SendTest, Pop, Callback, StatsLock, StatsLoad, StatsStore,
       StatsStep, RunnerLock, RunnerRead, RunnerReset, RunnerPrint

LEMMA StepCounters == CounterTypes /\ [Next]_vars => CounterTypes'
<1> SUFFICES ASSUME CounterTypes, [Next]_vars PROVE CounterTypes'
  OBVIOUS
<1> USE P2PAssumption DEF CounterTypes, threads, counters, setup, vars, Goto, SendTo, StatTo
<1>1. CASE UNCHANGED vars
  BY <1>1
<1>2. CASE MainStep
  <2>1. CASE Recv \/ CountAdd
    BY <2>1 DEF Recv, CountAdd
  <2>2. CASE UNCHANGED <<counters, sent, got>>
    BY <2>2
  <2> QED
    BY <1>2, <2>1, <2>2 DEF MainStep, StartLibsvc, JoinPeers, StartStats, Initialize, Test,
                  SelectNothing, CountLock, Deliver, LeavePeers, StopSending, DestroyLibsvc,
                  WaitForStats, Return
<1>3. CASE Sigint
  BY <1>3 DEF Sigint
<1>4. CASE SendStep
  <2>1. CASE Callback \/ StatsLoad \/ StatsStore
    BY <2>1 DEF Callback, StatsLoad, StatsStore
  <2>2. CASE SendTest \/ Pop \/ StatsLock
    BY <2>2 DEF SendTest, Pop, StatsLock
  <2> QED
    BY <1>4, <2>1, <2>2 DEF SendStep
<1>5. CASE StatsStep
  <2>1. CASE RunnerLock \/ RunnerRead
    BY <2>1 DEF RunnerLock, RunnerRead
  <2>2. CASE RunnerReset
    BY <2>2 DEF RunnerReset
  <2>3. CASE RunnerPrint
    BY <2>3 DEF RunnerPrint
  <2> QED
    BY <1>5, <2>1, <2>2, <2>3 DEF StatsStep
<1> QED
  BY <1>1, <1>2, <1>3, <1>4, <1>5 DEF Next

LEMMA StepType == TypeOK /\ [Next]_vars => TypeOK'
<1>1. (PlaceTypes /\ FlagTypes /\ PeerTypes /\ CounterTypes)' => TypeOK'
  BY DEF TypeOK, PlaceTypes, FlagTypes, PeerTypes, CounterTypes
<1> QED
  BY <1>1, TypeParts, StepPlaces, StepFlags, StepPeers, StepCounters

\* The threads, the lock and the counters keep their types (main.c:60-131,
\* 189-264).
THEOREM TypeCorrect == Spec => []TypeOK
BY InitType, StepType, PTL DEF Spec

-----------------------------------------------------------------------------
(* Who holds the lock, and what exists when                                *)

Holders ==
  /\ lock = "main"  <=> pc = "add"
  /\ lock = "send"  <=> send \in {"load", "store"}
  /\ lock = "stats" <=> stats \in {"read", "reset"}

Lifetimes ==
  /\ lock = "none"      <=> pc \in {"start", "join", "create"}
  /\ lock = "destroyed" <=> pc \in {"return", "end"}
  /\ stats = "off"      <=> pc \in {"start", "join", "create"}
  /\ pc \in {"return", "end"} => stats = "ended"
  /\ initialized        <=> pc \notin {"start", "join", "create", "initialize"}
  /\ send \in {"lock", "load", "store"} => initialized
  /\ pc \in {"select", "test", "count", "add", "deliver", "initialize", "create"}
       => members = Peers
  /\ libsvc = "off"       <=> pc = "start"
  /\ libsvc = "stopping"  => pc = "close"
  /\ libsvc = "destroyed" <=> pc \in {"wait", "return", "end"}

\* once something has failed no thread goes on
Control ==
  /\ ~fault => Holders /\ Lifetimes
  /\ lock = "free" => /\ pc # "add"
                      /\ send \notin {"load", "store"}
                      /\ stats \notin {"read", "reset"}

LEMMA InitControl == Init => Control /\ UsedWhileThere
BY DEF Init, Control, UsedWhileThere, Holders, Lifetimes

LEMMA StepControl ==
  TypeOK /\ Control /\ UsedWhileThere /\ [Next]_vars => Control' /\ UsedWhileThere'
<1> SUFFICES ASSUME TypeOK, Control, UsedWhileThere, [Next]_vars
             PROVE  Control' /\ UsedWhileThere'
  OBVIOUS
<1> USE DEF TypeOK, Control, UsedWhileThere, Holders, Lifetimes, threads, counters, setup,
            vars, Goto, SendTo, StatTo, Acquire, Release
<1>1. CASE UNCHANGED vars
  BY <1>1
<1>2. CASE ~fault /\ MainStep
  <2>1. CASE StartLibsvc \/ JoinPeers
    BY <1>2, <2>1 DEF StartLibsvc, JoinPeers
  <2>2. CASE StartStats \/ Initialize
    BY <1>2, <2>2 DEF StartStats, Initialize
  <2>3. CASE Test \/ Recv
    BY <1>2, <2>3 DEF Test, Recv
  <2>4. CASE SelectNothing
    BY <1>2, <2>4 DEF SelectNothing
  <2>5. CASE CountLock \/ CountAdd
    BY <1>2, <2>5 DEF CountLock, CountAdd
  <2>6. CASE Deliver
    BY <1>2, <2>6 DEF Deliver, Listeners
  <2>7. CASE LeavePeers \/ StopSending \/ DestroyLibsvc
    BY <1>2, <2>7 DEF LeavePeers, StopSending, DestroyLibsvc
  <2>8. CASE WaitForStats \/ Return
    BY <1>2, <2>8 DEF WaitForStats, Return
  <2> QED
    BY <1>2, <2>1, <2>2, <2>3, <2>4, <2>5, <2>6, <2>7, <2>8 DEF MainStep
<1>3. CASE ~fault /\ Sigint
  BY <1>3 DEF Sigint
<1>4. CASE ~fault /\ SendStep
  <2>1. CASE SendTest \/ Pop
    BY <1>4, <2>1 DEF SendTest, Pop
  <2>2. CASE Callback
    BY <1>4, <2>2 DEF Callback
  <2>3. CASE StatsLock \/ StatsLoad \/ StatsStore
    BY <1>4, <2>3 DEF StatsLock, StatsLoad, StatsStore
  <2> QED
    BY <1>4, <2>1, <2>2, <2>3 DEF SendStep
<1>5. CASE ~fault /\ StatsStep
  BY <1>5 DEF StatsStep, RunnerLock, RunnerRead, RunnerReset, RunnerPrint
<1> QED
  BY <1>1, <1>2, <1>3, <1>4, <1>5 DEF Next

\* main.c:102,189-205,252-261: no thread uses the lock, a peer or libsvc's
\* memory outside its lifetime, but for the send thread that svc_close has
\* detached.
THEOREM UseCorrect == Spec => []UsedWhileThere
<1>1. Init => TypeOK /\ Control /\ UsedWhileThere
  BY InitType, InitControl
<1>2. TypeOK /\ Control /\ UsedWhileThere /\ [Next]_vars
        => (TypeOK /\ Control /\ UsedWhileThere)'
  BY StepType, StepControl
<1> QED
  BY <1>1, <1>2, PTL DEF Spec

-----------------------------------------------------------------------------
(* The statistics                                                          *)

\* what is on its way into the counters
Uncounted == [up   |-> IF send \in {"lock", "load", "store"} THEN NPeers ELSE 0,
              down |-> IF pc \in {"count", "add"} THEN 1 ELSE 0]

\* what is on its way to the output
Unprinted == IF stats = "print" THEN local ELSE [up |-> 0, down |-> 0]

\* StatsExact whoever holds the lock: between reading a counter and writing it
\* nobody else changes it
Ledger ==
  /\ sent = reported.up + Unprinted.up + up_packets + Uncounted.up
  /\ got = reported.down + Unprinted.down + down_packets + Uncounted.down
  /\ ~fault => /\ send = "store" => loaded = up_packets
               /\ stats = "reset" => local = [up |-> up_packets, down |-> down_packets]

LEMMA InitLedger == Init => Ledger
BY DEF Init, Ledger, Uncounted, Unprinted

LEMMA StepLedger == TypeOK /\ Control /\ Ledger /\ [Next]_vars => Ledger'
<1> SUFFICES ASSUME TypeOK, Control, Ledger, [Next]_vars
             PROVE  Ledger'
  OBVIOUS
<1> USE P2PAssumption DEF TypeOK, Ledger, Uncounted, Unprinted, threads, counters, setup, vars,
                          Goto, SendTo, StatTo, Acquire, Release
<1>1. CASE UNCHANGED vars
  BY <1>1
<1>2. CASE ~fault /\ MainStep
  <2>1. CASE StartLibsvc \/ JoinPeers \/ StartStats \/ Initialize
    BY <1>2, <2>1 DEF StartLibsvc, JoinPeers, StartStats, Initialize, Control, Lifetimes
  <2>2. CASE Test \/ SelectNothing \/ LeavePeers \/ StopSending \/ DestroyLibsvc
    BY <1>2, <2>2 DEF Test, SelectNothing, LeavePeers, StopSending, DestroyLibsvc
  <2>3. CASE Recv \/ CountLock
    BY <1>2, <2>3 DEF Recv, CountLock
  <2>4. CASE CountAdd
    BY <1>2, <2>4 DEF CountAdd, Control, Holders
  <2>5. CASE Deliver \/ WaitForStats \/ Return
    BY <1>2, <2>5 DEF Deliver, WaitForStats, Return
  <2> QED
    BY <1>2, <2>1, <2>2, <2>3, <2>4, <2>5 DEF MainStep
<1>3. CASE ~fault /\ Sigint
  BY <1>3 DEF Sigint
<1>4. CASE ~fault /\ SendStep
  <2>1. CASE SendTest \/ Pop \/ Callback
    BY <1>4, <2>1 DEF SendTest, Pop, Callback
  <2>2. CASE StatsLock \/ StatsLoad
    BY <1>4, <2>2 DEF StatsLock, StatsLoad
  <2>3. CASE StatsStore
    BY <1>4, <2>3 DEF StatsStore, Control, Holders
  <2> QED
    BY <1>4, <2>1, <2>2, <2>3 DEF SendStep
<1>5. CASE ~fault /\ StatsStep
  <2>1. CASE RunnerLock \/ RunnerRead
    BY <1>5, <2>1 DEF RunnerLock, RunnerRead
  <2>2. CASE RunnerReset
    BY <1>5, <2>2 DEF RunnerReset, Control, Holders
  <2>3. CASE RunnerPrint
    BY <1>5, <2>3 DEF RunnerPrint
  <2> QED
    BY <1>5, <2>1, <2>2, <2>3 DEF StatsStep
<1> QED
  BY <1>1, <1>2, <1>3, <1>4, <1>5 DEF Next

LEMMA LedgerExact == TypeOK /\ Control /\ Ledger => StatsExact
BY DEF Control, Ledger, Uncounted, Unprinted, StatsExact, TypeOK

\* main.c:75-84,117-121,227-231: whenever the lock is free each datagram sent
\* or received is accounted for once, however the three threads interleave.
THEOREM StatsCorrect == Spec => []StatsExact
<1> DEFINE Inv == TypeOK /\ Control /\ UsedWhileThere /\ Ledger
<1>1. Init => Inv
  BY InitType, InitControl, InitLedger
<1>2. Inv /\ [Next]_vars => Inv'
  BY StepType, StepControl, StepLedger
<1>3. Inv => StatsExact
  BY LedgerExact
<1> QED
  BY <1>1, <1>2, <1>3, PTL DEF Spec
=============================================================================
