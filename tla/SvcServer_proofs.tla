-------------------------- MODULE SvcServer_proofs --------------------------
(***************************************************************************)
(* Proofs about SvcServer, for any number of connections, slots and values:*)
(* the table of peers and the connections that point into it, the replicas *)
(* that the clients build from the commands, and the faults.  What a client*)
(* makes of a packet is a fold of Apply over its commands, and what it will*)
(* make of all the packets on their way a fold of Received: Replay has the *)
(* facts about folds, once for each.                                       *)
(***************************************************************************)
EXTENDS SvcServer, FiniteSetTheorems, SequenceTheorems, TLAPS

-----------------------------------------------------------------------------
(* The table                                                               *)

NoTable  == peers_size = 0 /\ peers = <<>>
HasTable == peers_size = Block /\ peers \in [Ids -> Slot]

\* Before the first connection there is no table.  The count is right even
\* after a slot has been freed on behalf of the wrong connection.
TableInv == (NoTable \/ HasTable) /\ peers_count = Cardinality(InUse)

ConnInv ==
  /\ conn \in [Conns -> {"off", "arriving", "up", "gone", "closing"}]
  /\ data \in [Conns -> Ids \cup {None}]
  /\ \A c \in Conns : conn[c] \in {"up", "gone", "closing"} => data[c] \in DOMAIN peers

\* SlotsOwned without the count; nothing is closing as nothing was rejected
Pointers ==
  /\ \A c \in Conns : conn[c] # "closing"
  /\ \A c \in Conns : conn[c] \in {"up", "gone"} =>
       data[c] \in InUse /\ peers[data[c]].peer = c
  /\ \A i \in InUse :
       peers[i].peer \in Conns /\ conn[peers[i].peer] \in {"up", "gone"}
         /\ data[peers[i].peer] = i

Inv ==
  /\ TableInv /\ ConnInv
  /\ fault \in BOOLEAN /\ upset \in BOOLEAN
  /\ upset \/ Pointers

LEMMA FreeSlotType == FreeSlot \in Slot
BY DEF FreeSlot, Slot

LEMMA EmptyTable == 0 \in Ids /\ DOMAIN <<>> = {}
BY ServerAssumption DEF Ids

LEMMA InUseFinite ==
  ASSUME TableInv
  PROVE  InUse \subseteq Ids /\ IsFiniteSet(InUse) /\ peers_count \in Nat
<1>1. InUse \subseteq Ids
  BY DEF TableInv, NoTable, HasTable, InUse
<1>2. IsFiniteSet(Ids)
  BY FS_Interval, ServerAssumption DEF Ids
<1> QED
  BY <1>1, <1>2, FS_Subset, FS_CardinalityType DEF TableInv

\* the table a new peer is put into
LEMMA AllocatedTable ==
  ASSUME TableInv
  PROVE  /\ Allocated \in [Ids -> Slot]
         /\ \A i \in Ids : i \in InUse <=> ~Allocated[i].empty
<1>1. CASE NoTable
  <2>1. Allocated = [i \in Ids |-> FreeSlot] /\ InUse = {}
    BY <1>1 DEF NoTable, Allocated, InUse
  <2>2. \A i \in Ids : Allocated[i].empty
    BY <2>1 DEF FreeSlot
  <2> QED
    BY <2>1, <2>2, FreeSlotType
<1>2. CASE HasTable
  <2>1. Allocated = peers /\ DOMAIN peers = Ids
    BY <1>2, ServerAssumption DEF HasTable, Allocated
  <2> QED
    BY <1>2, <2>1 DEF HasTable, InUse
<1> QED
  BY <1>1, <1>2 DEF TableInv

\* get_new_peer answers an empty slot unless the table is full
LEMMA NewPeerEmpty ==
  ASSUME TableInv, NEW id \in NewPeer, \E j \in NewPeer : j \in DOMAIN Allocated
  PROVE  id \in Ids /\ id \notin InUse
<1>1. CASE NoTable
  BY <1>1, EmptyTable DEF NoTable, NewPeer, InUse
<1>2. CASE HasTable
  <2>1. peers_size # 0 /\ Allocated = peers /\ DOMAIN peers = Ids /\ Block \notin Ids
    BY <1>2, ServerAssumption DEF HasTable, Allocated, Ids
  <2>2. peers_count # peers_size
    BY <1>2, <2>1 DEF NewPeer, HasTable
  <2> QED
    BY <2>1, <2>2 DEF NewPeer, InUse
<1> QED
  BY <1>1, <1>2 DEF TableInv

-----------------------------------------------------------------------------
(* Steps                                                                   *)

\* the table with the new peer in it
LEMMA AcceptTable ==
  ASSUME Inv, NEW c \in Conns, NEW id \in Ids, id \notin InUse, Accept(c, id)
  PROVE  /\ peers' \in [Ids -> Slot] /\ peers_size' = Block
         /\ peers'[id] = [empty |-> FALSE, peer |-> c, value |-> Default, dirty |-> TRUE]
         /\ InUse \subseteq Ids /\ InUse' = InUse \cup {id}
         /\ \A i \in InUse : i # id /\ peers'[i] = peers[i]
<1> DEFINE new == [empty |-> FALSE, peer |-> c, value |-> Default, dirty |-> TRUE]
<1>1. /\ peers' = [Allocated EXCEPT ![id] = new]
      /\ peers_size' = IF peers_size = 0 THEN Block ELSE peers_size
  BY DEF Accept
<1>2. /\ Allocated \in [Ids -> Slot]
      /\ \A i \in Ids : i \in InUse <=> ~Allocated[i].empty
  BY AllocatedTable DEF Inv
<1>3. new \in Slot /\ new.empty = FALSE
  BY ServerAssumption DEF Slot
<1>4. InUse \subseteq Ids
  BY InUseFinite DEF Inv
<1>5. \A i \in InUse : Allocated[i] = peers[i]
  BY EmptyTable, ServerAssumption DEF Inv, TableInv, NoTable, HasTable, Allocated, InUse
<1> HIDE DEF new
<1>6. /\ peers' \in [Ids -> Slot] /\ peers'[id] = new
      /\ \A i \in Ids \ {id} : peers'[i] = Allocated[i]
  BY <1>1, <1>2, <1>3
<1>7. peers_size' = Block
  BY <1>1 DEF Inv, TableInv, NoTable, HasTable
<1>8. InUse' = InUse \cup {id}
  <2>1. InUse' = {i \in Ids : ~peers'[i].empty}
    BY <1>6 DEF InUse
  <2>2. ~peers'[id].empty
    BY <1>3, <1>6
  <2>3. \A i \in Ids \ {id} : ~peers'[i].empty <=> i \in InUse
    BY <1>2, <1>6
  <2> QED
    BY <1>4, <2>1, <2>2, <2>3
<1>9. \A i \in InUse : i # id /\ peers'[i] = peers[i]
  BY <1>4, <1>5, <1>6
<1> QED
  BY <1>4, <1>6, <1>7, <1>8, <1>9 DEF new

LEMMA StepAccept ==
  ASSUME Inv, NEW c \in Conns, NEW id \in Ids, id \notin InUse, conn[c] = "arriving",
         Accept(c, id)
  PROVE  Inv'
<1>1. /\ peers_count' = peers_count + 1
      /\ conn' = [conn EXCEPT ![c] = "up"]
      /\ data' = [data EXCEPT ![c] = id]
      /\ fault' = fault
      /\ \E lost \in BOOLEAN : upset' = (upset \/ lost)
  BY DEF Accept
<1>2. /\ peers' \in [Ids -> Slot] /\ peers_size' = Block
      /\ peers'[id] = [empty |-> FALSE, peer |-> c, value |-> Default, dirty |-> TRUE]
      /\ InUse \subseteq Ids /\ InUse' = InUse \cup {id}
      /\ \A i \in InUse : i # id /\ peers'[i] = peers[i]
  BY AcceptTable
<1>3. peers'[id].peer = c
  BY <1>2
<1>4. /\ peers' \in [Ids -> Slot] /\ peers_size' = Block
      /\ InUse \subseteq Ids
      /\ \A i \in InUse : i # id /\ peers'[i] = peers[i]
  BY <1>2
<1>5. InUse' = InUse \cup {id}
  BY <1>2
<1>6. TableInv'
  <2>1. Cardinality(InUse') = Cardinality(InUse) + 1
    BY <1>5, InUseFinite, FS_AddElement DEF Inv
  <2> QED
    BY <1>1, <1>4, <2>1 DEF Inv, TableInv, HasTable
<1>7. ConnInv'
  <2>1. DOMAIN peers' = Ids /\ DOMAIN peers \subseteq Ids
    BY <1>4, EmptyTable DEF Inv, TableInv, NoTable, HasTable
  <2> QED
    BY <1>1, <2>1 DEF Inv, ConnInv
<1>8. ASSUME Pointers PROVE Pointers'
  <2>1. \A i \in InUse : i # id /\ peers'[i].peer = peers[i].peer /\ peers[i].peer # c
    BY <1>4, <1>8 DEF Pointers
  <2>2. \A b \in Conns \ {c} : conn'[b] = conn[b] /\ data'[b] = data[b]
    BY <1>1 DEF Inv, ConnInv
  <2>3. conn'[c] = "up" /\ data'[c] = id
    BY <1>1 DEF Inv, ConnInv
  <2>4. \A b \in Conns : conn'[b] # "closing"
    BY <1>8, <2>2, <2>3 DEF Pointers
  <2>5. \A b \in Conns : conn'[b] \in {"up", "gone"} =>
          data'[b] \in InUse' /\ peers'[data'[b]].peer = b
    BY <1>3, <1>4, <1>5, <1>8, <2>1, <2>2, <2>3 DEF Pointers
  <2>6. \A i \in InUse' :
          peers'[i].peer \in Conns /\ conn'[peers'[i].peer] \in {"up", "gone"}
            /\ data'[peers'[i].peer] = i
    BY <1>3, <1>4, <1>5, <1>8, <2>1, <2>2, <2>3 DEF Pointers
  <2> QED
    BY <2>4, <2>5, <2>6 DEF Pointers
<1> QED
  BY <1>1, <1>6, <1>7, <1>8 DEF Inv

LEMMA StepReject ==
  ASSUME Inv, NEW c \in Conns, NEW id \in Ids, Reject(c, id)
  PROVE  Inv'
<1>1. peers' \in [Ids -> Slot] /\ peers_size' = Block /\ DOMAIN peers \subseteq Ids
  BY AllocatedTable, EmptyTable DEF Reject, Inv, TableInv, NoTable, HasTable
<1>2. InUse' = InUse
  BY <1>1, AllocatedTable, InUseFinite DEF Reject, Inv, InUse
<1>3. TableInv'
  BY <1>1, <1>2 DEF Reject, Inv, TableInv, HasTable
<1>4. ConnInv'
  BY <1>1 DEF Reject, Inv, ConnInv
<1> QED
  BY <1>3, <1>4 DEF Reject, Inv

LEMMA StepDisconnect ==
  ASSUME Inv, NEW c \in Conns, HandleDisconnect(c)
  PROVE  Inv'
<1> DEFINE id == data[c]
<1>1. id \in DOMAIN peers /\ conn[c] \in {"gone", "closing"}
  BY DEF HandleDisconnect, Inv, ConnInv
<1>2. HasTable /\ DOMAIN peers = Ids
  BY <1>1, EmptyTable DEF Inv, TableInv, NoTable, HasTable
<1>3. CASE peers[id].empty
  BY <1>3 DEF HandleDisconnect, Crash, table, Inv, TableInv, NoTable, HasTable, ConnInv, Pointers,
              InUse
<1>4. CASE ~peers[id].empty
  <2>1. /\ peers' = [peers EXCEPT ![id] = FreeSlot]
        /\ peers_count' = peers_count - 1 /\ peers_size' = peers_size
        /\ conn' = [conn EXCEPT ![c] = "off"]
        /\ UNCHANGED <<data, fault, upset>>
    BY <1>4 DEF HandleDisconnect, FreePeer
  <2>2. id \in InUse
    BY <1>1, <1>4 DEF InUse
  <2>3. /\ peers' \in [Ids -> Slot] /\ peers'[id] = FreeSlot
        /\ \A i \in Ids \ {id} : peers'[i] = peers[i]
    BY <1>1, <1>2, <2>1, FreeSlotType DEF HasTable
  <2>4. InUse' = InUse \ {id}
    <3>1. InUse' = {i \in Ids : ~peers'[i].empty} /\ InUse = {i \in Ids : ~peers[i].empty}
      BY <1>2, <2>3 DEF InUse
    <3>2. FreeSlot.empty
      BY DEF FreeSlot
    <3> QED
      BY <2>3, <3>1, <3>2
  <2>5. TableInv'
    <3>1. Cardinality(InUse') = Cardinality(InUse) - 1
      BY <2>2, <2>4, InUseFinite, FS_RemoveElement DEF Inv
    <3> QED
      BY <1>2, <2>1, <2>3, <3>1 DEF Inv, TableInv, HasTable
  <2>6. ConnInv'
    BY <1>2, <2>1, <2>3 DEF Inv, ConnInv
  <2>7. ASSUME Pointers PROVE Pointers'
    <3>1. \A b \in Conns \ {c} : conn'[b] = conn[b] /\ data'[b] = data[b]
      BY <2>1 DEF Inv, ConnInv
    <3>2. conn'[c] = "off" /\ peers[id].peer = c
      BY <1>1, <2>1, <2>7 DEF Inv, ConnInv, Pointers
    <3>3. \A i \in InUse' : i \in InUse /\ i # id /\ peers'[i] = peers[i] /\ peers[i].peer # c
      BY <1>2, <2>3, <2>4, <2>7 DEF Pointers, InUse
    <3>4. \A b \in Conns \ {c} : conn[b] \in {"up", "gone"} => data[b] \in InUse'
      BY <2>4, <2>7, <3>2 DEF Pointers
    <3> QED
      BY <2>7, <3>1, <3>2, <3>3, <3>4 DEF Pointers
  <2> QED
    BY <2>1, <2>5, <2>6, <2>7 DEF Inv
<1> QED
  BY <1>3, <1>4

\* new data in slots, and nothing else
LEMMA StepSlots ==
  ASSUME Inv, UNCHANGED <<peers_size, peers_count, conn, data, fault, upset>>,
         DOMAIN peers' = DOMAIN peers, peers \in [Ids -> Slot] => peers' \in [Ids -> Slot],
         peers = <<>> => peers' = <<>>,
         \A i \in DOMAIN peers : peers'[i].empty = peers[i].empty /\ peers'[i].peer = peers[i].peer
  PROVE  Inv'
<1>1. InUse' = InUse
  BY DEF InUse
<1>2. TableInv'
  BY <1>1 DEF Inv, TableInv, NoTable, HasTable
<1>3. ConnInv'
  BY DEF Inv, ConnInv
<1>4. Pointers => Pointers'
  BY <1>1 DEF Pointers, InUse
<1> QED
  BY <1>2, <1>3, <1>4 DEF Inv

LEMMA StepPeerSet ==
  ASSUME Inv, NEW i \in Ids, NEW v \in Values, PeerSet(i, v)
  PROVE  Inv'
<1>1. i \in DOMAIN peers /\ HasTable
  BY EmptyTable DEF PeerSet, InUse, Inv, TableInv, NoTable
<1>2. peers' = [peers EXCEPT ![i] = [peers[i] EXCEPT !.value = v, !.dirty = TRUE]]
  BY <1>1 DEF PeerSet, HasTable, Slot
<1>3. [peers[i] EXCEPT !.value = v, !.dirty = TRUE] \in Slot
  BY <1>1 DEF HasTable, Slot
<1> QED
  BY <1>1, <1>2, <1>3, EmptyTable, StepSlots DEF PeerSet, HasTable, Slot

LEMMA StepSendModified ==
  ASSUME Inv, SendModified
  PROVE  Inv'
<1> DEFINE Dirty == {i \in InUse : peers[i].dirty}
<1>1. peers' = [i \in DOMAIN peers |->
                  IF i \in Dirty THEN [peers[i] EXCEPT !.dirty = FALSE] ELSE peers[i]]
  BY DEF SendModified
<1>2. UNCHANGED <<peers_size, peers_count, conn, data, fault, upset>>
  BY DEF SendModified
<1> HIDE DEF Dirty
<1>3. CASE NoTable
  BY <1>1, <1>2, <1>3, EmptyTable, StepSlots DEF NoTable
<1>4. CASE HasTable
  <2>1. DOMAIN peers = Ids /\ \A i \in Ids : [peers[i] EXCEPT !.dirty = FALSE] \in Slot
    BY <1>4 DEF HasTable, Slot
  <2>2. peers' \in [Ids -> Slot]
    BY <1>1, <1>4, <2>1 DEF HasTable
  <2>3. \A i \in Ids : peers'[i].empty = peers[i].empty /\ peers'[i].peer = peers[i].peer
    BY <1>1, <1>4, <2>1 DEF HasTable, Slot
  <2> QED
    BY <1>1, <1>2, <2>1, <2>2, <2>3, EmptyTable, StepSlots
<1> QED
  BY <1>3, <1>4 DEF Inv, TableInv

LEMMA StepInv == Inv /\ [Next]_vars => Inv'
<1> SUFFICES ASSUME Inv, [Next]_vars PROVE Inv'
  OBVIOUS
<1> USE DEF vars, table
<1>1. CASE UNCHANGED <<table, conn, data, upset>> /\ fault' \in BOOLEAN
  <2>1. InUse' = InUse
    BY <1>1 DEF InUse
  <2> QED
    BY <1>1, <2>1 DEF Inv, TableInv, NoTable, HasTable, ConnInv, Pointers
<1>2. ASSUME NEW c \in Conns, HandleConnect(c) PROVE Inv'
  <2>1. CASE \E id \in NewPeer : id \in DOMAIN Allocated
    <3>1. PICK id \in NewPeer : Accept(c, id) \/ Reject(c, id)
      BY <1>2, <2>1 DEF HandleConnect
    <3>2. id \in Ids /\ id \notin InUse
      BY <2>1, NewPeerEmpty DEF Inv
    <3> QED
      BY <1>2, <3>1, <3>2, StepAccept, StepReject DEF HandleConnect
  <2>2. CASE Crash
    BY <1>1, <2>2 DEF Crash
  <2> QED
    BY <1>2, <2>1, <2>2 DEF HandleConnect
<1>3. ASSUME NEW c \in Conns, ClientConnects(c) PROVE Inv'
  <2>1. ConnInv' /\ (Pointers => Pointers')
    BY <1>3 DEF ClientConnects, Inv, ConnInv, Pointers, InUse
  <2>2. TableInv'
    BY <1>3 DEF ClientConnects, Inv, TableInv, NoTable, HasTable, InUse
  <2> QED
    BY <1>3, <2>1, <2>2 DEF ClientConnects, Inv
<1>4. ASSUME NEW c \in Conns, ClientLeaves(c) PROVE Inv'
  <2>1. ConnInv' /\ (Pointers => Pointers')
    BY <1>4 DEF ClientLeaves, Inv, ConnInv, Pointers, InUse
  <2>2. TableInv'
    BY <1>4 DEF ClientLeaves, Inv, TableInv, NoTable, HasTable, InUse
  <2> QED
    BY <1>4, <2>1, <2>2 DEF ClientLeaves, Inv
<1>5. ASSUME NEW c \in Conns, ClientReceives(c) PROVE Inv'
  BY <1>1, <1>5 DEF ClientReceives
<1>6. CASE UNCHANGED vars
  BY <1>1, <1>6 DEF Inv
<1> QED
  BY <1>2, <1>3, <1>4, <1>5, <1>6, StepDisconnect, StepPeerSet, StepSendModified DEF Next

LEMMA InitInv == Init => Inv
<1> SUFFICES ASSUME Init PROVE Inv
  OBVIOUS
<1>1. InUse = {} /\ DOMAIN peers = {}
  BY EmptyTable DEF Init, InUse
<1> QED
  BY <1>1, FS_EmptySet DEF Init, Inv, TableInv, NoTable, ConnInv, Pointers

LEMMA Invariant == Spec => []Inv
BY InitInv, StepInv, PTL DEF Spec

\* The table, the connections and their pointers keep their types, also after
\* a rejected connection (main.c:221-269).
THEOREM TypeCorrect == Spec => []TypeOK
<1>1. Inv => TypeOK
  <2> SUFFICES ASSUME Inv PROVE TypeOK
    OBVIOUS
  <2>1. DOMAIN peers \in {{}, Ids} /\ \A i \in DOMAIN peers : peers[i] \in Slot
    BY EmptyTable DEF Inv, TableInv, NoTable, HasTable
  <2> QED
    BY <2>1, InUseFinite DEF Inv, TableInv, NoTable, HasTable, ConnInv, TypeOK
<1> QED
  BY <1>1, Invariant, PTL

\* main.c:221-269,552-554,658: after any number of connects and disconnects
\* without a rejection the slots in use and the accepted connections point at
\* each other, and peers_count counts them.
THEOREM SlotsCorrect == Spec => []SlotsOwned
<1>1. Inv => SlotsOwned
  BY DEF Inv, TableInv, Pointers, SlotsOwned
<1> QED
  BY <1>1, Invariant, PTL
-----------------------------------------------------------------------------
(* Replicas: what a client makes of a packet, and of several               *)

Msgs  == INSTANCE Replay WITH Op <- Apply
Packs == INSTANCE Replay WITH Op <- Received

FinalOf(v, packets) == FoldLeft(Received, v, packets)

LEMMA ReceivedIsReplayed == \A v, p : Received(v, p) = Msgs!Replayed(v, p)
BY DEF Received, FoldLeft, MapThenFoldSet, Max,
       Msgs!Replayed, Msgs!FoldLeft, Msgs!MapThenFoldSet, Msgs!Max

LEMMA FinalIsReplayed == \A v, w : FinalOf(v, w) = Packs!Replayed(v, w)
BY DEF FinalOf, FoldLeft, MapThenFoldSet, Max,
       Packs!Replayed, Packs!FoldLeft, Packs!MapThenFoldSet, Packs!Max

LEMMA FlattenIs == \A seqs : FlattenSeq(seqs) = Msgs!FlattenSeq(seqs)
BY DEF FlattenSeq, Msgs!FlattenSeq

Known == Values \cup {Absent, Unset}

Views == [my_id : Ids \cup {None}, known : [Ids -> Known]]

Msg ==
  {Yare(i) : i \in Ids} \cup {Padd(i) : i \in Ids} \cup {Pdel(i) : i \in Ids}
    \cup {Pset(i, v) : i \in Ids, v \in Values \cup {Unset}} \cup {Garbage}

\* a view and a command that it can take, a view and a packet that it can take
CanTake == {p \in Views \X Msg : Uses(p[1], p[2])}
Fits == {p \in Views \X Seq(Msg) : Msgs!Legal(CanTake, p[1], p[2])}

\* what a connected client must know in the end
Knows(c, v) ==
  /\ v.my_id = data[c]
  /\ \A i \in InUse : /\ v.known[i] # Absent
                      /\ peers[i].dirty \/ v.known[i] = peers[i].value

\* Every packet on its way fits the view that it will meet.
Replica(c) ==
  /\ conn[c] # "up" => view[c] = Blank
  /\ conn[c] = "up" => Packs!Legal(Fits, view[c], wire[c]) /\ Knows(c, Final(c))

ReplicaInv == \A c \in Conns : Replica(c)

WireType == wire \in [Conns -> Seq(Seq(Msg))] /\ view \in [Conns -> Views]

\* The server stops at the connection for which it has no slot.
FaultInv == fault => peers_count = Block /\ \E c \in Conns : conn[c] = "arriving"

ServerInv == Inv /\ WireType /\ (upset \/ (ReplicaInv /\ FaultInv))

LEMMA MsgCases ==
  ASSUME NEW m \in Msg
  PROVE  \/ m.op = "YARE" /\ m.id \in Ids
         \/ m.op = "PADD" /\ m.id \in Ids
         \/ m.op = "PSET" /\ m.id \in Ids /\ m.value \in Values \cup {Unset}
         \/ m.op = "PDEL" /\ m.newline = FALSE
         \/ m.op = "GARBAGE"
BY DEF Msg, Yare, Padd, Pset, Pdel, Garbage

LEMMA MsgType ==
  /\ Garbage \in Msg
  /\ \A i \in Ids : Yare(i) \in Msg /\ Padd(i) \in Msg /\ Pdel(i) \in Msg
  /\ \A i \in Ids, v \in Values \cup {Unset} : Pset(i, v) \in Msg
BY DEF Msg

LEMMA ViewIs ==
  ASSUME NEW v \in Views
  PROVE  /\ v = [my_id |-> v.my_id, known |-> v.known]
         /\ v.my_id \in Ids \cup {None} /\ v.known \in [Ids -> Known]
BY DEF Views

\* a view that learns x of slot i
Learned(v, i, x) == [v EXCEPT !.known[i] = x]

LEMMA LearnedIs ==
  \A v \in Views : \A i, x :
    Learned(v, i, x) = [my_id |-> v.my_id, known |-> [v.known EXCEPT ![i] = x]]
BY ViewIs DEF Learned

LEMMA BlankView == Blank \in Views
BY DEF Blank, Views, Known

LEMMA ApplyType ==
  ASSUME NEW v \in Views, NEW m \in Msg
  PROVE  Apply(v, m) \in Views
<1> USE ViewIs
<1>1. CASE m.op = "YARE"
  <2>1. Apply(v, m) = [v EXCEPT !.my_id = m.id] /\ m.id \in Ids
    BY <1>1, MsgCases DEF Apply
  <2> QED
    BY <2>1 DEF Views
<1>2. CASE m.op = "PADD"
  <2>1. Apply(v, m) = [v EXCEPT !.known = [v.known EXCEPT ![m.id] = Unset]]
    BY <1>2 DEF Apply
  <2>2. [v.known EXCEPT ![m.id] = Unset] \in [Ids -> Known]
    BY DEF Known
  <2> QED
    BY <2>1, <2>2 DEF Views
<1>3. CASE m.op = "PSET"
  <2>1. Apply(v, m) = [v EXCEPT !.known = [v.known EXCEPT ![m.id] = m.value]]
    BY <1>3 DEF Apply
  <2>2. [v.known EXCEPT ![m.id] = m.value] \in [Ids -> Known]
    BY <1>3, MsgCases DEF Known
  <2> QED
    BY <2>1, <2>2 DEF Views
<1>4. CASE m.op = "PDEL" \/ m.op = "GARBAGE"
  BY <1>4, MsgCases DEF Apply
<1> QED
  BY <1>1, <1>2, <1>3, <1>4, MsgCases

LEMMA ReceivedType == \A v \in Views, p \in Seq(Msg) : Received(v, p) \in Views
<1>1. \A v \in Views, m \in Msg : Apply(v, m) \in Views
  BY ApplyType
<1> QED
  BY <1>1, Msgs!ReplayPreserves, ReceivedIsReplayed

LEMMA FinalType == \A v \in Views, w \in Seq(Seq(Msg)) : FinalOf(v, w) \in Views
BY ReceivedType, Packs!ReplayPreserves, FinalIsReplayed

\* A packet that fits joins the others.
LEMMA PacketJoins ==
  ASSUME NEW v \in Views, NEW w \in Seq(Seq(Msg)), NEW p \in Seq(Msg),
         Packs!Legal(Fits, v, w), <<FinalOf(v, w), p>> \in Fits
  PROVE  /\ Packs!Legal(Fits, v, Append(w, p))
         /\ FinalOf(v, Append(w, p)) = Received(FinalOf(v, w), p)
<1>1. Packs!Replayed(v, Append(w, p)) = Received(Packs!Replayed(v, w), p)
  BY Packs!ReplayAppend
<1>2. Packs!Legal(Fits, v, Append(w, p)) <=>
        Packs!Legal(Fits, v, w) /\ <<Packs!Replayed(v, w), p>> \in Fits
  BY Packs!LegalAppend
<1> QED
  BY <1>1, <1>2, FinalIsReplayed

-----------------------------------------------------------------------------
(* Packets that say something about each slot                              *)

\* no command, and the commands of a broadcast and of a snapshot
LEMMA NothingApplied ==
  ASSUME NEW v \in Views
  PROVE  Msgs!Legal(CanTake, v, <<>>) /\ Received(v, <<>>) = v
BY Msgs!ReplayNothing, Msgs!LegalNothing, ReceivedIsReplayed

LEMMA PsetApplied ==
  ASSUME NEW v \in Views, NEW i \in Ids, NEW x \in Values \cup {Unset}, v.known[i] # Absent
  PROVE  /\ Msgs!Legal(CanTake, v, <<Pset(i, x)>>)
         /\ Received(v, <<Pset(i, x)>>) = Learned(v, i, x)
<1>1. Pset(i, x) \in Msg /\ Uses(v, Pset(i, x))
  BY MsgType DEF Uses, Pset
<1>2. Apply(v, Pset(i, x)) = Learned(v, i, x)
  BY DEF Apply, Pset, Learned
<1>3. <<v, Pset(i, x)>> \in CanTake
  BY <1>1 DEF CanTake
<1> QED
  BY <1>2, <1>3, Msgs!ReplayOne, Msgs!LegalOne, ReceivedIsReplayed

LEMMA PaddApplied ==
  ASSUME NEW v \in Views, NEW i \in Ids
  PROVE  /\ Msgs!Legal(CanTake, v, <<Padd(i)>>)
         /\ Received(v, <<Padd(i)>>) = Learned(v, i, Unset)
<1>1. Padd(i) \in Msg /\ Uses(v, Padd(i))
  BY MsgType DEF Uses, Padd
<1>2. Apply(v, Padd(i)) = Learned(v, i, Unset)
  BY DEF Apply, Padd, Learned
<1>3. <<v, Padd(i)>> \in CanTake
  BY <1>1 DEF CanTake
<1> QED
  BY <1>2, <1>3, Msgs!ReplayOne, Msgs!LegalOne, ReceivedIsReplayed

LEMMA PaddPsetApplied ==
  ASSUME NEW v \in Views, NEW i \in Ids, NEW x \in Values \cup {Unset}
  PROVE  /\ Msgs!Legal(CanTake, v, <<Padd(i), Pset(i, x)>>)
         /\ Received(v, <<Padd(i), Pset(i, x)>>) = Learned(v, i, x)
<1> DEFINE u == Learned(v, i, Unset)
           s == <<Padd(i)>>
           t == <<Pset(i, x)>>
<1>1. s \in Seq(Msg) /\ t \in Seq(Msg) /\ <<Padd(i), Pset(i, x)>> = s \o t
  BY MsgType
<1>2. u = Apply(v, Padd(i))
  BY DEF Apply, Padd, Learned
<1>3. u \in Views
  BY <1>2, ApplyType, MsgType
<1>4. u = [my_id |-> v.my_id, known |-> [v.known EXCEPT ![i] = Unset]]
  BY LearnedIs
<1>5. Received(v, s) = u /\ Msgs!Legal(CanTake, v, s)
  BY PaddApplied
<1> HIDE DEF u
<1>6. u.known[i] # Absent
  BY <1>4, ViewIs, ServerAssumption
<1>7. Received(u, t) = Learned(u, i, x) /\ Msgs!Legal(CanTake, u, t)
  BY <1>3, <1>6, PsetApplied
<1>8. Learned(u, i, x) = Learned(v, i, x)
  <2>1. [[v.known EXCEPT ![i] = Unset] EXCEPT ![i] = x] = [v.known EXCEPT ![i] = x]
    BY ViewIs
  <2>2. u.my_id = v.my_id /\ u.known = [v.known EXCEPT ![i] = Unset]
    BY <1>4
  <2> QED
    BY <1>3, <2>1, <2>2, LearnedIs
<1> HIDE DEF s, t
<1>9. /\ Msgs!Replayed(v, s \o t) = Msgs!Replayed(Msgs!Replayed(v, s), t)
      /\ Msgs!Legal(CanTake, v, s \o t) <=>
           Msgs!Legal(CanTake, v, s) /\ Msgs!Legal(CanTake, Msgs!Replayed(v, s), t)
  BY <1>1, Msgs!ReplayConcat, Msgs!LegalConcat
<1> QED
  BY <1>1, <1>5, <1>7, <1>8, <1>9, ReceivedIsReplayed

LEMMA SlotOrderType ==
  ASSUME NEW cmds \in [Ids -> Seq(Msg)]
  PROVE  InSlotOrder(cmds) \in Seq(Msg)
<1> DEFINE seqs == [k \in 1 .. Block |-> cmds[k - 1]]
<1>1. Block \in Nat /\ \A k \in 1 .. Block : k - 1 \in Ids
  BY ServerAssumption DEF Ids
<1>2. seqs \in Seq(Seq(Msg)) /\ Len(seqs) \in 0 .. Len(seqs)
  BY <1>1
<1>3. InSlotOrder(cmds) = Msgs!FlattenSeq(seqs)
  BY FlattenIs DEF InSlotOrder
<1> HIDE DEF seqs
<1>4. PICK flat : Msgs!IsFlat(flat, Msg, seqs) /\ Msgs!FlattenSeq(seqs) = flat[Len(seqs)]
  BY <1>2, Msgs!FlattenIsFlat
<1> QED
  BY <1>2, <1>3, <1>4 DEF Msgs!IsFlat

\* A packet in slot order changes what is known of each slot as its commands do.
LEMMA PacketApplied ==
  ASSUME NEW v \in Views, NEW want \in [Ids -> Known], NEW cmds \in [Ids -> Seq(Msg)],
         \A w \in Views, i \in Ids : w.known[i] = v.known[i] =>
           /\ Msgs!Legal(CanTake, w, cmds[i])
           /\ Received(w, cmds[i]) = Learned(w, i, want[i])
  PROVE  /\ InSlotOrder(cmds) \in Seq(Msg)
         /\ Msgs!Legal(CanTake, v, InSlotOrder(cmds))
         /\ Received(v, InSlotOrder(cmds)) = [v EXCEPT !.known = want]
<1> DEFINE seqs == [k \in 1 .. Block |-> cmds[k - 1]]
           Mix(n) == [my_id |-> v.my_id,
                      known |-> [i \in Ids |-> IF i < n THEN want[i] ELSE v.known[i]]]
<1>1. Block \in Nat /\ \A k \in 1 .. Block : k - 1 \in Ids
  BY ServerAssumption DEF Ids
<1>2. seqs \in Seq(Seq(Msg)) /\ Len(seqs) = Block /\ \A k \in 1 .. Block : seqs[k] = cmds[k - 1]
  BY <1>1
<1>3. InSlotOrder(cmds) = Msgs!FlattenSeq(seqs)
  BY FlattenIs DEF InSlotOrder
<1> HIDE DEF seqs
<1>4. InSlotOrder(cmds) \in Seq(Msg)
  BY SlotOrderType
<1>5. PICK run :
        /\ run[0] = v
        /\ \A k \in 1 .. Len(seqs) : run[k] = Msgs!Replayed(run[k - 1], seqs[k])
        /\ Msgs!Replayed(v, Msgs!FlattenSeq(seqs)) = run[Len(seqs)]
        /\ (\A k \in 1 .. Len(seqs) : Msgs!Legal(CanTake, run[k - 1], seqs[k]))
             => Msgs!Legal(CanTake, v, Msgs!FlattenSeq(seqs))
  BY <1>2, Msgs!ReplayFlatten
<1>6. /\ run[0] = v
      /\ \A k \in 1 .. Block : run[k] = Received(run[k - 1], cmds[k - 1])
      /\ Received(v, InSlotOrder(cmds)) = run[Block]
      /\ (\A k \in 1 .. Block : Msgs!Legal(CanTake, run[k - 1], cmds[k - 1]))
           => Msgs!Legal(CanTake, v, InSlotOrder(cmds))
  BY <1>2, <1>3, <1>5, ReceivedIsReplayed
<1>7. ASSUME NEW n \in 0 .. Block
      PROVE  Mix(n) \in Views /\ Mix(n).known \in [Ids -> Known]
             /\ \A i \in Ids : Mix(n).known[i] = IF i < n THEN want[i] ELSE v.known[i]
  BY ViewIs DEF Views
<1> DEFINE T == {n \in 0 .. Block : run[n] = Mix(n)}
<1>8. 0 \in T
  <2>1. \A i \in Ids : ~(i < 0)
    BY DEF Ids
  <2>2. Mix(0) = [my_id |-> v.my_id, known |-> [i \in Ids |-> v.known[i]]]
    BY <2>1
  <2>3. Mix(0) = v
    BY <2>2, ViewIs
  <2> QED
    BY <1>1, <1>6, <2>3
<1>9. ASSUME NEW n \in 0 .. Block - 1, n \in T
      PROVE  /\ n + 1 \in T
             /\ Msgs!Legal(CanTake, run[n], cmds[n])
  <2>1. n \in Ids /\ n + 1 \in 0 .. Block /\ n + 1 \in 1 .. Block /\ (n + 1) - 1 = n
    BY <1>1 DEF Ids
  <2>2. n \in 0 .. Block /\ run[n] = Mix(n) /\ Mix(n).known[n] = v.known[n]
    BY <1>7, <1>9, <2>1
  <2>3. /\ Msgs!Legal(CanTake, Mix(n), cmds[n])
        /\ Received(Mix(n), cmds[n]) = Learned(Mix(n), n, want[n])
    BY <1>7, <2>1, <2>2
  <2>4. run[n + 1] = Received(Mix(n), cmds[n])
    BY <1>6, <2>1, <2>2
  <2> DEFINE a == [i \in Ids |-> IF i < n THEN want[i] ELSE v.known[i]]
             b == [i \in Ids |-> IF i < n + 1 THEN want[i] ELSE v.known[i]]
  <2>5. [a EXCEPT ![n] = want[n]] = b
    <3>1. \A i \in Ids : i < n + 1 <=> i < n \/ i = n
      BY <2>1 DEF Ids
    <3> QED
      BY <2>1, <3>1
  <2>6. Learned(Mix(n), n, want[n]) = Mix(n + 1)
    <3>1. Mix(n).my_id = v.my_id /\ Mix(n).known = a /\ Mix(n) \in Views
      BY <1>7, <2>2
    <3>2. Mix(n + 1) = [my_id |-> v.my_id, known |-> b]
      OBVIOUS
    <3> HIDE DEF Mix, a, b
    <3>3. Learned(Mix(n), n, want[n])
            = [my_id |-> Mix(n).my_id, known |-> [Mix(n).known EXCEPT ![n] = want[n]]]
      BY <3>1, LearnedIs
    <3> QED
      BY <2>5, <3>1, <3>2, <3>3
  <2> QED
    BY <2>1, <2>2, <2>3, <2>4, <2>6
<1> HIDE DEF T
<1>10. 0 .. Block \subseteq T
  BY <1>1, <1>8, <1>9, Msgs!InductionUpTo
<1>11. \A k \in 1 .. Block : Msgs!Legal(CanTake, run[k - 1], cmds[k - 1])
  BY <1>1, <1>9, <1>10
<1>12. run[Block] = [v EXCEPT !.known = want]
  <2>1. Block \in 0 .. Block /\ \A i \in Ids : i < Block
    BY <1>1 DEF Ids
  <2>2. run[Block] = Mix(Block)
    BY <1>10, <2>1 DEF T
  <2>3. Mix(Block) = [my_id |-> v.my_id, known |-> [i \in Ids |-> want[i]]]
    BY <2>1
  <2>4. Mix(Block) = [v EXCEPT !.known = want]
    BY <2>3, ViewIs
  <2> QED
    BY <2>2, <2>4
<1> QED
  BY <1>4, <1>6, <1>11, <1>12

-----------------------------------------------------------------------------
(* Steps of the replicas                                                   *)

LEMMA SendIs ==
  ASSUME WireType, NEW S, NEW p \in Seq(Msg)
  PROVE  /\ Send(S, p) \in [Conns -> Seq(Seq(Msg))]
         /\ \A b \in Conns : Send(S, p)[b] \in {wire[b], Append(wire[b], p)}
         /\ \A b \in Conns : conn[b] = "up" /\ p # <<>> /\ (\E i \in S : peers[i].peer = b)
              => Send(S, p)[b] = Append(wire[b], p)
<1> DEFINE to == {b \in Conns : conn[b] = "up" /\ \E i \in S : peers[i].peer = b}
<1>1. Send(S, p) = [b \in Conns |-> IF b \in to /\ p # <<>> THEN Append(wire[b], p) ELSE wire[b]]
  BY DEF Send
<1>2. \A b \in Conns : wire[b] \in Seq(Seq(Msg)) /\ Append(wire[b], p) \in Seq(Seq(Msg))
  BY AppendProperties DEF WireType
<1>3. \A b \in Conns : conn[b] = "up" /\ (\E i \in S : peers[i].peer = b) => b \in to
  OBVIOUS
<1> HIDE DEF to
<1> QED
  BY <1>1, <1>2, <1>3

\* A connected client that is sent one more packet that it can take.
LEMMA ClientSent ==
  ASSUME ReplicaInv, WireType, NEW c \in Conns, conn[c] = "up", view'[c] = view[c],
         NEW p \in Seq(Msg), Msgs!Legal(CanTake, Final(c), p),
         \/ wire'[c] = wire[c] /\ Received(Final(c), p) = Final(c)
         \/ wire'[c] = Append(wire[c], p)
  PROVE  /\ Packs!Legal(Fits, view'[c], wire'[c])
         /\ Final(c)' = Received(Final(c), p)
<1>1. view[c] \in Views /\ wire[c] \in Seq(Seq(Msg)) /\ Packs!Legal(Fits, view[c], wire[c])
  BY DEF ReplicaInv, Replica, WireType
<1>2. Final(c) = FinalOf(view[c], wire[c]) /\ Final(c)' = FinalOf(view'[c], wire'[c])
  BY DEF Final, FinalOf
<1>3. Final(c) \in Views
  BY <1>1, <1>2, FinalType
<1>4. <<Final(c), p>> \in Fits
  BY <1>3 DEF Fits
<1>5. /\ Packs!Legal(Fits, view[c], Append(wire[c], p))
      /\ FinalOf(view[c], Append(wire[c], p)) = Received(Final(c), p)
  BY <1>1, <1>2, <1>4, PacketJoins
<1> QED
  BY <1>1, <1>2, <1>5

LEMMA FinalView ==
  ASSUME WireType, NEW c \in Conns
  PROVE  Final(c) \in Views
<1>1. Final(c) = FinalOf(view[c], wire[c])
  BY DEF Final, FinalOf
<1> QED
  BY <1>1, FinalType DEF WireType

\* The owner of a slot in use and the slot of a connected client.
LEMMA OwnSlot ==
  ASSUME Pointers, NEW c \in Conns, conn[c] = "up"
  PROVE  data[c] \in InUse /\ peers[data[c]].peer = c
BY DEF Pointers

\* the snapshot for a new client
LEMMA SnapshotApplied ==
  ASSUME NEW tab \in [Ids -> Slot], NEW v \in Views
  PROVE  /\ Snapshot(tab) \in Seq(Msg)
         /\ Msgs!Legal(CanTake, v, Snapshot(tab))
         /\ Received(v, Snapshot(tab)).my_id = v.my_id
         /\ \A i \in Ids : ~tab[i].empty =>
              Received(v, Snapshot(tab)).known[i] = tab[i].value
<1> DEFINE cmds == [i \in Ids |-> IF tab[i].empty THEN <<>>
                                    ELSE <<Padd(i), Pset(i, tab[i].value)>>]
           want == [i \in Ids |-> IF tab[i].empty THEN v.known[i] ELSE tab[i].value]
<1>1. \A i \in Ids : tab[i].value \in Values \cup {Unset}
  BY DEF Slot
<1>2. cmds \in [Ids -> Seq(Msg)]
  <2>1. ASSUME NEW i \in Ids
        PROVE  <<Padd(i), Pset(i, tab[i].value)>> \in Seq(Msg)
    <3>1. Padd(i) \in Msg /\ Pset(i, tab[i].value) \in Msg
      BY <1>1, MsgType
    <3> QED
      BY <3>1
  <2>2. <<>> \in Seq(Msg)
    OBVIOUS
  <2> QED
    BY <2>1, <2>2
<1>3. want \in [Ids -> Known]
  BY <1>1, ViewIs DEF Known
<1>4. ASSUME NEW w \in Views, NEW i \in Ids, w.known[i] = v.known[i]
      PROVE  Msgs!Legal(CanTake, w, cmds[i]) /\ Received(w, cmds[i]) = Learned(w, i, want[i])
  <2>1. CASE tab[i].empty
    <3>1. cmds[i] = <<>> /\ want[i] = w.known[i]
      BY <1>4, <2>1
    <3>2. Learned(w, i, w.known[i]) = w
      <4>1. [w.known EXCEPT ![i] = w.known[i]] = w.known
        BY ViewIs
      <4> QED
        BY <4>1, LearnedIs, ViewIs
    <3> QED
      BY <3>1, <3>2, NothingApplied
  <2>2. CASE ~tab[i].empty
    <3>1. cmds[i] = <<Padd(i), Pset(i, tab[i].value)>> /\ want[i] = tab[i].value
      BY <2>2
    <3> QED
      BY <1>1, <3>1, PaddPsetApplied
  <2> QED
    BY <2>1, <2>2
<1>5. Snapshot(tab) = InSlotOrder(cmds)
  BY DEF Snapshot
<1>6. \A i \in Ids : ~tab[i].empty => want[i] = tab[i].value
  OBVIOUS
<1> HIDE DEF cmds, want
<1>7. /\ InSlotOrder(cmds) \in Seq(Msg)
      /\ Msgs!Legal(CanTake, v, InSlotOrder(cmds))
      /\ Received(v, InSlotOrder(cmds)) = [v EXCEPT !.known = want]
  BY <1>2, <1>3, <1>4, PacketApplied
<1> QED
  BY <1>5, <1>6, <1>7, ViewIs

\* the changed data for clients that know of the slots it is about
Broadcast(D) == [i \in Ids |-> IF i \in D THEN <<Pset(i, peers[i].value)>> ELSE <<>>]

LEMMA BroadcastType ==
  ASSUME NEW D \in SUBSET Ids, \A i \in D : peers[i].value \in Values \cup {Unset}
  PROVE  Broadcast(D) \in [Ids -> Seq(Msg)] /\ InSlotOrder(Broadcast(D)) \in Seq(Msg)
<1>1. ASSUME NEW i \in D
      PROVE  <<Pset(i, peers[i].value)>> \in Seq(Msg)
  <2>1. Pset(i, peers[i].value) \in Msg
    BY MsgType
  <2> QED
    BY <2>1
<1>2. <<>> \in Seq(Msg)
  OBVIOUS
<1>3. Broadcast(D) \in [Ids -> Seq(Msg)]
  BY <1>1, <1>2 DEF Broadcast
<1> QED
  BY <1>3, SlotOrderType

LEMMA BroadcastApplied ==
  ASSUME NEW v \in Views, NEW D \in SUBSET Ids,
         \A i \in D : peers[i].value \in Values \cup {Unset} /\ v.known[i] # Absent
  PROVE  /\ Msgs!Legal(CanTake, v, InSlotOrder(Broadcast(D)))
         /\ Received(v, InSlotOrder(Broadcast(D))) \in Views
         /\ Received(v, InSlotOrder(Broadcast(D))).my_id = v.my_id
         /\ \A i \in Ids : Received(v, InSlotOrder(Broadcast(D))).known[i]
                             = IF i \in D THEN peers[i].value ELSE v.known[i]
<1> DEFINE cmds == Broadcast(D)
           want == [i \in Ids |-> IF i \in D THEN peers[i].value ELSE v.known[i]]
<1>1. cmds \in [Ids -> Seq(Msg)]
  BY BroadcastType
<1>2. \A i \in Ids : cmds[i] = IF i \in D THEN <<Pset(i, peers[i].value)>> ELSE <<>>
  BY DEF Broadcast
<1> HIDE DEF cmds
<1>3. want \in [Ids -> Known]
  BY ViewIs DEF Known
<1>4. ASSUME NEW w \in Views, NEW i \in Ids, w.known[i] = v.known[i]
      PROVE  Msgs!Legal(CanTake, w, cmds[i]) /\ Received(w, cmds[i]) = Learned(w, i, want[i])
  <2>1. CASE i \notin D
    <3>1. cmds[i] = <<>> /\ want[i] = w.known[i]
      BY <1>4, <1>2, <2>1
    <3>2. Learned(w, i, w.known[i]) = w
      <4>1. [w.known EXCEPT ![i] = w.known[i]] = w.known
        BY ViewIs
      <4> QED
        BY <4>1, LearnedIs, ViewIs
    <3> QED
      BY <3>1, <3>2, NothingApplied
  <2>2. CASE i \in D
    <3>1. cmds[i] = <<Pset(i, peers[i].value)>> /\ want[i] = peers[i].value
      BY <1>2, <2>2
    <3>2. w.known[i] # Absent /\ peers[i].value \in Values \cup {Unset}
      BY <1>4, <2>2
    <3> QED
      BY <3>1, <3>2, PsetApplied
  <2> QED
    BY <2>1, <2>2
<1>5. \A i \in Ids : want[i] = IF i \in D THEN peers[i].value ELSE v.known[i]
  OBVIOUS
<1> HIDE DEF want
<1>6. /\ Msgs!Legal(CanTake, v, InSlotOrder(cmds))
      /\ Received(v, InSlotOrder(cmds)) = [v EXCEPT !.known = want]
  BY <1>1, <1>3, <1>4, PacketApplied
<1>7. Received(v, InSlotOrder(cmds)) \in Views
  BY <1>1, SlotOrderType, ReceivedType
<1> QED
  BY <1>5, <1>6, <1>7, ViewIs DEF cmds

\* A client keeps what it must know while the slots in use stay as they are,
\* or wait for the next broadcast.
LEMMA ReplicaKept ==
  ASSUME NEW c \in Conns, Replica(c), UNCHANGED <<conn[c], view[c], wire[c], data[c]>>,
         \A i \in InUse' : i \in InUse /\ (peers'[i].dirty \/ peers'[i] = peers[i])
  PROVE  Replica(c)'
<1>1. Final(c)' = Final(c)
  BY DEF Final
<1>2. CASE conn[c] # "up"
  BY <1>2 DEF Replica
<1>3. CASE conn[c] = "up"
  <2>1. Packs!Legal(Fits, view'[c], wire'[c])
    BY <1>3 DEF Replica
  <2>2. Knows(c, Final(c))'
    BY <1>1, <1>3 DEF Replica, Knows
  <2> QED
    BY <1>3, <2>1, <2>2 DEF Replica
<1> QED
  BY <1>2, <1>3

LEMMA DisconnectKeepsReplicas ==
  ASSUME Inv, WireType, ReplicaInv, NEW c \in Conns, HandleDisconnect(c), ~upset
  PROVE  WireType' /\ ReplicaInv' /\ fault' = fault
<1> DEFINE id == data[c]
           p == <<Pdel(id)>>
<1>1. /\ conn[c] = "gone" /\ id \in InUse /\ id \in Ids
      /\ ~peers[id].empty
  <2>1. Pointers /\ InUse \subseteq Ids
    BY InUseFinite DEF Inv
  <2> QED
    BY <2>1 DEF Pointers, HandleDisconnect, InUse
<1>2. /\ wire' = Send(InUse \ {id}, p)
      /\ peers' = [peers EXCEPT ![id] = FreeSlot]
      /\ conn' = [conn EXCEPT ![c] = "off"]
      /\ UNCHANGED <<data, view, fault>>
  BY <1>1 DEF HandleDisconnect, FreePeer
<1>3. p \in Seq(Msg) /\ Pdel(id) \in Msg
  BY <1>1, MsgType
<1>4. WireType'
  BY <1>2, <1>3, SendIs DEF WireType
<1>5. \A i \in InUse' : i \in InUse /\ peers'[i] = peers[i]
  <2>1. FreeSlot.empty
    BY DEF FreeSlot
  <2> QED
    BY <1>2, <2>1 DEF InUse
<1>6. ASSUME NEW b \in Conns
      PROVE  Replica(b)'
  <2>1. CASE b = c
    BY <1>1, <1>2, <2>1 DEF ReplicaInv, Replica, Inv, ConnInv
  <2>2. CASE b # c /\ conn[b] # "up"
    BY <1>2, <2>2 DEF ReplicaInv, Replica, Inv, ConnInv
  <2>3. CASE b # c /\ conn[b] = "up"
    <3>1. Final(b) \in Views
      BY FinalView
    <3>2. Msgs!Legal(CanTake, Final(b), p) /\ Received(Final(b), p) = Final(b)
      <4>1. Apply(Final(b), Pdel(id)) = Final(b) /\ Uses(Final(b), Pdel(id))
        BY DEF Apply, Uses, Pdel
      <4>2. <<Final(b), Pdel(id)>> \in CanTake
        BY <1>3, <3>1, <4>1 DEF CanTake
      <4> QED
        BY <4>1, <4>2, Msgs!ReplayOne, Msgs!LegalOne, ReceivedIsReplayed
    <3>3. wire'[b] = wire[b] \/ wire'[b] = Append(wire[b], p)
      BY <1>2, <1>3, SendIs
    <3> HIDE DEF p
    <3>4. Packs!Legal(Fits, view'[b], wire'[b]) /\ Final(b)' = Final(b)
      BY <1>2, <1>3, <2>3, <3>2, <3>3, ClientSent
    <3>5. Knows(b, Final(b))'
      BY <1>2, <1>5, <2>3, <3>4 DEF ReplicaInv, Replica, Knows
    <3>6. conn'[b] = "up"
      BY <1>2, <2>3 DEF Inv, ConnInv
    <3> QED
      BY <3>4, <3>5, <3>6 DEF Replica
  <2> QED
    BY <2>1, <2>2, <2>3
<1> QED
  BY <1>2, <1>4, <1>6 DEF ReplicaInv

LEMMA PeerSetKeepsReplicas ==
  ASSUME Inv, WireType, ReplicaInv, NEW i \in Ids, NEW v \in Values, PeerSet(i, v)
  PROVE  WireType' /\ ReplicaInv' /\ fault' = fault
<1>1. UNCHANGED <<conn, data, wire, view, fault>>
  BY DEF PeerSet
<1>2. i \in DOMAIN peers /\ HasTable
  BY EmptyTable DEF PeerSet, InUse, Inv, TableInv, NoTable
<1>3. peers' = [peers EXCEPT ![i] = [peers[i] EXCEPT !.value = v, !.dirty = TRUE]]
  BY <1>2 DEF PeerSet, HasTable, Slot
<1>4. peers'[i].dirty /\ \A j \in DOMAIN peers : j # i => peers'[j] = peers[j]
  BY <1>2, <1>3 DEF HasTable, Slot
<1>5. \A j \in InUse' : j \in InUse /\ (peers'[j].dirty \/ peers'[j] = peers[j])
  BY <1>3, <1>4 DEF InUse, PeerSet
<1>6. WireType'
  BY <1>1 DEF WireType
<1>7. \A c \in Conns : Replica(c)'
  BY <1>1, <1>5, ReplicaKept DEF ReplicaInv
<1> QED
  BY <1>1, <1>6, <1>7 DEF ReplicaInv

LEMMA SendModifiedKeepsReplicas ==
  ASSUME Inv, WireType, ReplicaInv, SendModified, ~upset
  PROVE  WireType' /\ ReplicaInv' /\ fault' = fault
<1> DEFINE D == {i \in InUse : peers[i].dirty}
           p == InSlotOrder(Broadcast(D))
<1>1. /\ wire' = Send(InUse, p)
      /\ peers' = [i \in DOMAIN peers |->
                     IF i \in D THEN [peers[i] EXCEPT !.dirty = FALSE] ELSE peers[i]]
      /\ UNCHANGED <<conn, data, view, fault>>
  BY DEF SendModified, Broadcast
<1>2. InUse \subseteq Ids /\ \A i \in InUse : peers[i] \in Slot
  <2>1. InUse \subseteq Ids
    BY InUseFinite DEF Inv
  <2>2. \A i \in InUse : peers[i] \in Slot
    BY EmptyTable DEF Inv, TableInv, NoTable, HasTable, InUse
  <2> QED
    BY <2>1, <2>2
<1>3. D \in SUBSET Ids /\ \A i \in D : i \in InUse /\ peers[i].value \in Values \cup {Unset}
  BY <1>2 DEF Slot
<1>4. p \in Seq(Msg)
  BY <1>3, BroadcastType
<1>5. WireType'
  BY <1>1, <1>4, SendIs DEF WireType
<1>6. ASSUME NEW i \in InUse'
      PROVE  i \in InUse /\ (peers'[i] = peers[i] \/ i \in D) /\ peers'[i].value = peers[i].value
  <2>1. i \in DOMAIN peers /\ ~peers'[i].empty
    BY <1>1, <1>6 DEF InUse
  <2>2. CASE i \in D
    <3>1. peers'[i] = [peers[i] EXCEPT !.dirty = FALSE] /\ i \in InUse
      BY <1>1, <2>1, <2>2
    <3>2. peers[i] \in Slot
      BY <1>2, <3>1
    <3> QED
      BY <2>2, <3>1, <3>2 DEF Slot
  <2>3. CASE i \notin D
    <3>1. peers'[i] = peers[i]
      BY <1>1, <2>1, <2>3
    <3> QED
      BY <2>1, <3>1 DEF InUse
  <2> QED
    BY <2>2, <2>3
<1>7. \A i \in InUse : peers[i].dirty => i \in D
  OBVIOUS
<1> HIDE DEF D, p
<1>8. ASSUME NEW c \in Conns, conn[c] = "up"
      PROVE  Replica(c)'
  <2>1. Final(c) \in Views /\ \A i \in InUse : Final(c).known[i] # Absent
    BY <1>8, FinalView DEF ReplicaInv, Replica, Knows
  <2>2. /\ Msgs!Legal(CanTake, Final(c), p)
        /\ Received(Final(c), p) \in Views
        /\ Received(Final(c), p).my_id = Final(c).my_id
        /\ \A i \in Ids : Received(Final(c), p).known[i]
                            = IF i \in D THEN peers[i].value ELSE Final(c).known[i]
    BY <1>3, <2>1, BroadcastApplied DEF p
  <2>3. \/ wire'[c] = wire[c] /\ Received(Final(c), p) = Final(c)
        \/ wire'[c] = Append(wire[c], p)
    <3>1. CASE p = <<>>
      <4>1. wire'[c] = wire[c] \/ wire'[c] = Append(wire[c], p)
        BY <1>1, <1>4, SendIs
      <4> QED
        BY <2>1, <3>1, <4>1, NothingApplied
    <3>2. CASE p # <<>>
      <4>1. data[c] \in InUse /\ peers[data[c]].peer = c
        BY <1>8, OwnSlot DEF Inv
      <4> QED
        BY <1>1, <1>4, <1>8, <3>2, <4>1, SendIs
    <3> QED
      BY <3>1, <3>2
  <2>4. Packs!Legal(Fits, view'[c], wire'[c]) /\ Final(c)' = Received(Final(c), p)
    BY <1>1, <1>4, <1>8, <2>2, <2>3, ClientSent
  <2>5. Knows(c, Final(c))'
    <3>1. Final(c)'.my_id = data'[c]
      BY <1>1, <1>8, <2>2, <2>4 DEF ReplicaInv, Replica, Knows
    <3>2. ASSUME NEW i \in InUse'
          PROVE  /\ Final(c)'.known[i] # Absent
                 /\ peers'[i].dirty \/ Final(c)'.known[i] = peers'[i].value
      <4>1. i \in InUse /\ i \in Ids /\ (peers'[i] = peers[i] \/ i \in D)
            /\ peers'[i].value = peers[i].value
        BY <1>2, <1>6
      <4>2. CASE i \in D
        <5>1. Final(c)'.known[i] = peers[i].value /\ peers[i].value # Absent
          BY <1>3, <2>2, <2>4, <4>1, <4>2, ServerAssumption
        <5> QED
          BY <4>1, <5>1
      <4>3. CASE i \notin D
        <5>1. /\ Final(c)'.known[i] = Final(c).known[i] /\ peers'[i] = peers[i]
              /\ Final(c).known[i] # Absent /\ ~peers[i].dirty
          BY <1>7, <2>1, <2>2, <2>4, <4>1, <4>3
        <5>2. Final(c).known[i] = peers[i].value
          BY <1>8, <4>1, <5>1 DEF ReplicaInv, Replica, Knows
        <5> QED
          BY <5>1, <5>2
      <4> QED
        BY <4>2, <4>3
    <3> QED
      BY <3>1, <3>2 DEF Knows
  <2> QED
    BY <1>1, <1>8, <2>4, <2>5 DEF Replica
<1>9. ASSUME NEW c \in Conns, conn[c] # "up"
      PROVE  Replica(c)'
  BY <1>1, <1>9 DEF ReplicaInv, Replica
<1> QED
  BY <1>1, <1>5, <1>8, <1>9 DEF ReplicaInv

LEMMA AcceptKeepsReplicas ==
  ASSUME Inv, WireType, ReplicaInv, NEW c \in Conns, NEW id \in Ids, id \notin InUse,
         conn[c] = "arriving", Accept(c, id), ~upset'
  PROVE  ReplicaInv' /\ fault' = fault
<1> DEFINE p == <<Padd(id)>>
           y == <<Yare(id)>>
           snapshot == Snapshot(peers')
           welcome == y \o snapshot
<1>1. /\ conn' = [conn EXCEPT ![c] = "up"]
      /\ data' = [data EXCEPT ![c] = id]
      /\ UNCHANGED <<view, fault>>
      /\ ~upset
      /\ wire' = [Send(InUse, p) EXCEPT ![c] = <<welcome>>]
  BY DEF Accept
<1>2. /\ peers' \in [Ids -> Slot]
      /\ peers'[id] = [empty |-> FALSE, peer |-> c, value |-> Default, dirty |-> TRUE]
      /\ InUse \subseteq Ids /\ InUse' = InUse \cup {id}
      /\ \A i \in InUse : i # id /\ peers'[i] = peers[i]
  BY AcceptTable
<1>3. /\ peers' \in [Ids -> Slot]
      /\ peers'[id].dirty /\ ~peers'[id].empty
      /\ InUse \subseteq Ids
      /\ \A i \in InUse : i # id /\ peers'[i] = peers[i]
  BY <1>2
<1>4. InUse' = InUse \cup {id}
  BY <1>2
<1>5. p \in Seq(Msg) /\ y \in Seq(Msg) /\ p # <<>> /\ Yare(id) \in Msg
  BY MsgType
<1>6. \A i \in InUse' : i \in Ids /\ ~peers'[i].empty /\ peers'[i].value # Absent
  BY <1>3, <1>4, ServerAssumption DEF InUse, Slot
<1>7. conn'[c] = "up" /\ data'[c] = id /\ wire'[c] = <<welcome>> /\ view'[c] = Blank
  <2>1. Send(InUse, p) \in [Conns -> Seq(Seq(Msg))]
    BY <1>5, SendIs
  <2> QED
    BY <1>1, <2>1 DEF Inv, ConnInv, ReplicaInv, Replica
<1>8. \A b \in Conns \ {c} : /\ conn'[b] = conn[b] /\ data'[b] = data[b]
                             /\ wire'[b] = Send(InUse, p)[b] /\ view'[b] = view[b]
  <2>1. Send(InUse, p) \in [Conns -> Seq(Seq(Msg))]
    BY <1>5, SendIs
  <2> QED
    BY <1>1, <2>1 DEF Inv, ConnInv
<1>9. Replica(c)'
  <2> DEFINE u == Received(Blank, y)
  <2>1. /\ Apply(Blank, Yare(id)) = [Blank EXCEPT !.my_id = id]
        /\ Uses(Blank, Yare(id))
    BY DEF Apply, Uses, Yare
  <2>2. u = [Blank EXCEPT !.my_id = id] /\ Msgs!Legal(CanTake, Blank, y)
    <3>1. <<Blank, Yare(id)>> \in CanTake
      BY <1>5, <2>1, BlankView DEF CanTake
    <3> QED
      BY <2>1, <3>1, Msgs!ReplayOne, Msgs!LegalOne, ReceivedIsReplayed
  <2>3. u \in Views /\ u.my_id = id
    <3>1. u \in Views
      BY <1>5, BlankView, ReceivedType
    <3> QED
      BY <2>2, <3>1 DEF Blank
  <2> HIDE DEF u
  <2>4. /\ snapshot \in Seq(Msg)
        /\ Msgs!Legal(CanTake, u, snapshot)
        /\ Received(u, snapshot).my_id = id
        /\ \A i \in Ids : ~peers'[i].empty =>
             Received(u, snapshot).known[i] = peers'[i].value
    BY <1>3, <2>3, SnapshotApplied
  <2> HIDE DEF y, snapshot
  <2>5. welcome \in Seq(Msg)
    BY <1>5, <2>4, ConcatProperties
  <2>6. Msgs!Replayed(Blank, welcome) = Msgs!Replayed(Msgs!Replayed(Blank, y), snapshot)
    BY <1>5, <2>4, Msgs!ReplayConcat
  <2>7. Msgs!Legal(CanTake, Blank, welcome) <=>
          Msgs!Legal(CanTake, Blank, y)
            /\ Msgs!Legal(CanTake, Msgs!Replayed(Blank, y), snapshot)
    BY <1>5, <2>4, Msgs!LegalConcat
  <2> HIDE DEF welcome
  <2>8. Received(Blank, welcome) = Received(u, snapshot) /\ Msgs!Legal(CanTake, Blank, welcome)
    BY <2>2, <2>4, <2>6, <2>7, ReceivedIsReplayed DEF u
  <2>9. <<Blank, welcome>> \in Fits
    BY <2>5, <2>8, BlankView DEF Fits
  <2>10. Packs!Legal(Fits, Blank, <<welcome>>)
    BY <2>9, Packs!LegalOne
  <2>11. Final(c)' = Received(u, snapshot)
    <3>1. Final(c)' = FinalOf(view'[c], wire'[c])
      BY DEF Final, FinalOf
    <3>2. FinalOf(Blank, <<welcome>>) = Received(Blank, welcome)
      BY Packs!ReplayOne, FinalIsReplayed
    <3> QED
      BY <1>7, <2>8, <3>1, <3>2 DEF welcome
  <2>12. Knows(c, Final(c))'
    BY <1>6, <1>7, <2>4, <2>11 DEF Knows
  <2> QED
    BY <1>7, <2>10, <2>12 DEF Replica, welcome
<1>10. ASSUME NEW b \in Conns, b # c, conn[b] = "up"
      PROVE  Replica(b)'
  <2>1. Final(b) \in Views
    BY FinalView
  <2>2. Msgs!Legal(CanTake, Final(b), p) /\ Received(Final(b), p) = Learned(Final(b), id, Unset)
    BY <2>1, PaddApplied
  <2>3. wire'[b] = Append(wire[b], p)
    <3>1. data[b] \in InUse /\ peers[data[b]].peer = b
      BY <1>1, <1>10, OwnSlot DEF Inv
    <3>2. Send(InUse, p)[b] = Append(wire[b], p)
      BY <1>5, <1>10, <3>1, SendIs
    <3> QED
      BY <1>8, <1>10, <3>2
  <2>4. view'[b] = view[b] /\ conn'[b] = "up" /\ data'[b] = data[b]
    BY <1>8, <1>10
  <2> HIDE DEF p
  <2>5. Packs!Legal(Fits, view'[b], wire'[b]) /\ Final(b)' = Received(Final(b), p)
    BY <1>5, <1>10, <2>2, <2>3, <2>4, ClientSent
  <2>6. Final(b)' = [my_id |-> Final(b).my_id, known |-> [Final(b).known EXCEPT ![id] = Unset]]
    BY <2>1, <2>2, <2>5, LearnedIs
  <2>7. Knows(b, Final(b))
    BY <1>10 DEF ReplicaInv, Replica
  <2>8. /\ Final(b)'.my_id = Final(b).my_id /\ Final(b)'.known[id] = Unset
        /\ \A i \in Ids \ {id} : Final(b)'.known[i] = Final(b).known[i]
    BY <2>1, <2>6, ViewIs
  <2>9. Knows(b, Final(b))'
    <3>1. Final(b)'.my_id = data'[b]
      BY <2>4, <2>7, <2>8 DEF Knows
    <3>2. ASSUME NEW i \in InUse'
          PROVE  /\ Final(b)'.known[i] # Absent
                 /\ peers'[i].dirty \/ Final(b)'.known[i] = peers'[i].value
      <4>1. CASE i = id
        BY <1>3, <2>8, <4>1, ServerAssumption
      <4>2. CASE i # id
        <5>1. i \in InUse /\ i \in Ids \ {id} /\ peers'[i] = peers[i]
          BY <1>3, <1>4, <4>2
        <5> QED
          BY <2>7, <2>8, <5>1 DEF Knows
      <4> QED
        BY <4>1, <4>2
    <3> QED
      BY <3>1, <3>2 DEF Knows
  <2> QED
    BY <2>4, <2>5, <2>9 DEF Replica
<1>11. ASSUME NEW b \in Conns, b # c, conn[b] # "up"
       PROVE  Replica(b)'
  BY <1>8, <1>11 DEF ReplicaInv, Replica
<1> QED
  BY <1>1, <1>9, <1>10, <1>11 DEF ReplicaInv

LEMMA ReceivesKeepsReplicas ==
  ASSUME Inv, WireType, ReplicaInv, NEW c \in Conns, ClientReceives(c)
  PROVE  ReplicaInv' /\ fault' = FALSE
<1> DEFINE p == Head(wire[c])
<1>1. /\ conn[c] = "up" /\ wire[c] # <<>>
      /\ wire' = [wire EXCEPT ![c] = Tail(wire[c])]
      /\ view' = [view EXCEPT ![c] = Received(view[c], p)]
      /\ fault' = \E k \in DOMAIN p : ~Uses(Received(view[c], SubSeq(p, 1, k - 1)), p[k])
      /\ UNCHANGED <<table, conn, data>>
  BY DEF ClientReceives
<1>2. wire[c] \in Seq(Seq(Msg)) /\ view[c] \in Views /\ Packs!Legal(Fits, view[c], wire[c])
  BY <1>1 DEF WireType, ReplicaInv, Replica
<1>3. p \in Seq(Msg) /\ Tail(wire[c]) \in Seq(Seq(Msg))
  BY <1>1, <1>2, HeadTailProperties
<1>4. wire'[c] = Tail(wire[c]) /\ view'[c] = Received(view[c], p)
  BY <1>1 DEF WireType
<1>5. \A b \in Conns \ {c} : wire'[b] = wire[b] /\ view'[b] = view[b]
  BY <1>1 DEF WireType
<1>6. <<view[c], p>> \in Fits /\ Packs!Legal(Fits, Received(view[c], p), Tail(wire[c]))
  BY <1>1, <1>2, Packs!LegalHead
<1>7. fault' = FALSE
  <2>1. Msgs!Legal(CanTake, view[c], p)
    BY <1>6 DEF Fits
  <2> HIDE DEF p
  <2>2. DOMAIN p = 1 .. Len(p)
    BY <1>3
  <2>3. \A k \in DOMAIN p : <<Msgs!Replayed(view[c], SubSeq(p, 1, k - 1)), p[k]>> \in CanTake
    BY <2>1, <2>2 DEF Msgs!Legal
  <2>4. \A k \in DOMAIN p : Uses(Msgs!Replayed(view[c], SubSeq(p, 1, k - 1)), p[k])
    BY <2>3 DEF CanTake
  <2>5. \A k \in DOMAIN p : Uses(Received(view[c], SubSeq(p, 1, k - 1)), p[k])
    BY <2>4, ReceivedIsReplayed
  <2> QED
    BY <1>1, <2>5 DEF p
<1>8. Final(c)' = Final(c)
  <2>1. Final(c) = FinalOf(view[c], wire[c]) /\ Final(c)' = FinalOf(view'[c], wire'[c])
    BY DEF Final, FinalOf
  <2>2. Packs!Replayed(view[c], wire[c]) = Packs!Replayed(Received(view[c], p), Tail(wire[c]))
    BY <1>1, <1>2, Packs!ReplayHead
  <2> QED
    BY <1>4, <2>1, <2>2, FinalIsReplayed
<1>9. InUse' = InUse /\ peers' = peers
  BY <1>1 DEF table, InUse
<1>10. Replica(c)'
  <2>1. Knows(c, Final(c))'
    BY <1>1, <1>8, <1>9 DEF ReplicaInv, Replica, Knows
  <2> QED
    BY <1>1, <1>4, <1>6, <2>1 DEF Replica
<1>11. ASSUME NEW b \in Conns, b # c
       PROVE  Replica(b)'
  BY <1>1, <1>5, <1>9, <1>11, ReplicaKept DEF ReplicaInv
<1> QED
  BY <1>7, <1>10, <1>11 DEF ReplicaInv

\* a connection that begins, and one that ends on the client's side
LEMMA LinkKeepsReplicas ==
  ASSUME Inv, WireType, ReplicaInv, NEW c \in Conns, ClientConnects(c) \/ ClientLeaves(c)
  PROVE  ReplicaInv' /\ fault' = fault
<1>1. /\ conn'[c] # "up" /\ (conn[c] = "off" => view'[c] = view[c]) /\ (conn[c] # "off" => view'[c] = Blank)
      /\ \A b \in Conns \ {c} : UNCHANGED <<conn[b], view[b], wire[b], data[b]>>
      /\ UNCHANGED <<table, data, fault>>
  BY DEF ClientConnects, ClientLeaves, Inv, ConnInv, WireType
<1>2. InUse' = InUse /\ peers' = peers
  BY <1>1 DEF table, InUse
<1>3. Replica(c)'
  BY <1>1 DEF ReplicaInv, Replica
<1>4. ASSUME NEW b \in Conns, b # c
      PROVE  Replica(b)'
  BY <1>1, <1>2, <1>4, ReplicaKept DEF ReplicaInv
<1> QED
  BY <1>1, <1>3, <1>4 DEF ReplicaInv

-----------------------------------------------------------------------------
(* The one crash, and the invariant                                        *)

\* get_new_peer answers a slot of the table unless the table is full
LEMMA NewPeerExists ==
  ASSUME TableInv, peers_count # Block
  PROVE  \E id \in NewPeer : id \in DOMAIN Allocated
<1>1. CASE NoTable
  <2>1. NewPeer = {0} /\ Allocated = [i \in Ids |-> FreeSlot]
    BY <1>1 DEF NoTable, NewPeer, Allocated
  <2> QED
    BY <2>1, EmptyTable
<1>2. CASE HasTable
  <2>1. peers_size # 0 /\ Allocated = peers /\ DOMAIN peers = Ids /\ peers_count # peers_size
    BY <1>2, ServerAssumption DEF HasTable, Allocated
  <2> DEFINE S == Ids \ InUse
  <2>2. S \in SUBSET Nat
    BY DEF Ids
  <2>3. S # {}
    <3>1. Cardinality(Ids) = Block
      BY FS_Interval, ServerAssumption DEF Ids
    <3>2. InUse \subseteq Ids /\ Cardinality(InUse) # Block
      BY InUseFinite DEF TableInv
    <3> QED
      BY <3>1, <3>2
  <2> HIDE DEF S
  <2>4. PICK n \in S : \A m \in S : n <= m
    BY <2>2, <2>3, Msgs!Least
  <2>5. n \in Ids /\ peers[n].empty
    BY <2>1, <2>4 DEF S, InUse
  <2>6. ASSUME NEW j \in DOMAIN peers, j < n
        PROVE  ~peers[j].empty
    <3>1. n \in Nat /\ j \in Nat /\ j \in Ids /\ ~(n <= j)
      BY <2>1, <2>5, <2>6 DEF Ids
    <3>2. j \in InUse
      BY <2>4, <3>1 DEF S
    <3> QED
      BY <3>2 DEF InUse
  <2>7. n \in NewPeer
    BY <2>1, <2>5, <2>6 DEF NewPeer
  <2> QED
    BY <2>1, <2>5, <2>7
<1> QED
  BY <1>1, <1>2 DEF TableInv

LEMMA StepWire ==
  ASSUME Inv, WireType, [Next]_vars
  PROVE  WireType'
<1>1. CASE UNCHANGED <<wire, view>>
  BY <1>1 DEF WireType
<1>2. ASSUME NEW c \in Conns, HandleConnect(c)
      PROVE  WireType'
  <2>1. CASE Crash \/ \E id \in NewPeer : Reject(c, id)
    BY <1>1, <2>1 DEF Crash, Reject
  <2>2. ASSUME NEW id \in NewPeer, \E j \in NewPeer : j \in DOMAIN Allocated, Accept(c, id)
        PROVE  WireType'
    <3>1. id \in Ids /\ id \notin InUse
      BY <2>2, NewPeerEmpty DEF Inv
    <3>2. peers' \in [Ids -> Slot]
      <4>1. /\ peers' \in [Ids -> Slot] /\ peers_size' = Block
            /\ peers'[id] = [empty |-> FALSE, peer |-> c, value |-> Default, dirty |-> TRUE]
            /\ InUse \subseteq Ids /\ InUse' = InUse \cup {id}
            /\ \A i \in InUse : i # id /\ peers'[i] = peers[i]
        BY <2>2, <3>1, AcceptTable
      <4> QED
        BY <4>1
    <3>3. PICK lost \in BOOLEAN :
            wire' = [Send(InUse, <<Padd(id)>>) EXCEPT
                       ![c] = <<IF lost THEN <<Garbage>>
                                        ELSE <<Yare(id)>> \o Snapshot(peers')>>]
      BY <2>2 DEF Accept
    <3>4. <<Padd(id)>> \in Seq(Msg) /\ <<Yare(id)>> \in Seq(Msg) /\ <<Garbage>> \in Seq(Msg)
      BY <3>1, MsgType
    <3>5. Snapshot(peers') \in Seq(Msg)
      BY <3>2, BlankView, SnapshotApplied
    <3>6. <<Yare(id)>> \o Snapshot(peers') \in Seq(Msg)
      BY <3>4, <3>5, ConcatProperties
    <3>7. Send(InUse, <<Padd(id)>>) \in [Conns -> Seq(Seq(Msg))]
      BY <3>4, SendIs
    <3>8. view' = view
      BY <2>2 DEF Accept
    <3> DEFINE first == IF lost THEN <<Garbage>> ELSE <<Yare(id)>> \o Snapshot(peers')
    <3>9. first \in Seq(Msg) /\ wire' = [Send(InUse, <<Padd(id)>>) EXCEPT ![c] = <<first>>]
      BY <3>3, <3>4, <3>6
    <3> HIDE DEF first
    <3>10. <<first>> \in Seq(Seq(Msg))
      BY <3>9
    <3> QED
      BY <3>7, <3>8, <3>9, <3>10 DEF WireType
  <2> QED
    BY <1>2, <2>1, <2>2 DEF HandleConnect
<1>3. ASSUME NEW c \in Conns, HandleDisconnect(c)
      PROVE  WireType'
  <2>1. CASE peers[data[c]].empty
    BY <1>1, <1>3, <2>1 DEF HandleDisconnect, Crash
  <2>2. CASE ~peers[data[c]].empty
    <3>1. data[c] \in Ids
      BY <1>3, EmptyTable DEF HandleDisconnect, Inv, TableInv, NoTable, HasTable, ConnInv
    <3>2. wire' = Send(InUse \ {data[c]}, <<Pdel(data[c])>>) /\ view' = view
      BY <1>3, <2>2 DEF HandleDisconnect
    <3>3. <<Pdel(data[c])>> \in Seq(Msg)
      BY <3>1, MsgType
    <3> QED
      BY <3>2, <3>3, SendIs DEF WireType
  <2> QED
    BY <2>1, <2>2
<1>4. ASSUME NEW c \in Conns, ClientConnects(c) \/ ClientLeaves(c)
      PROVE  WireType'
  <2>1. CASE ClientConnects(c)
    BY <1>1, <2>1 DEF ClientConnects
  <2>2. CASE ClientLeaves(c)
    <3>1. <<>> \in Seq(Seq(Msg))
      OBVIOUS
    <3>2. /\ wire' = [wire EXCEPT ![c] = <<>>]
          /\ view' = [view EXCEPT ![c] = Blank]
      BY <2>2 DEF ClientLeaves
    <3> QED
      BY <3>1, <3>2, BlankView DEF WireType
  <2> QED
    BY <1>4, <2>1, <2>2
<1>5. ASSUME NEW c \in Conns, ClientReceives(c)
      PROVE  WireType'
  <2>1. wire[c] \in Seq(Seq(Msg)) /\ wire[c] # <<>> /\ view[c] \in Views
    BY <1>5 DEF ClientReceives, WireType
  <2>2. Head(wire[c]) \in Seq(Msg) /\ Tail(wire[c]) \in Seq(Seq(Msg))
    BY <2>1, HeadTailProperties
  <2>3. Received(view[c], Head(wire[c])) \in Views
    BY <2>1, <2>2, ReceivedType
  <2>4. /\ wire' = [wire EXCEPT ![c] = Tail(wire[c])]
        /\ view' = [view EXCEPT ![c] = Received(view[c], Head(wire[c]))]
    BY <1>5 DEF ClientReceives
  <2> QED
    BY <2>2, <2>3, <2>4 DEF WireType
<1>6. ASSUME NEW i \in Ids, NEW v \in Values, PeerSet(i, v)
      PROVE  WireType'
  BY <1>1, <1>6 DEF PeerSet
<1>7. CASE SendModified
  <2> DEFINE D == {i \in InUse : peers[i].dirty}
  <2>1. wire' = Send(InUse, InSlotOrder(Broadcast(D))) /\ view' = view
    BY <1>7 DEF SendModified, Broadcast
  <2>2. D \in SUBSET Ids /\ \A i \in D : peers[i].value \in Values \cup {Unset}
    <3>1. InUse \subseteq Ids
      BY InUseFinite DEF Inv
    <3>2. \A i \in InUse : peers[i] \in Slot
      BY EmptyTable DEF Inv, TableInv, NoTable, HasTable, InUse
    <3> QED
      BY <3>1, <3>2 DEF Slot
  <2> HIDE DEF D
  <2>3. InSlotOrder(Broadcast(D)) \in Seq(Msg)
    BY <2>2, BroadcastType
  <2> QED
    BY <2>1, <2>3, SendIs DEF WireType
<1>8. CASE UNCHANGED vars
  BY <1>1, <1>8 DEF vars
<1> QED
  BY <1>2, <1>3, <1>4, <1>5, <1>6, <1>7, <1>8 DEF Next

LEMMA UpsetStays == Next /\ upset => upset'
BY DEF Next, HandleConnect, Accept, Reject, Crash, HandleDisconnect, PeerSet, SendModified,
       ClientConnects, ClientLeaves, ClientReceives

LEMMA StepReplicas ==
  ASSUME Inv, WireType, ReplicaInv, Next, ~upset'
  PROVE  ReplicaInv' /\ FaultInv'
<1>1. ~fault /\ ~upset
  BY UpsetStays DEF Next
<1>2. ASSUME NEW c \in Conns, HandleConnect(c)
      PROVE  ReplicaInv' /\ FaultInv'
  <2>1. conn[c] = "arriving"
    BY <1>2 DEF HandleConnect
  <2>2. CASE \E id \in NewPeer : id \in DOMAIN Allocated
    <3>1. PICK id \in NewPeer : Accept(c, id)
      BY <1>2, <2>2 DEF HandleConnect, Reject
    <3>2. id \in Ids /\ id \notin InUse
      BY <2>2, NewPeerEmpty DEF Inv
    <3> QED
      BY <1>1, <2>1, <3>1, <3>2, AcceptKeepsReplicas DEF FaultInv
  <2>3. CASE ~ \E id \in NewPeer : id \in DOMAIN Allocated
    <3>1. Crash /\ peers_count = Block
      BY <1>2, <2>3, NewPeerExists DEF HandleConnect, Inv
    <3>2. UNCHANGED <<table, conn, data, wire, view>>
      BY <3>1 DEF Crash
    <3>3. InUse' = InUse /\ peers' = peers /\ peers_count' = peers_count
      BY <3>2 DEF table, InUse
    <3>4. FaultInv'
      BY <2>1, <3>1, <3>2, <3>3 DEF FaultInv
    <3>5. ASSUME NEW b \in Conns
          PROVE  Replica(b)'
      BY <3>2, <3>3, ReplicaKept DEF ReplicaInv
    <3> QED
      BY <3>4, <3>5 DEF ReplicaInv
  <2> QED
    BY <2>2, <2>3
<1>3. ASSUME NEW c \in Conns, HandleDisconnect(c)
      PROVE  ReplicaInv' /\ FaultInv'
  BY <1>1, <1>3, DisconnectKeepsReplicas DEF FaultInv
<1>4. ASSUME NEW c \in Conns, ClientConnects(c) \/ ClientLeaves(c)
      PROVE  ReplicaInv' /\ FaultInv'
  BY <1>1, <1>4, LinkKeepsReplicas DEF FaultInv
<1>5. ASSUME NEW c \in Conns, ClientReceives(c)
      PROVE  ReplicaInv' /\ FaultInv'
  BY <1>5, ReceivesKeepsReplicas DEF FaultInv
<1>6. ASSUME NEW i \in Ids, NEW v \in Values, PeerSet(i, v)
      PROVE  ReplicaInv' /\ FaultInv'
  BY <1>1, <1>6, PeerSetKeepsReplicas DEF FaultInv
<1>7. CASE SendModified
  BY <1>1, <1>7, SendModifiedKeepsReplicas DEF FaultInv
<1> QED
  BY <1>2, <1>3, <1>4, <1>5, <1>6, <1>7 DEF Next

LEMMA InitServer == Init => ServerInv
<1> SUFFICES ASSUME Init PROVE ServerInv
  OBVIOUS
<1>1. <<>> \in Seq(Seq(Msg))
  OBVIOUS
<1>2. WireType
  BY <1>1, BlankView DEF Init, WireType
<1>3. ReplicaInv /\ FaultInv
  BY DEF Init, ReplicaInv, Replica, FaultInv
<1> QED
  BY <1>2, <1>3, InitInv DEF ServerInv

LEMMA StepServer == ServerInv /\ [Next]_vars => ServerInv'
<1> SUFFICES ASSUME ServerInv, [Next]_vars PROVE ServerInv'
  OBVIOUS
<1>1. Inv' /\ WireType'
  BY StepInv, StepWire DEF ServerInv
<1>2. CASE Next
  <2>1. upset => upset'
    BY <1>2, UpsetStays
  <2>2. upset' \/ (ReplicaInv' /\ FaultInv')
    BY <1>2, <2>1, StepReplicas DEF ServerInv
  <2> QED
    BY <1>1, <2>2 DEF ServerInv
<1>3. CASE UNCHANGED vars
  <2>1. UNCHANGED <<table, conn, data, wire, view, fault, upset>>
    BY <1>3 DEF vars
  <2>2. InUse' = InUse /\ peers' = peers /\ peers_count' = peers_count
    BY <2>1 DEF table, InUse
  <2>3. ReplicaInv => ReplicaInv'
    BY <2>1, <2>2, ReplicaKept DEF ReplicaInv
  <2>4. FaultInv => FaultInv'
    BY <2>1, <2>2 DEF FaultInv
  <2> QED
    BY <1>1, <2>1, <2>3, <2>4 DEF ServerInv
<1> QED
  BY <1>2, <1>3

LEMMA ServerInvariant == Spec => []ServerInv
BY InitServer, StepServer, PTL DEF Spec

\* main.c:581-651,770-834: for any number of connections, slots and values and
\* whatever the order of connects, changes and broadcasts, each connected
\* client knows, or will know from what is on its way, its own id, every peer
\* in use, and every value that is not waiting for the next broadcast.
THEOREM ReplicasCorrect == Spec => []ReplicasFollow
<1>1. ServerInv => ReplicasFollow
  <2> SUFFICES ASSUME ServerInv, ~upset, NEW c \in Conns, conn[c] = "up"
               PROVE  Knows(c, Final(c))
    BY DEF ReplicasFollow, Knows
  <2> QED
    BY DEF ServerInv, ReplicaInv, Replica
<1> QED
  BY <1>1, ServerInvariant, PTL

\* The state from which get_new_peer writes beyond the slots (main.c:231-249):
\* a connection arrives and every slot is in use.
ArrivesAtFullTable == peers_count = Block /\ \E c \in Conns : conn[c] = "arriving"

\* main.c:603-651 and client/main.c:640-655: whatever the number of connections
\* and slots, MAX_PEERS of config.cfg:3 over the ten slots of main.c:226 included,
\* no PSET reaches a client before the PADD of its peer and the server frees no
\* slot twice; the one way to undefined behaviour, until a connection has been
\* rejected or a welcome lost, is the arrival at a full table.
THEOREM NoFaultCorrect == Spec => [](NoFault \/ ArrivesAtFullTable)
<1>1. ServerInv => NoFault \/ ArrivesAtFullTable
  BY DEF ServerInv, FaultInv, NoFault, ArrivesAtFullTable
<1> QED
  BY <1>1, ServerInvariant, PTL
=============================================================================
