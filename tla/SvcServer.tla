----------------------------- MODULE SvcServer -----------------------------
(***************************************************************************)
(* network/svcenet/server/main.c: the table of peers, the public           *)
(* dictionaries and their replication to every client over channel 0.      *)
(* The server is one thread; a handler runs to its end, so every handler   *)
(* is one action.  Logic scripts run inside handlers and change public     *)
(* data through peerset.  One public key per peer stands for all of them:  *)
(* dd_set and the broadcasts treat each key on its own.                    *)
(*                                                                         *)
(* External: ENet's connections (conn), its reliable ordered channel 0     *)
(* (wire), and the client's handlers of the commands it carries (view),    *)
(* which are client/main.c's scmd_*.                                       *)
(***************************************************************************)
EXTENDS Naturals, Sequences, FiniteSets, SequencesExt

CONSTANTS
  Conns,      \* ENet peers of the host: MAX_PEERS of config.cfg many
  Block,      \* slots the table starts with and grows by, 10 in the code
  Values,     \* values of the public key
  Default,    \* the value on_peer_connect gives it
  Absent,     \* what a client knows of a slot nobody announced
  Unset,      \* a key of an announced peer that has not been set yet
  None        \* no ENet peer, no slot, no id

ASSUME ServerAssumption ==
  /\ Block \in Nat /\ Block > 0
  /\ Default \in Values
  /\ Absent \notin Values /\ Unset \notin Values /\ Absent # Unset
  /\ None \notin Conns /\ None \notin Nat

VARIABLES
  peers,        \* the allocated slots
  peers_size,   \* what the server takes their number for
  peers_count,  \* how many it takes to be in use
  conn,         \* state of each ENet peer as the server will see it
  data,         \* event->peer->data: the slot the ENet peer points to
  wire,         \* packets of commands on their way to each client
  view,         \* what each client has made of the commands so far
  fault,        \* TRUE once undefined behaviour has been reached
  upset         \* history: a connection was rejected or a welcome was lost

table == <<peers, peers_size, peers_count>>
vars  == <<table, conn, data, wire, view, fault, upset>>

Ids == 0 .. Block - 1

FreeSlot == [empty |-> TRUE, peer |-> None, value |-> Unset, dirty |-> FALSE]

Blank == [my_id |-> None, known |-> [i \in Ids |-> Absent]]

Init ==
  /\ peers = <<>> /\ peers_size = 0 /\ peers_count = 0
  /\ conn = [c \in Conns |-> "off"]
  /\ data = [c \in Conns |-> None]
  /\ wire = [c \in Conns |-> <<>>]
  /\ view = [c \in Conns |-> Blank]
  /\ fault = FALSE /\ upset = FALSE

InUse == {i \in DOMAIN peers : ~peers[i].empty}

-----------------------------------------------------------------------------
(* Commands                                                                *)

Yare(i)    == [op |-> "YARE", id |-> i]
Padd(i)    == [op |-> "PADD", id |-> i]
Pset(i, v) == [op |-> "PSET", id |-> i, value |-> v]

\* the only command the server sends without the newline that ends a command
Pdel(i)    == [op |-> "PDEL", id |-> i, newline |-> FALSE]

\* a retransmission of the welcome, from the buffer the server has reused
Garbage    == [op |-> "GARBAGE"]

\* one packet of the commands cmds[i] about each slot, in slot order
InSlotOrder(cmds) == FlattenSeq([k \in 1 .. Block |-> cmds[k - 1]])

\* enet_peer_send of one packet to each of the peers in slots S; ENet delivers
\* it only while the connection is up.  A packet without commands is left out:
\* clients find nothing in it.
Send(S, packet) ==
  LET to == {c \in Conns : conn[c] = "up" /\ \E i \in S : peers[i].peer = c}
  IN  [c \in Conns |-> IF c \in to /\ packet # <<>> THEN Append(wire[c], packet)
                                                    ELSE wire[c]]

-----------------------------------------------------------------------------
(* The table of peers                                                      *)

\* get_new_peer: the slots it may answer.  When the table is full the code
\* builds a larger one and forgets to install it, so the slot it answers lies
\* beyond the allocated ones.  If it counts fewer peers than there are, it may
\* find no empty slot and answer an uninitialised number: no slot here.
NewPeer ==
  IF peers_size = 0 THEN {0}
  ELSE IF peers_count = peers_size THEN {peers_count}
  ELSE {i \in DOMAIN peers : peers[i].empty
          /\ \A j \in DOMAIN peers : j < i => ~peers[j].empty}

\* the table before the new slot is filled in
Allocated == IF peers_size = 0 THEN [i \in Ids |-> FreeSlot] ELSE peers

\* Mutant: the count is not taken back.
FreePeerKeepsCount(i) ==
  /\ peers' = [peers EXCEPT ![i] = FreeSlot]
  /\ UNCHANGED <<peers_size, peers_count>>

\* free_peer; nobody reads the other fields of a free slot
FreePeer(i) ==
  /\ peers' = [peers EXCEPT ![i] = FreeSlot]
  /\ peers_count' = peers_count - 1
  /\ UNCHANGED peers_size

-----------------------------------------------------------------------------
(* Event handlers                                                          *)

\* The rest of the state when a handler touches memory it does not own.
Crash ==
  /\ fault' = TRUE
  /\ UNCHANGED <<table, conn, data, wire, view, upset>>

\* Mutant: the snapshot skips keys that wait for the next broadcast.
SnapshotClean(tab) ==
  InSlotOrder([i \in Ids |-> IF tab[i].empty \/ tab[i].dirty
                               THEN <<>> ELSE <<Padd(i), Pset(i, tab[i].value)>>])

\* the snapshot of every peer, the new one included
Snapshot(tab) ==
  InSlotOrder([i \in Ids |-> IF tab[i].empty
                               THEN <<>> ELSE <<Padd(i), Pset(i, tab[i].value)>>])

\* handle_peer_connect: on_peer_connect sets the public keys and accepts
Accept(c, id) ==
  LET tab == [Allocated EXCEPT ![id] =
                [empty |-> FALSE, peer |-> c, value |-> Default, dirty |-> TRUE]]
  IN  /\ peers' = tab
      /\ peers_size' = IF peers_size = 0 THEN Block ELSE peers_size
      /\ peers_count' = peers_count + 1
      /\ conn' = [conn EXCEPT ![c] = "up"]
      /\ data' = [data EXCEPT ![c] = id]
      /\ \E lost \in BOOLEAN :
           /\ wire' = [Send(InUse, <<Padd(id)>>) EXCEPT
                         ![c] = <<IF lost THEN <<Garbage>>
                                          ELSE <<Yare(id)>> \o Snapshot(tab)>>]
           /\ upset' = (upset \/ lost)
      /\ UNCHANGED <<view, fault>>

\* the same when on_peer_connect fails or returns 0: the connection is being
\* closed and its data still points to the slot that has been freed
Reject(c, id) ==
  /\ peers' = Allocated
  /\ peers_size' = IF peers_size = 0 THEN Block ELSE peers_size
  /\ conn' = [conn EXCEPT ![c] = "closing"]
  /\ data' = [data EXCEPT ![c] = id]
  /\ upset' = TRUE
  /\ UNCHANGED <<peers_count, wire, view, fault>>

HandleConnect(c) ==
  /\ conn[c] = "arriving"
  /\ IF \E id \in NewPeer : id \in DOMAIN Allocated
       THEN \E id \in NewPeer : Accept(c, id) \/ Reject(c, id)
       ELSE Crash

HandleDisconnect(c) ==
  /\ conn[c] \in {"gone", "closing"}
  /\ LET id == data[c] IN
       IF peers[id].empty
         THEN Crash
         ELSE /\ wire' = Send(InUse \ {id}, <<Pdel(id)>>)
              /\ FreePeer(id)
              /\ conn' = [conn EXCEPT ![c] = "off"]
              /\ UNCHANGED <<data, view, fault, upset>>

\* cmd_peerset and dd_set, from the script that runs in some handler
PeerSet(i, v) ==
  /\ i \in InUse
  /\ peers' = [peers EXCEPT ![i].value = v, ![i].dirty = TRUE]
  /\ UNCHANGED <<peers_size, peers_count, conn, data, wire, view, fault, upset>>

\* Mutant: every key is marked clean before the dirty ones are collected.
SendModifiedNothing ==
  /\ peers' = [i \in DOMAIN peers |-> [peers[i] EXCEPT !.dirty = FALSE]]
  /\ UNCHANGED <<peers_size, peers_count, conn, data, wire, view, fault, upset>>

\* send_modified_data, at the end of each round of the main loop
SendModified ==
  LET dirty == {i \in InUse : peers[i].dirty}
      cmds  == [i \in Ids |-> IF i \in dirty THEN <<Pset(i, peers[i].value)>> ELSE <<>>]
  IN  /\ wire' = Send(InUse, InSlotOrder(cmds))
      /\ peers' = [i \in DOMAIN peers |->
                     IF i \in dirty THEN [peers[i] EXCEPT !.dirty = FALSE] ELSE peers[i]]
      /\ UNCHANGED <<peers_size, peers_count, conn, data, view, fault, upset>>

-----------------------------------------------------------------------------
(* The clients and the network                                             *)

ClientConnects(c) ==
  /\ conn[c] = "off"
  /\ conn' = [conn EXCEPT ![c] = "arriving"]
  /\ UNCHANGED <<table, data, wire, view, fault, upset>>

\* /disconnect, a crash, or a timeout; free_server_info clears the view
ClientLeaves(c) ==
  /\ conn[c] \in {"arriving", "up"}
  /\ conn' = [conn EXCEPT ![c] = IF conn[c] = "up" THEN "gone" ELSE "off"]
  /\ wire' = [wire EXCEPT ![c] = <<>>]
  /\ view' = [view EXCEPT ![c] = Blank]
  /\ UNCHANGED <<table, data, fault, upset>>

\* handle_server_decoded_msg: only a command that ends in a newline is decoded;
\* scmd_yare, scmd_padd, scmd_pset, scmd_pdel
Apply(v, m) ==
  CASE m.op = "YARE" -> [v EXCEPT !.my_id = m.id]
    [] m.op = "PADD" -> [v EXCEPT !.known[m.id] = Unset]
    [] m.op = "PSET" -> [v EXCEPT !.known[m.id] = m.value]
    [] m.op = "PDEL" -> IF m.newline THEN [v EXCEPT !.known[m.id] = Absent] ELSE v
    [] OTHER -> v

\* scmd_pset and scmd_pdel use the dictionary of a peer they take for granted
Uses(v, m) == m.op = "PSET" => v.known[m.id] # Absent

\* handle_server_msg decodes a packet to its end before anything else happens
Received(v, packet) == FoldLeft(Apply, v, packet)

ClientReceives(c) ==
  /\ conn[c] = "up"
  /\ wire[c] # <<>>
  /\ wire' = [wire EXCEPT ![c] = Tail(wire[c])]
  /\ view' = [view EXCEPT ![c] = Received(view[c], Head(wire[c]))]
  /\ fault' = \E k \in DOMAIN Head(wire[c]) :
                 ~Uses(Received(view[c], SubSeq(Head(wire[c]), 1, k - 1)),
                       Head(wire[c])[k])
  /\ UNCHANGED <<table, conn, data, upset>>

Next ==
  /\ ~fault
  /\ \/ \E c \in Conns : \/ HandleConnect(c) \/ HandleDisconnect(c)
                         \/ ClientConnects(c) \/ ClientLeaves(c) \/ ClientReceives(c)
     \/ \E i \in Ids, v \in Values : PeerSet(i, v)
     \/ SendModified

Spec == Init /\ [][Next]_vars

-----------------------------------------------------------------------------
(* Properties                                                              *)

Slot == [empty : BOOLEAN, peer : Conns \cup {None}, value : Values \cup {Unset},
         dirty : BOOLEAN]

\* Types of the table and of the connections that point into it.
TypeOK ==
  /\ DOMAIN peers \in {{}, Ids} /\ \A i \in DOMAIN peers : peers[i] \in Slot
  /\ peers_size \in {0, Block} /\ peers_count \in Nat
  /\ conn \in [Conns -> {"off", "arriving", "up", "gone", "closing"}]
  /\ data \in [Conns -> Ids \cup {None}]
  /\ fault \in BOOLEAN /\ upset \in BOOLEAN

\* main.c:221-269,552-554,658: the connections that have been accepted and not
\* yet cleaned up and the slots in use point at each other, and peers_count
\* counts them; a stale pointer would free another peer's slot.  This, as the
\* next two properties, holds until a connection is rejected.
SlotsOwned == upset \/
  /\ \A c \in Conns : conn[c] \in {"up", "gone"} =>
       data[c] \in InUse /\ peers[data[c]].peer = c
  /\ \A i \in InUse :
       peers[i].peer \in Conns /\ conn[peers[i].peer] \in {"up", "gone"}
         /\ data[peers[i].peer] = i
  /\ peers_count = Cardinality(InUse)

\* what a client will know when it has read all that is on its way
Final(c) == FoldLeft(Received, view[c], wire[c])

\* main.c:581-651,770-834: whatever the order of connects, changes and
\* broadcasts, each connected client knows, or will know from what is on its
\* way, its own id, every peer in use, and the value of every public key that
\* is not waiting for the next broadcast.
ReplicasFollow == upset \/
  \A c \in Conns : conn[c] = "up" =>
    /\ Final(c).my_id = data[c]
    /\ \A i \in InUse : /\ Final(c).known[i] # Absent
                        /\ peers[i].dirty \/ Final(c).known[i] = peers[i].value

\* main.c:603-651 and client/main.c:640-655: no PSET reaches a client before
\* the PADD of its peer, and the server never frees a slot twice.
NoFault == upset \/ ~fault

\* README of svcenet, 5.4.1: "New line on the final command in a packet is
\* optional": a peer that is gone is gone from the clients that were told.
RosterExact == upset \/
  \A c \in Conns : conn[c] = "up" /\ wire[c] = <<>> =>
    \A i \in Ids : view[c].known[i] # Absent => i \in InUse

\* main.c:287 "Returns a list of peers IDs connected to server."
PeersListExact == \A c \in Conns : conn[c] = "up" => data[c] \in InUse
=============================================================================
