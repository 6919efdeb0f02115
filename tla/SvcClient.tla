----------------------------- MODULE SvcClient -----------------------------
(***************************************************************************)
(* network/svcenet/client/main.c: the main thread with its network and     *)
(* command loops, the input thread that queues the lines of stdin, SIGINT, *)
(* and the svc_peer_t's the client has joined in libsvc, whose list        *)
(* (PeerList) is the set members here.  A critical section of input_lock   *)
(* or network_lock is one action: no thread takes a second lock inside     *)
(* one.  send_callback, in libsvc's send thread, only reads: MaySend.      *)
(*                                                                         *)
(* External: ENet, which reports what the server sends.  Channel 0 is      *)
(* ordered: the welcome (YARE, then the PADDs) comes first, PADDs of new   *)
(* peers later, also for ids that are known, since no PDEL is ever decoded *)
(* (SvcServer).  Audio comes on another channel and may overtake a PADD.   *)
(***************************************************************************)
EXTENDS Naturals, Sequences, SequencesExt

CONSTANTS
  NPeers,    \* ids the server gives: 0 .. NPeers - 1
  Handles,   \* the svc_peer_t that may exist at a time
  MaxLines,  \* lines the user types at most
  None       \* my_id = -1, and the NULL svc_peer_t

ASSUME ClientAssumption ==
  NPeers \in Nat \ {0} /\ MaxLines \in Nat /\ None \notin Nat /\ None \notin Handles

VARIABLES
  state,        \* SVCECLIENT_STATE_...
  host,         \* client.host: "null", "live", "dangling", or "twice" destroyed
  client,       \* whether client.client is not NULL
  server_info,  \* whether there is a server_info
  my_id,
  peers,        \* ids with connected = 1
  peers_size,
  handle,       \* peers[i].peer
  members,      \* the svc_peer_t in libsvc's list
  muted, deafen,
  main_done, input_queue, input_error,
  pc,           \* where the main loop is
  input,        \* the line in hand
  event,        \* what enet_host_service has reported
  welcomed,     \* the server's first packet has come
  typed, handled, \* history: lines typed, lines handled
  lost,         \* history: members that the vector has forgotten
  twice,        \* history: a peer has left a second time
  fault         \* TRUE once undefined behaviour has been reached

link    == <<state, host, client, welcomed>>
info    == <<my_id, server_info, peers, peers_size, handle, members, lost, twice>>
session == <<link, info>>
flags   == <<muted, deafen>>
stdin   == <<input_queue, input_error, typed>>
vars    == <<session, flags, stdin, main_done, pc, input, event, handled, fault>>

Ids   == 0 .. NPeers - 1
Lines == {"/connect", "/disconnect", "/quit", "/mute", "/deafen", "message"}
NoEvent == [type |-> "none"]

Init ==
  /\ state = "disconnected" /\ host = "null" /\ client = FALSE /\ welcomed = FALSE
  /\ my_id = None /\ server_info = FALSE
  /\ peers = {} /\ peers_size = 0 /\ handle = [i \in Ids |-> None]
  /\ members = {} /\ lost = {} /\ twice = FALSE
  /\ muted = FALSE /\ deafen = FALSE
  /\ main_done = FALSE /\ input_queue = <<>> /\ input_error = FALSE
  /\ pc = "test" /\ input = "message" /\ event = NoEvent
  /\ typed = <<>> /\ handled = <<>>
  /\ fault = FALSE

-----------------------------------------------------------------------------
(* The input thread and the signal                                         *)

\* until the end of the program cancels the thread and waits for it
Reading == ~input_error /\ pc \notin {"free", "done"}

\* Mutant: the line is put in front of those that wait.
ReadLineFront ==
  /\ Reading /\ Len(typed) < MaxLines
  /\ \E l \in Lines : input_queue' = <<l>> \o input_queue /\ typed' = Append(typed, l)
  /\ UNCHANGED <<session, flags, input_error, main_done, pc, input, event, handled, fault>>

ReadLine ==
  /\ Reading /\ Len(typed) < MaxLines
  /\ \E l \in Lines : input_queue' = Append(input_queue, l) /\ typed' = Append(typed, l)
  /\ UNCHANGED <<session, flags, input_error, main_done, pc, input, event, handled, fault>>

\* end of file or an error on stdin; the thread returns
ReadEof ==
  /\ Reading
  /\ input_error' = TRUE
  /\ UNCHANGED <<session, flags, input_queue, typed, main_done, pc, input, event, handled, fault>>

Sigint ==
  /\ main_done' = TRUE
  /\ UNCHANGED <<session, flags, stdin, pc, input, event, handled, fault>>

-----------------------------------------------------------------------------
(* Sessions                                                                *)

\* the svc_peer_t the vector of peers points to
Held == {handle[i] : i \in peers} \ {None}

\* Mutant: my_id survives.
FreeServerInfoKeepsId ==
  /\ UNCHANGED <<my_id, lost>>
  /\ server_info' = FALSE
  /\ twice' = (twice \/ ~(Held \subseteq members))
  /\ members' = members \ Held
  /\ peers' = {} /\ peers_size' = 0 /\ handle' = [i \in Ids |-> None]

\* Mutant: the vector keeps the peers that have left.
FreeServerInfoKeepsPeers ==
  /\ my_id' = None
  /\ server_info' = FALSE
  /\ twice' = (twice \/ ~(Held \subseteq members))
  /\ members' = members \ Held
  /\ UNCHANGED <<peers, peers_size, handle, lost>>

\* free_server_info: each peer of the vector leaves libsvc
FreeServerInfo ==
  /\ my_id' = None
  /\ server_info' = FALSE
  /\ twice' = (twice \/ ~(Held \subseteq members))
  /\ members' = members \ Held
  /\ peers' = {} /\ peers_size' = 0 /\ handle' = [i \in Ids |-> None]
  /\ UNCHANGED lost

SizeFor(i) == i + 1

\* Mutant: the client joins itself too.
ForeignAll(S, me) == S

\* the announced ids for which svc_peer_join is called
Foreign(S, me) == S \ {me}

\* scmd_padd for each of S, me being my_id: the vector grows to hold the ids
\* and each entry gets a new svc_peer_t, whatever was in it before
Padd(S, me) ==
  \E new \in Injection(Foreign(S, me), Handles \ members), last \in S :
    /\ \A i \in S : i <= last
    /\ peers' = peers \cup S
    /\ peers_size' = IF last < peers_size THEN peers_size ELSE SizeFor(last)
    /\ handle' = [i \in Ids |-> IF i \in DOMAIN new THEN new[i]
                               ELSE IF i \in S THEN None ELSE handle[i]]
    /\ members' = members \cup Range(new)
    /\ lost' = lost \cup ({handle[i] : i \in peers \cap S} \ {None})

\* handle_server_msg of the welcome: scmd_yare, then a scmd_padd for each
\* peer, the client itself among them
Welcome(e) ==
  /\ e.type = "welcome"
  /\ my_id' = e.id
  /\ Padd(e.ids, e.id)
  /\ welcomed' = TRUE
  /\ UNCHANGED <<state, host, client, server_info, twice, fault>>

\* handle_server_msg of a later PADD
Announce(e) ==
  /\ e.type = "padd"
  /\ Padd({e.id}, my_id)
  /\ UNCHANGED <<link, my_id, server_info, twice, fault>>

\* scmd_sset, scmd_pset and scmd_mesg: the dictionaries are there
Inform(e) ==
  /\ e.type = "set"
  /\ fault' = ~(server_info /\ e.id \in peers)
  /\ UNCHANGED session

\* handle_server_audio: an id beyond the vector is refused, one inside it
\* that no PADD has announced has no svc_peer_t
Audio(e) ==
  /\ e.type = "audio"
  /\ fault' = (~deafen /\ e.id < peers_size /\ handle[e.id] \notin members)
  /\ UNCHANGED session

\* ENET_EVENT_TYPE_DISCONNECT; the host is not destroyed
Disconnected(e) ==
  /\ e.type = "disconnect"
  /\ state' = "disconnected"
  /\ FreeServerInfo
  /\ UNCHANGED <<host, client, welcomed, fault>>

\* cmd_connect fails while it resolves the host
ConnectFails == UNCHANGED session

\* cmd_connect gets no host; client.client still points into the last one
ConnectNoHost == host' = "null" /\ UNCHANGED <<state, client, welcomed, info>>

\* cmd_connect gets a host but no connection: the host is destroyed
ConnectNoPeer ==
  host' = "dangling" /\ client' = FALSE /\ UNCHANGED <<state, welcomed, info>>

ConnectStarts ==
  /\ host' = "live" /\ client' = TRUE /\ state' = "connecting" /\ welcomed' = FALSE
  /\ UNCHANGED info

CmdConnect ==
  IF state # "disconnected" THEN UNCHANGED session
  ELSE ConnectFails \/ ConnectNoHost \/ ConnectNoPeer \/ ConnectStarts

\* enet_host_destroy: a pointer that dangles destroys what is gone
Destroyed == IF host = "dangling" THEN "twice" ELSE "null"

\* the host is destroyed, the pointers become NULL, and the new state
DropHost == host' = Destroyed /\ client' = FALSE /\ state' = "disconnected" /\ UNCHANGED welcomed

CmdDisconnect ==
  CASE state = "connected"  -> DropHost /\ FreeServerInfo
    [] state = "connecting" -> DropHost /\ UNCHANGED info
    [] OTHER                -> UNCHANGED session

\* cmd_mute and cmd_deafen: the argument is any flag
CmdMute   == muted' \in BOOLEAN /\ UNCHANGED <<session, deafen>>
CmdDeafen == deafen' \in BOOLEAN /\ UNCHANGED <<session, muted>>

\* what send_callback looks at before it uses client.client and client.host
MaySend == my_id # None /\ ~muted

-----------------------------------------------------------------------------
(* The main loop                                                           *)

Goto(l) == pc' = l

Test ==
  /\ pc = "test"
  /\ Goto(IF main_done THEN "exit" ELSE "net")
  /\ UNCHANGED <<session, flags, stdin, main_done, input, event, handled, fault>>

\* bounds the svc_peer_t that exist at a time
MayJoin(S) == ExistsInjection(S, Handles \ members)

\* what ENet may report on a connection
Events ==
  IF welcomed
    THEN {[type |-> "disconnect"]} \cup [type : {"set"}, id : peers]
           \cup [type : {"audio"}, id : Ids \ {my_id}]
           \cup [type : {"padd"}, id : {i \in Ids \ {my_id} : MayJoin({i})}]
    ELSE {[type |-> "disconnect"]} \cup [type : {"audio"}, id : Ids]
           \cup {[type |-> "welcome", id |-> i, ids |-> S \cup {i}] :
                   i \in Ids, S \in {T \in SUBSET Ids : MayJoin(T)}}

\* enet_host_service when connected
Service ==
  /\ pc = "net" /\ state = "connected"
  /\ event' \in Events
  /\ Goto("event")
  /\ UNCHANGED <<session, flags, stdin, main_done, input, handled, fault>>

HandleEvent ==
  /\ pc = "event"
  /\ Welcome(event) \/ Announce(event) \/ Inform(event) \/ Audio(event) \/ Disconnected(event)
  /\ event' = NoEvent
  /\ Goto("net")
  /\ UNCHANGED <<flags, stdin, main_done, input, handled>>

\* enet_host_service has nothing to report, also of a host whose connection
\* has just been lost; or the loop sleeps, disconnected
ServiceNothing ==
  /\ pc = "net"
  /\ Goto("input")
  /\ UNCHANGED <<session, flags, stdin, main_done, input, event, handled, fault>>

\* enet_host_service when connecting: the connection is up, or has failed
ServiceConnecting ==
  /\ pc = "net" /\ state = "connecting"
  /\ \/ /\ state' = "connected" /\ server_info' = TRUE
        /\ UNCHANGED <<host, client, welcomed>>
     \/ DropHost /\ UNCHANGED server_info
  /\ Goto("input")
  /\ UNCHANGED <<my_id, peers, peers_size, handle, members, lost, twice, flags, stdin,
                 main_done, input, event, handled, fault>>

\* if (!client.main_done)
TestInput ==
  /\ pc = "input"
  /\ Goto(IF main_done THEN "check" ELSE "queue")
  /\ UNCHANGED <<session, flags, stdin, main_done, input, event, handled, fault>>

TakeLine ==
  /\ pc = "queue"
  /\ input_queue # <<>>
  /\ input' = Head(input_queue)
  /\ input_queue' = Tail(input_queue)
  /\ Goto("command")
  /\ UNCHANGED <<session, flags, input_error, typed, main_done, event, handled, fault>>

NoLine ==
  /\ pc = "queue"
  /\ input_queue = <<>>
  /\ Goto("check")
  /\ UNCHANGED <<session, flags, stdin, main_done, input, event, handled, fault>>

\* handle_input_command: a line for the server is sent if there is one
Command ==
  CASE input = "/connect"    -> CmdConnect /\ UNCHANGED flags
    [] input = "/disconnect" -> CmdDisconnect /\ UNCHANGED flags
    [] input = "/mute"       -> CmdMute
    [] input = "/deafen"     -> CmdDeafen
    [] OTHER                 -> UNCHANGED <<session, flags>>

\* Mutant: the result of the command does not end the main loop.
HandleCommandNotDone ==
  /\ pc = "command"
  /\ Command
  /\ handled' = Append(handled, input)
  /\ main_done' = FALSE
  /\ Goto(IF input = "/quit" THEN "check" ELSE "queue")
  /\ UNCHANGED <<stdin, input, event, fault>>

\* input_done = client.main_done = handle_input_command(input)
HandleCommand ==
  /\ pc = "command"
  /\ Command
  /\ handled' = Append(handled, input)
  /\ main_done' = (input = "/quit")
  /\ Goto(IF input = "/quit" THEN "check" ELSE "queue")
  /\ UNCHANGED <<stdin, input, event, fault>>

\* Mutant: main_done follows the state of the input.
CheckInputOverwrites ==
  /\ pc = "check"
  /\ main_done' = input_error
  /\ Goto("test")
  /\ UNCHANGED <<session, flags, stdin, input, event, handled, fault>>

\* if (client.input_error) client.main_done = 1
CheckInput ==
  /\ pc = "check"
  /\ main_done' = (main_done \/ input_error)
  /\ Goto("test")
  /\ UNCHANGED <<session, flags, stdin, input, event, handled, fault>>

\* svc_close: every member of libsvc's list leaves
SvcClose ==
  /\ pc = "exit"
  /\ members' = {}
  /\ Goto("close")
  /\ UNCHANGED <<link, my_id, server_info, peers, peers_size, handle, lost, twice, flags,
                 stdin, main_done, input, event, handled, fault>>

\* quit_client_state destroys the host without network_lock; client.host,
\* client.client, the state and my_id stay as they are
DestroyHost ==
  /\ pc = "close"
  /\ host' = CASE host = "live" -> "dangling" [] host = "null" -> "null" [] OTHER -> "twice"
  /\ Goto("cancel")
  /\ UNCHANGED <<state, client, welcomed, info, flags, stdin, main_done, input, event, handled,
                 fault>>

\* quit_client_state cancels the input thread and joins it
CancelInput ==
  /\ pc = "cancel"
  /\ Goto("free")
  /\ UNCHANGED <<session, flags, stdin, main_done, input, event, handled, fault>>

\* quit_client_state destroys the locks and frees what is left
FreeAtEnd ==
  /\ pc = "free"
  /\ FreeServerInfo
  /\ Goto("done")
  /\ UNCHANGED <<link, flags, stdin, main_done, input, event, handled, fault>>

MainStep ==
  \/ Test \/ Service \/ HandleEvent \/ ServiceNothing \/ ServiceConnecting
  \/ TestInput \/ TakeLine \/ NoLine \/ HandleCommand \/ CheckInput
  \/ SvcClose \/ DestroyHost \/ CancelInput \/ FreeAtEnd

Next ==
  /\ ~fault /\ pc # "done"
  /\ MainStep \/ ReadLine \/ ReadEof \/ Sigint

Spec == Init /\ [][Next]_vars

(***************************************************************************)
(* The main thread is scheduled, and while the client is connected ENet's  *)
(* queue runs empty again and again: the server sends less than a client   *)
(* can read.  Users need not type, servers need not answer.                *)
(***************************************************************************)
Fairness ==
  /\ WF_vars(~fault /\ MainStep)
  /\ SF_vars(~fault /\ ServiceNothing)

FairSpec == Spec /\ Fairness

-----------------------------------------------------------------------------
(* Properties                                                              *)

\* Types of the session, the input and the main loop.
TypeOK ==
  /\ state \in {"disconnected", "connecting", "connected"}
  /\ host \in {"null", "live", "dangling", "twice"}
  /\ client \in BOOLEAN /\ server_info \in BOOLEAN /\ welcomed \in BOOLEAN
  /\ my_id \in Ids \cup {None} /\ peers \subseteq Ids /\ peers_size \in 0 .. NPeers
  /\ handle \in [Ids -> Handles \cup {None}]
  /\ members \subseteq Handles /\ lost \subseteq Handles /\ twice \in BOOLEAN
  /\ muted \in BOOLEAN /\ deafen \in BOOLEAN
  /\ main_done \in BOOLEAN /\ input_error \in BOOLEAN /\ fault \in BOOLEAN
  /\ pc \in {"test", "net", "event", "input", "queue", "command", "check", "exit",
             "close", "cancel", "free", "done"}
  /\ input \in Lines /\ input_queue \in Seq(Lines)
  /\ typed \in Seq(Lines) /\ handled \in Seq(Lines)

\* where the main loop is once quit_client_state has destroyed the host
HostGone == pc \in {"cancel", "free", "done"}

\* main.c:123-126,223-249,327-413: however a session begins and ends, my_id is
\* set only while the client is connected, a session runs over a host that
\* exists until the program ends, and nothing of it, not a peer either, is left
\* for the next.
SessionClean ==
  /\ MaySend => state = "connected"
  /\ ~HostGone /\ state # "disconnected" => host = "live" /\ client
  /\ state # "connected" =>
       my_id = None /\ ~server_info /\ peers = {} /\ peers_size = 0 /\ Held = {}

\* main.c:123-126 "this also handles connection state as my_id==-1 if not
\* connected": whenever the send thread may send, there is a host to send over.
SendsOverHost == MaySend => host = "live" /\ client

\* main.c:223-249,572-617: until the program closes libsvc, its list holds just
\* the svc_peer_t's of the vector, one for each announced id but the client's
\* own, and those that the announcement of a known id has made it forget; so
\* each peer that is heard is heard once, and its audio reaches a live cage.
PeersAccounted ==
  pc \notin {"close", "cancel", "free", "done"} =>
    /\ \A i, j \in peers : i # j /\ handle[i] = handle[j] => handle[i] = None
    /\ \A i \in peers : handle[i] = None <=> i = my_id
    /\ Held \cap lost = {} /\ members = Held \cup lost

\* main.c:223-249,327-413,787-794: no sequence of connects, failed connects,
\* disconnects from either side and announcements frees a peer or a host a
\* second time; only the end of the program does (README, section 4).
FreedOnce == ~HostGone => ~twice /\ host # "twice"

\* main.c:157-181,845-865: each line is handled once, in the order typed,
\* however the two threads interleave.
LinesInOrder ==
  typed = handled \o (IF pc = "command" THEN <<input>> ELSE <<>>) \o input_queue

\* main.c:420-422,868-873: /quit or the end of the input ends the program,
\* unless the audio of an unannounced peer crashes it.
InputEndsProgram ==
  ("/quit" \in ToSet(input_queue) \/ input_error) ~> (pc = "done" \/ fault)

\* main.c:104-107,864: SIGINT ends the program unless a command is in hand or
\* is taken after it, whose result overwrites main_done.
SigintLostOnlyToCommand ==
  main_done ~> (pc \in {"command", "done"} \/ fault)
=============================================================================
