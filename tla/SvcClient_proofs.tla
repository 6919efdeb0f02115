-------------------------- MODULE SvcClient_proofs --------------------------
(***************************************************************************)
(* Proofs about SvcClient, for any number of ids, svc_peer_t's and lines.  *)
(***************************************************************************)
EXTENDS SvcClient, SequenceTheorems, TLAPS

-----------------------------------------------------------------------------
(* The main loop and the input                                             *)

LoopTypes ==
  /\ muted \in BOOLEAN /\ deafen \in BOOLEAN
  /\ main_done \in BOOLEAN /\ input_error \in BOOLEAN /\ fault \in BOOLEAN
  /\ pc \in {"test", "net", "event", "input", "queue", "command", "check", "exit",
             "close", "cancel", "free", "done"}

LineTypes ==
  /\ input \in Lines /\ input_queue \in Seq(Lines)
  /\ typed \in Seq(Lines) /\ handled \in Seq(Lines)

LEMMA StepLoop == LoopTypes /\ [Next]_vars => LoopTypes'
<1> SUFFICES ASSUME LoopTypes, [Next]_vars PROVE LoopTypes'
  OBVIOUS
<1> USE DEF LoopTypes, Goto, flags, stdin, vars
<1>1. CASE UNCHANGED vars
  BY <1>1
<1>2. CASE ReadLine \/ ReadEof \/ Sigint
  BY <1>2 DEF ReadLine, ReadEof, Sigint
<1>3. CASE Test \/ Service \/ ServiceNothing \/ ServiceConnecting
  BY <1>3 DEF Test, Service, ServiceNothing, ServiceConnecting
<1>4. CASE HandleEvent
  BY <1>4 DEF HandleEvent, Welcome, Announce, Inform, Audio, Disconnected
<1>5. CASE TestInput \/ TakeLine \/ NoLine \/ CheckInput
  BY <1>5 DEF TestInput, TakeLine, NoLine, CheckInput
<1>6. CASE HandleCommand
  BY <1>6 DEF HandleCommand, Command, CmdMute, CmdDeafen
<1>7. CASE SvcClose \/ DestroyHost \/ CancelInput \/ FreeAtEnd
  BY <1>7 DEF SvcClose, DestroyHost, CancelInput, FreeAtEnd
<1> QED
  BY <1>1, <1>2, <1>3, <1>4, <1>5, <1>6, <1>7 DEF Next, MainStep

LEMMA StepLines == LineTypes /\ [Next]_vars => LineTypes'
<1> SUFFICES ASSUME LineTypes, [Next]_vars PROVE LineTypes'
  OBVIOUS
<1> USE DEF LineTypes, stdin, vars
<1>1. CASE UNCHANGED vars
  BY <1>1
<1>2. CASE ReadLine
  <2>1. PICK l \in Lines : input_queue' = Append(input_queue, l) /\ typed' = Append(typed, l)
    BY <1>2 DEF ReadLine
  <2>2. Append(input_queue, l) \in Seq(Lines) /\ Append(typed, l) \in Seq(Lines)
    BY AppendProperties
  <2> QED
    BY <1>2, <2>1, <2>2 DEF ReadLine
<1>3. CASE ReadEof \/ Sigint
  BY <1>3 DEF ReadEof, Sigint
<1>4. CASE Test \/ Service \/ ServiceNothing \/ ServiceConnecting \/ HandleEvent
  BY <1>4 DEF Test, Service, ServiceNothing, ServiceConnecting, HandleEvent
<1>5. CASE TestInput \/ NoLine \/ CheckInput
  BY <1>5 DEF TestInput, NoLine, CheckInput
<1>6. CASE TakeLine
  BY <1>6, HeadTailProperties DEF TakeLine
<1>7. CASE HandleCommand
  BY <1>7, AppendProperties DEF HandleCommand
<1>8. CASE SvcClose \/ DestroyHost \/ CancelInput \/ FreeAtEnd
  BY <1>8 DEF SvcClose, DestroyHost, CancelInput, FreeAtEnd
<1> QED
  BY <1>1, <1>2, <1>3, <1>4, <1>5, <1>6, <1>7, <1>8 DEF Next, MainStep

InHand == IF pc = "command" THEN <<input>> ELSE <<>>

LEMMA StepOrder == LineTypes /\ LinesInOrder /\ [Next]_vars => LinesInOrder'
<1> SUFFICES ASSUME LineTypes, LinesInOrder, [Next]_vars PROVE LinesInOrder'
  OBVIOUS
<1>0. InHand \in Seq(Lines) /\ typed = handled \o InHand \o input_queue
  BY DEF LineTypes, LinesInOrder, InHand
<1>1. CASE UNCHANGED <<input_queue, typed, handled, InHand>>
  BY <1>0, <1>1 DEF LinesInOrder, InHand
<1>2. CASE ReadLine
  <2>1. PICK l \in Lines : input_queue' = Append(input_queue, l) /\ typed' = Append(typed, l)
    BY <1>2 DEF ReadLine
  <2>2. UNCHANGED <<handled, InHand>>
    BY <1>2 DEF ReadLine, InHand
  <2>3. Append(typed, l) = handled \o InHand \o Append(input_queue, l)
    <3>1. Append(typed, l) = (handled \o InHand \o input_queue) \o <<l>>
      BY <1>0, AppendIsConcat DEF LineTypes
    <3>2. handled \o InHand \in Seq(Lines) /\ <<l>> \in Seq(Lines)
      BY <1>0, ConcatProperties DEF LineTypes
    <3>3. (handled \o InHand \o input_queue) \o <<l>> = handled \o InHand \o (input_queue \o <<l>>)
      <4> DEFINE before == handled \o InHand
                 after  == <<l>>
      <4>1. before \in Seq(Lines) /\ input_queue \in Seq(Lines) /\ after \in Seq(Lines)
        BY <3>2 DEF LineTypes
      <4> HIDE DEF before, after
      <4>2. (before \o input_queue) \o after = before \o (input_queue \o after)
        BY <4>1, ConcatAssociative
      <4> QED
        BY <4>2 DEF before, after
    <3> QED
      BY <3>1, <3>3, AppendIsConcat DEF LineTypes
  <2> QED
    BY <2>1, <2>2, <2>3 DEF LinesInOrder, InHand
<1>3. CASE TakeLine
  <2>1. InHand = <<>> /\ InHand' = <<Head(input_queue)>>
    BY <1>3 DEF TakeLine, Goto, InHand
  <2>2. input_queue = <<Head(input_queue)>> \o Tail(input_queue)
    BY <1>3, HeadTailProperties DEF TakeLine, LineTypes
  <2>3. typed = handled \o <<Head(input_queue)>> \o Tail(input_queue)
    BY <1>0, <1>3, <2>1, <2>2, HeadTailProperties, ConcatAssociative, ConcatEmptySeq
       DEF TakeLine, LineTypes
  <2> QED
    BY <1>3, <2>1, <2>3 DEF TakeLine, LinesInOrder, InHand
<1>4. CASE HandleCommand
  <2>1. InHand = <<input>> /\ InHand' = <<>>
    BY <1>4 DEF HandleCommand, Goto, InHand
  <2>2. handled' = handled \o <<input>> /\ handled' \in Seq(Lines)
    BY <1>4, AppendIsConcat, AppendProperties DEF HandleCommand, LineTypes
  <2>3. typed' = handled' \o <<>> \o input_queue'
    BY <1>0, <1>4, <2>1, <2>2, ConcatEmptySeq DEF HandleCommand, stdin
  <2> QED
    BY <2>1, <2>3 DEF LinesInOrder, InHand
<1>5. CASE ReadEof \/ Sigint
  BY <1>1, <1>5 DEF ReadEof, Sigint, stdin, InHand
<1>6. CASE Test \/ Service \/ ServiceNothing \/ ServiceConnecting \/ HandleEvent
  BY <1>1, <1>6 DEF Test, Service, ServiceNothing, ServiceConnecting, HandleEvent, Goto, stdin, InHand
<1>7. CASE TestInput \/ NoLine \/ CheckInput
  BY <1>1, <1>7 DEF TestInput, NoLine, CheckInput, Goto, stdin, InHand
<1>8. CASE SvcClose \/ DestroyHost \/ CancelInput \/ FreeAtEnd
  BY <1>1, <1>8 DEF SvcClose, DestroyHost, CancelInput, FreeAtEnd, Goto, stdin, InHand
<1>9. CASE UNCHANGED vars
  BY <1>1, <1>9 DEF vars, stdin, InHand
<1> QED
  BY <1>2, <1>3, <1>4, <1>5, <1>6, <1>7, <1>8, <1>9 DEF Next, MainStep

\* main.c:157-181,845-865: however many lines are typed, and whatever the two
\* threads do, each line is handled once and in the order typed.
THEOREM LinesCorrect == Spec => []LinesInOrder
<1>1. Init => LineTypes /\ LinesInOrder
  BY EmptySeq, ConcatEmptySeq DEF Init, LineTypes, LinesInOrder, Lines
<1>2. LineTypes /\ LinesInOrder /\ [Next]_vars => (LineTypes /\ LinesInOrder)'
  BY StepLines, StepOrder
<1> QED
  BY <1>1, <1>2, PTL DEF Spec

-----------------------------------------------------------------------------
(* What changes a session                                                  *)

LinkTypes ==
  /\ state \in {"disconnected", "connecting", "connected"}
  /\ host \in {"null", "live", "dangling", "twice"}
  /\ client \in BOOLEAN /\ welcomed \in BOOLEAN

InfoTypes ==
  /\ my_id \in Ids \cup {None} /\ server_info \in BOOLEAN
  /\ peers \subseteq Ids /\ peers_size \in 0 .. NPeers
  /\ handle \in [Ids -> Handles \cup {None}]
  /\ members \subseteq Handles /\ lost \subseteq Handles /\ twice \in BOOLEAN

Closing == pc \in {"close", "cancel", "free", "done"}

\* the event in hand is one the connection can have reported
EventFits ==
  pc = "event" =>
    /\ state = "connected"
    /\ \/ event.type \in {"disconnect", "audio", "set"}
       \/ /\ event.type = "welcome" /\ ~welcomed
          /\ event.id \in Ids /\ event.ids \subseteq Ids /\ event.id \in event.ids
       \/ /\ event.type = "padd" /\ welcomed
          /\ event.id \in Ids /\ event.id # my_id

SessionStep ==
  \/ UNCHANGED session /\ (pc' = pc \/ ~(Closing \/ Closing'))
  \/ UNCHANGED session /\ HostGone /\ HostGone'
  \/ pc = "event" /\ ~Closing' /\ (Welcome(event) \/ Announce(event) \/ Disconnected(event))
  \/ pc = "command" /\ ~Closing' /\ (CmdConnect \/ CmdDisconnect)
  \/ pc = "net" /\ ~Closing' /\ ServiceConnecting
  \/ SvcClose \/ DestroyHost \/ FreeAtEnd

LEMMA StepSession == [Next]_vars => SessionStep
<1> SUFFICES ASSUME [Next]_vars PROVE SessionStep
  OBVIOUS
<1> USE DEF SessionStep, Closing, HostGone, Goto
<1>1. CASE UNCHANGED <<session, pc>>
  BY <1>1 DEF session, link, info
<1>2. CASE UNCHANGED vars \/ ReadLine \/ ReadEof \/ Sigint
  BY <1>1, <1>2 DEF vars, ReadLine, ReadEof, Sigint
<1>3. CASE Test \/ Service \/ ServiceNothing \/ ServiceConnecting
  BY <1>3 DEF Test, Service, ServiceNothing, ServiceConnecting
<1>4. CASE HandleEvent
  BY <1>4 DEF HandleEvent, Inform, Audio
<1>5. CASE TestInput \/ TakeLine \/ NoLine \/ CheckInput
  BY <1>5 DEF TestInput, TakeLine, NoLine, CheckInput
<1>6. CASE HandleCommand
  BY <1>6 DEF HandleCommand, Command, CmdMute, CmdDeafen
<1>7. CASE SvcClose \/ DestroyHost \/ CancelInput \/ FreeAtEnd
  BY <1>7 DEF CancelInput
<1> QED
  BY <1>2, <1>3, <1>4, <1>5, <1>6, <1>7 DEF Next, MainStep

LEMMA StepEvent == EventFits /\ [Next]_vars => EventFits'
<1> SUFFICES ASSUME EventFits, [Next]_vars PROVE EventFits'
  OBVIOUS
<1> USE DEF EventFits, Goto
<1>1. CASE UNCHANGED <<session, pc, event>>
  BY <1>1 DEF session, link, info
<1>2. CASE Service
  <2>1. UNCHANGED session /\ state = "connected" /\ event' \in Events
    BY <1>2 DEF Service
  <2>2. CASE welcomed
    BY <2>1, <2>2 DEF Events, session, link, info
  <2>3. CASE ~welcomed
    <3>1. CASE event' \in [type : {"audio"}, id : Ids] \/ event' = [type |-> "disconnect"]
      BY <2>1, <3>1 DEF session, link, info
    <3>2. CASE \E i \in Ids, S \in {T \in SUBSET Ids : MayJoin(T)} :
                 event' = [type |-> "welcome", id |-> i, ids |-> S \cup {i}]
      BY <2>1, <2>3, <3>2 DEF session, link, info
    <3> QED
      BY <2>1, <2>3, <3>1, <3>2 DEF Events
  <2> QED
    BY <2>2, <2>3
<1>3. CASE pc' # "event"
  BY <1>3
<1>4. CASE ReadLine \/ ReadEof \/ Sigint
  BY <1>1, <1>4 DEF ReadLine, ReadEof, Sigint
<1> QED
  BY <1>1, <1>2, <1>3, <1>4 DEF vars, Next, MainStep, Test, ServiceNothing, ServiceConnecting,
     HandleEvent, TestInput, TakeLine, NoLine, HandleCommand, CheckInput, SvcClose,
     DestroyHost, CancelInput, FreeAtEnd

-----------------------------------------------------------------------------
(* Announcements                                                           *)

\* PeersAccounted while the program runs
Accounted ==
  /\ \A i, j \in peers : i # j /\ handle[i] = handle[j] => handle[i] = None
  /\ \A i \in peers : handle[i] = None <=> i = my_id
  /\ Held \cap lost = {} /\ members = Held \cup lost

\* the two ways to call scmd_padd: for a first packet, and for one peer later
Announces(S, me) ==
  /\ S \subseteq Ids
  /\ (peers = {} /\ me \in S) \/ (me = my_id /\ me \notin S)

LEMMA PaddTypes ==
  ASSUME InfoTypes, NEW S, NEW me, S \subseteq Ids, Padd(S, me)
  PROVE  /\ peers' \subseteq Ids /\ peers_size' \in 0 .. NPeers
         /\ handle' \in [Ids -> Handles \cup {None}]
         /\ members' \subseteq Handles /\ lost' \subseteq Handles
<1>1. PICK new \in Injection(Foreign(S, me), Handles \ members), last \in S :
        /\ peers' = peers \cup S
        /\ peers_size' = IF last < peers_size THEN peers_size ELSE SizeFor(last)
        /\ handle' = [i \in Ids |-> IF i \in DOMAIN new THEN new[i]
                                   ELSE IF i \in S THEN None ELSE handle[i]]
        /\ members' = members \cup Range(new)
        /\ lost' = lost \cup ({handle[i] : i \in peers \cap S} \ {None})
  BY DEF Padd
<1>2. new \in [Foreign(S, me) -> Handles \ members]
  BY DEF Injection
<1>3. peers' \subseteq Ids
  BY <1>1 DEF InfoTypes
<1>4. peers_size' \in 0 .. NPeers
  BY <1>1, ClientAssumption DEF InfoTypes, SizeFor, Ids
<1>5. handle' \in [Ids -> Handles \cup {None}]
  BY <1>1, <1>2 DEF InfoTypes
<1>6. members' \subseteq Handles
  BY <1>1, <1>2 DEF InfoTypes, Range
<1>7. lost' \subseteq Handles
  BY <1>1 DEF InfoTypes
<1> QED
  BY <1>3, <1>4, <1>5, <1>6, <1>7

\* The peer joins anew: its entry gets a svc_peer_t that is no member, and the
\* one it had, if any, is lost.
LEMMA PaddAccounted ==
  ASSUME InfoTypes, Accounted, NEW S, NEW me, Announces(S, me), Padd(S, me), my_id' = me
  PROVE  Accounted'
<1>1. PICK new \in Injection(Foreign(S, me), Handles \ members) :
        /\ peers' = peers \cup S
        /\ handle' = [i \in Ids |-> IF i \in DOMAIN new THEN new[i]
                                   ELSE IF i \in S THEN None ELSE handle[i]]
        /\ members' = members \cup Range(new)
        /\ lost' = lost \cup ({handle[i] : i \in peers \cap S} \ {None})
  BY DEF Padd
<1>2. new \in [S \ {me} -> Handles \ members]
  BY DEF Injection, Foreign
<1>3. \A i, j \in S \ {me} : new[i] = new[j] => i = j
  BY DEF Injection, IsInjective, Foreign
<1>4. /\ \A i \in S \ {me} : handle'[i] = new[i] /\ new[i] \in Handles \ members
                             /\ new[i] # None
      /\ me \in S => handle'[me] = None
      /\ \A i \in peers \ S : handle'[i] = handle[i]
  BY <1>1, <1>2, ClientAssumption DEF Announces, InfoTypes
<1>5. \A i \in peers : handle[i] = None \/ handle[i] \in members
  BY DEF Accounted, Held
<1>6. \A i \in peers' : handle'[i] = None <=> i = my_id'
  <2> SUFFICES ASSUME NEW i \in peers' PROVE handle'[i] = None <=> i = me
    OBVIOUS
  <2>1. CASE i \in S \ {me}
    BY <1>4, <2>1
  <2>2. CASE i \in S /\ i = me
    BY <1>4, <2>2
  <2>3. CASE i \notin S
    BY <1>1, <1>4, <2>3 DEF Accounted, Announces
  <2> QED
    BY <2>1, <2>2, <2>3
<1>7. ASSUME NEW i \in peers', NEW j \in peers', i # j, handle'[i] = handle'[j]
      PROVE  handle'[i] = None
  <2>1. CASE i \in S /\ j \in S /\ i # me /\ j # me
    BY <1>3, <1>4, <1>7, <2>1
  <2>2. CASE (i \in S /\ j \notin S) \/ (i \notin S /\ j \in S)
    BY <1>1, <1>4, <1>5, <1>7, <2>2
  <2>3. CASE i \in S /\ j \in S /\ (i = me \/ j = me)
    BY <1>4, <1>7, <2>3
  <2>4. CASE i \notin S /\ j \notin S
    BY <1>1, <1>4, <1>7, <2>4 DEF Accounted
  <2> QED
    BY <2>1, <2>2, <2>3, <2>4
<1>8. Held' = (Held \ {handle[i] : i \in peers \cap S}) \cup Range(new)
  <2>1. ASSUME NEW h \in Held' PROVE h \in (Held \ {handle[i] : i \in peers \cap S}) \cup Range(new)
    <3>1. PICK i \in peers' : h = handle'[i] /\ h # None
      BY DEF Held
    <3>2. CASE i \in S
      BY <1>2, <1>4, <3>1, <3>2 DEF Range
    <3>3. CASE i \notin S
      <4>1. i \in peers /\ h = handle[i] /\ h \in Held
        BY <1>1, <1>4, <3>1, <3>3 DEF Held
      <4>2. \A k \in peers \cap S : handle[k] # h
        BY <3>1, <3>3, <4>1 DEF Accounted
      <4> QED
        BY <4>1, <4>2
    <3> QED
      BY <3>2, <3>3
  <2>2. ASSUME NEW h \in Range(new) PROVE h \in Held'
    <3>1. PICK i \in S \ {me} : h = new[i]
      BY <1>2 DEF Range
    <3> QED
      BY <1>1, <1>4, <3>1 DEF Held
  <2>3. ASSUME NEW h \in Held \ {handle[i] : i \in peers \cap S} PROVE h \in Held'
    <3>1. PICK i \in peers : h = handle[i] /\ h # None
      BY DEF Held
    <3>2. i \notin S
      BY <3>1
    <3> QED
      BY <1>1, <1>4, <3>1, <3>2 DEF Held
  <2> QED
    BY <2>1, <2>2, <2>3
<1>9. Range(new) \cap members = {}
  BY <1>2 DEF Range
<1>10. {handle[i] : i \in peers \cap S} \ {None} \subseteq Held
  BY DEF Held
<1>11. Held' \cap lost' = {} /\ members' = Held' \cup lost'
  <2>1. None \notin Held
    BY DEF Held
  <2> QED
    BY <1>1, <1>8, <1>9, <1>10, <2>1 DEF Accounted
<1> QED
  BY <1>6, <1>7, <1>11 DEF Accounted

-----------------------------------------------------------------------------
(* Sessions                                                                *)

\* what holds outside sessions, and until the welcome
Blank ==
  /\ state # "connected" => /\ my_id = None /\ ~server_info
                            /\ peers = {} /\ peers_size = 0
  /\ ~welcomed => peers = {}

Linked ==
  /\ ~HostGone /\ state # "disconnected" => host = "live" /\ client
  /\ ~HostGone => host # "twice"

Accountable ==
  /\ ~Closing => Accounted
  /\ ~HostGone => ~twice

SessionInv == LinkTypes /\ InfoTypes /\ EventFits /\ Blank /\ Linked /\ Accountable

LEMMA FreeTypes ==
  ASSUME InfoTypes, FreeServerInfo
  PROVE  InfoTypes'
<1>0. 0 \in 0 .. NPeers
  BY ClientAssumption
<1>1. /\ my_id' \in Ids \cup {None} /\ server_info' \in BOOLEAN
      /\ peers' \subseteq Ids /\ peers_size' \in 0 .. NPeers
      /\ members' \subseteq Handles /\ lost' \subseteq Handles
  BY <1>0 DEF InfoTypes, FreeServerInfo
<1>2. handle' \in [Ids -> Handles \cup {None}]
  BY DEF FreeServerInfo
<1>3. twice' \in BOOLEAN
  BY DEF FreeServerInfo
<1> QED
  BY <1>1, <1>2, <1>3 DEF InfoTypes

\* free_server_info lets members leave and nobody else
LEMMA FreesMembers ==
  ASSUME InfoTypes, Accounted, FreeServerInfo
  PROVE  twice' = twice /\ Accounted'
<1>1. Held \subseteq members /\ members \ Held = lost
  BY DEF Accounted
<1>2. twice' = twice
  BY <1>1 DEF FreeServerInfo, InfoTypes
<1>3. Held' = {} /\ peers' = {} /\ members' = lost /\ lost' = lost
  BY <1>1 DEF FreeServerInfo, Held
<1> QED
  BY <1>2, <1>3 DEF Accounted

LEMMA SameAccount ==
  ASSUME Accounted, UNCHANGED info
  PROVE  Accounted'
<1>1. Held' = Held
  BY DEF Held, info
<1> QED
  BY <1>1 DEF Accounted, info

LEMMA StepLink == SessionInv /\ SessionStep => LinkTypes'
<1> SUFFICES ASSUME LinkTypes, SessionStep PROVE LinkTypes'
  BY DEF SessionInv
<1> USE DEF LinkTypes, session, link
<1>1. CASE UNCHANGED session
  BY <1>1
<1>2. CASE Welcome(event) \/ Announce(event) \/ Disconnected(event)
  BY <1>2 DEF Welcome, Announce, Disconnected
<1>3. CASE CmdConnect
  BY <1>3 DEF CmdConnect, ConnectFails, ConnectNoHost, ConnectNoPeer, ConnectStarts
<1>4. CASE CmdDisconnect \/ ServiceConnecting
  BY <1>4 DEF CmdDisconnect, ServiceConnecting, DropHost, Destroyed
<1>5. CASE SvcClose \/ DestroyHost \/ FreeAtEnd
  BY <1>5 DEF SvcClose, DestroyHost, FreeAtEnd
<1> QED
  BY <1>1, <1>2, <1>3, <1>4, <1>5 DEF SessionStep

LEMMA StepInfo == SessionInv /\ SessionStep => InfoTypes'
<1> SUFFICES ASSUME InfoTypes, EventFits, SessionStep PROVE InfoTypes'
  BY DEF SessionInv
<1>1. CASE UNCHANGED info
  BY <1>1 DEF info, InfoTypes
<1>2. CASE pc = "event" /\ Welcome(event)
  <2>1. event.id \in Ids /\ event.ids \subseteq Ids
    BY <1>2 DEF EventFits, Welcome
  <2> QED
    BY <1>2, <2>1, PaddTypes DEF Welcome, InfoTypes
<1>3. CASE pc = "event" /\ Announce(event)
  <2>1. {event.id} \subseteq Ids
    BY <1>3 DEF EventFits, Announce
  <2> QED
    BY <1>3, <2>1, PaddTypes DEF Announce, InfoTypes
<1>4. CASE Disconnected(event) \/ CmdDisconnect \/ DestroyHost \/ FreeAtEnd
  BY <1>1, <1>4, FreeTypes DEF Disconnected, CmdDisconnect, DestroyHost, FreeAtEnd, session
<1>5. CASE CmdConnect
  BY <1>1, <1>5 DEF CmdConnect, ConnectFails, ConnectNoHost, ConnectNoPeer, ConnectStarts, session
<1>6. CASE ServiceConnecting
  BY <1>6 DEF ServiceConnecting, InfoTypes
<1>7. CASE SvcClose
  BY <1>7 DEF SvcClose, InfoTypes
<1> QED
  BY <1>1, <1>2, <1>3, <1>4, <1>5, <1>6, <1>7 DEF SessionStep, session

LEMMA StepBlank == SessionInv /\ SessionStep => Blank'
<1> SUFFICES ASSUME LinkTypes, EventFits, Blank, SessionStep PROVE Blank'
  BY DEF SessionInv
<1> USE DEF Blank, session, link, info, FreeServerInfo
<1>1. CASE UNCHANGED session
  BY <1>1
<1>2. CASE pc = "event" /\ (Welcome(event) \/ Announce(event) \/ Disconnected(event))
  BY <1>2 DEF EventFits, Welcome, Announce, Disconnected
<1>3. CASE CmdConnect
  BY <1>3 DEF CmdConnect, ConnectFails, ConnectNoHost, ConnectNoPeer, ConnectStarts
<1>4. CASE CmdDisconnect
  BY <1>4 DEF CmdDisconnect, DropHost, LinkTypes
<1>5. CASE ServiceConnecting
  BY <1>5 DEF ServiceConnecting, DropHost
<1>6. CASE SvcClose \/ DestroyHost \/ FreeAtEnd
  BY <1>6 DEF SvcClose, DestroyHost, FreeAtEnd
<1> QED
  BY <1>1, <1>2, <1>3, <1>4, <1>5, <1>6 DEF SessionStep

LEMMA StepLinked == SessionInv /\ SessionStep => Linked'
<1> SUFFICES ASSUME LinkTypes, EventFits, Linked, SessionStep PROVE Linked'
  BY DEF SessionInv
<1> USE DEF Linked, Closing, HostGone, session, link
<1>1. CASE UNCHANGED session /\ (pc' = pc \/ ~(Closing \/ Closing'))
  BY <1>1
<1>0. CASE UNCHANGED session /\ HostGone /\ HostGone'
  BY <1>0
<1>2. CASE pc = "event" /\ ~Closing' /\ (Welcome(event) \/ Announce(event) \/ Disconnected(event))
  BY <1>2 DEF Welcome, Announce, Disconnected
<1>3. CASE pc = "command" /\ ~Closing' /\ CmdConnect
  BY <1>3 DEF CmdConnect, ConnectFails, ConnectNoHost, ConnectNoPeer, ConnectStarts
<1>4. CASE pc = "command" /\ ~Closing' /\ CmdDisconnect
  BY <1>4 DEF CmdDisconnect, DropHost, Destroyed, LinkTypes
<1>5. CASE pc = "net" /\ ~Closing' /\ ServiceConnecting
  <2>1. host = "live" /\ client /\ pc' = "input"
    BY <1>5 DEF ServiceConnecting, Goto
  <2>2. CASE state' = "connected" /\ UNCHANGED <<host, client, welcomed>>
    BY <2>1, <2>2
  <2>3. CASE DropHost
    BY <2>1, <2>3 DEF DropHost, Destroyed
  <2> QED
    BY <1>5, <2>2, <2>3 DEF ServiceConnecting
<1>6. CASE SvcClose \/ DestroyHost \/ FreeAtEnd
  BY <1>6 DEF SvcClose, DestroyHost, FreeAtEnd, Goto
<1> QED
  BY <1>0, <1>1, <1>2, <1>3, <1>4, <1>5, <1>6 DEF SessionStep

LEMMA StepAccountable == SessionInv /\ SessionStep => Accountable'
<1> SUFFICES ASSUME SessionInv, SessionStep PROVE Accountable'
  OBVIOUS
<1>1. CASE UNCHANGED info /\ (pc' = pc \/ ~(Closing \/ Closing'))
  BY <1>1, SameAccount DEF SessionInv, Accountable, info, Closing, HostGone
<1>0. CASE UNCHANGED info /\ HostGone /\ HostGone'
  BY <1>0 DEF Accountable, Closing, HostGone
<1>2. CASE pc = "event" /\ ~Closing' /\ Welcome(event)
  <2>1. /\ InfoTypes /\ Accounted /\ ~twice
        /\ event.ids \subseteq Ids /\ event.id \in event.ids /\ peers = {}
    BY <1>2 DEF SessionInv, Accountable, Closing, HostGone, EventFits, Blank, Welcome
  <2>2. Announces(event.ids, event.id)
    BY <2>1 DEF Announces
  <2>3. Accounted'
    BY <1>2, <2>1, <2>2, PaddAccounted DEF Welcome
  <2> QED
    BY <1>2, <2>1, <2>3 DEF Accountable, Welcome
<1>3. CASE pc = "event" /\ ~Closing' /\ Announce(event)
  <2>1. InfoTypes /\ Accounted /\ ~twice /\ event.id \in Ids /\ event.id # my_id
    BY <1>3 DEF SessionInv, Accountable, Closing, HostGone, EventFits, Announce
  <2>2. Announces({event.id}, my_id)
    BY <2>1 DEF Announces
  <2>3. Accounted'
    BY <1>3, <2>1, <2>2, PaddAccounted DEF Announce
  <2> QED
    BY <1>3, <2>1, <2>3 DEF Accountable, Announce
<1>4. CASE (pc = "event" \/ pc = "command") /\ ~Closing' /\ FreeServerInfo
  <2>1. InfoTypes /\ Accounted /\ ~twice
    BY <1>4 DEF SessionInv, Accountable, Closing, HostGone
  <2> QED
    BY <1>4, <2>1, FreesMembers DEF Accountable
<1>5. CASE pc = "command" /\ ~Closing' /\ (CmdConnect \/ CmdDisconnect)
  BY <1>1, <1>4, <1>5
     DEF CmdConnect, ConnectFails, ConnectNoHost, ConnectNoPeer, ConnectStarts, CmdDisconnect,
         session, Closing
<1>6. CASE pc = "net" /\ ~Closing' /\ ServiceConnecting
  <2>1. Accounted /\ ~twice
    BY <1>6 DEF SessionInv, Accountable, Closing, HostGone
  <2>2. UNCHANGED <<my_id, peers, handle, members, lost, twice>>
    BY <1>6 DEF ServiceConnecting
  <2>3. Held' = Held
    BY <2>2 DEF Held
  <2> QED
    BY <2>1, <2>2, <2>3 DEF Accountable, Accounted
<1>7. CASE SvcClose
  BY <1>7 DEF SvcClose, Goto, SessionInv, Accountable, Closing, HostGone
<1>8. CASE DestroyHost \/ FreeAtEnd
  BY <1>8 DEF DestroyHost, FreeAtEnd, Goto, Accountable, Closing, HostGone
<1> QED
  BY <1>0, <1>1, <1>2, <1>3, <1>4, <1>5, <1>6, <1>7, <1>8 DEF SessionStep, session, Disconnected

LEMMA InitSession == Init => SessionInv
<1> SUFFICES ASSUME Init PROVE SessionInv
  OBVIOUS
<1>1. LinkTypes /\ EventFits /\ Blank /\ Linked
  BY DEF Init, LinkTypes, EventFits, Blank, Linked
<1>2. InfoTypes
  <2>1. handle \in [Ids -> Handles \cup {None}]
    BY DEF Init
  <2>2. 0 \in 0 .. NPeers
    BY ClientAssumption
  <2> QED
    BY <2>1, <2>2 DEF Init, InfoTypes
<1>3. Held = {}
  BY DEF Init, Held
<1> QED
  BY <1>1, <1>2, <1>3 DEF Init, SessionInv, Accountable, Accounted

LEMMA SessionInvariant == Spec => []SessionInv
<1>1. SessionInv /\ [Next]_vars => SessionInv'
  <2>1. SessionInv /\ [Next]_vars => EventFits'
    BY StepEvent DEF SessionInv
  <2> QED
    BY <2>1, StepSession, StepLink, StepInfo, StepBlank, StepLinked, StepAccountable
       DEF SessionInv
<1> QED
  BY <1>1, InitSession, PTL DEF Spec

\* The types of the session, the input and the main loop, for any number of
\* ids, svc_peer_t's and lines (main.c:70-120).
THEOREM TypeCorrect == Spec => []TypeOK
<1>1. Init => LoopTypes /\ LineTypes
  BY EmptySeq DEF Init, LoopTypes, LineTypes, Lines
<1>2. LoopTypes /\ LineTypes /\ [Next]_vars => (LoopTypes /\ LineTypes)'
  BY StepLoop, StepLines
<1>3. SessionInv /\ LoopTypes /\ LineTypes => TypeOK
  BY DEF SessionInv, LinkTypes, InfoTypes, LoopTypes, LineTypes, TypeOK
<1> QED
  BY <1>1, <1>2, <1>3, SessionInvariant, PTL DEF Spec

\* main.c:123-126,223-249,327-413: my_id is set only while the client is
\* connected, a session runs over a host that exists until the program ends, and
\* nothing of it is left for the next.
THEOREM SessionCorrect == Spec => []SessionClean
<1>1. SessionInv => SessionClean
  BY DEF SessionInv, LinkTypes, Blank, Linked, SessionClean, MaySend, Held
<1> QED
  BY <1>1, SessionInvariant, PTL

\* main.c:572-617: libsvc's list is the peers of the vector, each but the client
\* once, and those that repeated announcements have made it forget.
THEOREM PeersCorrect == Spec => []PeersAccounted
<1>1. SessionInv => PeersAccounted
  BY DEF SessionInv, Accountable, Accounted, Closing, PeersAccounted
<1> QED
  BY <1>1, SessionInvariant, PTL

\* main.c:223-249,327-413,787-794: no peer and no host is freed a second time
\* before the end of the program.
THEOREM FreedCorrect == Spec => []FreedOnce
<1>1. SessionInv => FreedOnce
  BY DEF SessionInv, Linked, Accountable, FreedOnce
<1> QED
  BY <1>1, SessionInvariant, PTL
=============================================================================
