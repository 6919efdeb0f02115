------------------------------ MODULE FrontEnd ------------------------------
(***************************************************************************)
(* svcenet/wx: the user interface runs svcc as a child process and keeps a *)
(* copy of its state (svcstate.cpp), made of the lines svcc prints.  A     *)
(* reader thread (svcreaderthread.cpp) moves lines from the pipe to a list *)
(* and the GUI thread, on a timer, from the list through the copy into a   *)
(* list of events and from there into the window (svcwindow.cpp).  The     *)
(* child may die and the window may be closed at any time.                 *)
(*                                                                         *)
(* The reader of stderr is the same code on another pipe, and /deafen goes *)
(* the way of /mute: both are left out.  A section under stdLock is one    *)
(* action.  svcc's flush is left out: an unread line is in the pipe.       *)
(***************************************************************************)
EXTENDS Naturals, Sequences, SequencesExt

CONSTANTS
  Servers,      \* what the user may connect to
  Infos,        \* values of the server's one public key
  None,         \* no server, no value
  MaxChanges    \* how often svcc changes its state

ASSUME FrontEndAssumption ==
  /\ None \notin Servers \cup Infos
  /\ MaxChanges \in Nat

VARIABLES
  client,        \* svcc's connection state, server, server info and muted flag
  alive,         \* wxProcess::Exists(svcPid)
  terminated,    \* SIGTERM has been sent
  changes,       \* how often client has changed
  pipe,          \* lines that svcc has printed and nobody has read
  reader,        \* position of the reader thread
  endReceived,   \* signalEnd has been called
  stdoutList,    \* lines for the GUI thread
  gui,           \* position of the GUI thread
  svc,           \* whether svc # NULL
  state,         \* SVCState: the copy of client
  eventList,     \* events for the window
  window         \* what the window shows: see Blank

svccVars  == <<client, alive, terminated, changes, pipe>>
threads   == <<reader, endReceived, stdoutList>>
stateVars == <<svc, state, eventList>>
vars      == <<svccVars, threads, gui, stateVars, window>>

Disconnected == [connection |-> "disconnected", server |-> None, info |-> None,
                 muted |-> FALSE]

\* stateConnectionState, stateServer*, serverInfo, and the text of the status bar
Blank == [connection |-> "disconnected", server |-> None, info |-> None,
          status |-> <<"not running">>]

\* openSVC has run; wxProcess::Open may have failed
Init ==
  /\ svc \in BOOLEAN /\ alive = svc
  /\ client = Disconnected /\ changes = 0 /\ pipe = <<>> /\ terminated = FALSE
  /\ reader = IF svc THEN "test" ELSE "none"
  /\ endReceived = FALSE /\ stdoutList = <<>>
  /\ gui = "idle"
  /\ state = Disconnected /\ eventList = <<>>
  /\ window = Blank

-----------------------------------------------------------------------------
(* svcc (client/main.c), by what it prints                                 *)

Line(op, arg) == [op |-> op, arg |-> arg]

\* msg_state
StateLines(c) ==
  IF c.connection = "disconnected"
    THEN <<Line("STATE", c.connection)>>
    ELSE <<Line("SERVER", c.server), Line("STATE", c.connection)>>

Change(c, lines) ==
  /\ alive /\ changes < MaxChanges
  /\ client' = c
  /\ changes' = changes + 1
  /\ pipe' = pipe \o lines
  /\ UNCHANGED <<alive, terminated, threads, gui, stateVars, window>>

ChangeState(c) == Change(c, StateLines(c))

\* cmd_connect
Connect(s) ==
  /\ client.connection = "disconnected"
  /\ ChangeState([client EXCEPT !.connection = "connecting", !.server = s])

Connected ==
  /\ client.connection = "connecting"
  /\ ChangeState([client EXCEPT !.connection = "connected"])

\* cmd_disconnect, a connection that fails, a connection that ends
Disconnect ==
  /\ client.connection # "disconnected"
  /\ ChangeState([client EXCEPT !.connection = "disconnected", !.info = None])

\* scmd_sset
Sset(v) ==
  /\ client.connection = "connected"
  /\ Change([client EXCEPT !.info = v], <<Line("SSET", v)>>)

\* cmd_mute; saying what is so already prints a line too
Mute(flag) == Change([client EXCEPT !.muted = flag], <<Line("MUTED", flag)>>)

\* svcc ends and says so, or is killed
Dies(lines) ==
  /\ alive
  /\ alive' = FALSE
  /\ pipe' = pipe \o lines
  /\ UNCHANGED <<client, terminated, changes, threads, gui, stateVars, window>>

Quit == Dies(<<Line("STATE", "exiting")>>)
Crash == Dies(<<>>)

-----------------------------------------------------------------------------
(* The reader thread, SVCReaderThread::Entry                               *)

Reader(from, to) == reader = from /\ reader' = to
Others == UNCHANGED <<client, alive, terminated, changes, endReceived, gui, stateVars,
                      window>>

\* the test of the loop; Eof() holds once a read has come upon the end
TestEnd ==
  /\ reader \in {"test", "eof"}
  /\ reader' = IF reader = "eof" \/ endReceived THEN "ended" ELSE "read"
  /\ Others /\ UNCHANGED <<pipe, stdoutList>>

ReadLine ==
  /\ pipe # <<>>
  /\ Reader("read", "test")
  /\ stdoutList' = Append(stdoutList, Head(pipe))
  /\ pipe' = Tail(pipe)
  /\ Others

\* the test comes after each character: the end may be seen within a line,
\* what has been read of it is lost
EndWithinLine ==
  /\ endReceived /\ pipe # <<>>
  /\ Reader("read", "ended")
  /\ Others /\ UNCHANGED <<pipe, stdoutList>>

\* a read that blocks comes back when the process, and with it the pipe, is gone
ReadEof ==
  /\ pipe = <<>> /\ ~alive
  /\ Reader("read", "eof")
  /\ Others /\ UNCHANGED <<pipe, stdoutList>>

-----------------------------------------------------------------------------
(* parseCommand and its handlers: the copy and the events after a line     *)

ConnectionStates == {"disconnected", "connecting", "connected"}

\* Mutant: any word is taken for a connection state.
IsNewsAny(s, line) ==
  CASE line.op = "STATE" -> line.arg # s.connection
    [] line.op = "MUTED" -> line.arg # s.muted
    [] OTHER             -> TRUE

\* handleStateMuted and handleStateConnection pass on only what changes
IsNews(s, line) ==
  CASE line.op = "STATE" -> line.arg \in ConnectionStates \ {s.connection}
    [] line.op = "MUTED" -> line.arg # s.muted
    [] OTHER             -> TRUE

\* Mutant: a disconnection leaves the server's info.
ParsedKeepsInfo(s, line) ==
  IF ~IsNews(s, line) THEN s
  ELSE CASE line.op = "STATE"  -> [s EXCEPT !.connection = line.arg]
         [] line.op = "SERVER" -> [s EXCEPT !.server = line.arg]
         [] line.op = "SSET"   -> [s EXCEPT !.info = line.arg]
         [] line.op = "MUTED"  -> [s EXCEPT !.muted = line.arg]

Parsed(s, line) ==
  IF ~IsNews(s, line) THEN s
  ELSE CASE line.op = "STATE"  -> [s EXCEPT !.connection = line.arg,
                                    !.info = IF line.arg = "disconnected"
                                               THEN None ELSE s.info]
         [] line.op = "SERVER" -> [s EXCEPT !.server = line.arg]
         [] line.op = "SSET"   -> [s EXCEPT !.info = line.arg]
         [] line.op = "MUTED"  -> [s EXCEPT !.muted = line.arg]

\* Mutant: what becomes of a connection attempt is no event.
EventsNotOfAttempts(s, line) ==
  IF IsNews(s, line) /\ ~(line.op = "STATE" /\ s.connection = "connecting")
    THEN <<line>> ELSE <<>>

\* an event says what the line said
EventsOf(s, line) == IF IsNews(s, line) THEN <<line>> ELSE <<>>

-----------------------------------------------------------------------------
(* The window                                                              *)

\* handleConnectionState
Status(connection, server) ==
  IF connection = "disconnected" THEN <<connection>> ELSE <<connection, server>>

\* Mutant: the panel of the server's info is never cleared.
ShownKeepsInfo(w, event) ==
  CASE event.op = "STATE"  -> [w EXCEPT !.connection = event.arg,
                                        !.status = Status(event.arg, w.server)]
    [] event.op = "SERVER" -> [w EXCEPT !.server = event.arg]
    [] event.op = "SSET"   -> [w EXCEPT !.info = event.arg]
    [] OTHER -> w

\* updateSVCState, for one event; it clears the panel when a connection ends
Shown(w, event) ==
  CASE event.op = "STATE"  ->
         [w EXCEPT !.connection = event.arg,
                   !.status = Status(event.arg, w.server),
                   !.info = IF event.arg = "disconnected" /\ w.connection = "connected"
                              THEN None ELSE w.info]
    [] event.op = "SERVER" -> [w EXCEPT !.server = event.arg]
    [] event.op = "SSET"   -> [w EXCEPT !.info = event.arg]
    [] OTHER -> w

-----------------------------------------------------------------------------
(* The GUI thread                                                          *)

Gui(from, to) == gui = from /\ gui' = to

\* Mutant: the child is not asked to end.
TerminateNot == UNCHANGED terminated

\* killSVC sends SIGTERM to a process that exists
Terminate == terminated' = (terminated \/ alive)

\* killSVC up to the wait for the readers
KillSVC ==
  /\ Terminate
  /\ endReceived' = TRUE
  /\ UNCHANGED <<client, alive, changes, pipe, reader, stdoutList, stateVars, window>>

\* OnIOTimer calls processIO
ProcessIO ==
  /\ Gui("idle", IF svc THEN "lines" ELSE "update")
  /\ svc => alive
  /\ UNCHANGED <<svccVars, threads, stateVars, window>>

ProcessIODead ==
  /\ svc /\ ~alive
  /\ Gui("idle", "join")
  /\ KillSVC

TakeLine ==
  /\ Gui("lines", "lines")
  /\ stdoutList # <<>>
  /\ stdoutList' = Tail(stdoutList)
  /\ state' = Parsed(state, Head(stdoutList))
  /\ eventList' = eventList \o EventsOf(state, Head(stdoutList))
  /\ UNCHANGED <<svccVars, reader, endReceived, svc, window>>

NoMoreLines ==
  /\ Gui("lines", "update")
  /\ stdoutList = <<>>
  /\ UNCHANGED <<svccVars, threads, stateVars, window>>

\* the second half of killSVC, which returns into the timer's handler or, when
\* the application ends, into the destructor
JoinReader ==
  /\ gui \in {"join", "joinExit"} /\ reader = "ended"
  /\ gui' = IF gui = "join" THEN "update" ELSE "closed"
  /\ svc' = FALSE
  /\ UNCHANGED <<svccVars, threads, state, eventList, window>>

\* Mutant: the status bar changes only with an event.
NotRunningIfEvents(w) ==
  IF eventList = <<>> THEN w ELSE [w EXCEPT !.status = <<"not running">>]

\* what the window shows when svcc is not ready
NotRunning(w) == [w EXCEPT !.status = <<"not running">>]

\* what it shows before the first event
Running(w) ==
  IF w.status = <<"not running">> THEN [w EXCEPT !.status = <<"disconnected">>] ELSE w

\* updateSVCState looks again whether svcc is there; if not the events are lost
UpdateSVCState ==
  /\ Gui("update", "idle")
  /\ window' = IF svc /\ alive THEN FoldLeft(Shown, Running(window), eventList)
                               ELSE NotRunning(window)
  /\ eventList' = <<>>
  /\ UNCHANGED <<svccVars, threads, svc, state>>

\* the user closes the window: OnExit, ~SVCState
Exit ==
  /\ Gui("idle", IF svc THEN "joinExit" ELSE "closed")
  /\ IF svc THEN KillSVC
            ELSE UNCHANGED <<svccVars, threads, stateVars, window>>

-----------------------------------------------------------------------------
Svcc ==
  \/ \E s \in Servers : Connect(s)
  \/ Connected \/ Disconnect
  \/ \E v \in Infos : Sset(v)
  \/ \E flag \in BOOLEAN : Mute(flag)
  \/ Quit \/ Crash

ReaderThread == TestEnd \/ ReadLine \/ EndWithinLine \/ ReadEof

\* the GUI thread without the user
Timer ==
  \/ ProcessIO \/ ProcessIODead \/ TakeLine \/ NoMoreLines \/ JoinReader \/ UpdateSVCState

Next == Svcc \/ ReaderThread \/ Timer \/ Exit

Spec == Init /\ [][Next]_vars

\* Threads are scheduled, the timer ticks, and SIGTERM ends svcc.
Fairness ==
  WF_vars(ReaderThread) /\ WF_vars(Timer) /\ WF_vars(terminated /\ Crash)

FairSpec == Spec /\ Fairness

-----------------------------------------------------------------------------
(* Properties                                                              *)

Copies == [connection : ConnectionStates, server : Servers \cup {None},
           info : Infos \cup {None}, muted : BOOLEAN]

IsLine(l) ==
  CASE l.op = "STATE"  -> l.arg \in ConnectionStates \cup {"exiting"}
    [] l.op = "SERVER" -> l.arg \in Servers
    [] l.op = "SSET"   -> l.arg \in Infos
    [] l.op = "MUTED"  -> l.arg \in BOOLEAN

\* Types of the state.
TypeOK ==
  /\ client \in Copies /\ state \in Copies
  /\ {alive, terminated, endReceived, svc} \subseteq BOOLEAN
  /\ changes \in 0 .. MaxChanges
  /\ \A lines \in {pipe, stdoutList, eventList} : \A k \in DOMAIN lines : IsLine(lines[k])
  /\ reader \in {"none", "test", "read", "eof", "ended"}
  /\ gui \in {"idle", "lines", "update", "join", "joinExit", "closed"}
  /\ window.connection \in ConnectionStates

\* svcstate.cpp:33-210, svcreaderthread.cpp:23-38: while svcc runs, the copy
\* and the lines still on their way say together what svcc's state is: no
\* line is lost, doubled or overtaken between the two threads, and what a
\* disconnection clears in one it clears in the other.
CopyFollows ==
  svc /\ alive /\ ~endReceived =>
    FoldLeft(Parsed, state, stdoutList \o pipe) = client

\* svcwindow.cpp:194-305: while svcc runs, the window and the events still on
\* their way say together what the copy says, although the copy is cleared at
\* once and the window only by an event; and the status bar names the server of
\* the connection it shows, which comes in an event of its own.
WindowFollows ==
  svc /\ alive =>
    LET w == FoldLeft(Shown, window, eventList)
    IN  /\ <<w.connection, w.server, w.info>>
             = <<state.connection, state.server, state.info>>
        /\ w.status \in {<<"not running">>, Status(state.connection, state.server)}

\* svcstate.cpp:184-210, svcwindow.cpp:124-145: as long as svcc and the window
\* live, the window comes to show svcc's state, and keeps doing so.
WindowCatchesUp ==
  <>[](alive /\ ~endReceived)
    => <>[](/\ window.connection = client.connection /\ window.info = client.info
            /\ window.status = Status(client.connection, client.server))

\* svcwindow.cpp:255-262: that svcc has ended, whatever it left unread, is shown.
DeathNoticed == ~alive ~> window.status = <<"not running">> \/ gui = "closed"

\* svcstate.cpp:245-279: killSVC, which waits for a thread that may be in a
\* read that blocks, comes back.
KillReturns == gui \in {"join", "joinExit"} ~> gui \notin {"join", "joinExit"}
=============================================================================
