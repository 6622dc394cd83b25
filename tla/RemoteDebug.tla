----------------------------- MODULE RemoteDebug -----------------------------
(***************************************************************************)
(* A client and a daemon over one TCP connection at a time: the turns they *)
(* take, and what the loss of either does to the other. ClientFrame and    *)
(* DaemonSession share the wire only.                                      *)
(***************************************************************************)
EXTENDS ClientFrame, DaemonSession

vars == <<wireVars, clientVars, daemonVars>>

Init == WireInit /\ ClientInit /\ DaemonInit

ClientNext == (User \/ UiThread \/ AsyncRead \/ ClientProcessOver) /\ UNCHANGED daemonVars
DaemonNext == (DaemonThread \/ DaemonWorld) /\ UNCHANGED clientVars

Next == ClientNext \/ DaemonNext

\* Threads are scheduled, and the event loop takes its sources in turn, so that
\* a timer that is due again and again is served. Of the user, the Lua program
\* and the hosts nothing is assumed.
ByClient(A) == A /\ UNCHANGED daemonVars
Fairness ==
  /\ WF_vars(ByClient(ProcessPendingEvents))
  /\ WF_vars(ByClient(ReadMessage))
  /\ SF_vars(ByClient(OnAsyncReadTimerDone \/ OnAsyncReadTimerFailed))
  /\ WF_vars(ByClient(AsyncRead))
  /\ WF_vars(ByClient(ClientProcessOver))
  /\ WF_vars(DaemonThread /\ UNCHANGED clientVars)

Spec == Init /\ [][Next]_vars /\ Fairness

-----------------------------------------------------------------------------
(* Properties.                                                             *)

TypeOK == WireType /\ ClientType /\ DaemonType

\* Whenever the client has its turn, the daemon is in the loop that serves that
\* turn, and nothing is under way but the one request or reply of a
\* synchronous read: the level, set by messages, timers and posted events, never
\* claims a pause that is not there (SetInitLevel() and its callers, 1411-1443,
\* 802-823; assert(IsLuaListening()) at TopFrame.cpp:1904).
TurnTaking ==
  Connected /\ IsClientActive /\ ui \in {"loop", "reply", "echo"} =>
    /\ daemon = IF level = "CONNECTED" THEN "setup" ELSE "paused"
    /\ reader = "none"
    /\ Len(toDaemon) + Len(toClient) = IF ui = "loop" THEN 0 ELSE 1

\* The stress test was run outside of CONNECTED: its menu item asks for a socket
\* only (OnNetStressTest, 1853-1861).
StressedInSession ==
  \/ ui \in {"stress beside the reader", "assert(REPLY_ECHO_DATA)"}
  \/ ui = "echo" /\ level # "CONNECTED"

\* What a synchronous read gets is the answer to what it asked, unless it is a stress
\* test run in a session; but for that one, the reader thread never reads beside it,
\* nor is a second read started over a first (ClientTCP.cpp:581-594, 647-728).
RepliesMatch ==
  /\ ui # "two readers"
  /\ ui = "reply" /\ toClient # << >> => Head(toClient) = "REPLY_VARIABLES"
  /\ ui = "assert(REPLY_ECHO_DATA)" => level # "CONNECTED"
  /\ queue \in Seq({"REPLY_VARIABLES"})

\* Unless a stress test is run in a session, no message makes the daemon fail the
\* assert on its dispatch, and none reaches it in a phase that does not expect it but
\* a step key before the start, which the frame lets through and the daemon refuses
\* (Daemon.cpp:249-261, LuaGlue.cpp:439, 508-513; Toolbar.cpp:1046-1048).
NothingUnexpected ==
  ~StressedInSession =>
    /\ daemon # "assert(ok)"
    /\ \A i \in DOMAIN toClient :
         toClient[i] \in Unexpected => toClient[i] = "UNEXPECTED_DURING_SYNC" /\ early = "sent"

\* The client waits for a daemon that waits for it only where it said so: with its
\* read pending and nothing under way, the daemon has a program running or is gone,
\* or it has refused a step asked for before the start and the status bar shows that
\* (OnAsyncReadTimer and DispatchMessage, TopFrame.cpp:1371-1384).
NoMutualWait ==
  Connected /\ level = "WAIT_REPLY" /\ ui = "loop" /\ reader = "reading" /\ toDaemon = << >>
    /\ toClient = << >> /\ daemon \in {"setup", "paused"} => daemon = "setup" /\ early = "refused"


\* What the daemon does on the wire is what the debuggee does that the LuaGlue
\* module implements: it never pauses in setup, or once it is aborted.
ImplementsDebuggee == Abstract!Spec

\* A client that waits for a daemon that is gone finds out and disconnects
\* (OnAsyncReadTimer, 1213-1228).
LostDaemonNoticed ==
  (level = "WAIT_REPLY" /\ server # "open" /\ ui = "loop") ~> (level # "WAIT_REPLY" \/ ui # "loop")

\* The UI thread comes back from every synchronous read of a daemon that lives:
\* what it asks for, the daemon answers, in a pause or in setup (at the end of
\* the stream ReadMessage() would poll on for ever, ClientTCP.cpp:658-661).
ReadMessageReturns ==
  ui \in {"reply", "echo"} ~> (ui \notin {"reply", "echo"} \/ server # "open")
-----------------------------------------------------------------------------
(* The inductive invariant of the session, where posted events come first.  *)

Orderly == "overtake" \notin Environment

Suspensions == {"VM_SUSPENDED", "VM_SUSPENDED_ERROR"}

\* What reloads and their replies post.
Backlog == Seq({"RELOAD", "INCOMING_MESSAGE"})

\* No native event is taken while one is posted, so that the level is the one it was
\* posted at; only reloads and their replies queue up.
EventsInv ==
  /\ posted \in Backlog \/ \E event \in Events : posted = <<event>>
  /\ ui = "reply" => posted \in Backlog /\ clientOpen
  /\ ui = "echo" => posted = << >> /\ clientOpen
  /\ queue \in Seq({"REPLY_VARIABLES"})
  /\ posted = <<"LUA_SUSPENDED">> => level \in {"LUA_PAUSED", "LUA_FATAL_ERROR"}
  /\ posted = <<"RESUME_RUN">> => level = "LUA_PAUSED"

\* The frame believes what its socket and its reader say.
FrameInv ==
  /\ clientOpen => level # "DISCONNECTED"
  /\ level = "WAIT_REPLY" => (clientOpen /\ ui \in {"loop", "echo"}) \/ ui = "assert(WriteMessage)"
  /\ tools.stop => IsLuaStarted
  /\ clientOpen => (reader = "none" <=> IsClientActive)
  /\ ui = "reply" => level \in {"LUA_PAUSED", "LUA_FATAL_ERROR"}
  /\ ui = "echo" => IF level = "WAIT_REPLY" THEN reader \in DaemonMessages ELSE level = "CONNECTED"
  /\ ui \notin {"two readers", "stress beside the reader", "assert(REPLY_ECHO_DATA)"}

\* A step asked for before the start: what of it a daemon in its setup may find, and
\* its refusal.
EarlySteps ==
  IF early = "sent"
  THEN {<<cmd>> : cmd \in StepCmds} \cup {<<"NOTIFY_BREAKPOINTS", cmd>> : cmd \in StepCmds}
  ELSE {}
Refusals == IF early = "sent" THEN {<<"UNEXPECTED_DURING_SYNC">>} ELSE {}

\* What a daemon may find to read in each phase, whether its client lives or not.
Requests ==
  CASE daemon = "listen" -> {<< >>, <<"REQUEST_PLATFORM">>}
    [] daemon = "setup"  -> {<< >>, <<"REQUEST_PLATFORM">>, <<"REQUEST_ECHO_DATA">>,
                             <<"NOTIFY_BREAKPOINTS", "REQUEST_SYNC_N_START_LUA">>,
                             <<"REQUEST_SYNC_N_START_LUA">>}
                            \cup EarlySteps
    [] daemon = "paused" -> {<< >>, <<"REQUEST_VARIABLES">>} \cup {<<cmd>> : cmd \in Resumes}
                            \cup {<<"NOTIFY_BREAKPOINTS", cmd>> : cmd \in Resumes}
    [] OTHER             -> {<< >>}
Asks == {<<"REQUEST_VARIABLES">>, <<"REQUEST_ECHO_DATA">>}

SocketInv ==
  /\ server = "none" <=> daemon \in DaemonOver
  /\ server = "listening" => daemon = "listen"
  /\ server # "open" => toDaemon = << >>
  /\ ~clientOpen => toClient = << >>
  /\ toDaemon \in Requests
  /\ daemon # "assert(ok)"

\* What the frame has yet to handle: what the reader thread got, and what it will.
UnhandledOf(got, coming) == IF got \in DaemonMessages THEN <<got>> \o coming ELSE coming
Unhandled == UnhandledOf(reader, toClient)

\* What is left of the messages of a pause.
PauseTail ==
  UNION {{<<end>>, <<"REPLY_STACK", end>>, <<"NOTIFY_SCRIPT_LOADED", end>>,
          <<"REPLY_STACK", "NOTIFY_SCRIPT_LOADED", end>>} : end \in Suspensions}
\* The messages of a daemon in its setup, each of them sent alone.
SetupTail == {<<"REPLY_PLATFORM">>, <<"NOTIFY_SESSION_ENDED">>} \cup Refusals

\* An echo that the daemon answers in its setup.
Echoes == {<< <<"REQUEST_ECHO_DATA">>, << >> >>, << << >>, <<"REPLY_ECHO_DATA">> >>}

\* The client's turn: the daemon serves it, and nothing is under way but the request
\* or the reply of a synchronous read.
SyncInv ==
  Connected /\ IsClientActive =>
    /\ daemon = IF level = "CONNECTED" THEN "setup" ELSE "paused"
    /\ <<toDaemon, toClient>> \in
         CASE ui = "reply" -> {<< <<"REQUEST_VARIABLES">>, << >> >>, << << >>, <<"REPLY_VARIABLES">> >>}
           [] ui = "echo"  -> Echoes
           [] OTHER        -> {<< << >>, << >> >>}

\* The daemon's turn: it has something to read, or a program to run, or the client
\* has something to read that ends the turn, or to say that a step was refused. A
\* stress test may get between the reader thread's last message and its dispatch.
AsyncInv ==
  Connected /\ level = "WAIT_REPLY" =>
    IF ui = "echo"
    THEN daemon = "setup" /\ <<reader>> \in SetupTail /\ <<toDaemon, toClient>> \in Echoes
    ELSE /\ reader # "failed"
         /\ \/ Unhandled = << >> /\ toDaemon # << >> /\ toDaemon \notin Asks
            \/ Unhandled = << >> /\ toDaemon = << >> /\ daemon \in {"loading", "running", "cleanup"}
            \/ Unhandled = << >> /\ toDaemon = << >> /\ daemon = "setup" /\ early = "refused"
            \/ toDaemon = << >> /\ daemon = "setup" /\ Unhandled \in SetupTail
            \/ toDaemon = << >> /\ daemon = "paused" /\ Unhandled \in PauseTail

\* A client whose daemon is gone reads what was sent to it before.
LostInv ==
  clientOpen /\ server # "open" =>
    IF level = "WAIT_REPLY" /\ ui # "echo"
    THEN \/ reader = "failed" /\ toClient = << >>
         \/ reader # "failed" /\ Unhandled \in {<< >>} \cup SetupTail \cup PauseTail
    ELSE /\ toClient \in {<< >>} \cup (CASE ui = "reply" -> {<<"REPLY_VARIABLES">>}
                                         [] ui = "echo"  -> {<<"REPLY_ECHO_DATA">>}
                                         [] OTHER        -> {<< >>})
         /\ level = "WAIT_REPLY" => <<reader>> \in SetupTail

\* A stress test run in a session: a second reader, or an echo nobody answers, ends
\* the client.
Ruined ==
  \/ ui \in {"stress beside the reader", "assert(REPLY_ECHO_DATA)"} /\ level # "CONNECTED"
  \/ /\ ui = "echo" /\ level # "CONNECTED" /\ clientOpen /\ reader # "reading"
     /\ \A i \in DOMAIN toClient : toClient[i] # "REPLY_ECHO_DATA"
     /\ IF server = "open"
        THEN /\ daemon = "paused" /\ toDaemon = <<"REQUEST_ECHO_DATA">>
             /\ IsClientActive => reader = "none" /\ toClient = << >>
        ELSE daemon \in DaemonOver \cup {"listen"}

Served == EventsInv /\ FrameInv /\ SocketInv /\ SyncInv /\ AsyncInv /\ LostInv

SessionInv == queue \in Seq({"REPLY_VARIABLES"}) /\ (Ruined \/ Served)
=============================================================================
