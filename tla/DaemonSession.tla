---------------------------- MODULE DaemonSession ----------------------------
(***************************************************************************)
(* The daemon as its client sees it: which messages it reads in which      *)
(* phase, and what it sends (Daemon/src/Daemon.cpp, the read loop of       *)
(* LuaGlue::OnDebuggerEntry(), main.cpp). Hooks, breakpoints and the Lua   *)
(* stack are left to the LuaGlue module: here the Lua program may pause or *)
(* return at any time.                                                     *)
(***************************************************************************)
EXTENDS Wire

VARIABLES daemon,   \* where the daemon's process is
          pause,    \* why it paused
          aborted   \* LuaGlue::IsInternalAbort()

daemonVars == <<daemon, pause, aborted>>

Pauses     == {"hook", "error", "load", "require"}
DaemonOver == {"exited", "assert(ok)", "assert(m_ValidLines)", "assert(require ok)"}

DaemonType ==
  /\ daemon \in {"listen", "setup", "loading", "running", "paused", "cleanup"} \cup DaemonOver
  /\ pause \in Pauses \cup {"none"}
  /\ aborted \in BOOLEAN

DaemonInit == daemon = "listen" /\ pause = "none" /\ aborted = FALSE

\* accept() returns; main() enters its loop.
Accept ==
  /\ daemon = "listen" /\ server = "open"
  /\ daemon' = "setup"
  /\ UNCHANGED <<wireVars, pause, aborted>>

\* The process is over: exit, or a failed assert.
DaemonEnds(how) ==
  /\ daemon' = how /\ pause' = "none" /\ aborted' = FALSE

\* The process ends on its next read, whatever the message.
DaemonFailsOn(msg, crash) ==
  /\ toDaemon # << >> /\ Head(toDaemon) = msg
  /\ DaemonEnds(crash) /\ DaemonCloses

\* What OnDebuggerEntry() sends before it reads: the stack, the scripts loaded
\* since the last pause if any, and the suspended state.
PauseMessages(why) ==
  LET suspended == IF why = "hook" THEN "VM_SUSPENDED" ELSE "VM_SUSPENDED_ERROR"
  IN  {<<"REPLY_STACK", suspended>>, <<"REPLY_STACK", "NOTIFY_SCRIPT_LOADED", suspended>>}

SetupAnswers ==
  [msg \in ClientMessages \ {"REQUEST_SYNC_N_START_LUA"} |->
     CASE msg = "REQUEST_PLATFORM"   -> <<"REPLY_PLATFORM">>
       [] msg = "REQUEST_ECHO_DATA"  -> <<"REPLY_ECHO_DATA">>
       [] msg = "NOTIFY_BREAKPOINTS" -> << >>
       [] OTHER                      -> <<"UNEXPECTED_DURING_SYNC">>]

\* SessionSetupLoop() reads a message that leaves it in the loop.
SetupRead ==
  /\ daemon = "setup"
  /\ \E msg \in DOMAIN SetupAnswers : Receive(msg, SetupAnswers[msg])
  /\ UNCHANGED daemonVars

\* REQUEST_SYNC_N_START_LUA. The client only sends a startup that is complete,
\* so NOTIFY_SYNC_FAILED is never sent.
SyncNStart ==
  /\ daemon = "setup" /\ Receive("REQUEST_SYNC_N_START_LUA", << >>)
  /\ daemon' = "loading" /\ UNCHANGED <<pause, aborted>>

LoadStartFile ==
  /\ daemon = "loading" /\ daemon' = "running"
  /\ UNCHANGED <<wireVars, pause, aborted>>

\* The messages that OnDebuggerEntry() answers or takes and goes on reading.
Fault_PausedAnswersNone == [msg \in {"REQUEST_VARIABLES", "NOTIFY_BREAKPOINTS"} |-> << >>]
PausedAnswers ==
  [msg \in {"REQUEST_VARIABLES", "NOTIFY_BREAKPOINTS"} |->
     IF msg = "REQUEST_VARIABLES" THEN <<"REPLY_VARIABLES">> ELSE << >>]

\* OnDebuggerEntry() up to its read loop; an aborted session never enters.
PauseProgram ==
  /\ ~aborted
  /\ \E why \in Pauses :
       /\ daemon = IF why = "load" THEN "loading" ELSE "running"
       /\ why \in {"load", "require"} => "load_error" \in Environment
       /\ \E msgs \in PauseMessages(why) : Send(msgs)
       /\ daemon' = "paused" /\ pause' = why
  /\ UNCHANGED aborted

PausedRead ==
  /\ daemon = "paused"
  /\ \E msg \in DOMAIN PausedAnswers : Receive(msg, PausedAnswers[msg])
  /\ UNCHANGED daemonVars

\* Any other: told to the client, then the assert on DispatchMessage() fails.
PausedReadUnexpected ==
  /\ daemon = "paused"
  /\ toDaemon # << >> /\ Head(toDaemon) \notin Resumes \cup DOMAIN PausedAnswers
  /\ DaemonEnds("assert(ok)")
  /\ server' = "none" /\ toDaemon' = << >>
  /\ toClient' = IF clientOpen THEN Append(toClient, "UNEXPECTED_DURING_DEBUG") ELSE toClient
  /\ UNCHANGED clientOpen

\* A resume: the program goes on, aborted or not; after a failed load the
\* session ends, and after a failed require() the assert on it fails.
ResumeDaemon ==
  /\ daemon = "paused"
  /\ \/ /\ pause \in {"hook", "error"}
        /\ \E cmd \in Resumes : Receive(cmd, << >>) /\ aborted' = (cmd = "RESUME_END_SESSION")
        /\ daemon' = "running" /\ pause' = "none"
     \/ /\ pause = "load"
        /\ \E cmd \in Resumes \ {"RESUME_STEP_OVER"} : Receive(cmd, << >>)
        /\ daemon' = "cleanup" /\ pause' = "none" /\ UNCHANGED aborted
     \/ /\ pause = "require"
        /\ \E cmd \in Resumes \ {"RESUME_STEP_OVER"} : DaemonFailsOn(cmd, "assert(require ok)")
     \/ /\ pause \in {"load", "require"}
        /\ DaemonFailsOn("RESUME_STEP_OVER", "assert(m_ValidLines)")

\* The program returns, or has been unwound.
ProgramEnds ==
  /\ daemon = "running" /\ daemon' = "cleanup"
  /\ UNCHANGED <<wireVars, pause, aborted>>

\* Reset() is forgotten.
Fault_CleanUp ==
  /\ daemon = "cleanup" /\ Send(<<"NOTIFY_SESSION_ENDED">>)
  /\ daemon' = "setup" /\ UNCHANGED <<pause, aborted>>

\* clean_up in main(), and round again.
CleanUp ==
  /\ daemon = "cleanup" /\ Send(<<"NOTIFY_SESSION_ENDED">>)
  /\ daemon' = "setup" /\ aborted' = FALSE /\ UNCHANGED pause

\* A read finds the client gone: a pause aborts, the setup loop gives up. (When
\* the socket is already closed main() leaves its loop before the next read.)
DaemonLosesClient ==
  /\ DaemonAtEof
  /\ \/ /\ daemon = "paused" /\ pause # "require"
        /\ daemon' = IF pause = "load" THEN "cleanup" ELSE "running"
        /\ aborted' = TRUE /\ pause' = "none" /\ UNCHANGED wireVars
     \/ daemon = "paused" /\ pause = "require" /\ DaemonEnds("assert(require ok)") /\ DaemonCloses
     \/ daemon = "setup" /\ DaemonEnds("exited") /\ DaemonCloses

\* External: the process is killed; another one is started on the host.
Kill ==
  /\ "kill" \in Environment /\ daemon \notin DaemonOver
  /\ DaemonEnds("exited") /\ DaemonCloses

Launch ==
  /\ daemon \in DaemonOver
  /\ daemon' = "listen" /\ server' = "listening"
  /\ UNCHANGED <<toDaemon, toClient, clientOpen, pause, aborted>>

\* What the daemon's thread does by itself, and what its environment does.
DaemonThread == \/ Accept \/ SetupRead \/ SyncNStart \/ LoadStartFile \/ PausedRead
                \/ PausedReadUnexpected \/ ResumeDaemon \/ CleanUp \/ DaemonLosesClient
DaemonWorld  == PauseProgram \/ ProgramEnds \/ Kill \/ Launch

-----------------------------------------------------------------------------
\* The daemon's side of the protocol, as the debuggee that LuaGlue implements.
phase == IF daemon \in DaemonOver THEN "dead"
         ELSE IF daemon = "paused" THEN "paused"
         ELSE IF daemon \in {"loading", "running", "cleanup"} THEN "running" ELSE "idle"

Abstract == INSTANCE Debuggee WITH phase <- phase, doomed <- aborted
=============================================================================
