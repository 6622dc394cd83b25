----------------------------- MODULE ClientFrame -----------------------------
(***************************************************************************)
(* The client's debugger core: the init level, the toolbar, the posted     *)
(* events of the UI thread, the asynchronous reader thread with its timer, *)
(* and the synchronous request/reply of the variable views                 *)
(* (Client/src/TopFrame.cpp, Client.cpp, ClientTCP.cpp, Controller.cpp).   *)
(*                                                                         *)
(* The UI thread takes one event at a time. A posted event is handled in   *)
(* order, before any native one (a key, a timer) unless the environment    *)
(* lets native events overtake, as the GTK event loop does.                *)
(***************************************************************************)
EXTENDS Naturals, Wire

CONSTANTS
  MaxPosted,  \* bound: native events overtake fewer posted ones than this
  Books       \* the bottom notebook's books, with at most one variable view on top each

ASSUME FrameAssumption == MaxPosted \in Nat \ {0} /\ Books \in Nat

VARIABLES
  level,   \* INIT_LEVEL
  tools,   \* the toolbar's and menus' enabled flags, as last updated
  reader,  \* the async read: "none", "reading", "failed" or the message it got
  posted,  \* events posted to the UI thread
  queue,   \* m_ClientQueue
  ui,      \* what the UI thread is in, or what ended it
  dialog,  \* the modal "Stop Debug Session?" is open
  early    \* history: a step key pressed before the program was started

clientVars == <<level, tools, reader, posted, queue, ui, dialog, early>>

Levels  == {"DISCONNECTED", "CONNECTED", "LUA_PAUSED", "WAIT_REPLY", "LUA_FATAL_ERROR"}
Events  == {"LUA_SUSPENDED", "INCOMING_MESSAGE", "RESUME_RUN", "RELOAD", "STOP_SESSION"}
\* Failed asserts, and two reads of one socket at a time (a data race): the stress
\* test's beside the reader thread's, or any other two.
ClientOver == {"assert(DISCONNECTED)", "assert(IsConnected)", "assert(StartReadMessage)",
               "assert(IsLuaStarted)", "assert(WriteMessage)", "assert(REPLY_ECHO_DATA)",
               "stress beside the reader", "two readers"}

ActiveLevels == Levels \ {"WAIT_REPLY"}
Started      == {"LUA_PAUSED", "WAIT_REPLY", "LUA_FATAL_ERROR"}
IsClientActive  == level \in ActiveLevels
IsLuaStarted    == level \in Started
\* Fault_: the same operator with a plausible slip in the code it stands for; the
\* specification uses none of them.
Fault_IsLuaListening == IsClientActive
IsLuaListening  == IsClientActive /\ IsLuaStarted

\* The flags UpdateToolbarState() sets at a level.
Toolbar(lvl, open) ==
  [start |-> lvl \in ActiveLevels /\ open, step |-> lvl \in ActiveLevels,
   stop |-> lvl \in ActiveLevels \cap Started, stress |-> open]

ClientType ==
  /\ level \in Levels
  /\ tools \in [{"start", "step", "stop", "stress"} -> BOOLEAN]
  /\ reader \in {"none", "reading", "failed"} \cup DaemonMessages
  /\ posted \in Seq(Events) /\ queue \in Seq(DaemonMessages)
  /\ ui \in {"loop", "reply", "echo"} \cup ClientOver
  /\ dialog \in BOOLEAN
  \* "refused": as the status bar then says (TopFrame.cpp:1371-1384)
  /\ early \in {"no", "sent", "refused"}

ClientInit ==
  /\ level = "DISCONNECTED" /\ tools = Toolbar(level, FALSE)
  /\ reader = "none" /\ posted = << >> /\ queue = << >> /\ ui = "loop" /\ dialog = FALSE
  /\ early = "no"

-----------------------------------------------------------------------------
(* Pieces of the handlers.                                                 *)

\* The UI thread can take a native event; the user's need the frame enabled.
NativeEvent ==
  /\ ui = "loop"
  /\ posted = << >> \/ ("overtake" \in Environment /\ Len(posted) < MaxPosted)
UserEvent   == NativeEvent /\ ~dialog

Fail(how) == ui' = how /\ UNCHANGED <<level, tools, reader>>

SetLevel(lvl) ==
  /\ level' = lvl /\ tools' = Toolbar(lvl, clientOpen')
  /\ UNCHANGED <<reader, ui>>

\* WaitForNewMessage(): std::async() and the timer. An unread message of an
\* earlier read is dropped.
WaitForNewMessage ==
  IF reader = "reading" THEN Fail("two readers")
  ELSE /\ level' = "WAIT_REPLY" /\ tools' = Toolbar(level', TRUE)
       /\ reader' = "reading" /\ UNCHANGED ui

\* Messages sent one by one with CheckConnection() after each but the last.
SendAndWait(first, last) ==
  \/ Write(Append(first, last)) /\ WaitForNewMessage
  \/ first # << >> /\ WriteFails /\ SetLevel("DISCONNECTED")
  \/ WriteFails /\ Fail("assert(StartReadMessage)")

\* TopFrame::CheckConnection() found the socket closed.
SpuriousDisconnection == ~clientOpen /\ UNCHANGED wireVars /\ SetLevel("DISCONNECTED")

\* ResumeExecution(): the tool flag is checked again, except to terminate.
ResumeExecution(cmd) ==
  LET ignored == \/ level = "DISCONNECTED"
                 \/ clientOpen /\ ~IsClientActive
                 \/ clientOpen /\ cmd # "RESUME_END_SESSION" /\ ~tools.start
  IN  \/ ignored /\ UNCHANGED <<wireVars, level, tools, reader, ui>>
      \/ ~ignored /\ SpuriousDisconnection
      \/ ~ignored /\ clientOpen /\ SendAndWait(<<"NOTIFY_BREAKPOINTS">>, cmd)

\* The turn given back with the stack; no reset on REPLY_PLATFORM.
Fault_LevelAfterStack(msg) ==
  CASE msg \in {"REPLY_PLATFORM", "NOTIFY_SESSION_ENDED"} -> "CONNECTED"
    [] msg \in {"REPLY_STACK", "VM_SUSPENDED"} -> "LUA_PAUSED"
    [] msg = "VM_SUSPENDED_ERROR" -> "LUA_FATAL_ERROR"
    [] OTHER                      -> level
Fault_LevelAfterPlatform(msg) ==
  CASE msg = "NOTIFY_SESSION_ENDED" -> "CONNECTED"
    [] msg = "VM_SUSPENDED"         -> "LUA_PAUSED"
    [] msg = "VM_SUSPENDED_ERROR"   -> "LUA_FATAL_ERROR"
    [] OTHER                        -> level

\* DispatchMessage(): the level after a message, and the event it posts.
LevelAfter(msg) ==
  CASE msg \in {"REPLY_PLATFORM", "NOTIFY_SESSION_ENDED"} -> "CONNECTED"
    [] msg = "VM_SUSPENDED"       -> "LUA_PAUSED"
    [] msg = "VM_SUSPENDED_ERROR" -> "LUA_FATAL_ERROR"
    [] OTHER                      -> level
EventsAfter(msg) ==
  IF msg \in {"VM_SUSPENDED", "VM_SUSPENDED_ERROR"} THEN <<"LUA_SUSPENDED">> ELSE << >>
EarlyAfter(msg) == IF msg = "UNEXPECTED_DURING_SYNC" THEN "refused" ELSE early

-----------------------------------------------------------------------------
(* The user.                                                               *)

\* The connection button, when not connected: connect, ask for the platform.
ToolConnect ==
  /\ UserEvent /\ ~clientOpen
  /\ \/ level # "DISCONNECTED" /\ Fail("assert(DISCONNECTED)") /\ UNCHANGED <<wireVars, early>>
     \/ /\ level = "DISCONNECTED" /\ Connect("REQUEST_PLATFORM")
        /\ level' = "WAIT_REPLY" /\ tools' = Toolbar(level', TRUE)
        /\ reader' = "reading" /\ early' = "no" /\ UNCHANGED ui
  /\ UNCHANGED <<posted, queue, dialog>>

\* The same button, when connected.
ToolDisconnect ==
  /\ UserEvent /\ clientOpen
  /\ ClientCloses
  /\ level' = "DISCONNECTED" /\ tools' = Toolbar(level', FALSE) /\ reader' = "none"
  /\ UNCHANGED <<ui, posted, queue, dialog, early>>

\* The start/run button: start a session, or post a resume.
ToolStartRun ==
  /\ UserEvent /\ tools.start
  /\ \/ ~clientOpen /\ Fail("assert(IsConnected)") /\ UNCHANGED <<wireVars, posted>>
     \/ /\ clientOpen /\ level = "CONNECTED"
        /\ \/ Write(<<"NOTIFY_BREAKPOINTS", "REQUEST_SYNC_N_START_LUA">>) /\ WaitForNewMessage
           \/ WriteFails /\ SetLevel("DISCONNECTED")
        /\ UNCHANGED posted
     \/ /\ clientOpen /\ level = "LUA_PAUSED"
        /\ posted' = Append(posted, "RESUME_RUN")
        /\ UNCHANGED <<wireVars, level, tools, reader, ui>>
  /\ UNCHANGED <<queue, dialog, early>>

\* The step keys, wired at every level that gives the client the turn.
OnStep ==
  /\ UserEvent /\ tools.step
  /\ \E cmd \in StepCmds : ResumeExecution(cmd)
  /\ early' = IF level = "CONNECTED" /\ level' = "WAIT_REPLY" THEN "sent" ELSE early
  /\ UNCHANGED <<posted, queue, dialog>>

OnToolStop ==
  /\ UserEvent /\ tools.stop
  /\ ResumeExecution("RESUME_END_SESSION")
  /\ UNCHANGED <<posted, queue, dialog, early>>

\* A variable view is asked to reload by itself: a pane comes up, a row is
\* expanded, the menu.
PaneReload ==
  /\ UserEvent
  /\ posted' = Append(posted, "RELOAD")
  /\ UNCHANGED <<wireVars, level, tools, reader, queue, ui, dialog, early>>

\* One round of NetStressTest(), on the UI thread, whenever the socket is open.
OnNetStressTest ==
  /\ UserEvent /\ tools.stress /\ clientOpen
  /\ \/ /\ Write(<<"REQUEST_ECHO_DATA">>)
        /\ ui' = IF reader = "reading" THEN "stress beside the reader" ELSE "echo"
     \/ WriteFails /\ ui' = "assert(WriteMessage)"
  /\ UNCHANGED <<level, tools, reader, posted, queue, dialog, early>>

\* Typing in a locked editor opens the dialog, whose event loop goes on.
OnReadOnlyEditAttempt ==
  /\ "locked" \in Environment
  /\ UserEvent /\ IsLuaStarted
  /\ dialog' = TRUE
  /\ UNCHANGED <<wireVars, level, tools, reader, posted, queue, ui, early>>

DialogAnswered ==
  /\ NativeEvent /\ dialog
  /\ dialog' = FALSE
  /\ posted' \in {posted, Append(posted, "STOP_SESSION")}
  /\ UNCHANGED <<wireVars, level, tools, reader, queue, ui, early>>

-----------------------------------------------------------------------------
(* The event loop.                                                         *)

\* OnLuaSuspended_SYNTH(): the level is set whatever it is by now; each variable
\* view on top of its book is asked to reload.
OnLuaSuspended ==
  /\ level' = "LUA_PAUSED" /\ tools' = Toolbar(level', clientOpen)
  /\ \E visible \in 0 .. Books : posted' = Tail(posted) \o [i \in 1 .. visible |-> "RELOAD"]
  /\ UNCHANGED <<wireVars, reader, queue, ui, early>>

\* RequestVarReload(), SendRequestReply() and RequestReply() up to its read.
RequestVarReload ==
  /\ posted' = Tail(posted)
  /\ \/ (~IsLuaListening \/ ~clientOpen) /\ UNCHANGED <<wireVars, ui>>
     \/ /\ IsLuaListening /\ clientOpen
        /\ \/ /\ Write(<<"REQUEST_VARIABLES">>)
              /\ ui' = IF reader = "reading" THEN "two readers" ELSE "reply"
           \/ WriteFails /\ UNCHANGED ui
  /\ UNCHANGED <<level, tools, reader, queue, early>>

\* OnIncomingMessage(): one message, and again while there are more.
OnIncomingMessage ==
  /\ IF queue = << >>
     THEN posted' = Tail(posted) /\ UNCHANGED <<level, queue, early>>
     ELSE /\ level' = LevelAfter(Head(queue)) /\ queue' = Tail(queue)
          /\ early' = EarlyAfter(Head(queue))
          /\ posted' = Tail(posted) \o EventsAfter(Head(queue))
                       \o (IF Len(queue) > 1 THEN <<"INCOMING_MESSAGE">> ELSE << >>)
  /\ tools' = IF queue # << >> /\ LevelAfter(Head(queue)) = "CONNECTED"
              THEN Toolbar(level', clientOpen) ELSE tools
  /\ UNCHANGED <<wireVars, reader, ui>>

\* OnStopSession_SYNTH().
OnStopSession ==
  /\ posted' = Tail(posted)
  /\ \/ ~IsLuaStarted /\ Fail("assert(IsLuaStarted)") /\ UNCHANGED wireVars
     \/ IsLuaStarted /\ ResumeExecution("RESUME_END_SESSION")
  /\ UNCHANGED <<queue, early>>

ProcessPendingEvents ==
  /\ ui = "loop" /\ posted # << >>
  /\ \/ Head(posted) = "LUA_SUSPENDED" /\ OnLuaSuspended
     \/ Head(posted) = "INCOMING_MESSAGE" /\ OnIncomingMessage
     \/ Head(posted) = "RELOAD" /\ RequestVarReload
     \/ Head(posted) = "STOP_SESSION" /\ OnStopSession
     \/ /\ Head(posted) = "RESUME_RUN" /\ ResumeExecution("RESUME_RUN")
        /\ posted' = Tail(posted) /\ UNCHANGED <<queue, early>>
  /\ UNCHANGED dialog

\* Reads on also when the client got its turn.
Fault_OnAsyncReadTimerDone ==
  /\ NativeEvent /\ clientOpen /\ reader \in DaemonMessages
  /\ level' = LevelAfter(reader) /\ tools' = Toolbar(level', TRUE)
  /\ posted' = posted \o EventsAfter(reader) /\ early' = EarlyAfter(reader)
  /\ reader' = "reading"
  /\ UNCHANGED <<wireVars, queue, ui, dialog>>

\* OnAsyncReadTimer() with a message: dispatch it, and read on unless the
\* client got its turn.
OnAsyncReadTimerDone ==
  /\ NativeEvent /\ clientOpen /\ reader \in DaemonMessages
  /\ level' = LevelAfter(reader) /\ tools' = Toolbar(level', TRUE)
  /\ posted' = posted \o EventsAfter(reader) /\ early' = EarlyAfter(reader)
  /\ reader' = IF level' \in ActiveLevels THEN "none" ELSE "reading"
  /\ UNCHANGED <<wireVars, queue, ui, dialog>>

\* Only the timer is stopped.
Fault_OnAsyncReadTimerFailed ==
  /\ NativeEvent /\ clientOpen /\ reader = "failed" /\ level # "DISCONNECTED"
  /\ reader' = "none"
  /\ UNCHANGED <<wireVars, level, tools, posted, queue, ui, dialog, early>>

\* OnAsyncReadTimer() when the read failed.
OnAsyncReadTimerFailed ==
  /\ NativeEvent /\ clientOpen /\ reader = "failed" /\ level # "DISCONNECTED"
  /\ ClientCloses /\ reader' = "none"
  /\ level' = "DISCONNECTED" /\ tools' = Toolbar(level', FALSE)
  /\ UNCHANGED <<posted, queue, ui, dialog, early>>

\* The reader thread, in AsyncTCPReceiver::Tick(): a message, or the end.
AsyncRead ==
  /\ reader = "reading" /\ clientOpen
  /\ \/ toClient # << >> /\ reader' = Head(toClient) /\ toClient' = Tail(toClient)
     \/ toClient = << >> /\ server # "open" /\ reader' = "failed" /\ UNCHANGED toClient
  /\ UNCHANGED <<toDaemon, server, clientOpen, level, tools, posted, queue, ui, dialog, early>>

\* ClientTCP::ReadMessage() on the UI thread gets its message.
ReadMessage ==
  /\ ui \in {"reply", "echo"} /\ toClient # << >>
  /\ toClient' = Tail(toClient)
  /\ \/ /\ ui = "reply" /\ ui' = "loop"
        /\ queue' = Append(queue, Head(toClient))
        /\ posted' = Append(posted, "INCOMING_MESSAGE")
     \/ /\ ui = "echo" /\ UNCHANGED <<queue, posted>>
        /\ ui' = IF Head(toClient) = "REPLY_ECHO_DATA" THEN "loop" ELSE "assert(REPLY_ECHO_DATA)"
  /\ UNCHANGED <<toDaemon, server, clientOpen, level, tools, reader, dialog, early>>

\* ... or polls again: available() reports no error at the end of the stream.
ReadMessagePolls ==
  /\ ui \in {"reply", "echo"} /\ toClient = << >>
  /\ UNCHANGED <<wireVars, clientVars>>

\* A failed assert ends the client's process.
ClientProcessOver ==
  /\ ui \in ClientOver
  /\ IF clientOpen THEN ClientCloses ELSE UNCHANGED wireVars
  /\ UNCHANGED clientVars

User == \/ ToolConnect \/ ToolDisconnect \/ ToolStartRun \/ OnStep \/ OnToolStop \/ PaneReload
        \/ OnNetStressTest \/ OnReadOnlyEditAttempt \/ DialogAnswered
UiThread == \/ ProcessPendingEvents \/ OnAsyncReadTimerDone \/ OnAsyncReadTimerFailed
            \/ ReadMessage \/ ReadMessagePolls
=============================================================================
