-------------------------------- MODULE Wire --------------------------------
(***************************************************************************)
(* The TCP connection between the client (the IDE) and the daemon: whole   *)
(* messages in order, both sockets, and what a close or a write to a lost  *)
(* peer does to them (Client/src/ClientTCP.cpp, Daemon/src/ServerTCP.cpp). *)
(* A message is named for its CLIENT_MSG or DAEMON_MSG; RESUME_... is a    *)
(* REQUEST_VM_RESUME with that CLIENT_CMD.                                 *)
(***************************************************************************)
EXTENDS Sequences

CONSTANT Environment  \* which of Behaviours may happen

\* "kill": the daemon process is killed; "load_error": a source has a syntax
\* error; "overtake": native events are handled before posted ones; "locked": an
\* editor is read-only in a session, as SetLockFlag() means it to be (AutoMuteStc
\* takes each lock back, so today no editor is).
Behaviours == {"kill", "load_error", "overtake", "locked"}
ASSUME EnvironmentAssumption == Environment \subseteq Behaviours

VARIABLES toDaemon, toClient,  \* messages sent and not yet read
          server,              \* the daemon's socket
          clientOpen           \* ClientTCP::IsConnected()

wireVars == <<toDaemon, toClient, server, clientOpen>>

StepCmds       == {"RESUME_STEP_INTO", "RESUME_STEP_OVER"}  \* STEP_OUT as STEP_OVER
Resumes        == {"RESUME_RUN", "RESUME_END_SESSION"} \cup StepCmds
ClientMessages == {"REQUEST_PLATFORM", "NOTIFY_BREAKPOINTS", "REQUEST_SYNC_N_START_LUA",
                   "REQUEST_VARIABLES", "REQUEST_ECHO_DATA"} \cup Resumes
Unexpected     == {"UNEXPECTED_DURING_SYNC", "UNEXPECTED_DURING_DEBUG"}
DaemonMessages == {"REPLY_PLATFORM", "REPLY_STACK", "NOTIFY_SCRIPT_LOADED",
                   "VM_SUSPENDED", "VM_SUSPENDED_ERROR", "REPLY_VARIABLES",
                   "REPLY_ECHO_DATA", "NOTIFY_SESSION_ENDED"} \cup Unexpected

WireType ==
  /\ toDaemon \in Seq(ClientMessages) /\ toClient \in Seq(DaemonMessages)
  /\ server \in {"none", "listening", "open"}
  /\ clientOpen \in BOOLEAN

WireInit == toDaemon = << >> /\ toClient = << >> /\ server = "listening" /\ clientOpen = FALSE

\* Both ends of one connection are open.
Connected == clientOpen /\ server = "open"

\* ClientTCP::Connect() to a daemon that waits in accept(), and a first message.
Connect(msg) ==
  /\ server = "listening" /\ server' = "open"
  /\ clientOpen' = TRUE
  /\ toDaemon' = <<msg>> /\ toClient' = << >>

\* ClientTCP::WriteMessage(), once per message: what is written to a daemon that
\* is gone is accepted and lost, or reports the broken pipe.
Write(msgs) ==
  /\ toDaemon' = IF server = "open" THEN toDaemon \o msgs ELSE toDaemon
  /\ UNCHANGED <<toClient, server, clientOpen>>

\* IsError() closes the socket.
WriteFails ==
  /\ server # "open"
  /\ clientOpen' = FALSE /\ toClient' = << >>
  /\ UNCHANGED <<toDaemon, server>>

\* The client closes: what it has not read is gone, and the reset this causes
\* may also take what the daemon has not read.
ClientCloses ==
  /\ clientOpen' = FALSE /\ toClient' = << >>
  /\ toDaemon' \in {toDaemon, << >>}
  /\ UNCHANGED server

\* The daemon reads a message, and answers it at once.
Receive(msg, answer) ==
  /\ toDaemon # << >> /\ Head(toDaemon) = msg
  /\ toDaemon' = Tail(toDaemon)
  /\ toClient' = IF clientOpen THEN toClient \o answer ELSE toClient
  /\ UNCHANGED <<server, clientOpen>>

Send(msgs) ==
  /\ toClient' = IF clientOpen THEN toClient \o msgs ELSE toClient
  /\ UNCHANGED <<toDaemon, server, clientOpen>>

\* The daemon's next read reports the end of the stream.
DaemonAtEof == ~clientOpen /\ toDaemon = << >>

\* The daemon's process ends: its unread messages may reset the connection.
DaemonCloses ==
  /\ server' = "none" /\ toDaemon' = << >>
  /\ toClient' \in {toClient} \cup (IF toDaemon # << >> THEN {<< >>} ELSE {})
  /\ UNCHANGED clientOpen
=============================================================================
