------------------------------ MODULE Exchange ------------------------------
(***************************************************************************)
(* A session seen through the contents of its messages: what the client      *)
(* puts into each, what the daemon makes of it, and back. RemoteDebug has     *)
(* the interleavings and the failures of the connection; here the client      *)
(* waits for the answer to what it sent, and messages are streams of cells.   *)
(*                                                                         *)
(* A text is a sequence of "BOM" (three bytes), "#", "x" and "nl".           *)
(***************************************************************************)
EXTENDS Format

VARIABLES
  project,    \* client: its source files as saved, in order
  started,    \* history: the source files as they were at the last start
  marked,     \* client: GetSortedBreakpointList(1)
  level,      \* client: the init level
  waiting,    \* client: in WaitForNewMessage() or ReadMessage()
  platform, clientStack, suspended, cells,  \* client: what it shows; cells of the view filled last
  mode,       \* daemon: "setup", "running", "paused", "ending" or "dead"
  entry,      \* daemon: why it stopped
  lastError,  \* daemon: m_LastLuaError
  netFiles,   \* daemon: m_NetFileList, whose texts Lua loads
  daemonBreakpoints, daemonStack,
  queue,      \* daemon: m_FileNotificationQueue
  up, down,   \* the streams in flight: client to daemon, daemon to client
  upSent, downSent,  \* the messages they were made from
  sent        \* messages the client sent

client == <<project, started, marked, level, waiting, platform, clientStack, suspended, cells>>
daemon == <<mode, entry, lastError, netFiles, daemonBreakpoints, daemonStack, queue>>
wires  == <<up, down, upSent, downSent, sent>>
exchangeVars == <<client, daemon, wires>>

-----------------------------------------------------------------------------
(* Pure parts. *)

\* GetSerializedSources(): the text without its byte order mark, and with a first line
\* that starts with # blanked up to its end.
Unmarked(text) == IF text # << >> /\ text[1] = "BOM" THEN Tail(text) ELSE text
NumLines(text) == Cardinality({i \in DOMAIN text : text[i] = "nl"})
LineEnd(text)  == CHOOSE i \in DOMAIN text : text[i] = "nl" /\ \A j \in 1..(i - 1) : text[j] # "nl"
Fault_Serialized(text) ==
  LET t == Unmarked(text)
  IN IF NumLines(t) > 0 /\ t[1] = "#" THEN [i \in DOMAIN t |-> IF i <= LineEnd(t) THEN " " ELSE t[i]] ELSE t
Serialized(text) ==
  LET t == Unmarked(text)
  IN IF NumLines(t) > 0 /\ t[1] = "#" THEN [i \in DOMAIN t |-> IF i < LineEnd(t) THEN " " ELSE t[i]] ELSE t

\* A NetSourceFile holds the name without its extension, and the text.
NetFile(f) == [m_Name |-> f.name, m_Ext |-> f.ext, m_NumLines |-> NumLines(Unmarked(f.text)),
               m_BinData |-> Serialized(f.text)]
ShortFilename(nf) == nf.m_Name \o "." \o nf.m_Ext

\* PreloadFiles() registers each file under its name without the extension, and asserts
\* that no two share one.
PreloadFiles(files) ==
  IF \E i, j \in DOMAIN files : i < j /\ files[i].m_Name = files[j].m_Name THEN "dead" ELSE "running"

\* CheckStartupLuaStruct(): the first file's main(); RequestStartupLua::IsOk().
StartupLua ==
  [m_Source |-> project[1].name \o "." \o project[1].ext, m_Function |-> "main",
   m_JITFlag |-> FALSE, m_LoadBreakFlag |-> FALSE, m_NumSourceFiles |-> Len(project)]
IsOk(req) == req.m_Source # "" /\ req.m_Function # "" /\ req.m_NumSourceFiles > 0

\* DaemonStack::ToClientStack(): a C frame keeps its number of upvalues only.
ToClientStack(levels) ==
  [i \in DOMAIN levels |->
    IF levels[i].m_CFlag
    THEN [m_CFlag |-> TRUE, m_SourceFileName |-> "C location", m_FunctionName |-> "", m_AltFunctionName |-> "",
          m_Line |-> -1, m_nFixedArguments |-> 0, m_FunctionArguments |-> << >>,
          m_nUpValues |-> levels[i].m_nUpValues]
    ELSE levels[i]]
\* DaemonStack::SetFakeLevel(), for a file that does not compile (at the line in the message).
FakeStack(file) ==
  <<[m_CFlag |-> FALSE, m_SourceFileName |-> file, m_FunctionName |-> "<LOAD FILE> (fake level)",
     m_AltFunctionName |-> "", m_Line |-> 1, m_nFixedArguments |-> 0,
     m_FunctionArguments |-> << >>, m_nUpValues |-> 0]>>
FirstLua(levels) == CHOOSE i \in DOMAIN levels : ~levels[i].m_CFlag /\ \A j \in 1..(i - 1) : levels[j].m_CFlag

\* Collected::GetUnsolved(); VarCollectors::CollectNOPWatches().
GetUnsolved(name) ==
  [m_RootOffset |-> 0, m_KeyS |-> name, m_Type |-> "UNSOLVED", m_ExpandedFlag |-> FALSE,
   m_HasMetaTableFlag |-> FALSE, m_TemporaryFlag |-> FALSE, m_ValS |-> "", m_Indent |-> 0,
   m_Path |-> name, m_Scope |-> "NONE", m_LineStart |-> -1, m_LineEnd |-> -1]
NOPWatches(names) == [i \in DOMAIN names |-> GetUnsolved(names[i])]

\* Collected::GetValDataType() and GetDecoratedVal(): what a cell shows of a value.
DataTypes == {"STRING", "LUA_STRING_FUNCTION", "USERDATA", "FFI_CDATA"}
IsMemoryURL(c) == c.m_Type \in DataTypes /\ c.m_ValS \in Binary \cup Multiline
DecoratedVal(c) ==
  CASE IsMemoryURL(c)       -> IF c.m_ValS \in Binary THEN "[n bytes]" ELSE "[n chars]"
    [] c.m_Type = "UNSOLVED" -> ""
    [] c.m_Type = "STRING"   -> "\"" \o c.m_ValS \o "\""
    [] c.m_Type \in {"LUA_FUNCTION", "LUA_STRING_FUNCTION"} -> c.m_ValS \o ":" \o ToString(c.m_LineStart)
    [] OTHER                -> c.m_ValS

\* VarViewCtrl::ToCellData() of the columns of a row; only a function of a file and a value
\* the memory view can show are links.
CellData(c) ==
  [indent |-> c.m_Indent, key |-> c.m_KeyS, val |-> DecoratedVal(c), type |-> c.m_Type,
   metatable |-> c.m_HasMetaTableFlag, scope |-> c.m_Scope, path |-> c.m_Path,
   icon |-> IF c.m_Type # "TABLE" THEN "none" ELSE IF c.m_ExpandedFlag THEN "minus" ELSE "plus",
   link |-> IF c.m_Type = "LUA_FUNCTION" THEN "editor" ELSE IF IsMemoryURL(c) THEN "memory" ELSE "none"]

-----------------------------------------------------------------------------
ExchangeInit ==
  /\ project \in Projects /\ started = << >> /\ marked \in Breakpoints
  /\ level = "NOT_CONNECTED" /\ waiting = FALSE
  /\ platform = << >> /\ clientStack = << >> /\ suspended = << >> /\ cells = << >>
  /\ mode = "setup" /\ entry = "NONE" /\ lastError = "NONE"
  /\ netFiles = << >> /\ daemonBreakpoints = << >> /\ daemonStack = << >> /\ queue = << >>
  /\ up = << >> /\ down = << >> /\ upSent = << >> /\ downSent = << >> /\ sent = 0

\* Client::SendMessage() and RequestReply().
ClientSends(ms) ==
  /\ sent + Len(ms) <= MaxSent
  /\ sent' = sent + Len(ms)
  /\ up' = up \o [i \in DOMAIN ms |-> ClientBytes(ms[i])]
  /\ upSent' = upSent \o ms
  /\ waiting' = TRUE
  /\ UNCHANGED <<down, downSent, daemon, platform, clientStack, suspended, cells, project, marked>>

\* Daemon::SendMessage().
DaemonSends(ms) ==
  /\ down' = down \o [i \in DOMAIN ms |-> DaemonBytes(ms[i])]
  /\ downSent' = downSent \o ms

-----------------------------------------------------------------------------
(* The client. *)

Idle == ~waiting /\ down = << >>
Listening == Idle /\ level \in {"LUA_PAUSED", "LUA_FATAL_ERROR"}

ToolConnect ==
  /\ Idle /\ level = "NOT_CONNECTED"
  /\ ClientSends(<<[t |-> "REQUEST_PLATFORM"]>>)
  /\ UNCHANGED <<level, started>>

\* Client::SendBreakpointList(): none unless enabled.
BreakpointList(enable) == [t |-> "NOTIFY_BREAKPOINTS", m_BreakpointList |-> IF enable THEN marked ELSE << >>]

SendSyncAndStartLua ==
  With(With(StartupLua, "files", [i \in DOMAIN project |-> NetFile(project[i])]),
       "t", "REQUEST_SYNC_N_START_LUA")

\* OnToolStartRun() at CONNECTED: breakpoints first.
ToolStartRun ==
  /\ Idle /\ level = "CONNECTED" /\ project # << >> /\ IsOk(StartupLua)
  /\ ClientSends(<<BreakpointList(TRUE), SendSyncAndStartLua>>)
  /\ started' = project
  /\ UNCHANGED level

\* ResumeExecution(): no breakpoints if it is to end.
ResumeExecution(cmd) ==
  /\ Listening
  /\ ClientSends(<<BreakpointList(cmd # "END_SESSION"), [t |-> "REQUEST_VM_RESUME", m_ClientCmd |-> cmd]>>)
  /\ UNCHANGED <<level, started>>

\* RequestVarReload() and SolveVar_ASYNC(), whose request is made by the other constructor:
\* no stack level, no tables, all the flags.
RequestVariables(t, requester, tables, names) ==
  /\ Listening
  /\ ClientSends(<<[t |-> t, m_RequesterID |-> requester, m_StackLevel |-> 0,
                    m_ExpandedTables |-> IF t = "REQUEST_SOLVE_VARIABLE" THEN << >> ELSE tables,
                    m_VarFlags |-> "all", m_WatchNameList |-> names]>>)
  /\ UNCHANGED <<level, started>>
RequestStack == Listening /\ ClientSends(<<[t |-> "REQUEST_STACK"]>>) /\ UNCHANGED <<level, started>>

\* NetStressTest(), before the program is started: the size twice, once with the data.
NetStressTest ==
  /\ Idle /\ level = "CONNECTED"
  /\ ClientSends(<<[t |-> "REQUEST_ECHO_DATA", sz |-> 4, data |-> "data"]>>)
  /\ UNCHANGED <<level, started>>

\* The user edits and saves sources, and sets breakpoints, at any time, also while the
\* program is stopped or runs: editors are never locked, and saving asks for no session.
EditProject ==
  /\ project' \in Projects \ {project}
  /\ UNCHANGED <<started, marked, level, waiting, platform, clientStack, suspended, cells, daemon, wires>>
ToggleBreakpoint ==
  /\ marked' \in Breakpoints \ {marked}
  /\ UNCHANGED <<project, started, level, waiting, platform, clientStack, suspended, cells, daemon, wires>>

\* SuspendState::HasError(); the level that DispatchMessage() goes to.
LevelAfter(m) ==
  CASE m.t \in {"REPLY_PLATFORM", "NOTIFY_SYNC_FAILED", "NOTIFY_SESSION_ENDED"} -> "CONNECTED"
    [] m.t = "NOTIFY_VM_SUSPENDED" -> IF m.m_ErrorString # "" THEN "LUA_FATAL_ERROR" ELSE "LUA_PAUSED"
    [] OTHER -> level

\* DispatchMessage(), and SetVariables() of the view the reply is for. A solved variable
\* is the first of its list.
DispatchMessage ==
  /\ down # << >>
  /\ LET m == ReadByClient(Head(down)).m
     IN /\ level' = LevelAfter(m)
        /\ platform' = IF m.t = "REPLY_PLATFORM" THEN m ELSE platform
        /\ clientStack' = IF m.t = "REPLY_STACK" THEN m.m_Levels ELSE clientStack
        /\ suspended' = IF m.t = "NOTIFY_VM_SUSPENDED" THEN m ELSE suspended
        /\ cells' = CASE m.t = "NOTIFY_SESSION_ENDED" -> << >>
                      [] m.t = "REPLY_SOLVED_VARIABLE" -> (m.requester_id :> <<CellData(Head(m.collected))>>)
                      [] m.t \in {ReplyTo[v] : v \in Variables} ->
                           (m.requester_id :> [i \in DOMAIN m.collected |-> CellData(m.collected[i])])
                      [] OTHER -> cells
        /\ waiting' = FALSE
  /\ down' = Tail(down) /\ downSent' = Tail(downSent)
  /\ UNCHANGED <<project, started, marked, daemon, up, upSent, sent>>

-----------------------------------------------------------------------------
(* The daemon. *)

\* SessionSetupLoop(); a start is followed by PreloadFiles() and the load of the start file.
SetupReads ==
  /\ mode = "setup" /\ up # << >>
  /\ LET m == ReadByDaemon(Head(up)).m
         start == m.t = "REQUEST_SYNC_N_START_LUA" /\ IsOk(m)
     IN /\ mode' = IF start THEN PreloadFiles(m.files) ELSE mode
        /\ netFiles' = IF start THEN m.files ELSE netFiles
        /\ daemonBreakpoints' = IF m.t = "NOTIFY_BREAKPOINTS" THEN m.m_BreakpointList ELSE daemonBreakpoints
        /\ CASE m.t = "REQUEST_PLATFORM" ->
                  DaemonSends(<<[t |-> "REPLY_PLATFORM", m_OS |-> "Linux", m_Architecture |-> 64,
                                 m_Hostname |-> "host", m_Lua |-> "Lua 5.2", m_LuaNum |-> 502,
                                 m_LuaJIT |-> "no jit", m_LuaJITNum |-> 0]>>)
             [] m.t = "REQUEST_ECHO_DATA" ->
                  DaemonSends(<<[t |-> "REPLY_ECHO_DATA", sz |-> m.sz, data |-> m.data]>>)
             [] m.t = "REQUEST_SYNC_N_START_LUA" /\ ~start ->
                  DaemonSends(<<[t |-> "NOTIFY_SYNC_FAILED", err |-> "bad startup struct"]>>)
             [] OTHER -> UNCHANGED <<down, downSent>>
  /\ up' = Tail(up) /\ upSent' = Tail(upSent)
  /\ UNCHANGED <<client, entry, lastError, daemonStack, queue, sent>>

\* InstantiateSource_LL(): a file of the project is loaded, and told of at the next stop.
Loads(nf) ==
  /\ mode = "running" /\ queue = << >>
  /\ queue' = <<ShortFilename(nf)>>
  /\ UNCHANGED <<client, mode, entry, lastError, netFiles, daemonBreakpoints, daemonStack, wires>>

\* OnDebuggerEntry(): the stack, the files loaded since, and where and why it stopped.
Stops(why, levels, err) ==
  /\ mode = "running"
  /\ mode' = "paused" /\ entry' = why /\ daemonStack' = levels /\ queue' = << >>
  /\ lastError' = IF why = "BREAK" THEN lastError ELSE why
  /\ LET at == levels[FirstLua(levels)]
     IN DaemonSends(<<[t |-> "REPLY_STACK", m_Levels |-> ToClientStack(levels)]>>
                    \o (IF queue # << >> THEN <<[t |-> "NOTIFY_SCRIPT_LOADED", names |-> queue]>> ELSE << >>)
                    \o <<[t |-> "NOTIFY_VM_SUSPENDED", m_Source |-> at.m_SourceFileName,
                          m_Line |-> at.m_Line, m_ErrorString |-> err]>>)
  /\ UNCHANGED <<client, netFiles, daemonBreakpoints, up, upSent, sent>>
Breaks     == \E s \in Stacks : Stops("BREAK", s, "")
RunsWrong  == \E s \in Stacks, err \in Errors : Stops("VM_ERROR_HANDLER", s, err)
CannotLoad == \E err \in Errors, i \in DOMAIN netFiles :
                Stops("LOAD_FILE_ERROR", FakeStack(ShortFilename(netFiles[i])), err)

\* LuaGlue::RequestVariables(): the type of the reply and the requester of the request;
\* nothing is collected after a load error. One row at least for a watch.
Answer(m) ==
  LET names == IF m.t = "REQUEST_SOLVE_VARIABLE" THEN <<Head(m.m_WatchNameList)>> ELSE m.m_WatchNameList
      watched == m.t \in {"REQUEST_WATCHES", "REQUEST_SOLVE_VARIABLE"}
  IN \E rows \in (IF lastError = "LOAD_FILE_ERROR" THEN {IF watched THEN NOPWatches(names) ELSE << >>}
                  ELSE IF watched THEN {NOPWatches(names)} \cup {r \in Rows : r # << >>} ELSE Rows) :
       DaemonSends(<<[t |-> ReplyTo[m.t], requester_id |-> m.m_RequesterID, collected |-> rows]>>)

\* DispatchMessage() of LuaGlue, and what ResumeDaemon() makes of the command.
PausedReads ==
  /\ mode = "paused" /\ up # << >>
  /\ LET m == ReadByDaemon(Head(up)).m
     IN /\ mode' = IF m.t # "REQUEST_VM_RESUME" THEN mode
                   ELSE IF m.m_ClientCmd = "END_SESSION" \/ entry = "LOAD_FILE_ERROR" THEN "ending" ELSE "running"
        /\ daemonBreakpoints' = IF m.t = "NOTIFY_BREAKPOINTS" THEN m.m_BreakpointList ELSE daemonBreakpoints
        /\ CASE m.t \in Variables       -> Answer(m)
             [] m.t = "REQUEST_STACK"   ->
                  DaemonSends(<<[t |-> "REPLY_STACK", m_Levels |-> ToClientStack(daemonStack)]>>)
             [] OTHER                   -> UNCHANGED <<down, downSent>>
  /\ up' = Tail(up) /\ upSent' = Tail(upSent)
  /\ UNCHANGED <<client, entry, lastError, netFiles, daemonStack, queue, sent>>

\* SendSessionEndMessage(), and Reset().
Ends ==
  /\ mode \in {"running", "ending"}
  /\ mode' = "setup" /\ entry' = "NONE" /\ lastError' = "NONE"
  /\ netFiles' = << >> /\ daemonBreakpoints' = << >> /\ daemonStack' = << >> /\ queue' = << >>
  /\ DaemonSends(<<[t |-> "NOTIFY_SESSION_ENDED", res |-> 0]>>)
  /\ UNCHANGED <<client, up, upSent, sent>>

Requests ==
  {<<"REQUEST_LOCALS", "LOCALS", <<"t">>, << >> >>, <<"REQUEST_GLOBALS", "GLOBALS", << >>, << >> >>,
   <<"REQUEST_WATCHES", "WATCHES", <<"t">>, <<"x", "t">> >>,
   <<"REQUEST_SOLVE_VARIABLE", "HOVER", << >>, <<"x">> >>}

ExchangeNext ==
  \/ ToolConnect \/ ToolStartRun \/ NetStressTest \/ EditProject \/ ToggleBreakpoint
  \/ \E cmd \in {"RUN", "STEP_OVER", "END_SESSION"} : ResumeExecution(cmd)
  \/ \E r \in Requests : RequestVariables(r[1], r[2], r[3], r[4])
  \/ RequestStack \/ DispatchMessage
  \/ SetupReads \/ Breaks \/ RunsWrong \/ CannotLoad \/ PausedReads \/ Ends
  \/ \E i \in DOMAIN netFiles : Loads(netFiles[i])
ExchangeSpec == ExchangeInit /\ [][ExchangeNext]_exchangeVars

-----------------------------------------------------------------------------
(* Each end reads the message the other wrote: every field of every item,    *)
(* and not a cell more or less (CommonClient.cpp, CommonDaemon.cpp,          *)
(* Collected.cpp against Collected::Serialize()).                            *)
ReadAsWritten ==
  /\ \A i \in DOMAIN up : ReadByDaemon(up[i]) = [m |-> upSent[i], left |-> << >>]
  /\ \A i \in DOMAIN down : ReadByClient(down[i]) = [m |-> downSent[i], left |-> << >>]

\* Lua counts the lines of what it was sent: each line of a file is where the editor had it
\* when this session was started, and all but a first line of # is as it was there
\* (GetSerializedSources()); so the editor and Lua agree on lines until a source is edited in
\* the session, which nothing prevents.
LinesAgree ==
  mode # "setup" =>
    /\ Len(netFiles) = Len(started)
    /\ \A i \in DOMAIN started :
         LET lua == netFiles[i].m_BinData  text == Unmarked(started[i].text)
         IN /\ netFiles[i].m_NumLines = NumLines(lua)
            /\ DOMAIN lua = DOMAIN text
            /\ \A j \in DOMAIN lua : lua[j] = text[j] \/ (lua[j] = " " /\ text[j] # "nl")
            /\ \A j \in DOMAIN lua : (\E k \in 1..(j - 1) : text[k] = "nl") => lua[j] = text[j]

==============================================================================
