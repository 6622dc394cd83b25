------------------------------- MODULE LuaGlue -------------------------------
(***************************************************************************)
(* The daemon's debugger core: how one daemon process takes Lua sessions,  *)
(* loads sources, arms the Lua hook, stops in the debug loop and gets out  *)
(* of it again (Daemon/src/LuaGlue.cpp, LoadOverrider.cpp, main.cpp).      *)
(*                                                                         *)
(* The Lua program and the client are the environment: the program may at  *)
(* any time hit a line, fail, require a file or return; the client may at  *)
(* a pause send any command, and may vanish at any time.                   *)
(***************************************************************************)
EXTENDS Naturals

CONSTANTS Files,      \* short names of the project's sources
          StartFile,  \* LuaStartup::m_Source
          Lines,      \* line numbers that can hold a breakpoint
          MaxNest     \* bound: LuaGlue::pcall activations nested by require()

ASSUME StartFileAssumption == StartFile \in Files
ASSUME LinesAssumption == Lines \subseteq Nat \ {0}
ASSUME MaxNestAssumption == MaxNest \in Nat \ {0}

VARIABLES
  at,                     \* where main() is, or how the process died
  depth,                  \* activations of LuaGlue::pcall on the C stack
  connected,              \* the peer's end of the TCP connection
  NetFileMap, BreakASAPFlag,
  FileInstantiatedSet, AllSavedBreakpoints, BreakpointSet, LineLUT,
  hook,                   \* what lua_sethook() was last called with
  SavedHookType, JitFlag, ProfilerFlag,
  entry,                  \* the ENTRY_TYPE the debug loop is in, or "none"
  EntryRecurseLock, AbortLevel, ResumeCommand, LastLuaError

mainVars    == <<at, depth>>
startupVars == <<NetFileMap, BreakASAPFlag, JitFlag>>
fileVars    == <<FileInstantiatedSet, BreakpointSet, LineLUT>>
hookVars    == <<hook, SavedHookType>>
entryVars   == <<entry, EntryRecurseLock, AbortLevel, ResumeCommand, LastLuaError>>
vars == <<mainVars, connected, startupVars, fileVars, AllSavedBreakpoints,
          hookVars, ProfilerFlag, entryVars>>

Breakpoints == Files \X Lines
HookTypes   == {"NONE", "INSTRUCTION", "LINE", "FUNCTION_STEP_OUT",
                "BREAKPOINTS", "STEP_OVER"}
LuaErrors   == {"VM_ERROR_CALL", "VM_ASSERT_CALL", "VM_ERROR_HANDLER",
                "LOAD_FILE_ERROR"}
Entries     == LuaErrors \cup {"HOOK", "INLINE_BREAKPOINT_CALL", "BREAKPOINT"}
StepCommands == {"STEP_INTO_LINE", "STEP_INTO_INSTRUCTION", "STEP_OVER", "STEP_OUT"}
Terminate   == {"ABORT", "END_SESSION"}
Commands    == {"RUN"} \cup StepCommands \cup Terminate
AbortLevels == {"NOT_ABORT", "CLIENT_REQUEST_ABORT",
                "CLIENT_REQUEST_END_SESSION", "DAEMON_NETWORK_ERROR"}

\* Failed asserts and a Lua panic end the process; each has its own name.
Crashes == {"assert(!m_EntryRecurseLock)", "assert(m_ValidLines)",
            "assert(require ok)", "panic"}
\* "setup" SessionSetupLoop, "load" inside loadfile, "chunk" and "main" the
\* two pcalls, "between" them the lookup of the start function.
Places  == {"setup", "load", "chunk", "between", "main", "cleanup"}

\* Fault_: the same operator with a plausible slip in the code it stands for; the
\* specification uses none of them. Here a hook that outlives its pcall.
Fault_Running == at \in {"chunk", "between", "main"} /\ entry = "none"
Running == at \in {"chunk", "main"} /\ entry = "none"
Paused  == at \in Places /\ entry # "none"
Aborted == AbortLevel # "NOT_ABORT"

-----------------------------------------------------------------------------
(* Breakpoints: the saved list, the part of it in loaded files, its LUT.   *)

ValidBreakpoints(saved, files) == {bp \in saved : bp[1] \in files}

\* resize(max_ln + 1) keeps the old marks below the new size: a line may stay
\* marked after its last breakpoint is gone.
Fault_LUTIndex(set) == {0} \cup UNION {0 .. (bp[2] - 1) : bp \in set}  \* resize(max_ln)
LUTIndex(set) == {0} \cup UNION {0 .. bp[2] : bp \in set}

UpdateFastBreakpoints(set, lut) ==
  [n \in LUTIndex(set) |-> \/ n \in DOMAIN lut /\ lut[n]
                           \/ \E bp \in set : bp[2] = n]

\* lg_BreakpointHookFunction: the line in the table, then file and line.
StopsAt(bp) ==
  bp[2] \in DOMAIN LineLUT /\ LineLUT[bp[2]] /\ bp \in BreakpointSet

\* The table is left as it was.
Fault_SetValidBreakpoints(saved, files) ==
  BreakpointSet' = ValidBreakpoints(saved, files) /\ UNCHANGED LineLUT

\* The lists after SetValidBreakpoints() with these saved lines and files.
SetValidBreakpoints(saved, files) ==
  /\ BreakpointSet' = ValidBreakpoints(saved, files)
  /\ LineLUT' = UpdateFastBreakpoints(BreakpointSet', LineLUT)

-----------------------------------------------------------------------------
(* The Lua hook.                                                           *)

\* JitGlue::IsProfiling() also wants the JIT flag.
Fault_IsProfiling(prof) == FALSE
IsProfiling(prof) == JitFlag /\ prof

SetLuaHook(type, prof, lut) ==
  /\ SavedHookType' = type
  /\ hook' = IF IsProfiling(prof) \/ (type = "BREAKPOINTS" /\ DOMAIN lut = {})
             THEN "NONE" ELSE type

Fault_PcallHookType(asap) == IF asap THEN "INSTRUCTION" ELSE "NONE"
PcallHookType(asap) == IF asap THEN "INSTRUCTION" ELSE "BREAKPOINTS"

\* ResumeDaemon(): a step over from the last valid line is a plain line step.
HookTypesFor(cmd) ==
  CASE cmd \in Terminate             -> {"NONE"}
    [] cmd = "RUN"                   -> {IF BreakpointSet # {} THEN "BREAKPOINTS" ELSE "NONE"}
    [] cmd = "STEP_INTO_LINE"        -> {"LINE"}
    [] cmd = "STEP_INTO_INSTRUCTION" -> {"INSTRUCTION"}
    [] cmd = "STEP_OVER"             -> {"STEP_OVER", "LINE"}
    [] cmd = "STEP_OUT"              -> {"FUNCTION_STEP_OUT"}

-----------------------------------------------------------------------------
(* Where control goes.                                                     *)

Die(crash) == at' = crash /\ UNCHANGED depth

\* main() skips its clean up.
Fault_PcallReturns ==
  /\ depth' = depth - 1
  /\ at' = IF depth > 1 THEN at ELSE IF at = "chunk" THEN "between" ELSE "setup"

\* LuaGlue::pcall() returns, with or without an (ignored) error.
PcallReturns ==
  /\ depth' = depth - 1
  /\ at' = IF depth > 1 THEN at
           ELSE IF at = "chunk" THEN "between" ELSE "cleanup"

\* OnDebuggerEntry() below its check for an abort, up to its read loop.
Fault_EnterDebugger(type) ==
  \/ /\ EntryRecurseLock
     /\ Die("assert(!m_EntryRecurseLock)")
     /\ UNCHANGED entryVars
  \/ /\ ~EntryRecurseLock
     /\ EntryRecurseLock' = TRUE
     /\ entry' = type
     /\ LastLuaError' = IF type \in LuaErrors THEN type ELSE LastLuaError
     /\ ResumeCommand' = "IDLE"
     /\ UNCHANGED <<mainVars, AbortLevel>>

\* OnDebuggerEntry() up to its read loop.
EnterDebugger(type) ==
  /\ AbortLevel = "NOT_ABORT"
  /\ \/ /\ EntryRecurseLock
        /\ Die("assert(!m_EntryRecurseLock)")
        /\ UNCHANGED entryVars
     \/ /\ ~EntryRecurseLock
        /\ EntryRecurseLock' = TRUE
        /\ entry' = type
        /\ LastLuaError' = IF type \in LuaErrors THEN type ELSE LastLuaError
        /\ ResumeCommand' = "IDLE"
        /\ UNCHANGED <<mainVars, AbortLevel>>

\* What runs when OnDebuggerEntry() returns into its caller: the program goes
\* on, the error handler lets the error unwind the pcall, a failed load ends
\* the session or, in a require(), fails the assert on its result.
CallerContinues(type) ==
  CASE type = "VM_ERROR_HANDLER" -> PcallReturns
    [] type = "LOAD_FILE_ERROR" /\ at = "load" -> at' = "cleanup" /\ UNCHANGED depth
    [] type = "LOAD_FILE_ERROR" /\ at # "load" -> Die("assert(require ok)")
    [] OTHER -> UNCHANGED mainVars

-----------------------------------------------------------------------------
(* Session setup, in SessionSetupLoop().                                   *)

Init ==
  /\ at = "setup" /\ depth = 0 /\ connected = TRUE
  /\ NetFileMap = {} /\ BreakASAPFlag = FALSE /\ JitFlag = FALSE
  /\ FileInstantiatedSet = {} /\ AllSavedBreakpoints = {}
  /\ BreakpointSet = {} /\ LineLUT = << >>
  /\ hook = "NONE" /\ SavedHookType = "NONE" /\ ProfilerFlag = FALSE
  /\ entry = "none" /\ EntryRecurseLock = FALSE /\ AbortLevel = "NOT_ABORT"
  /\ ResumeCommand = "IDLE" /\ LastLuaError = "UNDEFINED_ENTRY_TYPE"

\* NOTIFY_BREAKPOINTS, in the setup loop or in the debug loop.
SaveAllBreakpoints ==
  /\ at = "setup" \/ Paused
  /\ connected
  /\ \E bps \in SUBSET Breakpoints :
       /\ AllSavedBreakpoints' = bps
       /\ SetValidBreakpoints(bps, FileInstantiatedSet)
  /\ UNCHANGED <<mainVars, connected, startupVars, FileInstantiatedSet,
                 hookVars, ProfilerFlag, entryVars>>

\* A successful InstantiateSource_LL() followed by the pcall of the new chunk.
InstantiateAndCall(file) ==
  /\ FileInstantiatedSet' = FileInstantiatedSet \cup {file}
  /\ SetValidBreakpoints(AllSavedBreakpoints, FileInstantiatedSet')
  /\ depth' = depth + 1

\* REQUEST_SYNC_N_START_LUA: a fresh Lua state, InitLuaHooks() and loadfile().
SyncNStart ==
  /\ at = "setup" /\ connected
  /\ NetFileMap' \in {files \in SUBSET Files : StartFile \in files}
  /\ BreakASAPFlag' \in BOOLEAN /\ JitFlag' \in BOOLEAN
  /\ ProfilerFlag' = FALSE
  /\ FileInstantiatedSet' = {}
  /\ EntryRecurseLock' = FALSE /\ ResumeCommand' = "IDLE"
  /\ AbortLevel' = "NOT_ABORT" /\ LastLuaError' = "UNDEFINED_ENTRY_TYPE"
  /\ at' = "load" /\ hook' = "NONE"
  /\ UNCHANGED <<depth, connected, AllSavedBreakpoints, BreakpointSet, LineLUT,
                 SavedHookType, entry>>

\* main() loads the startup source and runs its outer chunk.
LoadStartFile ==
  /\ at = "load" /\ ~Paused
  /\ InstantiateAndCall(StartFile)
  /\ at' = "chunk"
  /\ SetLuaHook(PcallHookType(BreakASAPFlag), ProfilerFlag, LineLUT')
  /\ UNCHANGED <<connected, startupVars, AllSavedBreakpoints, ProfilerFlag, entryVars>>

\* The startup source has a syntax error.
LoadStartFileFails ==
  /\ at = "load" /\ ~Paused
  /\ EnterDebugger("LOAD_FILE_ERROR")
  /\ UNCHANGED <<connected, startupVars, fileVars, AllSavedBreakpoints, hookVars, ProfilerFlag>>

\* getglobal(startup.m_Function): the second pcall, or clean up.
CallStartFunction ==
  /\ at = "between"
  /\ \/ /\ at' = "main" /\ depth' = 1
        /\ SetLuaHook(PcallHookType(BreakASAPFlag), ProfilerFlag, LineLUT)
     \/ at' = "cleanup" /\ UNCHANGED <<depth, hookVars>>
  /\ UNCHANGED <<connected, startupVars, fileVars, AllSavedBreakpoints, ProfilerFlag, entryVars>>
-----------------------------------------------------------------------------
(* The Lua program runs. A line that no hook stops at changes nothing here. *)

\* lg_HookFunction, lg_BreakpointHookFunction and the two step hooks: the line
\* (bp) about to run is in a loaded file. Whether a step over or out has
\* reached its target is left open.
HookFires ==
  /\ Running
  /\ \E bp \in Breakpoints :
       /\ bp[1] \in FileInstantiatedSet
       /\ \/ /\ hook \in {"INSTRUCTION", "LINE", "STEP_OVER"}
             /\ EnterDebugger("HOOK") /\ UNCHANGED hookVars
          \/ /\ hook = "FUNCTION_STEP_OUT"
             /\ EnterDebugger("HOOK") /\ SetLuaHook("INSTRUCTION", ProfilerFlag, LineLUT)
          \/ /\ hook = "BREAKPOINTS"
             /\ StopsAt(bp)
             /\ EnterDebugger("BREAKPOINT") /\ UNCHANGED hookVars
  /\ UNCHANGED <<connected, startupVars, fileVars, AllSavedBreakpoints, ProfilerFlag>>

\* A function returns under the step over hook, below the step's depth; the
\* step out hook does the same when the debugger may not be entered.
StepLeavesFunction ==
  /\ Running
  /\ hook = "STEP_OVER" \/ (hook = "FUNCTION_STEP_OUT" /\ Aborted)
  /\ SetLuaHook("INSTRUCTION", ProfilerFlag, LineLUT)
  /\ UNCHANGED <<mainVars, connected, startupVars, fileVars, AllSavedBreakpoints,
                 ProfilerFlag, entryVars>>

\* error(), a failed assert() or breakpoint(): lg_error, lg_assert, lg_BreakPoint.
CallIntoDebugger ==
  /\ Running
  /\ \E type \in {"VM_ERROR_CALL", "VM_ASSERT_CALL", "INLINE_BREAKPOINT_CALL"} :
       EnterDebugger(type)
  /\ UNCHANGED <<connected, startupVars, fileVars, AllSavedBreakpoints, hookVars, ProfilerFlag>>

\* A run-time error that reaches LuaErrorHandler; once aborting, the handler
\* stays out of the debugger and the pcall unwinds.
LuaErrorHandler ==
  /\ Running
  /\ \/ EnterDebugger("VM_ERROR_HANDLER")
     \/ Aborted /\ PcallReturns /\ UNCHANGED entryVars
  /\ UNCHANGED <<connected, startupVars, fileVars, AllSavedBreakpoints, hookVars, ProfilerFlag>>

\* require() of a project source not loaded yet.
OnRequireLoader ==
  /\ Running /\ depth < MaxNest
  /\ \E file \in NetFileMap \ FileInstantiatedSet :
       \/ /\ InstantiateAndCall(file)
          /\ SetLuaHook(PcallHookType(BreakASAPFlag), ProfilerFlag, LineLUT')
          /\ UNCHANGED <<at, entryVars>>
       \/ /\ EnterDebugger("LOAD_FILE_ERROR") \* a syntax error
          /\ UNCHANGED <<fileVars, hookVars>>
       \/ /\ Aborted                          \* a syntax error
          /\ Die("assert(require ok)")
          /\ UNCHANGED <<fileVars, hookVars, entryVars>>
  /\ UNCHANGED <<connected, startupVars, AllSavedBreakpoints, ProfilerFlag>>

\* A redundant toggle is refused.
ToggleProfiler(f) == f # ProfilerFlag /\ ProfilerFlag' = f

\* The profiler takes the hook off, and gives back the one last chosen.
OnSetProfiler(f) ==
  /\ ToggleProfiler(f)
  /\ IF f THEN hook' = "NONE" /\ UNCHANGED SavedHookType
          ELSE SetLuaHook(SavedHookType, f, LineLUT)

\* The program calls ddtProfiler(f).
ddtProfiler ==
  /\ Running
  /\ \E f \in BOOLEAN : OnSetProfiler(f)
  /\ UNCHANGED <<mainVars, connected, startupVars, fileVars, AllSavedBreakpoints, entryVars>>

ChunkReturns ==
  /\ Running
  /\ PcallReturns
  /\ UNCHANGED <<connected, startupVars, fileVars, AllSavedBreakpoints, hookVars,
                 ProfilerFlag, entryVars>>

-----------------------------------------------------------------------------
(* The debug loop.                                                         *)

\* OnDebuggerEntry() returns to its caller.
LeaveDebugger ==
  /\ entry' = "none" /\ EntryRecurseLock' = FALSE
  /\ CallerContinues(entry)

\* Throws whatever the last error was.
Fault_DoInternalAbort(code) ==
  /\ AbortLevel' = code
  /\ hook' = "NONE" /\ UNCHANGED SavedHookType
  /\ entry' = "none" /\ EntryRecurseLock' = FALSE
  /\ \/ depth = 0 /\ Die("panic")
     \/ depth > 0 /\ PcallReturns

\* DoInternalAbort(). lua_error() unwinds to the innermost protected call: one
\* of the program's own, or LuaGlue::pcall. Whether the unwinding runs the
\* lock's destructor depends on the Lua build. After a load error it returns.
DoInternalAbort(code) ==
  /\ AbortLevel' = code
  /\ hook' = "NONE" /\ UNCHANGED SavedHookType
  /\ IF LastLuaError = "LOAD_FILE_ERROR"
     THEN LeaveDebugger
     ELSE /\ entry' = "none" /\ EntryRecurseLock' \in BOOLEAN
          /\ \/ depth = 0 /\ Die("panic")
             \/ depth > 0 /\ PcallReturns
             \/ depth > 0 /\ entry # "VM_ERROR_HANDLER" /\ UNCHANGED mainVars

AbortCode(cmd) == IF cmd = "ABORT" THEN "CLIENT_REQUEST_ABORT"
                                   ELSE "CLIENT_REQUEST_END_SESSION"

\* REQUEST_VM_RESUME that goes through ResumeDaemon(); the stack faked for a
\* load error has no valid lines to step over or out of.
ResumeDaemon(cmd) ==
  /\ UNCHANGED AbortLevel
  /\ \/ /\ entry = "LOAD_FILE_ERROR" /\ cmd \in {"STEP_OVER", "STEP_OUT"}
        /\ Die("assert(m_ValidLines)")
        /\ UNCHANGED <<entry, EntryRecurseLock, hookVars>>
     \/ /\ ~(entry = "LOAD_FILE_ERROR" /\ cmd \in {"STEP_OVER", "STEP_OUT"})
        /\ \E type \in HookTypesFor(cmd) : SetLuaHook(type, ProfilerFlag, LineLUT)
        /\ LeaveDebugger

Resume ==
  /\ Paused /\ connected
  /\ \E cmd \in Commands :
       /\ ResumeCommand' = cmd
       /\ IF cmd \in Terminate /\ LastLuaError # "LOAD_FILE_ERROR"
          THEN DoInternalAbort(AbortCode(cmd))
          ELSE ResumeDaemon(cmd)
  /\ UNCHANGED <<connected, startupVars, fileVars, AllSavedBreakpoints, ProfilerFlag, LastLuaError>>

\* The loop reads again.
Fault_ReadFails == Paused /\ ~connected /\ UNCHANGED vars

\* ReadMessage() fails in the debug loop.
ReadFails ==
  /\ Paused /\ ~connected
  /\ DoInternalAbort("DAEMON_NETWORK_ERROR")
  /\ UNCHANGED <<connected, startupVars, fileVars, AllSavedBreakpoints, ProfilerFlag,
                 ResumeCommand, LastLuaError>>

-----------------------------------------------------------------------------
(* The end of a session, and of the process.                               *)

ClientGone ==
  /\ at \in Places
  /\ connected /\ connected' = FALSE
  /\ UNCHANGED <<mainVars, startupVars, fileVars, AllSavedBreakpoints, hookVars,
                 ProfilerFlag, entryVars>>

\* m_BreakpointSet and m_LineLUT stay; the lock and the Lua state's hook go.
ExitLuaHooks ==
  /\ NetFileMap' = {} /\ FileInstantiatedSet' = {} /\ AllSavedBreakpoints' = {}
  /\ EntryRecurseLock' = FALSE
  /\ hook' = "NONE" /\ ProfilerFlag' = FALSE
  /\ UNCHANGED <<BreakASAPFlag, JitFlag, BreakpointSet, LineLUT, SavedHookType>>

\* clean_up in main(): SessionEnded(), ExitLuaHooks(), and round again with
\* Reset() unless the client is gone.
CleanUp ==
  /\ at = "cleanup"
  /\ at' = IF connected THEN "setup" ELSE "exited"
  /\ ExitLuaHooks
  /\ ResumeCommand' = "IDLE" /\ AbortLevel' = "NOT_ABORT"
  /\ LastLuaError' = "UNDEFINED_ENTRY_TYPE"
  /\ UNCHANGED <<depth, connected, entry>>

SetupReadFails ==
  /\ at = "setup" /\ ~connected
  /\ at' = "exited"
  /\ UNCHANGED <<depth, connected, startupVars, fileVars, AllSavedBreakpoints, hookVars,
                 ProfilerFlag, entryVars>>

Dead == at \in Crashes \cup {"exited"}

ProcessOver == Dead /\ UNCHANGED vars

Program == \/ HookFires \/ StepLeavesFunction \/ CallIntoDebugger \/ LuaErrorHandler
           \/ OnRequireLoader \/ ddtProfiler \/ ChunkReturns
Client  == SaveAllBreakpoints \/ SyncNStart \/ Resume \/ ClientGone
Daemon  == \/ LoadStartFile \/ LoadStartFileFails \/ CallStartFunction \/ ReadFails
           \/ CleanUp \/ SetupReadFails

Next == Program \/ Client \/ Daemon \/ ProcessOver

\* The daemon's own steps are those of a thread that is scheduled; nothing is
\* assumed of the Lua program or of the client.
Spec == Init /\ [][Next]_vars /\ WF_vars(Daemon)

-----------------------------------------------------------------------------
(* Properties.                                                             *)

MainType == /\ at \in Places \cup Crashes \cup {"exited"}
            /\ depth \in 0 .. MaxNest
            /\ connected \in BOOLEAN
StartupType == NetFileMap \in SUBSET Files /\ BreakASAPFlag \in BOOLEAN /\ JitFlag \in BOOLEAN
ListType == /\ FileInstantiatedSet \in SUBSET Files
            /\ AllSavedBreakpoints \in SUBSET Breakpoints
            /\ BreakpointSet \in SUBSET Breakpoints
            /\ LineLUT \in [DOMAIN LineLUT -> BOOLEAN]
HookType == hook \in HookTypes /\ SavedHookType \in HookTypes /\ ProfilerFlag \in BOOLEAN
EntryType == /\ entry \in Entries \cup {"none"}
             /\ EntryRecurseLock \in BOOLEAN
             /\ AbortLevel \in AbortLevels
             /\ ResumeCommand \in Commands \cup {"IDLE"}
             /\ LastLuaError \in LuaErrors \cup {"UNDEFINED_ENTRY_TYPE"}

TypeOK == MainType /\ StartupType /\ ListType /\ HookType /\ EntryType

\* While the program runs, the hook's two-step lookup stops at exactly the lines
\* the client last asked for in the files loaded by now: nothing is lost or left
\* over from a list replaced at a pause, a file loaded since, or an earlier
\* session's lists, which ExitLuaHooks() keeps (LuaGlue.cpp:346, 1253-1340).
BreakpointsFound ==
  Running => \A bp \in Breakpoints :
    StopsAt(bp) <=> bp \in AllSavedBreakpoints /\ bp[1] \in FileInstantiatedSet

\* A program that was told to run, or was never stopped, has the hook armed
\* whenever it has a live breakpoint, also one in a file loaded after a resume
\* that found none, or under or after the profiler (1068-1134, 1153-1160).
RunKeepsBreakpoints ==
  /\ Running /\ ~Aborted /\ ~ProfilerFlag /\ BreakpointSet # {}
  /\ ResumeCommand \in {"IDLE", "RUN"}
  => hook \in {"BREAKPOINTS", "INSTRUCTION"}

\* The entry lock that a longjmp leaves set never meets a new entry: the
\* assert(!m_EntryRecurseLock) of OnDebuggerEntry() holds (747).
NoReentry == at # "assert(!m_EntryRecurseLock)"

\* DoInternalAbort() never throws outside a protected call, where it would
\* panic (381-386, 468).
NoPanic == at # "panic"

\* With the profiler on under the JIT, no hook runs: a require() or a resume
\* under the profiler does not arm one (403, 1074).
ProfilerSilencesHooks == Running /\ JitFlag /\ ProfilerFlag => hook = "NONE"

\* The assert on the result of a require() holds (LoadOverrider.cpp:226).
RequireSucceeds == at # "assert(require ok)"

\* An aborted session never stops in the debugger again and stays aborted until
\* main() cleans it up, even though require() re-arms the hook and main() may
\* still call the start function (741-745, main.cpp:259-276).
AbortSticks ==
  [][Aborted => entry' = "none" /\ (AbortLevel' = AbortLevel \/ at = "cleanup")]_vars

\* A pause with no client ends, and a process with no client and no program
\* running exits (OnDebuggerEntry 864-870, main.cpp:180-300).
LostClientReleases ==
  /\ (Paused /\ ~connected) ~> ~Paused
  /\ (at \in {"setup", "cleanup"} /\ ~connected) ~> at = "exited"

-----------------------------------------------------------------------------
(* The inductive invariant the safety properties rest on.                  *)

InProgram == at \in {"chunk", "main"}
Loaded    == at \in {"chunk", "between", "main"}

\* The C stack: pcalls are active exactly in the two program phases, and the
\* debug loop runs there or, for a syntax error, in loadfile().
StackInv ==
  /\ InProgram <=> (depth > 0 /\ at \in Places)
  /\ Paused => InProgram \/ (at = "load" /\ entry = "LOAD_FILE_ERROR")

\* A pause holds the lock and is never aborted; the lock is only held on after
\* the throw of an abort; only the pause of a failed load sees its error.
EntryInv ==
  /\ Paused => EntryRecurseLock /\ ~Aborted
  /\ at \in Places /\ EntryRecurseLock /\ ~Paused => Aborted
  /\ at \in {"setup", "load"} /\ ~Paused => ~Aborted
  /\ at \in Places \ {"cleanup"} => (entry = "LOAD_FILE_ERROR" <=> LastLuaError = "LOAD_FILE_ERROR")

\* The live breakpoints are current once a source is loaded; the table covers
\* them always.
ListInv ==
  /\ Loaded => BreakpointSet = ValidBreakpoints(AllSavedBreakpoints, FileInstantiatedSet)
  /\ Loaded => 0 \in DOMAIN LineLUT
  /\ \A bp \in BreakpointSet : bp[2] \in DOMAIN LineLUT /\ LineLUT[bp[2]]

\* The Lua hook is the one last chosen, except under the profiler or once the
\* session is aborted; the choice serves the breakpoints when told to run.
HookInv ==
  /\ InProgram /\ ~Aborted /\ ~ProfilerFlag => hook = SavedHookType
  /\ Loaded /\ JitFlag /\ ProfilerFlag => hook = "NONE"
  /\ Running /\ ~Aborted /\ BreakpointSet # {} /\ ResumeCommand \in {"IDLE", "RUN"}
     => SavedHookType \in {"BREAKPOINTS", "INSTRUCTION"}

SafeEnd == at \notin {"assert(!m_EntryRecurseLock)", "panic"}

IndInv == StackInv /\ EntryInv /\ ListInv /\ HookInv /\ SafeEnd

-----------------------------------------------------------------------------
(* The abstract debuggee.                                                  *)

phase == CASE Dead                    -> "dead"
           [] ~Dead /\ Paused         -> "paused"
           [] at = "setup"            -> "idle"
           [] OTHER                   -> "running"

Abstract == INSTANCE Debuggee WITH phase <- phase, doomed <- Aborted /\ ~Dead

\* Every step of the core is one of the abstract debuggee, or a stutter.
ImplementsDebuggee == Abstract!Spec
=============================================================================
