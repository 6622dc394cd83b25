---------------------------- MODULE LuaGlueProofs ----------------------------
(***************************************************************************)
(* Proofs about the debugger core, for every set of files and lines and    *)
(* every nesting bound.                                                    *)
(***************************************************************************)
EXTENDS LuaGlue, TLAPS

USE DEF vars, mainVars, startupVars, fileVars, hookVars, entryVars

(***************************************************************************)
(* The line table marks every line of the list it is built from, and has   *)
(* at least one entry.                                                     *)
(***************************************************************************)
LEMMA LUTCovers ==
  ASSUME NEW set \in SUBSET Breakpoints, NEW lut
  PROVE  LET new == UpdateFastBreakpoints(set, lut) IN
         /\ new \in [DOMAIN new -> BOOLEAN]
         /\ 0 \in DOMAIN new
         /\ \A bp \in set : bp[2] \in DOMAIN new /\ new[bp[2]]
<1> DEFINE new == UpdateFastBreakpoints(set, lut)
<1>1. DOMAIN new = LUTIndex(set) /\ 0 \in LUTIndex(set)
  BY DEF UpdateFastBreakpoints, LUTIndex
<1>2. new \in [DOMAIN new -> BOOLEAN]
  BY DEF UpdateFastBreakpoints
<1>3. ASSUME NEW bp \in set
      PROVE  bp[2] \in DOMAIN new /\ new[bp[2]]
  <2>1. bp[2] \in Nat
    BY LinesAssumption DEF Breakpoints
  <2>2. bp[2] \in 0 .. bp[2]
    BY <2>1
  <2>3. bp[2] \in LUTIndex(set)
    BY <2>2 DEF LUTIndex
  <2> QED  BY <1>1, <2>3 DEF UpdateFastBreakpoints
<1> QED  BY <1>1, <1>2, <1>3

(***************************************************************************)
(* The bodies of the lists and of the table keep their types.              *)
(***************************************************************************)
LEMMA ListTypes ==
  ASSUME NEW saved \in SUBSET Breakpoints, NEW files \in SUBSET Files,
         SetValidBreakpoints(saved, files)
  PROVE  /\ BreakpointSet' \in SUBSET Breakpoints
         /\ BreakpointSet' = ValidBreakpoints(saved, files)
         /\ LineLUT' \in [DOMAIN LineLUT' -> BOOLEAN]
         /\ 0 \in DOMAIN LineLUT'
         /\ \A bp \in BreakpointSet' : bp[2] \in DOMAIN LineLUT' /\ LineLUT'[bp[2]]
<1>1. BreakpointSet' = ValidBreakpoints(saved, files)
  BY DEF SetValidBreakpoints
<1>2. BreakpointSet' \in SUBSET Breakpoints
  BY <1>1 DEF ValidBreakpoints
<1>3. LineLUT' = UpdateFastBreakpoints(BreakpointSet', LineLUT)
  BY DEF SetValidBreakpoints
<1> QED  BY <1>1, <1>2, <1>3, LUTCovers


(***************************************************************************)
(* Every command chooses known hook types.                                 *)
(***************************************************************************)
LEMMA HookTypesType ==
  ASSUME NEW cmd \in Commands, NEW type \in HookTypesFor(cmd)
  PROVE  type \in HookTypes
BY DEF HookTypesFor, HookTypes, Commands, StepCommands, Terminate

\* Choosing a hook type leaves a hook of that type, or none.
LEMMA SetLuaHookType ==
  ASSUME NEW type \in HookTypes, NEW prof, NEW lut, SetLuaHook(type, prof, lut)
  PROVE  hook' \in HookTypes /\ SavedHookType' \in HookTypes
BY DEF SetLuaHook, HookTypes

\* The return of a pcall leaves main() at one of its places.
LEMMA PcallReturnsType ==
  ASSUME MainType, depth > 0, at \in Places, PcallReturns
  PROVE  at' \in Places /\ depth' \in 0 .. MaxNest
BY MaxNestAssumption DEF MainType, PcallReturns, Places

\* A failed assert or a panic is one of the known ends.
LEMMA DieType ==
  ASSUME MainType, NEW crash \in Crashes, Die(crash)
  PROVE  at' \in Crashes /\ depth' \in 0 .. MaxNest
BY DEF MainType, Die

\* Entering the debug loop keeps the types of what it sets.
LEMMA EnterDebuggerType ==
  ASSUME MainType, EntryType, NEW type \in Entries, EnterDebugger(type)
  PROVE  at' \in Places \cup Crashes \cup {"exited"} /\ depth' \in 0 .. MaxNest /\ EntryType'
<1>1. "assert(!m_EntryRecurseLock)" \in Crashes
  BY DEF Crashes
<1>2. CASE Die("assert(!m_EntryRecurseLock)") /\ UNCHANGED entryVars
  BY <1>1, <1>2, DieType DEF EntryType
<1>3. CASE ~EntryRecurseLock
  BY <1>3 DEF EnterDebugger, EntryType, MainType
<1> QED  BY <1>2, <1>3 DEF EnterDebugger

\* So does the caller that the debug loop returns to.
LEMMA CallerContinuesType ==
  ASSUME MainType, at \in Places, StackInv, Paused, CallerContinues(entry)
  PROVE  at' \in Places \cup Crashes /\ depth' \in 0 .. MaxNest
<1>1. CASE entry = "VM_ERROR_HANDLER"
  <2>1. depth > 0 /\ PcallReturns
    BY <1>1 DEF CallerContinues, StackInv
  <2> QED  BY <2>1, PcallReturnsType
<1>2. CASE entry = "LOAD_FILE_ERROR" /\ at = "load"
  BY <1>2 DEF CallerContinues, MainType, Places
<1>3. CASE entry = "LOAD_FILE_ERROR" /\ at # "load"
  BY <1>3, DieType DEF CallerContinues, Crashes
<1>4. CASE entry \notin {"VM_ERROR_HANDLER", "LOAD_FILE_ERROR"}
  BY <1>4 DEF CallerContinues, MainType
<1> QED  BY <1>1, <1>2, <1>3, <1>4

\* So does leaving the debug loop.
LEMMA LeaveDebuggerType ==
  ASSUME MainType, StackInv, Paused, LeaveDebugger
  PROVE  /\ at' \in Places \cup Crashes /\ depth' \in 0 .. MaxNest
         /\ entry' \in Entries \cup {"none"} /\ EntryRecurseLock' \in BOOLEAN
BY CallerContinuesType DEF LeaveDebugger, Paused

\* So does an abort.
LEMMA DoInternalAbortType ==
  ASSUME TypeOK, StackInv, Paused, NEW code \in AbortLevels, DoInternalAbort(code)
  PROVE  /\ at' \in Places \cup Crashes /\ depth' \in 0 .. MaxNest
         /\ entry' \in Entries \cup {"none"} /\ EntryRecurseLock' \in BOOLEAN
         /\ AbortLevel' \in AbortLevels
         /\ hook' \in HookTypes /\ SavedHookType' \in HookTypes
<1>1. AbortLevel' \in AbortLevels /\ hook' \in HookTypes /\ SavedHookType' \in HookTypes
  BY DEF DoInternalAbort, TypeOK, HookType, HookTypes
<1>2. CASE LeaveDebugger
  BY <1>1, <1>2, LeaveDebuggerType DEF TypeOK
<1>3. CASE /\ entry' = "none" /\ EntryRecurseLock' \in BOOLEAN
           /\ \/ depth = 0 /\ Die("panic")
              \/ depth > 0 /\ PcallReturns
              \/ depth > 0 /\ entry # "VM_ERROR_HANDLER" /\ UNCHANGED mainVars
  <2>1. at \in Places /\ at \in Places \cup Crashes
    BY DEF Paused
  <2>2. "panic" \in Crashes
    BY DEF Crashes
  <2>3. at' \in Places \cup Crashes /\ depth' \in 0 .. MaxNest
    BY <1>3, <2>1, <2>2, DieType, PcallReturnsType DEF TypeOK, MainType
  <2> QED  BY <1>1, <1>3, <2>3
<1> QED  BY <1>2, <1>3 DEF DoInternalAbort

\* So does a resume.
LEMMA ResumeDaemonType ==
  ASSUME TypeOK, StackInv, Paused, NEW cmd \in Commands, ResumeDaemon(cmd)
  PROVE  /\ at' \in Places \cup Crashes /\ depth' \in 0 .. MaxNest
         /\ entry' \in Entries \cup {"none"} /\ EntryRecurseLock' \in BOOLEAN
         /\ AbortLevel' \in AbortLevels
         /\ hook' \in HookTypes /\ SavedHookType' \in HookTypes
<1>1. AbortLevel' \in AbortLevels
  BY DEF ResumeDaemon, TypeOK, EntryType
<1>2. CASE Die("assert(m_ValidLines)") /\ UNCHANGED <<entry, EntryRecurseLock, hookVars>>
  <2>1. "assert(m_ValidLines)" \in Crashes
    BY DEF Crashes
  <2> QED  BY <1>1, <1>2, <2>1, DieType DEF TypeOK, EntryType, HookType
<1>3. CASE /\ \E type \in HookTypesFor(cmd) : SetLuaHook(type, ProfilerFlag, LineLUT)
           /\ LeaveDebugger
  BY <1>1, <1>3, LeaveDebuggerType, HookTypesType, SetLuaHookType DEF TypeOK
<1> QED  BY <1>2, <1>3 DEF ResumeDaemon

(***************************************************************************)
(* Every step keeps the types. The depth of the C stack needs StackInv: a  *)
(* pcall only returns where one is active.                                 *)
(***************************************************************************)
LEMMA RunningPlace ==
  ASSUME TypeOK, StackInv, Running
  PROVE  at \in Places /\ depth > 0 /\ at \in {"chunk", "main"}
BY DEF Running, Places, StackInv, InProgram

\* Every step keeps the types.
LEMMA NextType ==
  ASSUME TypeOK, StackInv, [Next]_vars
  PROVE  TypeOK'
<1> USE DEF TypeOK
<1>1. CASE HookFires
  <2>1. (MainType /\ EntryType)' 
    <3>1. PICK type \in {"HOOK", "BREAKPOINT"} : EnterDebugger(type)
      BY <1>1 DEF HookFires
    <3>2. type \in Entries
      BY DEF Entries
    <3> QED  BY <1>1, <3>1, <3>2, EnterDebuggerType DEF HookFires, MainType
  <2>2. HookType'
    <3>1. "INSTRUCTION" \in HookTypes
      BY DEF HookTypes
    <3> QED  BY <1>1, <3>1, SetLuaHookType DEF HookFires, HookType
  <2> QED  BY <1>1, <2>1, <2>2 DEF HookFires, StartupType, ListType
<1>2. CASE StepLeavesFunction
  <2>1. "INSTRUCTION" \in HookTypes
    BY DEF HookTypes
  <2> QED  BY <1>2, <2>1, SetLuaHookType
           DEF StepLeavesFunction, MainType, StartupType, ListType, HookType, EntryType
<1>3. CASE CallIntoDebugger
  <2>1. PICK type \in {"VM_ERROR_CALL", "VM_ASSERT_CALL", "INLINE_BREAKPOINT_CALL"} :
          EnterDebugger(type)
    BY <1>3 DEF CallIntoDebugger
  <2>2. type \in Entries
    BY DEF Entries, LuaErrors
  <2> QED  BY <1>3, <2>1, <2>2, EnterDebuggerType
           DEF CallIntoDebugger, MainType, StartupType, ListType, HookType
<1>4. CASE LuaErrorHandler
  <2>1. "VM_ERROR_HANDLER" \in Entries
    BY DEF Entries, LuaErrors
  <2>2. (MainType /\ EntryType)'
    BY <1>4, <2>1, EnterDebuggerType, PcallReturnsType, RunningPlace
       DEF LuaErrorHandler, MainType, EntryType
  <2> QED  BY <1>4, <2>2 DEF LuaErrorHandler, StartupType, ListType, HookType
<1>5. CASE OnRequireLoader
  <2>1. PICK file \in NetFileMap \ FileInstantiatedSet :
          \/ /\ InstantiateAndCall(file)
             /\ SetLuaHook(PcallHookType(BreakASAPFlag), ProfilerFlag, LineLUT')
             /\ UNCHANGED <<at, entryVars>>
          \/ EnterDebugger("LOAD_FILE_ERROR") /\ UNCHANGED <<fileVars, hookVars>>
          \/ Die("assert(require ok)") /\ UNCHANGED <<fileVars, hookVars, entryVars>>
    BY <1>5 DEF OnRequireLoader
  <2>2. /\ UNCHANGED <<connected, startupVars, AllSavedBreakpoints, ProfilerFlag>>
        /\ depth < MaxNest /\ file \in Files
    BY <1>5, <2>1 DEF OnRequireLoader, StartupType
  <2>3. CASE /\ InstantiateAndCall(file)
             /\ SetLuaHook(PcallHookType(BreakASAPFlag), ProfilerFlag, LineLUT')
             /\ UNCHANGED <<at, entryVars>>
    <3>1. depth' \in 0 .. MaxNest
      BY <2>2, <2>3, MaxNestAssumption DEF InstantiateAndCall, MainType
    <3>2. ListType'
      BY <2>2, <2>3, ListTypes DEF InstantiateAndCall, ListType
    <3>3. HookType'
      BY <2>2, <2>3, SetLuaHookType DEF PcallHookType, HookType, HookTypes
    <3> QED  BY <2>2, <2>3, <3>1, <3>2, <3>3 DEF MainType, StartupType, EntryType
  <2>4. CASE EnterDebugger("LOAD_FILE_ERROR") /\ UNCHANGED <<fileVars, hookVars>>
    <3>1. "LOAD_FILE_ERROR" \in Entries
      BY DEF Entries, LuaErrors
    <3> QED  BY <2>2, <2>4, <3>1, EnterDebuggerType
             DEF MainType, StartupType, ListType, HookType
  <2>5. CASE Die("assert(require ok)") /\ UNCHANGED <<fileVars, hookVars, entryVars>>
    <3>1. "assert(require ok)" \in Crashes
      BY DEF Crashes
    <3> QED  BY <2>2, <2>5, <3>1, DieType
             DEF MainType, StartupType, ListType, HookType, EntryType
  <2> QED  BY <2>1, <2>3, <2>4, <2>5
<1>6. CASE ddtProfiler
  <2>1. "NONE" \in HookTypes
    BY DEF HookTypes
  <2> QED  BY <1>6, <2>1, SetLuaHookType
           DEF ddtProfiler, OnSetProfiler, ToggleProfiler, MainType, StartupType, ListType, HookType, EntryType
<1>7. CASE ChunkReturns
  BY <1>7, PcallReturnsType, RunningPlace
     DEF ChunkReturns, MainType, StartupType, ListType, HookType, EntryType
<1>8. CASE SaveAllBreakpoints
  BY <1>8, ListTypes
     DEF SaveAllBreakpoints, MainType, StartupType, ListType, HookType, EntryType
<1>9. CASE SyncNStart
  <2>1. "load" \in Places /\ "NONE" \in HookTypes /\ "NOT_ABORT" \in AbortLevels
    BY DEF Places, HookTypes, AbortLevels
  <2> QED  BY <1>9, <2>1
           DEF SyncNStart, MainType, StartupType, ListType, HookType, EntryType
<1>10. CASE Resume
  <2>1. PICK cmd \in Commands :
          /\ ResumeCommand' = cmd
          /\ IF cmd \in Terminate /\ LastLuaError # "LOAD_FILE_ERROR"
             THEN DoInternalAbort(AbortCode(cmd)) ELSE ResumeDaemon(cmd)
    BY <1>10 DEF Resume
  <2>2. Paused /\ AbortCode(cmd) \in AbortLevels
    BY <1>10 DEF Resume, AbortCode, AbortLevels
  <2>3. /\ at' \in Places \cup Crashes /\ depth' \in 0 .. MaxNest
        /\ entry' \in Entries \cup {"none"} /\ EntryRecurseLock' \in BOOLEAN
        /\ AbortLevel' \in AbortLevels
        /\ hook' \in HookTypes /\ SavedHookType' \in HookTypes
    BY <2>1, <2>2, DoInternalAbortType, ResumeDaemonType
  <2> QED  BY <1>10, <2>1, <2>3
           DEF Resume, MainType, StartupType, ListType, HookType, EntryType
<1>11. CASE ClientGone
  BY <1>11 DEF ClientGone, MainType, StartupType, ListType, HookType, EntryType
<1>12. CASE LoadStartFile
  <2>1. (MainType /\ EntryType)'
    <3>1. depth = 0
      BY <1>12 DEF LoadStartFile, MainType, StackInv, InProgram, Places
    <3>2. depth' \in 0 .. MaxNest
      BY <1>12, <3>1, MaxNestAssumption DEF LoadStartFile, InstantiateAndCall
    <3> QED  BY <1>12, <3>2 DEF LoadStartFile, MainType, EntryType, Places
  <2>2. ListType'
    BY <1>12, ListTypes, StartFileAssumption DEF LoadStartFile, InstantiateAndCall, ListType
  <2>3. HookType'
    BY <1>12, SetLuaHookType DEF LoadStartFile, PcallHookType, HookType, HookTypes
  <2> QED  BY <1>12, <2>1, <2>2, <2>3 DEF LoadStartFile, StartupType
<1>13. CASE LoadStartFileFails
  <2>1. "LOAD_FILE_ERROR" \in Entries
    BY DEF Entries, LuaErrors
  <2> QED  BY <1>13, <2>1, EnterDebuggerType
           DEF LoadStartFileFails, MainType, StartupType, ListType, HookType
<1>14. CASE CallStartFunction
  <2>1. MainType'
    BY <1>14, MaxNestAssumption DEF CallStartFunction, MainType, Places
  <2>2. HookType'
    BY <1>14, SetLuaHookType DEF CallStartFunction, PcallHookType, HookType, HookTypes
  <2> QED  BY <1>14, <2>1, <2>2 DEF CallStartFunction, StartupType, ListType, EntryType
<1>15. CASE ReadFails
  <2>1. Paused /\ "DAEMON_NETWORK_ERROR" \in AbortLevels
    BY <1>15 DEF ReadFails, AbortLevels
  <2> QED  BY <1>15, <2>1, DoInternalAbortType
           DEF ReadFails, MainType, StartupType, ListType, HookType, EntryType
<1>16. CASE CleanUp
  <2>1. "setup" \in Places /\ "NONE" \in HookTypes /\ "NOT_ABORT" \in AbortLevels
    BY DEF Places, HookTypes, AbortLevels
  <2> QED  BY <1>16, <2>1
           DEF CleanUp, ExitLuaHooks, MainType, StartupType, ListType, HookType, EntryType
<1>17. CASE SetupReadFails
  BY <1>17 DEF SetupReadFails, MainType, StartupType, ListType, HookType, EntryType
<1>18. CASE UNCHANGED vars
  BY <1>18 DEF MainType, StartupType, ListType, HookType, EntryType
<1> QED
  BY <1>1, <1>2, <1>3, <1>4, <1>5, <1>6, <1>7, <1>8, <1>9, <1>10, <1>11, <1>12, <1>13,
     <1>14, <1>15, <1>16, <1>17, <1>18 DEF Next, Program, Client, Daemon, ProcessOver

(***************************************************************************)
(* The C stack, the entry lock and the abort level.                        *)
(***************************************************************************)
ControlInv == StackInv /\ EntryInv /\ SafeEnd

\* Leaving the debug loop keeps the control invariant.
LEMMA LeaveKeepsControl ==
  ASSUME TypeOK, ControlInv, Paused, LeaveDebugger, UNCHANGED LastLuaError,
         AbortLevel' = AbortLevel \/ LastLuaError = "LOAD_FILE_ERROR"
  PROVE  ControlInv'
<1> USE DEF ControlInv, StackInv, EntryInv, SafeEnd, InProgram, Paused, Aborted, Places
<1>0. depth \in Nat
  BY MaxNestAssumption DEF TypeOK, MainType
<1>1. CASE entry = "VM_ERROR_HANDLER"
  BY <1>0, <1>1 DEF LeaveDebugger, CallerContinues, PcallReturns
<1>2. CASE entry = "LOAD_FILE_ERROR"
  BY <1>0, <1>2 DEF LeaveDebugger, CallerContinues, Die
<1>3. CASE entry \notin {"VM_ERROR_HANDLER", "LOAD_FILE_ERROR"}
  BY <1>0, <1>3 DEF LeaveDebugger, CallerContinues
<1> QED  BY <1>1, <1>2, <1>3

\* An abort keeps the control invariant.
LEMMA AbortKeepsControl ==
  ASSUME TypeOK, ControlInv, Paused, UNCHANGED LastLuaError,
         NEW code, code # "NOT_ABORT", DoInternalAbort(code)
  PROVE  ControlInv'
<1> USE DEF ControlInv, StackInv, EntryInv, SafeEnd, InProgram, Paused, Aborted, Places
<1>0. depth \in Nat
  BY MaxNestAssumption DEF TypeOK, MainType
<1>1. CASE LastLuaError = "LOAD_FILE_ERROR"
  BY <1>1, LeaveKeepsControl DEF DoInternalAbort
<1>2. CASE LastLuaError # "LOAD_FILE_ERROR"
  <2>1. InProgram /\ depth > 0
    BY <1>2
  <2>2. entry' = "none" /\ Aborted'
    BY <1>2 DEF DoInternalAbort
  <2>3. CASE PcallReturns
    BY <1>0, <1>2, <2>1, <2>2, <2>3 DEF PcallReturns
  <2>4. CASE UNCHANGED mainVars
    BY <1>0, <1>2, <2>1, <2>2, <2>4
  <2> QED  BY <1>2, <2>1, <2>3, <2>4 DEF DoInternalAbort
<1> QED  BY <1>1, <1>2

\* Every step keeps the control invariant.
LEMMA NextControl ==
  ASSUME TypeOK, ControlInv, [Next]_vars
  PROVE  ControlInv'
<1> USE DEF ControlInv, StackInv, EntryInv, SafeEnd, InProgram, Paused, Aborted, Places
<1>0. depth \in Nat
  BY MaxNestAssumption DEF TypeOK, MainType
<1>1. CASE HookFires
  BY <1>0, <1>1 DEF HookFires, EnterDebugger, Die, Running, LuaErrors
<1>2. CASE StepLeavesFunction
  BY <1>0, <1>2 DEF StepLeavesFunction, Running
<1>3. CASE CallIntoDebugger
  BY <1>0, <1>3 DEF CallIntoDebugger, EnterDebugger, Die, Running, LuaErrors
<1>4. CASE LuaErrorHandler
  BY <1>0, <1>4 DEF LuaErrorHandler, EnterDebugger, Die, Running, LuaErrors, PcallReturns
<1>5. CASE OnRequireLoader
  <2>1. Running /\ UNCHANGED connected
    BY <1>5 DEF OnRequireLoader
  <2>2. CASE EnterDebugger("LOAD_FILE_ERROR")
    BY <1>0, <2>1, <2>2 DEF EnterDebugger, Die, Running, LuaErrors
  <2>3. CASE Aborted /\ Die("assert(require ok)") /\ UNCHANGED entryVars
    BY <1>0, <2>1, <2>3 DEF Die, Running
  <2>4. CASE UNCHANGED <<at, entryVars>> /\ depth' = depth + 1
    BY <1>0, <2>1, <2>4 DEF Running
  <2> QED  BY <1>5, <2>2, <2>3, <2>4 DEF OnRequireLoader, InstantiateAndCall
<1>6. CASE ddtProfiler
  BY <1>0, <1>6 DEF ddtProfiler, OnSetProfiler, ToggleProfiler, Running
<1>7. CASE ChunkReturns
  BY <1>0, <1>7 DEF ChunkReturns, Running, PcallReturns
<1>8. CASE SaveAllBreakpoints
  BY <1>0, <1>8 DEF SaveAllBreakpoints
<1>9. CASE SyncNStart
  BY <1>0, <1>9 DEF SyncNStart
<1>10. CASE Resume
  <2>1. Paused /\ UNCHANGED LastLuaError
    BY <1>10 DEF Resume
  <2>2. ASSUME NEW cmd \in Commands, DoInternalAbort(AbortCode(cmd))
        PROVE  ControlInv'
    BY <2>1, <2>2, AbortKeepsControl DEF AbortCode
  <2>3. ASSUME NEW cmd \in Commands, ResumeDaemon(cmd)
        PROVE  ControlInv'
    <3>1. CASE LeaveDebugger
      BY <2>1, <2>3, <3>1, LeaveKeepsControl DEF ResumeDaemon
    <3>2. CASE Die("assert(m_ValidLines)")
      BY <3>2 DEF Die
    <3> QED  BY <2>3, <3>1, <3>2 DEF ResumeDaemon
  <2> QED  BY <1>10, <2>2, <2>3 DEF Resume
<1>11. CASE ClientGone
  BY <1>0, <1>11 DEF ClientGone
<1>12. CASE LoadStartFile
  BY <1>0, <1>12 DEF LoadStartFile, InstantiateAndCall
<1>13. CASE LoadStartFileFails
  BY <1>0, <1>13 DEF LoadStartFileFails, EnterDebugger, Die, LuaErrors
<1>14. CASE CallStartFunction
  BY <1>0, <1>14 DEF CallStartFunction
<1>15. CASE ReadFails
  BY <1>15, AbortKeepsControl DEF ReadFails
<1>16. CASE CleanUp
  BY <1>0, <1>16 DEF CleanUp, ExitLuaHooks
<1>17. CASE SetupReadFails
  BY <1>0, <1>17 DEF SetupReadFails
<1>18. CASE UNCHANGED vars
  BY <1>18
<1> QED
  BY <1>1, <1>2, <1>3, <1>4, <1>5, <1>6, <1>7, <1>8, <1>9, <1>10, <1>11, <1>12, <1>13, <1>14, <1>15, <1>16, <1>17, <1>18 DEF Next, Program, Client, Daemon, ProcessOver

(***************************************************************************)
(* The lists of breakpoints and their table. Only three actions load a     *)
(* file or take a list; the others keep both and never get from an         *)
(* unloaded place to a loaded one.                                         *)
(***************************************************************************)
LEMMA ProgramPlace ==
  ASSUME TypeOK, ControlInv, Running \/ Paused
  PROVE  /\ Running => Loaded
         /\ Paused => Loaded \/ at = "load"
BY DEF Running, Paused, ControlInv, StackInv, InProgram, Loaded

\* What ends a pause never gets from an unloaded place to a loaded one.
LEMMA PauseStaysLoaded ==
  ASSUME TypeOK, ControlInv, Paused,
         \/ \E code : DoInternalAbort(code)
         \/ \E cmd : ResumeDaemon(cmd)
  PROVE  Loaded' => Loaded
<1> USE DEF Loaded, Places, Crashes
<1>1. Loaded \/ at = "load"
  BY ProgramPlace
<1>2. CASE at = "load"
  <2>1. entry = "LOAD_FILE_ERROR" /\ LastLuaError = "LOAD_FILE_ERROR"
    BY <1>2 DEF ControlInv, StackInv, EntryInv, InProgram
  <2>2. LeaveDebugger => at' = "cleanup"
    BY <1>2, <2>1 DEF LeaveDebugger, CallerContinues
  <2> QED  BY <2>1, <2>2 DEF DoInternalAbort, ResumeDaemon, Die
<1> QED  BY <1>1, <1>2

\* Every step keeps the invariant of the breakpoint lists.
LEMMA NextList ==
  ASSUME TypeOK, ControlInv, ListInv, [Next]_vars
  PROVE  ListInv'
<1> DEFINE Same == /\ UNCHANGED <<fileVars, AllSavedBreakpoints>>
                   /\ Loaded' => Loaded
<1>1. Same => ListInv'
  BY DEF ListInv, ValidBreakpoints
<1>2. CASE HookFires
  BY <1>1, <1>2, ProgramPlace DEF HookFires
<1>3. CASE StepLeavesFunction
  BY <1>1, <1>3, ProgramPlace DEF StepLeavesFunction
<1>4. CASE CallIntoDebugger
  BY <1>1, <1>4, ProgramPlace DEF CallIntoDebugger
<1>5. CASE LuaErrorHandler
  BY <1>1, <1>5, ProgramPlace DEF LuaErrorHandler
<1>6. CASE OnRequireLoader
  <2>1. Running /\ Loaded /\ UNCHANGED AllSavedBreakpoints
    BY <1>6, ProgramPlace DEF OnRequireLoader
  <2>2. CASE UNCHANGED fileVars
    BY <1>1, <2>1, <2>2
  <2>3. CASE \E file \in NetFileMap : InstantiateAndCall(file)
    <3>1. PICK file \in Files : InstantiateAndCall(file)
      BY <2>3 DEF TypeOK, StartupType
    <3>2. FileInstantiatedSet' \in SUBSET Files
      BY <3>1 DEF InstantiateAndCall, TypeOK, ListType
    <3> QED  BY <2>1, <3>1, <3>2, ListTypes DEF InstantiateAndCall, ListInv, TypeOK, ListType
  <2> QED  BY <1>6, <2>2, <2>3 DEF OnRequireLoader
<1>7. CASE ddtProfiler
  BY <1>1, <1>7, ProgramPlace DEF ddtProfiler, OnSetProfiler, ToggleProfiler
<1>8. CASE ChunkReturns
  BY <1>1, <1>8, ProgramPlace DEF ChunkReturns
<1>9. CASE SaveAllBreakpoints
  BY <1>9, ListTypes DEF SaveAllBreakpoints, ListInv, TypeOK, ListType
<1>10. CASE SyncNStart
  BY <1>10 DEF SyncNStart, ListInv, Loaded
<1>11. CASE Resume
  BY <1>1, <1>11, PauseStaysLoaded DEF Resume
<1>12. CASE ClientGone
  BY <1>1, <1>12 DEF ClientGone, Loaded
<1>13. CASE LoadStartFile
  <2>1. FileInstantiatedSet' \in SUBSET Files
    BY <1>13, StartFileAssumption DEF LoadStartFile, InstantiateAndCall, TypeOK, ListType
  <2> QED  BY <1>13, <2>1, ListTypes
           DEF LoadStartFile, InstantiateAndCall, ListInv, TypeOK, ListType
<1>14. CASE LoadStartFileFails
  <2>1. Loaded' => Loaded
    BY <1>14 DEF LoadStartFileFails, EnterDebugger, Die, Loaded
  <2> QED  BY <1>1, <1>14, <2>1 DEF LoadStartFileFails
<1>15. CASE CallStartFunction
  BY <1>1, <1>15 DEF CallStartFunction, Loaded
<1>16. CASE ReadFails
  BY <1>1, <1>16, PauseStaysLoaded DEF ReadFails
<1>17. CASE CleanUp
  BY <1>17 DEF CleanUp, ExitLuaHooks, ListInv, Loaded
<1>18. CASE SetupReadFails
  BY <1>1, <1>18 DEF SetupReadFails, Loaded
<1>19. CASE UNCHANGED vars
  BY <1>1, <1>19 DEF Loaded
<1> QED
  BY <1>2, <1>3, <1>4, <1>5, <1>6, <1>7, <1>8, <1>9, <1>10, <1>11, <1>12, <1>13, <1>14, <1>15, <1>16, <1>17, <1>18, <1>19
  DEF Next, Program, Client, Daemon, ProcessOver

(***************************************************************************)
(* The hook.                                                               *)
(***************************************************************************)
LEMMA NextHook ==
  ASSUME TypeOK, ControlInv, ListInv, HookInv, [Next]_vars
  PROVE  HookInv'
<1> USE DEF HookInv, InProgram, Loaded, Running, Paused, Aborted, Places
<1>1. CASE HookFires
  BY <1>1 DEF HookFires, EnterDebugger, Die, SetLuaHook, IsProfiling, ListInv, ControlInv, StackInv, EntryInv
<1>2. CASE StepLeavesFunction
  BY <1>2 DEF StepLeavesFunction, SetLuaHook, IsProfiling, ListInv, ControlInv, StackInv, EntryInv
<1>3. CASE CallIntoDebugger
  BY <1>3 DEF CallIntoDebugger, EnterDebugger, Die, ListInv, ControlInv, StackInv, EntryInv
<1>4. CASE LuaErrorHandler
  BY <1>4 DEF LuaErrorHandler, EnterDebugger, Die, PcallReturns, ListInv, ControlInv, StackInv, EntryInv
<1>5. CASE OnRequireLoader
  <2>1. Running /\ UNCHANGED <<JitFlag, ProfilerFlag>>
    BY <1>5 DEF OnRequireLoader
  <2>2. CASE EnterDebugger("LOAD_FILE_ERROR") /\ UNCHANGED <<fileVars, hookVars>>
    BY <2>1, <2>2 DEF EnterDebugger, Die
  <2>3. CASE Die("assert(require ok)")
    BY <2>3 DEF Die
  <2>4. CASE /\ \E file \in NetFileMap : InstantiateAndCall(file)
             /\ SetLuaHook(PcallHookType(BreakASAPFlag), ProfilerFlag, LineLUT')
             /\ UNCHANGED <<at, entryVars, AllSavedBreakpoints>>
    <3>1. 0 \in DOMAIN LineLUT'
      <4>1. PICK file \in Files : InstantiateAndCall(file)
        BY <2>4 DEF TypeOK, StartupType
      <4>2. FileInstantiatedSet' \in SUBSET Files
        BY <4>1 DEF InstantiateAndCall, TypeOK, ListType
      <4> QED  BY <4>1, <4>2, ListTypes DEF InstantiateAndCall, TypeOK, ListType
    <3> QED  BY <2>1, <2>4, <3>1 DEF SetLuaHook, IsProfiling, PcallHookType
  <2>5. UNCHANGED AllSavedBreakpoints
    BY <1>5 DEF OnRequireLoader
  <2> QED  BY <1>5, <2>2, <2>3, <2>4, <2>5 DEF OnRequireLoader
<1>6. CASE ddtProfiler
  BY <1>6 DEF ddtProfiler, OnSetProfiler, ToggleProfiler, SetLuaHook, IsProfiling, ListInv, ControlInv, StackInv, EntryInv
<1>7. CASE ChunkReturns
  BY <1>7 DEF ChunkReturns, PcallReturns, ListInv, ControlInv, StackInv, EntryInv
<1>8. CASE SaveAllBreakpoints
  BY <1>8 DEF SaveAllBreakpoints, ListInv, ControlInv, StackInv, EntryInv
<1>9. CASE SyncNStart
  BY <1>9 DEF SyncNStart, ListInv, ControlInv, StackInv, EntryInv
<1>10. CASE Resume
  <2>1. Paused /\ UNCHANGED <<BreakpointSet, JitFlag, ProfilerFlag>>
    BY <1>10 DEF Resume
  <2>2. PICK cmd \in Commands :
          /\ ResumeCommand' = cmd
          /\ IF cmd \in Terminate /\ LastLuaError # "LOAD_FILE_ERROR"
             THEN DoInternalAbort(AbortCode(cmd)) ELSE ResumeDaemon(cmd)
    BY <1>10 DEF Resume
  <2>3. CASE DoInternalAbort(AbortCode(cmd))
    BY <2>1, <2>3 DEF DoInternalAbort, AbortCode
  <2>4. CASE Die("assert(m_ValidLines)")
    BY <2>4 DEF Die
  <2>5. CASE ResumeDaemon(cmd) /\ ~Die("assert(m_ValidLines)")
    <3>1. PICK type \in HookTypesFor(cmd) : SetLuaHook(type, ProfilerFlag, LineLUT)
      BY <2>5 DEF ResumeDaemon
    <3>2. Loaded' => 0 \in DOMAIN LineLUT
      BY <2>1, <2>5, PauseStaysLoaded DEF ListInv
    <3>3. cmd = "RUN" /\ BreakpointSet # {} => type = "BREAKPOINTS"
      BY DEF HookTypesFor, Terminate
    <3>4. cmd # "IDLE"
      BY DEF Commands, StepCommands, Terminate
    <3> QED  BY <2>1, <2>2, <3>1, <3>2, <3>3, <3>4 DEF SetLuaHook, IsProfiling
  <2> QED  BY <2>2, <2>3, <2>4, <2>5
<1>11. CASE ClientGone
  BY <1>11 DEF ClientGone, ListInv, ControlInv, StackInv, EntryInv
<1>12. CASE LoadStartFile
  <2>1. FileInstantiatedSet' \in SUBSET Files
    BY <1>12, StartFileAssumption DEF LoadStartFile, InstantiateAndCall, TypeOK, ListType
  <2>2. 0 \in DOMAIN LineLUT'
    BY <1>12, <2>1, ListTypes DEF LoadStartFile, InstantiateAndCall, TypeOK, ListType
  <2> QED  BY <1>12, <2>2 DEF LoadStartFile, SetLuaHook, IsProfiling, PcallHookType
<1>13. CASE LoadStartFileFails
  BY <1>13 DEF LoadStartFileFails, EnterDebugger, Die, ListInv, ControlInv, StackInv, EntryInv
<1>14. CASE CallStartFunction
  BY <1>14 DEF CallStartFunction, SetLuaHook, IsProfiling, PcallHookType, ListInv, ControlInv, StackInv, EntryInv
<1>15. CASE ReadFails
  BY <1>15 DEF ReadFails, DoInternalAbort, LeaveDebugger, CallerContinues, Die, PcallReturns, ListInv, ControlInv, StackInv, EntryInv
<1>16. CASE CleanUp
  BY <1>16 DEF CleanUp, ExitLuaHooks, ListInv, ControlInv, StackInv, EntryInv
<1>17. CASE SetupReadFails
  BY <1>17 DEF SetupReadFails, ListInv, ControlInv, StackInv, EntryInv
<1>18. CASE UNCHANGED vars
  BY <1>18
<1> QED
  BY <1>1, <1>2, <1>3, <1>4, <1>5, <1>6, <1>7, <1>8, <1>9, <1>10, <1>11, <1>12, <1>13, <1>14, <1>15, <1>16, <1>17, <1>18 DEF Next, Program, Client, Daemon, ProcessOver

(***************************************************************************)
(* The invariant holds initially, and each step keeps it.                  *)
(***************************************************************************)
LEMMA InitInv == Init => TypeOK /\ IndInv
<1> SUFFICES ASSUME Init PROVE TypeOK /\ IndInv
  OBVIOUS
<1>1. TypeOK
  <2>1. MainType
    BY MaxNestAssumption DEF Init, MainType, Places
  <2>2. EntryType
    BY DEF Init, EntryType, AbortLevels
  <2>3. ListType
    <3>1. LineLUT = << >> /\ << >> \in [DOMAIN << >> -> BOOLEAN]
      BY DEF Init
    <3> QED  BY <3>1 DEF Init, ListType
  <2>4. StartupType /\ HookType
    BY DEF Init, StartupType, HookType, HookTypes
  <2> QED  BY <2>1, <2>2, <2>3, <2>4 DEF TypeOK
<1>2. IndInv
  BY DEF Init, IndInv, StackInv, EntryInv, ListInv, HookInv, SafeEnd, InProgram, Loaded,
         Running, Paused, Aborted, Places
<1> QED  BY <1>1, <1>2

\* Every step keeps the types and the inductive invariant.
LEMMA NextInv ==
  ASSUME TypeOK, IndInv, [Next]_vars
  PROVE  TypeOK' /\ IndInv'
<1>1. TypeOK'
  BY NextType DEF IndInv
<1>2. ControlInv'
  BY NextControl DEF IndInv, ControlInv
<1>3. ListInv' /\ HookInv'
  BY NextList, NextHook DEF IndInv, ControlInv
<1> QED  BY <1>1, <1>2, <1>3 DEF IndInv, ControlInv

\* The types and the inductive invariant hold in every reachable state, for
\* every project, every set of breakable lines and every nesting of requires.
THEOREM Invariance == Spec => [](TypeOK /\ IndInv)
BY InitInv, NextInv, PTL DEF Spec

\* The variables keep their types.
THEOREM TypeCorrect == Spec => []TypeOK
BY Invariance, PTL

\* The assert on the entry lock in OnDebuggerEntry() cannot fail.
THEOREM EntryLockIsSafe == Spec => []NoReentry
<1>1. IndInv => NoReentry
  BY DEF IndInv, SafeEnd, NoReentry
<1> QED  BY <1>1, Invariance, PTL

\* An abort is never thrown outside a protected call.
THEOREM AbortNeverPanics == Spec => []NoPanic
<1>1. IndInv => NoPanic
  BY DEF IndInv, SafeEnd, NoPanic
<1> QED  BY <1>1, Invariance, PTL

\* The breakpoint hook stops at exactly the lines asked for in loaded files.
THEOREM BreakpointsAreFound == Spec => []BreakpointsFound
<1>1. IndInv => BreakpointsFound
  BY DEF IndInv, ListInv, BreakpointsFound, StopsAt, ValidBreakpoints, Running, Loaded
<1> QED  BY <1>1, Invariance, PTL

\* A running program with live breakpoints keeps a hook armed for them.
THEOREM RunIsArmed == Spec => []RunKeepsBreakpoints
<1>1. IndInv => RunKeepsBreakpoints
  BY DEF IndInv, HookInv, RunKeepsBreakpoints, InProgram, Running
<1> QED  BY <1>1, Invariance, PTL

\* No hook runs under the JIT profiler.
THEOREM ProfilerIsQuiet == Spec => []ProfilerSilencesHooks
<1>1. IndInv => ProfilerSilencesHooks
  BY DEF IndInv, HookInv, ProfilerSilencesHooks, Running, Loaded
<1> QED  BY <1>1, Invariance, PTL

(***************************************************************************)
(* Aborting: a pause is never aborted, and an aborted program never enters *)
(* the debug loop.                                                         *)
(***************************************************************************)
AbortStep == Aborted => entry' = "none" /\ (AbortLevel' = AbortLevel \/ at = "cleanup")

\* Every step keeps an aborted session aborted and out of the debugger.
LEMMA AbortedStep ==
  ASSUME TypeOK, IndInv, Next
  PROVE  AbortStep \/ UNCHANGED vars
<1> USE DEF AbortStep, Running, Paused, Aborted, IndInv, StackInv, EntryInv, InProgram, Places
<1>1. CASE HookFires
  BY <1>1 DEF HookFires, EnterDebugger
<1>2. CASE StepLeavesFunction
  BY <1>2 DEF StepLeavesFunction
<1>3. CASE CallIntoDebugger
  BY <1>3 DEF CallIntoDebugger, EnterDebugger
<1>4. CASE LuaErrorHandler
  BY <1>4 DEF LuaErrorHandler, EnterDebugger
<1>5. CASE OnRequireLoader
  BY <1>5 DEF OnRequireLoader, EnterDebugger
<1>6. CASE ddtProfiler
  BY <1>6 DEF ddtProfiler, OnSetProfiler, ToggleProfiler
<1>7. CASE ChunkReturns
  BY <1>7 DEF ChunkReturns
<1>8. CASE SaveAllBreakpoints
  BY <1>8 DEF SaveAllBreakpoints
<1>9. CASE SyncNStart
  BY <1>9 DEF SyncNStart
<1>10. CASE Resume
  BY <1>10 DEF Resume
<1>11. CASE ClientGone
  BY <1>11 DEF ClientGone
<1>12. CASE LoadStartFile
  BY <1>12 DEF LoadStartFile
<1>13. CASE LoadStartFileFails
  BY <1>13 DEF LoadStartFileFails, EnterDebugger
<1>14. CASE CallStartFunction
  BY <1>14 DEF CallStartFunction
<1>15. CASE ReadFails
  BY <1>15 DEF ReadFails
<1>16. CASE CleanUp
  BY <1>16 DEF CleanUp, ExitLuaHooks
<1>17. CASE SetupReadFails
  BY <1>17 DEF SetupReadFails
<1> QED
  BY <1>1, <1>2, <1>3, <1>4, <1>5, <1>6, <1>7, <1>8, <1>9, <1>10, <1>11, <1>12, <1>13, <1>14, <1>15, <1>16, <1>17 DEF Next, Program, Client, Daemon, ProcessOver

\* An aborted session never pauses again and stays aborted up to the clean up.
THEOREM AbortIsFinal == Spec => AbortSticks
<1>1. TypeOK /\ IndInv /\ [Next]_vars => [AbortStep]_vars
  BY AbortedStep
<1> QED  BY <1>1, Invariance, PTL DEF Spec, AbortSticks, AbortStep

(***************************************************************************)
(* The core implements the abstract debuggee.                              *)
(***************************************************************************)
LEMMA InitAbstract == Init => Abstract!Init
BY DEF Init, Abstract!Init, phase, Dead, Paused, Aborted, Crashes, Places

\* Every step of the core is a step of the debuggee, or a stutter.
LEMMA StepAbstract ==
  ASSUME TypeOK, IndInv, [Next]_vars
  PROVE  [Abstract!Next]_(Abstract!view)
<1> USE DEF phase, Dead, Crashes, Places, Paused, Running, Aborted, IndInv, StackInv, EntryInv,
            InProgram, Abstract!view
<1>1. CASE HookFires
  BY <1>1 DEF HookFires, EnterDebugger, Die, Abstract!Pause, Abstract!Die, Abstract!Next
<1>2. CASE StepLeavesFunction
  BY <1>2 DEF StepLeavesFunction, Abstract!Next
<1>3. CASE CallIntoDebugger
  BY <1>3 DEF CallIntoDebugger, EnterDebugger, Die, Abstract!Pause, Abstract!Die, Abstract!Next
<1>4. CASE LuaErrorHandler
  BY <1>4 DEF LuaErrorHandler, EnterDebugger, Die, PcallReturns, Abstract!Pause, Abstract!Die, Abstract!Next
<1>5. CASE OnRequireLoader
  BY <1>5 DEF OnRequireLoader, EnterDebugger, Die, InstantiateAndCall, Abstract!Pause, Abstract!Die, Abstract!Next
<1>6. CASE ddtProfiler
  BY <1>6 DEF ddtProfiler, OnSetProfiler, ToggleProfiler, Abstract!Next
<1>7. CASE ChunkReturns
  BY <1>7 DEF ChunkReturns, PcallReturns, Abstract!Next
<1>8. CASE SaveAllBreakpoints
  BY <1>8 DEF SaveAllBreakpoints, Abstract!Next
<1>9. CASE SyncNStart
  BY <1>9 DEF SyncNStart, Abstract!Start, Abstract!Next
<1>10. CASE Resume
  BY <1>10 DEF Resume, DoInternalAbort, ResumeDaemon, LeaveDebugger, CallerContinues, Die, PcallReturns, AbortCode, Abstract!Resume, Abstract!Abort, Abstract!Die, Abstract!Next
<1>11. CASE ClientGone
  BY <1>11 DEF ClientGone, Abstract!Next
<1>12. CASE LoadStartFile
  BY <1>12 DEF LoadStartFile, Abstract!Next
<1>13. CASE LoadStartFileFails
  BY <1>13 DEF LoadStartFileFails, EnterDebugger, Die, Abstract!Pause, Abstract!Die, Abstract!Next
<1>14. CASE CallStartFunction
  BY <1>14 DEF CallStartFunction, Abstract!Next
<1>15. CASE ReadFails
  BY <1>15 DEF ReadFails, DoInternalAbort, LeaveDebugger, CallerContinues, Die, PcallReturns, Abstract!Abort, Abstract!Die, Abstract!Next
<1>16. CASE CleanUp
  BY <1>16 DEF CleanUp, ExitLuaHooks, Abstract!End, Abstract!Die, Abstract!Next
<1>17. CASE SetupReadFails
  BY <1>17 DEF SetupReadFails, Abstract!Die, Abstract!Next
<1>18. CASE UNCHANGED vars
  BY <1>18
<1> QED
  BY <1>1, <1>2, <1>3, <1>4, <1>5, <1>6, <1>7, <1>8, <1>9, <1>10, <1>11, <1>12, <1>13, <1>14, <1>15, <1>16, <1>17, <1>18 DEF Next, Program, Client, Daemon, ProcessOver

\* Every behaviour of the core is one of the abstract debuggee.
THEOREM Refinement == Spec => ImplementsDebuggee
<1>1. Init => Abstract!Init
  BY InitAbstract
<1>2. TypeOK /\ IndInv /\ [Next]_vars => [Abstract!Next]_(Abstract!view)
  BY StepAbstract
<1> QED  BY <1>1, <1>2, Invariance, PTL DEF Spec, ImplementsDebuggee, Abstract!Spec
=============================================================================
