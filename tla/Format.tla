------------------------------- MODULE Format -------------------------------
(***************************************************************************)
(* What the messages carry: the client and the daemon serialise records      *)
(* field by field into a stream that holds no names and no separators, and   *)
(* each reads the other's with a list of its own (CommonClient.cpp,          *)
(* CommonDaemon.cpp, Collected.cpp, and the places that send and dispatch).  *)
(*                                                                         *)
(* The stream (lx, external) is a sequence of cells: the width of an item    *)
(* and its value. Reading an item of another width than the next cell's      *)
(* yields Torn and leaves nothing sensible to read. A schema is a sequence   *)
(* of fields: name, kind, and the schema of its items if it is a list.       *)
(***************************************************************************)
EXTENDS Integers, TLC, SequencesExt

CONSTANTS
  Torn,         \* what a misread item holds
  Projects,     \* sequences of source files: [name, ext, text]
  Breakpoints,  \* lists of breakpoints, as the client may have them
  Stacks,       \* the daemon's stacks at a stop
  Rows,         \* collected lists, as VarCollectors may leave them
  Errors,       \* what the error handlers make of an error: a text, never empty
  Multiline, Binary,  \* the values with line ends, with unprintable characters
  MaxSent   \* bound on the messages sent by the client

U32 == "4 bytes"
S32 == "4 bytes"
I16 == "2 bytes"
Bool == "1 byte"
Str == "string"
Strings == "strings"  \* a StringList

Field(f, k)    == [f |-> f, k |-> k, of |-> << >>]
ListOf(f, of)  == [f |-> f, k |-> "list", of |-> of]

-----------------------------------------------------------------------------
(* Streams. *)

Cell(w, v) == [w |-> w, v |-> v]

\* operator<<(StringList), and the items of the stream itself.
PutItem(k, x) ==
  IF k = Strings THEN <<Cell(U32, Len(x))>> \o [i \in DOMAIN x |-> Cell(Str, x[i])]
                 ELSE <<Cell(k, x)>>
PutFlat(schema, r) == FlattenSeq([i \in DOMAIN schema |-> PutItem(schema[i].k, r[schema[i].f])])
PutList(schema, s) == FlattenSeq([i \in DOMAIN s |-> PutFlat(schema, s[i])])

\* The operators << of a message's parts, one after the other. The source files follow
\* the startup record without a count of their own.
PutPart(fd, x) ==
  CASE fd.k = "list"  -> <<Cell(U32, Len(x))>> \o PutList(fd.of, x)
    [] fd.k = "files" -> PutList(fd.of, x)
    [] OTHER          -> PutItem(fd.k, x)
Put(schema, r) == FlattenSeq([i \in DOMAIN schema |-> PutPart(schema[i], r[schema[i].f])])

Take(k, in) ==
  IF in # << >> /\ Head(in).w = k THEN [v |-> Head(in).v, in |-> Tail(in)]
                                 ELSE [v |-> Torn, in |-> << >>]
\* What is read so far, and what is left of the stream: another element of a list, or
\* another field of a record.
With(r, f, x) == [n \in DOMAIN r \cup {f} |-> IF n = f THEN x ELSE r[n]]
Nothing(in) == [v |-> << >>, in |-> in]
AndElement(prev, g) == [v |-> Append(prev.v, g.v), in |-> g.in]
AndField(f, prev, g) == [v |-> With(prev.v, f, g.v), in |-> g.in]

\* StringList::StringList(DataInputStream): as many strings as the stream says.
TakeStrings(n, in) ==
  LET read[k \in 0..n] ==
        IF k = 0 THEN Nothing(in)
        ELSE LET prev == read[k - 1] IN AndElement(prev, Take(Str, prev.in))
  IN IF n \in Nat THEN read[n] ELSE [v |-> Torn, in |-> in]
TakeItem(k, in) ==
  IF k = Strings THEN LET n == Take(U32, in) IN TakeStrings(n.v, n.in) ELSE Take(k, in)

TakeFlat(schema, in) ==
  LET read[k \in 0..Len(schema)] ==
        IF k = 0 THEN Nothing(in)
        ELSE LET prev == read[k - 1] IN AndField(schema[k].f, prev, TakeItem(schema[k].k, prev.in))
  IN read[Len(schema)]
TakeList(n, of, in) ==
  LET read[k \in 0..n] ==
        IF k = 0 THEN Nothing(in)
        ELSE LET prev == read[k - 1] IN AndElement(prev, TakeFlat(of, prev.in))
  IN IF n \in Nat THEN read[n] ELSE [v |-> Torn, in |-> in]

\* A list after its number of items, the source files after the record that has it.
TakePart(fd, prev) ==
  CASE fd.k = "list"  -> LET n == Take(U32, prev.in) IN TakeList(n.v, fd.of, n.in)
    [] fd.k = "files" -> TakeList(prev.v["m_NumSourceFiles"], fd.of, prev.in)
    [] OTHER          -> TakeItem(fd.k, prev.in)
TakeFields(schema, in) ==
  LET read[k \in 0..Len(schema)] ==
        IF k = 0 THEN Nothing(in)
        ELSE LET prev == read[k - 1] IN AndField(schema[k].f, prev, TakePart(schema[k], prev))
  IN read[Len(schema)]

-----------------------------------------------------------------------------
(* Schemas: what is written, and what is read.                              *)

PlatformOut == <<Field("m_OS", Str), Field("m_Architecture", U32), Field("m_Hostname", Str),
                 Field("m_Lua", Str), Field("m_LuaNum", U32),
                 Field("m_LuaJIT", Str), Field("m_LuaJITNum", U32)>>
PlatformIn  == <<Field("m_OS", Str), Field("m_Architecture", U32), Field("m_Hostname", Str),
                 Field("m_Lua", Str), Field("m_LuaNum", U32),
                 Field("m_LuaJIT", Str), Field("m_LuaJITNum", U32)>>

SuspendOut == <<Field("m_Source", Str), Field("m_Line", S32), Field("m_ErrorString", Str)>>
SuspendIn  == <<Field("m_Source", Str), Field("m_Line", S32), Field("m_ErrorString", Str)>>

LevelOut == <<Field("m_CFlag", Bool), Field("m_SourceFileName", Str), Field("m_FunctionName", Str),
              Field("m_Line", S32), Field("m_nFixedArguments", S32), Field("m_nUpValues", S32),
              Field("m_FunctionArguments", Strings), Field("m_AltFunctionName", Str)>>
\* A slip that is easy here: the order of the class's declaration.
Fault_LevelIn ==
            <<Field("m_CFlag", Bool), Field("m_SourceFileName", Str), Field("m_FunctionName", Str),
              Field("m_AltFunctionName", Str), Field("m_Line", S32), Field("m_nFixedArguments", S32),
              Field("m_nUpValues", S32), Field("m_FunctionArguments", Strings)>>
LevelIn  == <<Field("m_CFlag", Bool), Field("m_SourceFileName", Str), Field("m_FunctionName", Str),
              Field("m_Line", S32), Field("m_nFixedArguments", S32), Field("m_nUpValues", S32),
              Field("m_FunctionArguments", Strings), Field("m_AltFunctionName", Str)>>

CollectedOut == <<Field("m_RootOffset", S32), Field("m_KeyS", Str), Field("m_Type", U32),
                  Field("m_ExpandedFlag", Bool), Field("m_HasMetaTableFlag", Bool),
                  Field("m_TemporaryFlag", Bool), Field("m_ValS", Str), Field("m_Indent", I16),
                  Field("m_Path", Str), Field("m_Scope", U32),
                  Field("m_LineStart", S32), Field("m_LineEnd", S32)>>
CollectedIn  == <<Field("m_RootOffset", S32), Field("m_KeyS", Str), Field("m_Type", U32),
                  Field("m_ExpandedFlag", Bool), Field("m_HasMetaTableFlag", Bool),
                  Field("m_TemporaryFlag", Bool), Field("m_ValS", Str), Field("m_Indent", I16),
                  Field("m_Path", Str), Field("m_Scope", S32),
                  Field("m_LineStart", S32), Field("m_LineEnd", S32)>>

FileOut == <<Field("m_Name", Str), Field("m_Ext", Str), Field("m_NumLines", S32), Field("m_BinData", Str)>>
FileIn  == <<Field("m_Name", Str), Field("m_Ext", Str), Field("m_NumLines", U32), Field("m_BinData", Str)>>

StartupOut == <<Field("m_Source", Str), Field("m_Function", Str), Field("m_JITFlag", Bool),
                Field("m_LoadBreakFlag", Bool), Field("m_NumSourceFiles", U32)>>
StartupIn  == <<Field("m_Source", Str), Field("m_Function", Str), Field("m_JITFlag", Bool),
                Field("m_LoadBreakFlag", Bool), Field("m_NumSourceFiles", U32)>>

RequestOut == <<Field("m_RequesterID", U32), Field("m_StackLevel", S32),
                Field("m_ExpandedTables", Strings), Field("m_VarFlags", U32), Field("m_WatchNameList", Strings)>>
RequestIn  == <<Field("m_RequesterID", U32), Field("m_StackLevel", S32),
                Field("m_ExpandedTables", Strings), Field("m_VarFlags", U32), Field("m_WatchNameList", Strings)>>

\* What each message is written with. SendMessage() writes its arguments in turn.
Variables == {"REQUEST_LOCALS", "REQUEST_GLOBALS", "REQUEST_WATCHES", "REQUEST_SOLVE_VARIABLE"}
ReplyTo ==
  [REQUEST_LOCALS |-> "REPLY_LOCALS", REQUEST_GLOBALS |-> "REPLY_GLOBALS",
   REQUEST_WATCHES |-> "REPLY_WATCHES", REQUEST_SOLVE_VARIABLE |-> "REPLY_SOLVED_VARIABLE"]

ClientWrites(t) ==
  CASE t \in {"REQUEST_PLATFORM", "REQUEST_STACK"} -> << >>
    [] t = "REQUEST_SYNC_N_START_LUA" -> Append(StartupOut, [ListOf("files", FileOut) EXCEPT !.k = "files"])
    [] t \in Variables                -> RequestOut
    [] t = "NOTIFY_BREAKPOINTS"       -> <<Field("m_BreakpointList", Strings)>>
    [] t = "REQUEST_VM_RESUME"        -> <<Field("m_ClientCmd", S32)>>
    [] t = "REQUEST_ECHO_DATA"        -> <<Field("sz", U32), Field("data", Str)>>

DaemonReads(t) ==
  CASE t = "REQUEST_SYNC_N_START_LUA" -> Append(StartupIn, [ListOf("files", FileIn) EXCEPT !.k = "files"])
    [] t \in Variables                -> RequestIn
    [] t = "NOTIFY_BREAKPOINTS"       -> <<Field("m_BreakpointList", Strings)>>
    [] t = "REQUEST_VM_RESUME"        -> <<Field("m_ClientCmd", S32)>>
    [] t = "REQUEST_ECHO_DATA"        -> <<Field("sz", U32), Field("data", Str)>>
    [] OTHER                          -> << >>

DaemonWrites(t) ==
  CASE t = "REPLY_PLATFORM"      -> PlatformOut
    [] t = "REPLY_STACK"         -> <<ListOf("m_Levels", LevelOut)>>
    [] t = "NOTIFY_SCRIPT_LOADED" -> <<Field("names", Strings)>>
    [] t = "NOTIFY_VM_SUSPENDED" -> SuspendOut
    [] t = "NOTIFY_SESSION_ENDED" -> <<Field("res", U32)>>
    [] t = "NOTIFY_SYNC_FAILED"  -> <<Field("err", Str)>>
    [] t = "REPLY_ECHO_DATA"     -> <<Field("sz", U32), Field("data", Str)>>
    [] OTHER                     -> <<Field("requester_id", U32), ListOf("collected", CollectedOut)>>

ClientReads(t) ==
  CASE t = "REPLY_PLATFORM"      -> PlatformIn
    [] t = "REPLY_STACK"         -> <<ListOf("m_Levels", LevelIn)>>
    [] t = "NOTIFY_SCRIPT_LOADED" -> <<Field("names", Strings)>>
    [] t = "NOTIFY_VM_SUSPENDED" -> SuspendIn
    [] t = "NOTIFY_SESSION_ENDED" -> <<Field("res", U32)>>
    [] t = "NOTIFY_SYNC_FAILED"  -> <<Field("err", Str)>>
    [] t = "REPLY_ECHO_DATA"     -> <<Field("sz", U32), Field("data", Str)>>
    [] OTHER                     -> <<Field("requester_id", U32), ListOf("collected", CollectedIn)>>

\* What is written is a record of these fields, and its lists start at 1.
IsSeq(s) == s \in Seq({s[i] : i \in DOMAIN s})
Names(schema) == {schema[i].f : i \in DOMAIN schema}
Formed(schema, r) ==
  /\ r = [f \in Names(schema) |-> r[f]]
  /\ \A i \in DOMAIN schema : schema[i].k = Strings => IsSeq(r[schema[i].f])
AllFormed(schema, s) == IsSeq(s) /\ \A i \in DOMAIN s : Formed(schema, s[i])

ASSUME BreakpointsAssumption == \A b \in Breakpoints : IsSeq(b)
ASSUME StacksAssumption == \A s \in Stacks : AllFormed(LevelOut, s) /\ \E i \in DOMAIN s : ~s[i].m_CFlag
ASSUME RowsAssumption == \A s \in Rows : AllFormed(CollectedOut, s)
ASSUME ProjectsAssumption == \A p \in Projects : IsSeq(p) /\ \A i \in DOMAIN p : IsSeq(p[i].text)

\* A message starts with its type.
ClientBytes(m) == <<Cell(U32, m.t)>> \o Put(ClientWrites(m.t), m)
DaemonBytes(m) == <<Cell(U32, m.t)>> \o Put(DaemonWrites(m.t), m)
Decode(Schema(_), in) ==
  LET t    == Take(U32, in)
      body == TakeFields(Schema(t.v), t.in)
  IN [m |-> With(body.v, "t", t.v), left |-> body.in]
ReadByDaemon(in) == Decode(DaemonReads, in)
ReadByClient(in) == Decode(ClientReads, in)
==============================================================================
