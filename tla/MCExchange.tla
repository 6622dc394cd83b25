----------------------------- MODULE MCExchange -----------------------------
(* A small instance: two projects, a stack of a C frame over a Lua one, rows  *)
(* of each kind the views tell apart.                                        *)
EXTENDS Exchange

File(name, text) == [name |-> name, ext |-> "lua", text |-> text]
Other(name, text) == [name |-> name, ext |-> "txt", text |-> text]
ProjectsA ==
  {<<File("a", <<"BOM", "#", "x", "nl", "x">>), File("b", <<"nl", "#">>)>>,
   <<File("a", <<"x">>), Other("a", <<"nl">>)>>,
   <<File("b", <<"#", "x">>), File("c", << >>), File("a", <<"#", "nl", "nl">>)>>}
BreakpointsA == {<<"a.lua:1", "b.lua:2">>, << >>}

Frame(c, file, line, args) ==
  [m_CFlag |-> c, m_SourceFileName |-> file, m_FunctionName |-> "f", m_AltFunctionName |-> "g",
   m_Line |-> line, m_nFixedArguments |-> Len(args), m_nUpValues |-> 1, m_FunctionArguments |-> args]
StacksA == {<<Frame(TRUE, "C source file", -1, << >>), Frame(FALSE, "a.lua", 2, <<"x", "y">>)>>,
            <<Frame(FALSE, "b.lua", 1, << >>)>>}

Row(key, type, val, indent, path, scope, line) ==
  [m_RootOffset |-> indent, m_KeyS |-> key, m_Type |-> type, m_ExpandedFlag |-> type = "TABLE",
   m_HasMetaTableFlag |-> type = "TABLE", m_TemporaryFlag |-> FALSE, m_ValS |-> val,
   m_Indent |-> indent, m_Path |-> path, m_Scope |-> scope, m_LineStart |-> line, m_LineEnd |-> line]
RowsA ==
  {<< >>,
   <<Row("t", "TABLE", "0x1", 0, "t", "LOCAL", -1), Row("f", "LUA_FUNCTION", "a.lua", 1, "t[f]", "NONE", 2)>>,
   <<Row("x", "STRING", "bytes", 0, "x", "LOCAL", -1), Row("y", "STRING", "lines", 0, "y", "UPVALUE", -1)>>}
ErrorsA == {"text"}
==============================================================================
