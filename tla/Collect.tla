------------------------------- MODULE Collect -------------------------------
(***************************************************************************)
(* What the daemon answers to a request for variables: the rows it collects *)
(* from the frames, upvalues, environments and tables of a stopped program  *)
(* (VarCollectors.cpp), and the arguments it collects for each frame when    *)
(* it stops (Stack.cpp).                                                    *)
(*                                                                         *)
(* A stopped program is                                                     *)
(*   [frames   |-> <<[c, fn, locals, params, varargs, upvalues], ...>>,      *)
(*    globals  |-> the table of globals, registry |-> the registry,          *)
(*    heap     |-> [table -> <<[key, val], ...>>], fake |-> a load error]    *)
(* a value [type, id], an upvalue [name, val, slot]; the text of a value is   *)
(* left out, its identity kept. Names and keys are [n, i], i telling temporaries and varargs apart. *)
(* Lua 5.2: an environment is the first upvalue, _ENV. Registry and table    *)
(* order are the sequence's; that of the hash map of locals is theirs here.  *)
(***************************************************************************)
EXTENDS Integers, SequencesExt

CONSTANTS
  MaxDepth,  \* DDT_MAX_TABLE_RECUSION
  Reserved   \* s_BuiltInLuaStringSet

Named(s) == [n |-> s, i |-> 0]
ENV      == Named("_ENV")

ASSUME DepthAssumption == MaxDepth \in Nat

\* What a program is stopped with: lists from 1 on, tables that are in the heap, and a
\* function of Lua under those of C.
IsSeq(s)    == s \in Seq({s[i] : i \in DOMAIN s})
Held(p, v)  == v.type = "table" => v.id \in DOMAIN p.heap
FramesFormed(p) ==
  \A j \in DOMAIN p.frames :
    LET f == p.frames[j]
    IN /\ IsSeq(f.locals) /\ \A i \in DOMAIN f.locals : Held(p, f.locals[i].val)
       /\ IsSeq(f.varargs) /\ \A i \in DOMAIN f.varargs : Held(p, f.varargs[i])
       /\ IsSeq(f.upvalues) /\ \A i \in DOMAIN f.upvalues : Held(p, f.upvalues[i].val)
HeapFormed(p) ==
  /\ {p.globals, p.registry} \subseteq DOMAIN p.heap
  /\ \A t \in DOMAIN p.heap : IsSeq(p.heap[t]) /\ \A i \in DOMAIN p.heap[t] : Held(p, p.heap[t][i].val)
IsProgram(p) ==
  /\ HeapFormed(p)
  /\ ~p.fake => IsSeq(p.frames) /\ FramesFormed(p) /\ \E j \in DOMAIN p.frames : ~p.frames[j].c

\* The hide mask: types, "temporary", "builtin" and "registry".
ArgsHide == {"cfunction", "cdata", "temporary", "builtin", "metatable", "registry"}

\* LuaToCollectedtype(): the types the mask filters, nil never.
Filtered(v, hide) == v.type # "nil" /\ v.type \in hide
\* CollectNextVariable(), up to the row.
Visible(v, temp, hide) == ~(temp /\ "temporary" \in hide) /\ ~Filtered(v, hide)

\* The rest of CollectNextVariable(): a row. A path is the keys that lead to it.
Row(req, path, v, scope, temp, indent) ==
  IF ~Visible(v, temp, req.hide) THEN << >>
  ELSE <<[path |-> path, val |-> v, scope |-> scope, temp |-> temp, indent |-> indent,
          expanded |-> v.type = "table" /\ path \in req.expanded, root |-> 0]>>

\* DumpLuaTableRecursive(): the rows of a table's fields.
FieldRows(req, r) ==
  FlattenSeq([i \in DOMAIN req.heap[r.val.id] |->
    LET f == req.heap[r.val.id][i]
    IN Row(req, Append(r.path, f.key), f.val, "none", FALSE, r.indent + 1)])

\* A row, and under each row the rows of its table if it is expanded and not too deep:
\* here the tables are opened level by level.
Rows(req, path, v, scope, temp) ==
  LET opened[k \in 0..(MaxDepth + 1)] ==
        IF k = 0 THEN Row(req, path, v, scope, temp, 0)
        ELSE LET rows == opened[k - 1]
             IN FlattenSeq([i \in DOMAIN rows |->
                  IF rows[i].indent = k - 1 /\ rows[i].expanded THEN <<rows[i]>> \o FieldRows(req, rows[i])
                  ELSE <<rows[i]>>])
  IN opened[MaxDepth + 1]

\* The offset of each row is taken from the last row of indent 0.
Fault_Collected(req, name, v, scope, temp) == Rows(req, <<name>>, v, scope, temp)
Collected(req, name, v, scope, temp) ==
  LET rows == Rows(req, <<name>>, v, scope, temp)
  IN [i \in DOMAIN rows |-> [rows[i] EXCEPT !.root = i - 1]]

\* PushUnsolved().
Unsolved(name) ==
  <<[path |-> <<name>>, val |-> [type |-> "unsolved", id |-> ""], scope |-> "none",
     temp |-> FALSE, indent |-> 0, expanded |-> FALSE, root |-> 0]>>

-----------------------------------------------------------------------------
(* Locals, upvalues and environments.                                      *)

IsTemp(l) == l.name.n = "(*temporary)"

\* The map of CollectLuaLocals(): temporaries that are not nil are renamed by a
\* counter, and of several locals of a name insert() keeps the first.
Shown(frame) ==
  {i \in DOMAIN frame.locals :
     IF IsTemp(frame.locals[i]) THEN frame.locals[i].val.type # "nil"
     ELSE \A j \in 1..(i - 1) : frame.locals[j].name # frame.locals[i].name}
TempName(frame, i) ==
  [n |-> "temp", i |-> Len(SelectSeq(SubSeq(frame.locals, 1, i - 1),
                                     LAMBDA l : IsTemp(l) /\ l.val.type # "nil"))]

Scope(frame, i) == IF i <= frame.params THEN "param" ELSE "local"

Locals(req, frame) ==
  FlattenSeq([i \in DOMAIN frame.locals |->
    LET l == frame.locals[i] t == IsTemp(l)
    IN IF i \in Shown(frame)
       THEN Collected(req, IF t THEN TempName(frame, i) ELSE l.name, l.val, Scope(frame, i), t)
       ELSE << >>])
  \o FlattenSeq([i \in DOMAIN frame.varargs |->
       Collected(req, [n |-> "vararg", i |-> i], frame.varargs[i], "vararg", FALSE)])

\* CollectENVGlobals(): string keys only, without the built-in ones if they are hidden.
Environment(req, table, scope) ==
  FlattenSeq([i \in DOMAIN req.heap[table] |->
    LET f == req.heap[table][i]
    IN IF "builtin" \in req.hide /\ f.key.n \in Reserved THEN << >>
       ELSE Collected(req, f.key, f.val, scope, FALSE)])

\* CollectUpvalues(): an _ENV other than the globals is listed by its fields.
Upvalues(req, prog, frame) ==
  FlattenSeq([i \in DOMAIN frame.upvalues |->
    LET u == frame.upvalues[i]
    IN IF u.name # ENV \/ u.val.type # "table" THEN Collected(req, u.name, u.val, "upvalue", FALSE)
       ELSE IF u.val.id = prog.globals THEN << >>
       ELSE Environment(req, u.val.id, "enval")])

\* CollectLuaLocals() of a frame.
CollectLuaLocals(req, prog, level) ==
  LET frame == prog.frames[level + 1]
  IN Locals(req, frame) \o Upvalues(req, prog, frame)

HasEnv(frame) ==
  frame.upvalues # << >> /\ frame.upvalues[1].name = ENV /\ frame.upvalues[1].val.type = "table"
EnvOf(frame) == frame.upvalues[1].val.id

\* CollectLuaGlobals(): the environment of each frame from this one, each upvalue but
\* once, and the registry. Functions of two chunks have two upvalues of one table.
CollectLuaGlobals(req, prog, level) ==
  LET first(j) == /\ HasEnv(prog.frames[j])
                  /\ \A k \in (level + 1)..(j - 1) :
                       HasEnv(prog.frames[k]) =>
                         prog.frames[k].upvalues[1].slot # prog.frames[j].upvalues[1].slot
      scope(j) == IF EnvOf(prog.frames[j]) = prog.globals THEN "global" ELSE "enval"
  IN FlattenSeq([j \in DOMAIN prog.frames |->
       IF j > level /\ first(j) THEN Environment(req, EnvOf(prog.frames[j]), scope(j)) ELSE << >>])
     \o (IF "registry" \in req.hide THEN << >> ELSE Environment(req, prog.registry, "registry"))

-----------------------------------------------------------------------------
(* Watches.                                                                *)

FirstLuaLevel(prog) == CHOOSE j \in DOMAIN prog.frames :
                         /\ ~prog.frames[j].c
                         /\ \A k \in 1..(j - 1) : prog.frames[k].c

FieldOf(prog, table, name) == {i \in DOMAIN prog.heap[table] : prog.heap[table][i].key = name}

\* SolveOneVar(): the last local of that name in the first Lua frame, one of its
\* upvalues, or a field of the first environment from there: a nil one ends the search.
SolveOneVar(req, prog, name) ==
  LET at    == FirstLuaLevel(prog)
      frame == prog.frames[at]
      named == {i \in DOMAIN frame.locals : frame.locals[i].name = name}
      ups   == {i \in DOMAIN frame.upvalues : frame.upvalues[i].name = name}
      envs  == {j \in at..Len(prog.frames) : HasEnv(prog.frames[j])}
      LeastOf(S) == CHOOSE i \in S : \A j \in S : i <= j
      LastOf(S)  == CHOOSE i \in S : \A j \in S : i >= j
  IN IF named # {}
     THEN LET i == LastOf(named) IN Collected(req, name, frame.locals[i].val, Scope(frame, i), FALSE)
     ELSE IF ups # {}
     THEN Collected(req, name, frame.upvalues[LeastOf(ups)].val, "upvalue", FALSE)
     ELSE IF envs = {} \/ FieldOf(prog, EnvOf(prog.frames[LeastOf(envs)]), name) = {}
     THEN Unsolved(name)
     ELSE LET env == EnvOf(prog.frames[LeastOf(envs)])
          IN Collected(req, name, prog.heap[env][LeastOf(FieldOf(prog, env, name))].val, "global", FALSE)

\* CollectLuaWatches() and CollectNOPWatches().
CollectLuaWatches(req, prog, names) ==
  FlattenSeq([i \in DOMAIN names |-> SolveOneVar(req, prog, names[i])])
CollectNOPWatches(names) == FlattenSeq([i \in DOMAIN names |-> Unsolved(names[i])])
CollectNOP == << >>

\* CopyStack(): what the rows are collected with.
CopyStack(prog, expanded, hide) == [heap |-> prog.heap, expanded |-> expanded, hide |-> hide]

\* LuaGlue::RequestVariables(): nothing is read from the faked stack of a load error.
RequestVariables(kind, req, prog, level, names) ==
  CASE kind = "locals"  -> IF prog.fake THEN CollectNOP ELSE CollectLuaLocals(req, prog, level)
    [] kind = "globals" -> IF prog.fake THEN CollectNOP ELSE CollectLuaGlobals(req, prog, level)
    [] kind = "watches" -> IF prog.fake THEN CollectNOPWatches(names)
                           ELSE CollectLuaWatches(req, prog, names)

\* GetFunctionArgs(): asserts one row for each argument.
Args(frame) == [i \in 1..frame.params |-> frame.locals[i].val] \o frame.varargs
GetFunctionArgs(prog, frame) ==
  LET req == CopyStack(prog, {}, ArgsHide)
  IN \A i \in DOMAIN Args(frame) :
       Len(Collected(req, Named("arg"), Args(frame)[i], "param", FALSE)) = 1

\* DaemonStack::Fill(): the arguments of each Lua frame.
FillAsserts(prog) ==
  prog.fake \/ \A j \in DOMAIN prog.frames : prog.frames[j].c \/ GetFunctionArgs(prog, prog.frames[j])

\* MapGlobalFunctions(): the globals that are functions of the program, and
\* LookupFunctionPtr(): the first that is this one.
MapGlobalFunctions(prog) ==
  SelectSeq(prog.heap[prog.globals],
            LAMBDA f : f.val.type \in {"function", "cfunction"} /\ f.key.n \notin Reserved)
LookupFunctionPtr(prog, fn) ==
  LET named == SelectSeq(MapGlobalFunctions(prog), LAMBDA f : f.val = fn)
  IN IF named = << >> THEN Named("") ELSE Head(named).key

\* ToClientStack(), and of a load error SetFakeLevel(): of a C frame nothing is told.
ToClientStack(prog) ==
  LET level(frame) ==
        IF frame.c THEN [c |-> TRUE, alt |-> Named(""), args |-> << >>]
        ELSE [c |-> FALSE, alt |-> LookupFunctionPtr(prog, frame.fn), args |-> Args(frame)]
  IN IF prog.fake THEN <<[c |-> FALSE, alt |-> Named(""), args |-> << >>]>>
     ELSE [j \in DOMAIN prog.frames |-> level(prog.frames[j])]
=============================================================================
