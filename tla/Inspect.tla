------------------------------- MODULE Inspect -------------------------------
(***************************************************************************)
(* The client's views of a stopped program: locals, globals, watches, the    *)
(* juce copy of the locals, the call stack, hover tips and the memory dump   *)
(* (VarViewCtrl.cpp, VarViewComponent.cpp, TraceBackList.cpp,                *)
(* MemoryViewCtrl.cpp, TopNotebook.cpp, StyledSourceCtrl.cpp, TopFrame.cpp).  *)
(*                                                                         *)
(* A request is answered before it returns; what is done with the answer    *)
(* waits among the events of the thread that shows it, behind what was       *)
(* posted before, while the user goes on. The socket is modelled in Wire.    *)
(***************************************************************************)
EXTENDS Collect, Dump

CONSTANTS
  Programs,              \* the stopped programs a pause can meet
  Words,                 \* names the user types as watches
  Phrase,                \* the line of a source under the mouse: names and what stands between
  Styled,                \* the names coloured as variables of the program
  Types,                 \* types whose button the user presses
  BytesOf,              \* the bytes of the texts and blocks of memory, by identity
  Widths, Positions,     \* widths of the memory view, in characters, and bytes selected in it
  Books,                 \* the books of panes, one pane of each in front
  InitialFront,          \* those in front at first: the layout is modelled in Panes
  MaxStarts, MaxPauses,  \* bounds: starts and pauses in all
  MaxEvents,             \* bound: events that wait when the user acts
  MaxUses,               \* bound: what the user does in all
  MaxBreaks              \* bound: connections lost and projects reset

WxViews == {"locals", "globals", "watches"}   \* VarViewCtrl
Views   == WxViews \cup {"jlocals"}           \* and VarViewComponent
Panes   == UNION Books

ASSUME PanesAssumption ==
  /\ Panes \subseteq Views \cup {"stack", "memory"}
  /\ InitialFront \subseteq Panes /\ \A b \in Books : Cardinality(InitialFront \cap b) = 1

\* Of prog, where the daemon has stopped none.
Running == [fake |-> "running"]
Failed  == [fake |-> "failed"]  \* to load, and resumed
Ended   == [fake |-> "ended"]

\* s_PaneToVarRequestType.
Kind(v) == IF v = "jlocals" THEN "locals" ELSE v

ASSUME ProgramsAssumption ==
  \A p \in Programs : p \notin {Running, Failed, Ended} /\ IsProgram(p)

ASSUME MemoryAssumption ==
  /\ \A id \in DOMAIN BytesOf : IsSeq(BytesOf[id])
  /\ Widths \subseteq Nat /\ \E w \in Widths : \A x \in Widths : x <= w

ASSUME PhraseAssumption == Phrase[1] \notin {Named("."), Named("[")}

VARIABLES
  prog,       \* the program the daemon has stopped, or [fake |-> "running", "failed" or "ended"]
  now,        \* history: the starts and pauses so far, the connections lost and projects reset
  listening,  \* Controller::IsLuaListening()
  tick,       \* m_DaemonTick
  level,      \* m_VisibleStackLevel
  hidden,     \* IVarViewFlags, inverted: the hide mask
  watches,    \* m_WatchSet
  front,      \* the panes selected in their books
  views,      \* of each view: its rows, the pause and level they are of, m_ExpandedTableSet,
              \* m_VarPathToLastValMap and m_AutoButton
  edit,       \* the row of the watch in the modal editor, 0: none
  stack,      \* the levels of m_ClientStack, and the rows that list them
  hover,      \* m_VarCache, m_VarRequestedSet, m_LastDaemonTick, and the tip at the word
  memory,     \* m_LastKey, the radio button, m_Buff, m_SpinFrom, the width and what is drawn
  painted,    \* the rows that the juce list paints
  wx, juce,   \* the events that wait in the two threads
  uses,       \* what the user did so far
  crash       \* the failed assert that ended the client or daemon, or ""

daemon == <<prog, now>>
user   == <<hidden, watches, front>>
aside  == <<edit, stack, hover, memory, painted>>
inspectVars == <<daemon, listening, tick, level, user, views, aside, wx, juce, uses, crash>>

Stopped == prog \notin {Running, Failed, Ended}
Never   == [starts |-> 0, pause |-> 0, breaks |-> 0]
NoTip   == [of |-> Named(""), val |-> [type |-> "", id |-> ""], from |-> Never]

NoMemory == [key |-> Named(""), hex |-> TRUE, bytes |-> << >>, spin |-> 0, width |-> Max(Widths),
             dump |-> RefreshHexDump(<< >>, Max(Widths), 0)]

EmptyView == [rows |-> << >>, from |-> Never, level |-> 0,
              expanded |-> {}, last |-> << >>, auto |-> FALSE]

InspectInit ==
  /\ prog = Ended /\ now = Never /\ listening = FALSE /\ tick = 0 /\ level = 0
  /\ hidden = {"userdata", "cdata", "temporary", "builtin", "registry"} /\ watches = {}
  /\ front = InitialFront
  /\ views = [v \in Views |-> EmptyView] /\ edit = 0
  /\ stack = [levels |-> << >>, rows |-> << >>]
  /\ hover = [cache |-> << >>, asked |-> {}, tick |-> -1, tip |-> NoTip]
  /\ memory = NoMemory /\ painted = 0
  /\ wx = << >> /\ juce = << >> /\ uses = 0 /\ crash = ""

-----------------------------------------------------------------------------
(* Events.                                                                 *)

Event(do, v)        == [do |-> do, view |-> v]
Answer(do, v, rows) == [do |-> do, view |-> v, rows |-> rows, from |-> now, level |-> level]

\* A signal of these panes: the slots of VarViewComponent run in the juce thread, and
\* MemoryViewCtrl connects none.
Each(do, ps)    == LET vs == SetToSeq(ps) IN [i \in DOMAIN vs |-> Event(do, vs[i])]
ToWx(do, ps)    == Each(do, ps \cap (WxViews \cup {"stack"}))
ToJuce(do, ps)  == Each(do, ps \cap {"jlocals"})
Signal(do, ps)  == wx' = wx \o ToWx(do, ps) /\ juce' = juce \o ToJuce(do, ps)

\* Only the locals are asked for again.
Fault_ShownPages == front \cap {"locals", "jlocals"}
\* UpdateVisiblePages() and ClearVarViews(): the panes in front.
ShownPages == front
\* Those are told to empty themselves.
ClearVarViews == Signal("clear", ShownPages)

\* SendRequestReply() and SolveVar_ASYNC(): the answer put into the client's queue; no
\* answer from a program that does not wait.
Request(expanded, hide) == CopyStack(prog, expanded, hide)
Asked(v, expanded) ==
  IF ~listening \/ ~Stopped THEN << >>
  ELSE LET rows == RequestVariables(Kind(v), Request(expanded, hidden), prog, level, SetToSeq(watches))
       IN <<Answer("reply", v, rows)>>
Solved(word) ==
  LET rows == RequestVariables("watches", Request({}, {}), prog, 0, <<word>>)
  IN <<Answer("solved", "", rows)>>

\* DoReload(): posted to oneself.
DoReload(v) == IF listening THEN <<Event("reload", v)>> ELSE << >>

-----------------------------------------------------------------------------
(* SetVariables().                                                         *)

\* The root of row i, GetRootIndex(): its rows are sorted as one.
Root(rows, i) == i - rows[i].root

IsNew(view, r)     == r.path \notin DOMAIN view.last \/ r.temp
IsChanged(view, r) == r.path \in DOMAIN view.last /\ ~r.temp /\ view.last[r.path] # r.val.id
IsSame(view, r)    == r.path \in DOMAIN view.last /\ ~r.temp /\ view.last[r.path] = r.val.id

\* The rows whose block has a solved row with this property.
Ranked(view, rows, Test(_, _)) ==
  LET roots == {Root(rows, i) : i \in {j \in DOMAIN rows :
                  rows[j].val.type # "unsolved" /\ Test(view, rows[j])}}
  IN {i \in DOMAIN rows : Root(rows, i) \in roots}

\* The auto LUT: new blocks, changed ones, unchanged ones, the unsolved last; the rows of
\* each kind in the order they come in.
AutoSorted(view, rows) ==
  LET new     == Ranked(view, rows, IsNew)
      changed == Ranked(view, rows, IsChanged)
      same    == Ranked(view, rows, IsSame)
      kind    == [i \in DOMAIN rows |-> IF i \in new THEN 1 ELSE IF i \in changed THEN 2
                                       ELSE IF i \in same THEN 3 ELSE 4]
      before  == [i \in DOMAIN rows |->
                    {j \in DOMAIN rows : kind[j] < kind[i] \/ (kind[j] = kind[i] /\ j < i)}]
  IN [k \in DOMAIN rows |-> rows[CHOOSE i \in DOMAIN rows : Cardinality(before[i]) = k - 1]]

Expanded(rows) == {rows[i].path : i \in {j \in DOMAIN rows : rows[j].expanded}}
\* Of two rows of one path the later value is remembered.
LastValues(rows) ==
  [p \in {rows[i].path : i \in DOMAIN rows} |->
     rows[CHOOSE i \in DOMAIN rows : rows[i].path = p
                                     /\ \A j \in DOMAIN rows : rows[j].path = p => j <= i].val.id]

\* VarViewCtrl::SetVariables(), and VarViewComponent's, which only keeps the rows.
SetVariables(v, e) ==
  LET rows == IF views[v].auto THEN AutoSorted(views[v], e.rows) ELSE e.rows
  IN views' = [views EXCEPT ![v] =
       [rows |-> rows, from |-> e.from, level |-> e.level, expanded |-> Expanded(rows),
        last |-> IF v \in WxViews THEN LastValues(rows) ELSE << >>, auto |-> @.auto]]

\* ClearVariables(); VarViewComponent keeps its expanded tables.
ClearVariables(v) ==
  views' = [views EXCEPT ![v] =
    [EmptyView EXCEPT !.auto = views[v].auto,
                      !.expanded = IF v = "jlocals" THEN views[v].expanded ELSE {}]]

-----------------------------------------------------------------------------
(* The daemon and the connection.                                          *)

\* OnToolStartRun() at CONNECTED.
Start ==
  /\ prog = Ended /\ ~listening /\ now.starts < MaxStarts
  /\ prog' = Running /\ now' = [now EXCEPT !.starts = @ + 1]
  /\ UNCHANGED <<listening, tick, level, user, views, aside, wx, juce>>

\* A pause: the daemon collects the arguments of its frames or dies of its assert; the
\* client takes the new call stack, and posts itself the level change. The panes were
\* emptied when the last session ended: a message is read by a timer, after that.
Pause(p) ==
  /\ prog = Running /\ now.pause < MaxPauses /\ FillAsserts(p)
  /\ \A i \in DOMAIN wx : wx[i].do # "clear"
  /\ prog' = p /\ now' = [now EXCEPT !.pause = @ + 1]
  /\ stack' = [stack EXCEPT !.levels = ToClientStack(p)]
  /\ wx' = Append(wx, Event("suspended", ""))
  /\ UNCHANGED <<listening, tick, level, user, views, edit, hover, memory, painted, juce>>

DaemonDies(p) ==
  /\ prog = Running /\ now.pause < MaxPauses /\ ~FillAsserts(p)
  /\ prog' = Ended /\ crash' = "GetFunctionArgs"
  /\ UNCHANGED <<now, listening, tick, level, user, views, aside, wx, juce>>

\* The tick is left as it is.
Fault_ResumeExecution ==
  /\ listening /\ Stopped /\ edit = 0
  /\ prog' = (IF prog.fake THEN Failed ELSE Running) /\ listening' = FALSE
  /\ UNCHANGED <<now, tick, level, user, views, aside, wx, juce>>
StepDaemonTick == tick' = tick + 1
\* ResumeExecution(): the views keep what they show.
ResumeExecution ==
  /\ listening /\ Stopped /\ edit = 0
  /\ prog' = (IF prog.fake THEN Failed ELSE Running) /\ listening' = FALSE /\ StepDaemonTick
  /\ UNCHANGED <<now, level, user, views, aside, wx, juce>>

\* NOTIFY_SESSION_ENDED.
SessionEnds ==
  /\ prog \in {Running, Failed} /\ prog' = Ended /\ ClearVarViews
  /\ UNCHANGED <<now, listening, tick, level, user, views, aside>>

\* CheckConnection() or the timer finds the daemon gone: the tick stays.
LostConnection ==
  /\ prog \in {Running, Failed} \/ listening
  /\ now.breaks < MaxBreaks
  /\ prog' = Ended /\ now' = [now EXCEPT !.breaks = @ + 1]
  /\ listening' = FALSE /\ ClearVarViews
  /\ UNCHANGED <<tick, level, user, views, aside>>

\* ResetProject().
ResetProject ==
  /\ prog = Ended /\ tick # 0 /\ now.breaks < MaxBreaks
  /\ tick' = 0 /\ now' = [now EXCEPT !.breaks = @ + 1]
  /\ UNCHANGED <<prog, listening, level, user, views, aside, wx, juce>>

-----------------------------------------------------------------------------
(* Events handled, in the order they were posted.                          *)

Handled(posted) == wx' = Tail(wx) \o posted

\* OnLuaSuspended_SYNTH().
OnLuaSuspended ==
  /\ Head(wx).do = "suspended"
  /\ listening' = TRUE /\ level' = 0
  /\ Handled(ToWx("reload", ShownPages)) /\ juce' = juce \o ToJuce("reload", ShownPages)
  /\ UNCHANGED <<daemon, tick, user, views, aside>>

\* RequestVarReload() of a view and of the call stack; OnWxThread() of the juce view.
RequestVarReload ==
  /\ Head(wx).do = "reload" /\ Head(wx).view \in WxViews
  /\ Handled(Asked(Head(wx).view, views[Head(wx).view].expanded))
  /\ UNCHANGED <<daemon, listening, tick, level, user, views, aside, juce>>
OnWxThread ==
  /\ Head(wx).do = "jreload" /\ Handled(Asked("jlocals", Head(wx).expanded))
  /\ UNCHANGED <<daemon, listening, tick, level, user, views, aside, juce>>
\* The levels, with an arrow at the selected one.
Traced(levels) == [i \in DOMAIN levels |-> [of |-> levels[i], arrow |-> i = level + 1]]
ReloadStack ==
  /\ Head(wx) = Event("reload", "stack")
  /\ stack' = [stack EXCEPT !.rows = Traced(stack.levels)] /\ Handled(<< >>)
  /\ UNCHANGED <<daemon, listening, tick, level, user, views, edit, hover, memory, painted, juce>>

\* The answer in the queue is handed to the view that asked.
DispatchReply ==
  /\ Head(wx).do = "reply"
  /\ LET list == [Head(wx) EXCEPT !.do = "list"]
     IN IF list.view = "jlocals"
        THEN Handled(<< >>) /\ juce' = Append(juce, list)
        ELSE Handled(<<list>>) /\ UNCHANGED juce
  /\ UNCHANGED <<daemon, listening, tick, level, user, views, aside>>

OnPostedCollectedMessage ==
  /\ Head(wx).do = "list" /\ SetVariables(Head(wx).view, Head(wx)) /\ Handled(<< >>)
  /\ UNCHANGED <<daemon, listening, tick, level, user, aside, juce>>

\* ClearVariables() of a view, and of the call stack.
OnClear ==
  /\ Head(wx).do = "clear" /\ Handled(<< >>)
  /\ IF Head(wx).view = "stack"
     THEN stack' = [levels |-> << >>, rows |-> << >>] /\ UNCHANGED views
     ELSE ClearVariables(Head(wx).view) /\ UNCHANGED stack
  /\ UNCHANGED <<daemon, listening, tick, level, user, edit, hover, memory, painted, juce>>

\* SetSolvedVariable(): cached, whatever the tick is by now.
SetSolvedVariable ==
  /\ Head(wx).do = "solved" /\ Handled(<< >>)
  /\ LET row  == Head(wx).rows[1]
         word == row.path[1]
     IN hover' = [hover EXCEPT !.asked = @ \ {word},
                    !.cache = [w \in DOMAIN @ \cup {word} |->
                      IF w = word THEN [val |-> row.val, from |-> Head(wx).from] ELSE @[w]]]
  /\ UNCHANGED <<daemon, listening, tick, level, user, views, edit, stack, memory, painted, juce>>

\* RedrawMemory(): as wide as the view is now.
RedrawMemory(m) ==
  [m EXCEPT !.dump = IF m.hex THEN RefreshHexDump(m.bytes, m.width, m.spin) ELSE RefreshAsciiDump(m.bytes)]

\* MemoryViewCtrl::OnShowMemory(): hex or ASCII by what it holds, if the name is new; a
\* position of the same name is kept inside. The pane is raised, not reloaded.
OnShowMemory ==
  /\ Head(wx).do = "memory" /\ Handled(<< >>)
  /\ LET r == Head(wx).row
         bytes == BytesOf[r.val.id]
         same == memory.key = r.path[Len(r.path)]
     IN memory' = RedrawMemory(
          [memory EXCEPT !.key = r.path[Len(r.path)], !.bytes = bytes,
             !.hex = IF same THEN @ ELSE IsBinaryData(bytes),
             !.spin = IF ~same THEN 0 ELSE IF @ < Len(bytes) THEN @ ELSE Len(bytes) - 1])
  /\ front' = {p \in front : \A b \in Books : p \in b => "memory" \notin b} \cup {"memory"}
  /\ UNCHANGED <<daemon, listening, tick, level, hidden, watches, views, edit, stack, hover, painted, juce>>

\* TopNotePanel::OnShowMemory(), for the juce view: passed on.
PassShowMemory ==
  /\ Head(wx).do = "jmemory" /\ Handled(<<[Head(wx) EXCEPT !.do = "memory"]>>)
  /\ UNCHANGED <<daemon, listening, tick, level, user, views, aside, juce>>

OnRedraw ==
  /\ Head(wx).do = "redraw" /\ Handled(<< >>) /\ memory' = RedrawMemory(memory)
  /\ UNCHANGED <<daemon, listening, tick, level, user, views, edit, stack, hover, painted, juce>>

\* The slots of VarViewComponent.
JuceReload ==
  /\ Head(juce).do = "reload"
  /\ juce' = Tail(juce)
  /\ wx' = Append(wx, [do |-> "jreload", view |-> "jlocals", expanded |-> views["jlocals"].expanded])
  /\ UNCHANGED <<daemon, listening, tick, level, user, views, aside>>
\* SetEntries(): the list itself is updated later.
SetEntries ==
  juce' = IF \E i \in 2..Len(juce) : juce[i].do = "update" THEN Tail(juce)
          ELSE Append(Tail(juce), Event("update", "jlocals"))
JuceSet ==
  /\ Head(juce).do = "list" /\ SetVariables("jlocals", Head(juce)) /\ SetEntries
  /\ UNCHANGED <<daemon, listening, tick, level, user, aside, wx>>
JuceClear ==
  /\ Head(juce).do = "clear" /\ ClearVariables("jlocals") /\ SetEntries
  /\ UNCHANGED <<daemon, listening, tick, level, user, aside, wx>>
handleAsyncUpdate ==
  /\ Head(juce).do = "update" /\ painted' = Len(views["jlocals"].rows) /\ juce' = Tail(juce)
  /\ UNCHANGED <<daemon, listening, tick, level, user, views, edit, stack, hover, memory, wx>>

\* Asserts 'row < m_EntryList.size()'.
GetEntry(i) == i <= Len(views["jlocals"].rows)
\* A row that the list no longer has, painted before it is told so.
paintCell ==
  /\ "jlocals" \in front /\ painted > 0 /\ ~GetEntry(painted) /\ crash' = "GetEntry"
  /\ UNCHANGED <<daemon, listening, tick, level, user, views, aside, wx, juce>>

Handle ==
  \/ /\ wx # << >>
     /\ \/ OnLuaSuspended \/ RequestVarReload \/ OnWxThread \/ ReloadStack \/ DispatchReply
        \/ OnPostedCollectedMessage \/ OnClear \/ SetSolvedVariable
        \/ OnShowMemory \/ PassShowMemory \/ OnRedraw
  \/ juce # << >> /\ (JuceReload \/ JuceSet \/ JuceClear \/ handleAsyncUpdate)

-----------------------------------------------------------------------------
(* The user: in any view in front, while no modal editor is open.          *)

Free == edit = 0 /\ Len(wx) + Len(juce) < MaxEvents

\* The pane that comes to the front is reloaded.
OnChildPageEmerged(p) == Signal("reload", {p})
\* A tab: OnNotePageChanged().
SelectPane(p) ==
  /\ Free /\ p \notin front
  /\ front' = {q \in front : \A b \in Books : ~({p, q} \subseteq b)} \cup {p}
  /\ OnChildPageEmerged(p)
  /\ UNCHANGED <<daemon, listening, tick, level, hidden, watches, views, aside>>

\* A row of a table is clicked or activated: OnListItemClicked(), OnListItemActivated().
ToggleTable(v, i) ==
  /\ Free /\ v \in front \cap WxViews /\ views[v].rows[i].val.type = "table"
  /\ LET r == views[v].rows[i]
     IN views' = [views EXCEPT ![v].expanded = IF r.expanded THEN @ \ {r.path} ELSE @ \cup {r.path}]
  /\ wx' = wx \o DoReload(v)
  /\ UNCHANGED <<daemon, listening, tick, level, user, aside, juce>>

\* OnListItemRightClick().
CollapseAll(v) ==
  /\ Free /\ v \in front \cap WxViews /\ views[v].expanded # {}
  /\ views' = [views EXCEPT ![v].expanded = {}] /\ wx' = wx \o DoReload(v)
  /\ UNCHANGED <<daemon, listening, tick, level, user, aside, juce>>

\* cellClicked(), in the juce thread: on a copy of the set.
JuceToggle(i) ==
  /\ Free /\ "jlocals" \in front /\ views["jlocals"].rows[i].val.type = "table"
  /\ LET r == views["jlocals"].rows[i]
         x == views["jlocals"].expanded
     IN wx' = Append(wx, [do |-> "jreload", view |-> "jlocals",
                          expanded |-> IF r.expanded THEN x \ {r.path} ELSE x \cup {r.path}])
  /\ UNCHANGED <<daemon, listening, tick, level, user, views, aside, juce>>

\* OnVarToggleButton(): the flags are those of all views, reloaded is this one.
OnVarToggleButton(v, t) ==
  /\ Free /\ v \in front \cap WxViews
  /\ hidden' = IF t \in hidden THEN hidden \ {t} ELSE hidden \cup {t}
  /\ wx' = wx \o DoReload(v)
  /\ UNCHANGED <<daemon, listening, tick, level, watches, front, views, aside, juce>>

OnAutoButtonToggled(v) ==
  /\ Free /\ v \in front \cap WxViews
  /\ views' = [views EXCEPT ![v].auto = ~@] /\ wx' = wx \o DoReload(v)
  /\ UNCHANGED <<daemon, listening, tick, level, user, aside, juce>>

\* The columns are made anew, then the rows are asked for.
ResetColumns(vs) == Signal("reload", vs)
\* Of every view, shown or not.
OnShowVarPaths ==
  /\ Free /\ ResetColumns(Views \cap Panes)
  /\ UNCHANGED <<daemon, listening, tick, level, user, views, aside>>

\* A watch is edited, the empty last row to add one: no field of a table.
BeginEdit(i) ==
  /\ Free /\ "watches" \in front
  /\ i \in 1..(Len(views["watches"].rows) + 1)
  /\ i <= Len(views["watches"].rows) => views["watches"].rows[i].indent = 0
  /\ edit' = i
  /\ UNCHANGED <<daemon, listening, tick, level, user, views, stack, hover, memory, painted, wx, juce>>

\* The editor is left, or cancelled: the row is looked up again, in the list as it is by
\* then, and asserted to be there and no field. WatchBag::Edit() takes the old name out
\* and puts the new one in, "" is none.
EndEdit(word) ==
  /\ edit # 0 /\ edit' = 0
  /\ LET rows == views["watches"].rows
         there == edit \in DOMAIN rows /\ rows[edit].indent = 0
     IN \/ UNCHANGED <<watches, wx, crash>>
        \/ /\ there \/ edit = Len(rows) + 1
           /\ watches' = (watches \ (IF there THEN {rows[edit].path[1]} ELSE {}))
                           \cup ({word} \ {Named("")})
           /\ wx' = wx \o DoReload("watches") /\ UNCHANGED crash
        \/ /\ ~there /\ edit # Len(rows) + 1
           /\ crash' = "OnListItemActivated" /\ UNCHANGED <<watches, wx>>
  /\ UNCHANGED <<daemon, listening, tick, level, hidden, front, views, stack, hover, memory, painted, juce>>

\* OnListItemDelete(): asked for at once.
OnListItemDelete(i) ==
  /\ Free /\ "watches" \in front /\ views["watches"].rows[i].indent = 0
  /\ watches' = watches \ {views["watches"].rows[i].path[1]}
  /\ wx' = wx \o (IF listening /\ Stopped
                  THEN <<Answer("reply", "watches", RequestVariables("watches",
                           Request(views["watches"].expanded, hidden), prog, level, SetToSeq(watches')))>>
                  ELSE << >>)
  /\ UNCHANGED <<daemon, listening, tick, level, hidden, front, views, aside, juce>>

\* The word at a position, of a field the table it is a field of, and of no word "".
GetToolTipWord[i \in DOMAIN Phrase] ==
  IF Phrase[i] \notin Styled THEN Named("")
  ELSE IF i > 1 /\ Phrase[i - 1] \in {Named("."), Named("[")} THEN GetToolTipWord[i - 2]
  ELSE Phrase[i]

AddToWatches(word) == word \notin watches /\ watches' = watches \cup {word}
\* The menu of an editor, which offers the watch if there is a word.
OnRightDown(i) ==
  /\ Free /\ GetToolTipWord[i] # Named("") /\ AddToWatches(GetToolTipWord[i])
  /\ UNCHANGED <<daemon, listening, tick, level, hidden, front, views, aside, wx, juce>>

\* TraceBackListCtrl::OnItemActivated(): asserts that the level exists.
OnItemActivated(i) ==
  /\ Free /\ "stack" \in front /\ i \in DOMAIN stack.rows
  /\ IF i <= Len(stack.levels)
     THEN level' = i - 1 /\ Signal("reload", ShownPages) /\ UNCHANGED crash
     ELSE crash' = "OnItemActivated" /\ UNCHANGED <<level, wx, juce>>
  /\ UNCHANGED <<daemon, listening, tick, user, views, aside>>

\* SetMemoryWatch(): a signal to the memory view.
SetMemoryWatch(v, r) == wx' = Append(wx, [do |-> "memory", view |-> v, row |-> r])
\* A memory URL is clicked: a long or binary text, or a block of memory.
ShowMemory(v, i) ==
  /\ Free /\ v \in front \cap Views /\ "memory" \in Panes
  /\ views[v].rows[i].val.type \in {"string", "userdata"} /\ views[v].rows[i].val.id \in DOMAIN BytesOf
  /\ IsMemoryURL(BytesOf[views[v].rows[i].val.id])
  /\ IF v = "jlocals"
     THEN wx' = Append(wx, [do |-> "jmemory", view |-> v, row |-> views[v].rows[i]])
     ELSE SetMemoryWatch(v, views[v].rows[i])
  /\ UNCHANGED <<daemon, listening, tick, level, user, views, aside, juce>>

CanQueryDaemon == listening
\* OnMouseMove() over a word, with SolveVar_ASYNC(): the cache is of the last tick, a word
\* not in it is asked for once, and a tip is left as it is while the mouse stays.
OnMouseMove(i) ==
  /\ Free /\ CanQueryDaemon
  /\ GetToolTipWord[i] \notin {Named(""), hover.tip.of}
  /\ LET word  == GetToolTipWord[i]
         old   == hover.tick # tick
         cache == IF old THEN << >> ELSE hover.cache
         asked == IF old THEN {} ELSE hover.asked
     IN IF word \in DOMAIN cache
        THEN /\ hover' = [cache |-> cache, asked |-> asked, tick |-> tick,
                          tip |-> [of |-> word, val |-> cache[word].val, from |-> cache[word].from]]
             /\ UNCHANGED wx
        ELSE /\ hover' = [cache |-> cache, tick |-> tick, tip |-> hover.tip,
                          asked |-> IF Stopped THEN asked \cup {word} ELSE asked]
             /\ wx' = wx \o (IF word \in asked \/ ~Stopped THEN << >> ELSE Solved(word))
  /\ UNCHANGED <<daemon, listening, tick, level, user, views, edit, stack, memory, painted, juce>>

CancelToolTip ==
  /\ edit = 0 /\ hover.tip # NoTip /\ hover' = [hover EXCEPT !.tip = NoTip]
  /\ UNCHANGED <<daemon, listening, tick, level, user, views, edit, stack, memory, painted, wx, juce>>

\* The radio buttons of the dump, its position and its size.
OnRefreshMemoryView ==
  /\ edit = 0 /\ "memory" \in front /\ memory' = RedrawMemory([memory EXCEPT !.hex = ~@])
  /\ UNCHANGED <<daemon, listening, tick, level, user, views, edit, stack, hover, painted, wx, juce>>
OnSpinRangeEvent(k) ==
  /\ Free /\ "memory" \in front /\ k # memory.spin /\ k \in 0..(IF memory.bytes = << >> THEN 1 ELSE Len(memory.bytes) - 1)
  /\ memory' = [memory EXCEPT !.spin = k] /\ wx' = Append(wx, Event("redraw", "memory"))
  /\ UNCHANGED <<daemon, listening, tick, level, user, views, edit, stack, hover, painted, juce>>
OnResizeEvent(w) ==
  /\ Free /\ "memory" \in front /\ w # memory.width
  /\ memory' = [memory EXCEPT !.width = w] /\ wx' = Append(wx, Event("redraw", "memory"))
  /\ UNCHANGED <<daemon, listening, tick, level, user, views, edit, stack, hover, painted, juce>>

\* What the user does to a row of a wx view: clicks it, clicks it twice or presses
\* return, or deletes it; the right button is for all rows.
OnGridEvent(v) ==
  \/ \E i \in DOMAIN views[v].rows : ToggleTable(v, i) \/ ShowMemory(v, i)
  \/ CollapseAll(v)
  \/ /\ v = "watches"
     /\ \/ \E i \in 1..(Len(views[v].rows) + 1) : BeginEdit(i)
        \/ \E i \in DOMAIN views[v].rows : OnListItemDelete(i)

Use ==
  \/ \E p \in Panes : SelectPane(p)
  \/ \E v \in WxViews : \/ OnGridEvent(v) \/ OnAutoButtonToggled(v)
                        \/ \E t \in Types : OnVarToggleButton(v, t)
  \/ \E i \in DOMAIN views["jlocals"].rows : JuceToggle(i) \/ ShowMemory("jlocals", i)
  \/ \E k \in Positions : OnSpinRangeEvent(k)
  \/ \E w \in Widths : OnResizeEvent(w)
  \/ OnShowVarPaths \/ OnRefreshMemoryView
  \/ \E i \in DOMAIN Phrase : OnRightDown(i) \/ OnMouseMove(i)

InspectNext ==
  /\ crash = ""
  /\ \/ /\ \/ Start \/ (\E p \in Programs : Pause(p)) \/ ResumeExecution \/ SessionEnds
           \/ LostConnection \/ ResetProject \/ Handle \/ CancelToolTip
        /\ UNCHANGED <<uses, crash>>
     \/ ((\E p \in Programs : DaemonDies(p)) \/ paintCell) /\ UNCHANGED uses
     \/ (\E word \in Words \cup {Named("")} : EndEdit(word)) /\ UNCHANGED uses
     \/ Use /\ uses < MaxUses /\ uses' = uses + 1 /\ UNCHANGED crash
     \/ (\E i \in DOMAIN stack.rows : OnItemActivated(i)) /\ uses < MaxUses /\ uses' = uses + 1

InspectSpec == InspectInit /\ [][InspectNext]_inspectVars

-----------------------------------------------------------------------------
(* Properties.                                                             *)

\* What the user looks at while the program waits is of this pause and of the selected
\* frame: whatever was selected, resumed, lost or posted before, once nothing waits any
\* more no pane in front shows an older list, and the call stack is that of the
\* daemon, its functions by their global names, with the arrow at the selected frame.
ShownIsCurrent ==
  listening /\ Stopped /\ wx = << >> /\ juce = << >> =>
    /\ \A v \in front \cap Views : views[v].from = now /\ views[v].level = level
    /\ "stack" \in front => stack.rows = Traced(ToClientStack(prog))

\* Sorted or not, the fields of a table stay under it: a row follows the row it is a
\* field of or another field of that, in every view and for every history of values
\* that decides the sorting.
BlocksStayWhole ==
  \A v \in Views : \A i \in DOMAIN views[v].rows :
    LET r == views[v].rows[i]
        parent == SubSeq(r.path, 1, Len(r.path) - 1)
    IN r.indent > 0 => i > 1 /\ IsPrefix(parent, views[v].rows[i - 1].path)

\* A tip that comes up tells the value of this pause: answers that arrive late, and those
\* of earlier pauses, do not, but for a lost connection or a project reset in between.
TipsAreOfThisPause ==
  [][hover'.tip # hover.tip /\ hover'.tip # NoTip /\ hover'.tip.from.breaks = now.breaks
       => hover'.tip.from = now]_inspectVars

\* Whatever was shown before, selected, resized or switched, once nothing is to be drawn
\* any more the memory view shows the bytes it has: each zero and the selected one in
\* colour where its digits are, the characters of all lines below each other, and in
\* a text dump the runs that are no characters. (MemoryViewCtrl::RedrawMemory())
DumpIsOfTheBuffer ==
  (\A i \in DOMAIN wx : wx[i].do # "redraw") =>
    IF memory.hex THEN HexIsOf(memory.dump, memory.bytes, memory.width, memory.spin)
    ELSE TextIsOf(memory.dump, memory.bytes)
=============================================================================
