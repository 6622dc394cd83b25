------------------------------- MODULE Marks -------------------------------
(***************************************************************************)
(* Places in the sources of the client: breakpoints and the marks that show  *)
(* them in the one styled editor, its cursor, the list of functions another   *)
(* thread draws, and everything that leads to a line (Controller.cpp,         *)
(* TopNotebook.cpp, StyledSourceCtrl.cpp, BreakpointsListCtrl.cpp,            *)
(* TraceBackList.cpp, FunctionsComponent.cpp). Sources has the tabs, the      *)
(* registry and the files on disk.                                           *)
(*                                                                         *)
(* A line is the rank it has on disk, 0 if it is empty; all take as many      *)
(* characters. Lines count from 0 in breakpoints, marks and cursors, from 1   *)
(* in lists and in what the daemon reports.                                  *)
(***************************************************************************)
EXTENDS Orders, SequencesExt

CONSTANTS
  Files,      \* the project's sources
  Foreign,    \* sources Lua runs that are not of the project
  OnDisk,     \* the lines of each file
  Functions,  \* the lines that define a function
  MaxLines,   \* bound: lines of a text
  MaxEdits,   \* bound: lines inserted and deleted
  MaxMarked,  \* bound: breakpoints
  MaxPosted   \* bound: locations and lists on their way

ASSUME MarksAssumption ==
  /\ OnDisk \in Seq(Nat \ {0}) /\ Functions \subseteq Nat \ {0}
  /\ {MaxLines, MaxEdits, MaxMarked, MaxPosted} \subseteq Nat /\ "" \notin Files \cup Foreign

None == ""  \* no source

VARIABLES
  sources,  \* the controller's registry
  docs,     \* what a SourceFileClass keeps: m_TextLines, m_CursorPos
  editor,   \* the styled editor: its source, lines, marks and cursor
  bps,      \* m_BreakpointSet
  cache,    \* m_CharStylBuff
  cached,   \* history: the lines inserted and deleted when it was taken
  later,    \* put off: "ReloadStylCache", "OnReloadLuaFunctions"
  posted,   \* locations on their way to the UI thread, named for what they lead to
  inbox,    \* OnEditorFunctionsChanged on its way to the other thread
  bound,    \* FunctionsComponent is connected: m_Binder
  missed,   \* history: the last list was sent before that
  pane,     \* FunctionsComponent: m_Shortname, m_Bookmarks
  drawn,    \* the rows its table last drew
  update,   \* triggerAsyncUpdate()
  edits,    \* lines inserted and deleted
  apart,    \* history: since they were set, an edit moved marks or gave a breakpoint its line,
            \* or they were set for another source
  over      \* the failed assert that ended the client, or ""

ui   == <<sources, docs, editor, bps, cache, cached, later, edits, apart>>
juce == <<bound, missed, pane, drawn, update>>
vars == <<ui, juce, posted, inbox, over>>

NumLines == Len(editor.text)
BreakpointsOf(f, set) == {b[2] : b \in {c \in set : c[1] = f}}
\* A marker on a line the text does not have is not added.
MarksIn(text, ls) == {n \in ls : n < Len(text)}

\* OnReloadLuaFunctions(): the functions of the cached text, at their lines of the text now.
Fault_FunctionsIn(text, now) ==
  LET at == Ascending({i \in DOMAIN text : text[i] \in Functions})
      last(i) == IF i < now THEN i ELSE now
  IN [k \in DOMAIN at |-> [m_Name |-> text[at[k]], m_Line |-> last(at[k] - 1)]]
FunctionsIn(text, now) ==
  LET at == Ascending({i \in DOMAIN text : text[i] \in Functions})
      last(i) == IF i < now THEN i ELSE now
  IN [k \in DOMAIN at |-> [m_Name |-> text[at[k]], m_Line |-> last(at[k])]]

Init ==
  /\ sources = Files /\ bps = {} /\ cache = << >> /\ later = {} /\ edits = 0 /\ apart = FALSE /\ cached = 0
  /\ bound = FALSE /\ missed = FALSE
  /\ docs = [f \in Files |-> [text |-> OnDisk, cursor |-> 0]]
  /\ editor = [sfc |-> None, text |-> <<0>>, marks |-> {}, cursor |-> 0]
  /\ pane = [shortname |-> None, rows |-> << >>, of |-> 0] /\ drawn = 0 /\ update = FALSE
  /\ posted = << >> /\ inbox = << >> /\ over = ""

-----------------------------------------------------------------------------
(* The editor. *)

UserEvent == over = "" /\ "ReloadStylCache" \notin later

\* RestoreToEditor(): each line gets a line end, so one more line, an empty one, follows.
Fault_Loaded(f) ==
  [editor EXCEPT !.sfc = f, !.text = Append(docs[f].text, 0), !.cursor = docs[f].cursor]
Loaded(f) ==
  LET text == Append(docs[f].text, 0)
  IN [sfc |-> f, text |-> text, marks |-> MarksIn(text, BreakpointsOf(f, bps)),
      cursor |-> docs[f].cursor]
Opened(f) == IF f = editor.sfc THEN editor ELSE Loaded(f)

\* SaveFromEditor(): of the source the editor leaves.
Left == IF editor.sfc = None THEN docs
        ELSE [docs EXCEPT ![editor.sfc] = [text |-> editor.text, cursor |-> editor.cursor]]

\* LoadFromSFC(): the new source, perhaps at another line; nothing if it is the same.
Fault_Open(f, ed) ==
  /\ f # editor.sfc => Len(docs[f].text) < MaxLines
  /\ editor' = ed
  /\ docs' = IF f = editor.sfc THEN docs ELSE Left
  /\ later' = later \ (IF f = editor.sfc THEN {} ELSE {"OnReloadLuaFunctions"})
  /\ apart' = (apart /\ f = editor.sfc)
Open(f, ed) ==
  /\ f # editor.sfc => Len(docs[f].text) < MaxLines
  /\ editor' = ed
  /\ docs' = IF f = editor.sfc THEN docs ELSE Left
  /\ later' = IF f = editor.sfc THEN later
              ELSE (later \ {"OnReloadLuaFunctions"}) \cup {"ReloadStylCache"}
  /\ apart' = (apart /\ f = editor.sfc)

\* GotoLine() stops at the first and the last line.
Clipped(ln, text) == IF ln < 0 THEN 0 ELSE IF ln < Len(text) THEN ln ELSE Len(text) - 1

\* ShowLine(): below 0, the top.
ShowLine(ed, ln) == [ed EXCEPT !.cursor = Clipped(IF ln < 0 THEN 0 ELSE ln - 1, ed.text)]

ShowNotebookPage(f) ==
  /\ UserEvent /\ f \in sources \ {editor.sfc}
  /\ Open(f, Loaded(f))
  /\ UNCHANGED <<sources, bps, cache, cached, edits, juce, posted, inbox, over>>

\* OnShowLocation(): the tab to the front, then the line.
OnShowLocation(name, ln) ==
  /\ IF name \in sources
     THEN Open(name, ShowLine(Opened(name), ln)) /\ UNCHANGED over
     ELSE over' = "assert(sfc)" /\ UNCHANGED <<docs, editor, later, apart>>
  /\ UNCHANGED <<sources, bps, cache, cached, edits, juce, inbox>>

\* The user types a line end at the start of line n, or deletes the one before it: the
\* marks of the lines below go along, and that of a line deleted to the one above.
InsertLine(n) ==
  /\ UserEvent /\ editor.sfc # None /\ NumLines < MaxLines /\ edits < MaxEdits
  /\ editor' = [editor EXCEPT !.text = InsertAt(@, n + 1, 0), !.cursor = n + 1,
                              !.marks = {IF k < n THEN k ELSE k + 1 : k \in @}]
DeleteLine(n) ==
  /\ UserEvent /\ editor.sfc # None /\ n > 0 /\ edits < MaxEdits
  /\ editor' = [editor EXCEPT !.text = RemoveAt(@, n + 1), !.cursor = n - 1,
                              !.marks = {IF k < n THEN k ELSE k - 1 : k \in @}]

\* OnTextModifiedEvent(): OnEditorContentChanged, for the breakpoints, reaches nobody.
OnTextModified == later' = later \cup {"ReloadStylCache"}

EditText(n) ==
  /\ InsertLine(n) \/ DeleteLine(n)
  /\ edits' = edits + 1
  /\ LET ls == BreakpointsOf(editor.sfc, bps)
     IN apart' = (apart \/ editor'.marks # editor.marks \/ MarksIn(editor'.text, ls) # MarksIn(editor.text, ls))
  /\ OnTextModified
  /\ UNCHANGED <<sources, docs, bps, cache, cached, juce, posted, inbox, over>>

\* The user moves the cursor, or goes to a line (CTRL-L).
OnGotoLineNumber(ln) ==
  /\ UserEvent /\ editor.sfc # None
  /\ editor' = ShowLine(editor, ln)
  /\ UNCHANGED <<sources, docs, bps, cache, cached, later, edits, apart, juce, posted, inbox, over>>

-----------------------------------------------------------------------------
(* Breakpoints. *)

\* SetBreakpoint_LL(), then OnRefreshSfcBreakpoints(): the editor gets the marks of that
\* source whichever it shows.
SetBreakpoint(f, set) ==
  /\ bps' = set
  /\ editor' = [editor EXCEPT !.marks = MarksIn(editor.text, BreakpointsOf(f, set))]
  /\ apart' = (f # editor.sfc)
  /\ UNCHANGED <<sources, docs, cache, cached, later, edits, juce, posted, inbox, over>>

\* A click in the margin, F9 at the cursor: the state of the marks is ignored.
ToggleBreakpoint(ln) ==
  LET b == <<editor.sfc, ln>>
  IN /\ UserEvent /\ editor.sfc # None
     /\ b \notin bps => Cardinality(bps) < MaxMarked
     /\ SetBreakpoint(editor.sfc, IF b \in bps THEN bps \ {b} ELSE bps \cup {b})
OnMarginClick(n) == n < NumLines /\ ToggleBreakpoint(n)
OnToggleSelectedBreakpoint == ToggleBreakpoint(editor.cursor)

\* A row of the breakpoint list is deleted, or leads to its line.
DeleteSelectedBreakpoint(b) ==
  UserEvent /\ b \in bps /\ SetBreakpoint(b[1], bps \ {b})
OnItemDoubleClick(b) ==
  /\ UserEvent /\ b \in bps
  /\ OnShowLocation(b[1], b[2] + 1)
  /\ UNCHANGED posted

\* DeleteSFC(): its breakpoints go, and the notebook shows another source or none.
DeleteSFC(f) ==
  /\ UserEvent /\ f \in sources
  /\ sources' = sources \ {f} /\ bps' = {b \in bps : b[1] # f}
  /\ IF f # editor.sfc THEN UNCHANGED <<docs, editor, later, apart>>
     ELSE \/ \E g \in sources' : Open(g, Loaded(g))
          \/ /\ editor' = [sfc |-> None, text |-> <<0>>, marks |-> {}, cursor |-> 0]
             /\ docs' = Left /\ later' = later \ {"OnReloadLuaFunctions"} /\ apart' = FALSE
  /\ UNCHANGED <<cache, cached, edits, juce, posted, inbox, over>>

-----------------------------------------------------------------------------
(* What the daemon reports. *)

\* NOTIFY_VM_SUSPENDED: an error shows its line at once if the source is of the project;
\* either posts the event that shows it.
NotifySuspended(name, ln, error) ==
  /\ over = "" /\ Len(posted) < MaxPosted
  /\ IF error /\ name \in sources THEN Open(name, ShowLine(Opened(name), ln))
     ELSE UNCHANGED <<editor, docs, later, apart>>
  /\ posted' = Append(posted, [name |-> name, line |-> ln, what |-> 0, of |-> 0])
  /\ UNCHANGED <<sources, bps, cache, cached, edits, juce, inbox, over>>

\* A level of the call stack is chosen.
OnItemActivated(name, ln) ==
  UserEvent /\ OnShowLocation(name, ln) /\ UNCHANGED posted

\* OnLuaSuspended_SYNTH(), or a row of the functions chosen on the other thread.
ShowPosted ==
  /\ over = "" /\ posted # << >>
  /\ posted' = Tail(posted)
  /\ OnShowLocation(Head(posted).name, Head(posted).line)

-----------------------------------------------------------------------------
(* The list of functions. *)

ReloadStylCache ==
  /\ over = "" /\ "ReloadStylCache" \in later
  /\ cache' = editor.text /\ cached' = edits
  /\ later' = (later \ {"ReloadStylCache"}) \cup {"OnReloadLuaFunctions"}
  /\ UNCHANGED <<sources, docs, editor, bps, edits, apart, juce, posted, inbox, over>>

\* With the rows goes, as history, the age of the text they were found in. Rebind()
\* connects the list: one sent before reaches nobody.
OnReloadLuaFunctions ==
  /\ over = "" /\ "OnReloadLuaFunctions" \in later /\ Len(inbox) < MaxPosted
  /\ later' = later \ {"OnReloadLuaFunctions"}
  /\ LET list == [shortname |-> editor.sfc, rows |-> FunctionsIn(cache, NumLines), of |-> cached]
     IN inbox' = IF bound THEN Append(inbox, list) ELSE inbox
  /\ missed' = ~bound
  /\ UNCHANGED <<sources, docs, editor, bps, cache, cached, edits, apart, posted, over>>
  /\ UNCHANGED <<bound, pane, drawn, update>>

\* The window of the list can be bound.
Rebind == /\ over = "" /\ ~bound /\ bound' = TRUE
          /\ UNCHANGED <<ui, missed, pane, drawn, update, posted, inbox, over>>

\* On the other thread: OnEditorFunctionsChanged().
SetEntries ==
  /\ over = "" /\ inbox # << >>
  /\ pane' = Head(inbox) /\ inbox' = Tail(inbox) /\ update' = TRUE
  /\ UNCHANGED <<ui, bound, missed, drawn, posted, over>>
HandleAsyncUpdate ==
  /\ over = "" /\ update
  /\ drawn' = Len(pane.rows) /\ update' = FALSE
  /\ UNCHANGED <<ui, bound, missed, pane, posted, inbox, over>>

\* GetEntry(): of a row the table has drawn.
CellClicked(row) ==
  /\ over = "" /\ row <= drawn /\ Len(posted) < MaxPosted
  /\ IF row <= Len(pane.rows)
     THEN /\ UNCHANGED over
          /\ posted' = Append(posted, [name |-> pane.shortname, line |-> pane.rows[row].m_Line,
                                       what |-> pane.rows[row].m_Name, of |-> pane.of])
     ELSE over' = "assert(row < m_Bookmarks.size())" /\ UNCHANGED posted
  /\ UNCHANGED <<ui, juce, inbox>>

-----------------------------------------------------------------------------
System == ReloadStylCache \/ OnReloadLuaFunctions \/ SetEntries \/ HandleAsyncUpdate \/ ShowPosted \/ Rebind
Next ==
  \/ System
  \/ \E f \in Files : ShowNotebookPage(f) \/ DeleteSFC(f)
  \/ \E n \in 0..(NumLines - 1) : EditText(n) \/ OnMarginClick(n)
  \/ \E n \in 1..NumLines : OnGotoLineNumber(n)
  \/ OnToggleSelectedBreakpoint
  \/ \E b \in bps : DeleteSelectedBreakpoint(b) \/ OnItemDoubleClick(b)
  \/ \E f \in Files \cup Foreign, n \in 1..Len(OnDisk) :
       OnItemActivated(f, n) \/ \E e \in BOOLEAN : NotifySuspended(f, n, e)
  \/ \E n \in 1..drawn : CellClicked(n)

\* Posted calls run, timers fire, and the other thread's loop goes on.
Spec == /\ Init /\ [][Next]_vars
        /\ WF_vars(ReloadStylCache) /\ WF_vars(OnReloadLuaFunctions)
        /\ WF_vars(SetEntries) /\ WF_vars(HandleAsyncUpdate)

-----------------------------------------------------------------------------
(* Properties. *)

Names == Files \cup Foreign \cup {None}
Places == [name : Names, line : Nat \ {0}, what : Nat, of : Nat]
Rows == [m_Name : Nat, m_Line : Nat \ {0}]
Lists == [shortname : Names, rows : Seq(Rows), of : Nat]
\* The styled editor has a line whatever is deleted, and its cursor is at one.
Editors ==
  {ed \in [sfc : Files \cup {None}, text : Seq(Nat), marks : SUBSET Nat, cursor : Nat] :
     ed.cursor < Len(ed.text)}
\* A source put aside had its cursor in a text that gets another line when it is shown.
Docs == {d \in [text : Seq(Nat), cursor : Nat] : d.cursor <= Len(d.text)}

UiTypes ==
  /\ sources \subseteq Files /\ bps \subseteq Files \X Nat
  /\ docs \in [Files -> Docs] /\ editor \in Editors /\ cache \in Seq(Nat)
  /\ later \subseteq {"ReloadStylCache", "OnReloadLuaFunctions"}
  /\ edits \in Nat /\ cached \in Nat /\ apart \in BOOLEAN
ListTypes ==
  /\ bound \in BOOLEAN /\ missed \in BOOLEAN
  /\ pane \in Lists /\ drawn \in Nat /\ update \in BOOLEAN
  /\ posted \in Seq(Places) /\ inbox \in Seq(Lists)
  /\ over \in {"", "assert(sfc)", "assert(row < m_Bookmarks.size())"}
\* The variables have their types; a location names a line counted from 1, also that of a
\* row whose text has got shorter.
TypeOK == UiTypes /\ ListTypes

\* Unless an edit moved them or another source's were drawn over them, the marks are the
\* breakpoints of the source shown, those set while another was shown too; but one below
\* the end of the text gets no mark when an edit gives it its line (RestoreToEditor(),
\* SetBreakpointLines()).
MarksAreBreakpoints ==
  editor.sfc # None /\ ~apart => editor.marks = MarksIn(editor.text, BreakpointsOf(editor.sfc, bps))

\* A row of the functions leads to its function if no line came or went since the text was
\* cached (ReloadStylCache(); OnReloadLuaFunctions() counts from 1, cellClicked() posts it,
\* ShowLine() counts from 0): whatever tabs were changed meanwhile, and the lines they
\* add, no list is made of one source and named for another, or leads to another line.
RowsLeadToFunctions ==
  [][\A p \in {posted[i] : i \in DOMAIN posted \cap {1}} :
       posted' = Tail(posted) /\ over' = "" /\ p.what # 0 /\ p.of = edits
       => editor'.text[editor'.cursor + 1] = p.what]_vars

Shown     == <<editor.sfc, editor.text>>
ListShown == /\ pane.shortname = editor.sfc /\ pane.rows = FunctionsIn(editor.text, NumLines)
             /\ drawn = Len(pane.rows)
\* Once the user leaves the text and the tabs alone, the list draws the functions of the
\* source shown (OnReloadLuaFunctions(), handleAsyncUpdate()): no timer zapped or restarted
\* and no list overtaken leaves that of an older text. One that was sent before the list's
\* window could be bound is missed, up to the next edit or tab.
FunctionsGetListed ==
  \/ []<><<Shown' # Shown>>_vars
  \/ <>[](over # "" \/ editor.sfc = None \/ missed \/ ListShown)
=============================================================================
