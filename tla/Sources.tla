------------------------------ MODULE Sources ------------------------------
(***************************************************************************)
(* The source files of the client: the controller's registry of them with  *)
(* its breakpoints, a SourceFileClass each, the tabs of the top notebook,   *)
(* the one styled editor they share, and the lists that show them           *)
(* (Controller.cpp, SourceFileClass.cpp, TopNotebook.cpp,                   *)
(* StyledSourceCtrl.cpp, ProjectListCtrl.cpp, BreakpointsListCtrl.cpp).     *)
(*                                                                         *)
(* A text is the number of edits in it. What CallAfter() and MixDelay() put  *)
(* off is in later; what was posted runs before the user's next event. The  *)
(* titles of the tabs are left out.                                         *)
(***************************************************************************)
EXTENDS Orders, SequencesExt

CONSTANTS
  Files,     \* Lua files, each its rank in the order of all names
  Capital,   \* those with a capital letter in the name
  ReadOnly,  \* those not writable on disk
  Vanishing, \* bound: those another program may delete
  Edited,    \* bound: those the user edits
  Lines,     \* lines that can have a breakpoint
  MaxText    \* bound: edits in a text

ASSUME FilesAssumption ==
  /\ IsFiniteSet(Files) /\ Files = 1..Cardinality(Files)
  /\ Capital \cup ReadOnly \cup Vanishing \cup Edited \subseteq Files
ASSUME LinesAssumption == IsFiniteSet(Lines) /\ Lines \subseteq Nat /\ MaxText \in Nat

None  == 0             \* no source
Empty == -1            \* the text of no source, or of one the user emptied
Blank == MaxText + 1   \* a text typed anew, or kept of an empty one: a line end
Gone  == -2            \* the file was deleted by another program

VARIABLES
  order,     \* m_SourceFileOrder; the two maps have the same entries
  docs,      \* what a SourceFileClass keeps while its text is not in the editor
  disk,      \* the text in each file, or Gone
  tabs,      \* the sources of the notebook's pages
  selected,  \* its selected page, 0: none
  editor,    \* the styled editor
  bps,       \* m_BreakpointSet: file and zero-based line
  listed,    \* the rows of the project list, as last drawn
  rows,      \* those of the breakpoint list
  later,     \* put off: "Redraw", "ReloadStylCache", "OnReloadLuaFunctions"
  started,   \* IsLuaStarted()
  over       \* the failed assert or bad access that ended the client, or ""

vars == <<order, docs, disk, tabs, selected, editor, bps, listed, rows, later, started, over>>

Texts == Empty..Blank
Ends  == {"", "assert(it)", "assert(count)", "assert(end_pos)", "assert(IsWritableFile)",
          "assert(FileExists)", "assert(sfc)", "null source", "erased iterator"}

Sources  == ToSet(order)
Modified(ed) == ed.text # ed.save
LinesOf(text) == IF text = Empty THEN Blank ELSE text  \* GetAllTextLines()
TextOf(f)    == LinesOf(IF editor.sfc = f THEN editor.text ELSE docs[f].text)
BreakpointsOf(f, set) == {b[2] : b \in {c \in set : c[1] = f}}

\* GetSortedBreakpointList(): by name, then by line; k - 1 come before the k-th.
Before(b, c) == b[1] < c[1] \/ (b[1] = c[1] /\ b[2] < c[2])
SortedBreakpoints(set) ==
  [k \in 1..Cardinality(set) |-> CHOOSE b \in set : Cardinality({c \in set : Before(c, b)}) = k - 1]

\* Keys are short names without capitals; a path asked for loses its capitals.
HasDoppleganger(f) == f \in Sources
GetSFC(f) == IF f \in Sources THEN f ELSE None
\* A short name asked for as it is.
IsKey(f) == f \in Sources \ Capital
\* The source of a row of the project list.
GetNthSFC(row) == order[row]
HasBreakpoint_LL(f, line) == <<f, line>> \in bps

\* A SourceFileClass just made: Load() reads the lines of its file.
Load(f)  == disk[f]
Fresh(f) == [text |-> Load(f), dirty |-> FALSE, lock |-> FALSE]
NoSFC    == [text |-> 0, dirty |-> FALSE, lock |-> FALSE]

Init ==
  /\ order = << >> /\ tabs = << >> /\ selected = 0 /\ bps = {}
  /\ disk = [f \in Files |-> 0] /\ docs = [f \in Files |-> NoSFC]
  /\ editor \in [sfc : {None}, text : {Empty}, save : {Empty}, base : {Empty},
                 dirty : BOOLEAN, lock : {FALSE}, marks : {{}}]  \* m_DirtyFlag is not set
  /\ listed = << >> /\ rows = << >> /\ later = {} /\ started = FALSE /\ over = ""

-----------------------------------------------------------------------------
(* Pieces of the handlers.                                                 *)

\* The user's next event.
UserEvent == over = "" /\ later \subseteq {"OnReloadLuaFunctions"}

\* SaveFromEditor(): the editor's text and its own idea of modified.
Fault_Kept == docs
Kept == IF editor.sfc = None THEN docs
        ELSE [docs EXCEPT ![editor.sfc].text = LinesOf(editor.text),
                           ![editor.sfc].dirty = Modified(editor)]

\* LoadFromSFC(): UnloadCurrentSFC(), then RestoreToEditor(). The save point is
\* where the text was loaded, whatever the dirty flag: MarkDirty() does nothing.
UnloadCurrentSFC ==
  [editor EXCEPT !.sfc = None, !.text = Empty, !.save = Empty, !.base = Empty, !.marks = {}]
RestoreToEditor(f) ==
  [sfc |-> f, text |-> docs[f].text, save |-> docs[f].text, base |-> docs[f].text,
   dirty |-> docs[f].dirty, lock |-> docs[f].lock, marks |-> BreakpointsOf(f, bps)]
\* AutoMuteStc unlocks the editor, and then locks it as it was: the lock of the
\* source just loaded is overwritten.
AutoMuteStc(ed) == [ed EXCEPT !.lock = editor.lock]
Loaded(f) == AutoMuteStc(IF f = None THEN UnloadCurrentSFC ELSE RestoreToEditor(f))

LaterWith(f) ==
  (later \ {"OnReloadLuaFunctions"}) \cup (IF f = None THEN {} ELSE {"ReloadStylCache"})

\* SetEditSFC(), with the source of the selected page.
SetEditSFC(f) ==
  IF f = editor.sfc THEN UNCHANGED <<docs, editor, later>>
  ELSE docs' = Kept /\ editor' = Loaded(f) /\ later' = LaterWith(f)
\* No word when the last page goes.
Fault_NotifyPageChanged ==
  IF selected' = 0 THEN UNCHANGED <<docs, editor, later>> ELSE SetEditSFC(tabs'[selected'])
NotifyPageChanged == SetEditSFC(IF selected' = 0 THEN None ELSE tabs'[selected'])

\* The project list is drawn with the properties of the files.
GetProperties(f) == disk[f] # Gone
Redraw ==
  /\ listed' = order'
  /\ over' = IF \A f \in ToSet(order') : GetProperties(f) THEN "" ELSE "assert(FileExists)"

\* BroadcastProjectRefresh(): SetDirtyProject() ends in it, whatever the dirty flag.
BroadcastProjectRefresh == Redraw /\ rows' = SortedBreakpoints(bps')

SetDirty(f, flag) == docs' = [docs EXCEPT ![f].dirty = flag]
\* A star in the titles of the pages makes the project dirty.
UpdateEditorTitles == BroadcastProjectRefresh
OnEditorDirtyChanged(f, dirty) == SetDirty(f, dirty) /\ UpdateEditorTitles

\* The marks of whatever source, drawn in the editor.
OnRefreshSfcBreakpoints(f) == editor' = [editor EXCEPT !.marks = BreakpointsOf(f, bps')]

AddPage(f) == IF f \in ToSet(tabs) THEN tabs ELSE Append(tabs, f)
\* ShowSFC(): a page if it has none, and to the front.
ShowSFC(f) ==
  /\ tabs' = AddPage(f)
  /\ selected' = CHOOSE i \in DOMAIN tabs' : tabs'[i] = f
  /\ NotifyPageChanged

\* The page of the tab taken out: wxNotebook selects the next one, or the last,
\* if it was selected; ReIndex() says so itself for the last page.
SelectedWithout(i) ==
  IF i < selected \/ (i = selected /\ i = Len(tabs)) THEN selected - 1 ELSE selected
SourceWithout(i) ==
  LET left == RemoveAt(tabs, i) s == SelectedWithout(i) IN IF s = 0 THEN None ELSE left[s]

\* The process is over, and what it had in memory gone.
Abort(how) ==
  /\ over' = how
  /\ order' = << >> /\ tabs' = << >> /\ selected' = 0 /\ bps' = {}
  /\ docs' = [f \in Files |-> NoSFC]
  /\ editor' = [UnloadCurrentSFC EXCEPT !.dirty = FALSE, !.lock = FALSE]
  /\ listed' = << >> /\ rows' = << >> /\ later' = {} /\ started' = FALSE
  /\ UNCHANGED disk

-----------------------------------------------------------------------------
(* Files and tabs.                                                         *)

\* NewSFC(): an instance of the file, at the end of the order.
NewSFC(f) ==
  /\ order' = Append(order, f)
  /\ docs' = [docs EXCEPT ![f] = Fresh(f)]

\* Files dropped on the window, one after the other; those the project has, of
\* whatever directory, are passed over.
OnDroppedFiles(f) ==
  /\ UserEvent /\ disk[f] # Gone
  /\ IF HasDoppleganger(f) THEN UNCHANGED <<order, docs>> ELSE NewSFC(f)
  /\ UNCHANGED <<disk, tabs, selected, editor, bps, later, started>>
  /\ BroadcastProjectRefresh

\* ShowNotebookPage(): and asks for the properties of the file.
ShowNotebookPage(f) ==
  /\ UserEvent
  /\ ShowSFC(f)
  /\ over' = IF GetProperties(f) THEN "" ELSE "assert(FileExists)"
  /\ UNCHANGED <<order, disk, bps, listed, rows, started>>

\* A double click in the project list.
OnItemActivated(row) == ShowNotebookPage(GetNthSFC(row))

\* A double click in the breakpoint list: a source the project was loaded without.
OnShowLocation(row) ==
  LET f == GetSFC(rows[row][1]) IN
    IF f = None THEN UserEvent /\ Abort("assert(sfc)") ELSE ShowNotebookPage(f)

\* The label of a tab, or its close icon.
ClickTab(i) ==
  /\ UserEvent /\ i \in DOMAIN tabs
  /\ \/ selected' = i /\ UNCHANGED tabs
     \/ tabs' = RemoveAt(tabs, i) /\ selected' = SelectedWithout(i)
  /\ NotifyPageChanged
  /\ UNCHANGED <<order, disk, bps, listed, rows, started, over>>

\* HideAllSFCs() goes through a map that each HideSFC() clears and fills again:
\* any of the tabs are closed, or the iterator is followed into freed memory.
HideAllSFCs ==
  /\ UserEvent /\ tabs # << >>
  /\ \/ Abort("erased iterator")
     \/ \E closed \in SUBSET ToSet(tabs) \ {{}} :
          /\ tabs' = Those(tabs, Files \ closed)
          /\ \/ tabs' = << >> /\ selected' = 0
             \/ /\ selected' \in DOMAIN tabs'
                /\ tabs[selected] \in closed \/ tabs'[selected'] = tabs[selected]
          /\ NotifyPageChanged
          /\ UNCHANGED <<order, disk, bps, listed, rows, started, over>>

\* The breakpoints of a deleted source stay.
Fault_BreakpointsWithout(f) == bps
BreakpointsWithout(f) == {b \in bps : b[1] # f}

\* DeleteSFC(): out of the project, its breakpoints with it.
DeleteSFC(f) ==
  /\ order' = Those(order, Files \ {f})
  /\ bps' = BreakpointsWithout(f)

\* DestroySFC(): hidden, then deleted. The short name keeps its capitals, the maps' keys
\* do not have them.
DestroySFC(f) ==
  LET shown == f \in ToSet(tabs)
      i == CHOOSE j \in DOMAIN tabs : tabs[j] = f
      next == IF shown THEN SourceWithout(i) ELSE editor.sfc
  IN /\ IsKey(f)
     /\ tabs' = IF shown THEN RemoveAt(tabs, i) ELSE tabs
     /\ selected' = IF shown THEN SelectedWithout(i) ELSE selected
     /\ docs' = [(IF next = editor.sfc THEN docs ELSE Kept) EXCEPT ![f] = NoSFC]
     /\ editor' = IF next = editor.sfc THEN editor ELSE Loaded(next)
     /\ later' = {"Redraw"} \cup IF next = editor.sfc THEN later ELSE LaterWith(next)
     /\ DeleteSFC(f)
     /\ UNCHANGED <<disk, started>>
     /\ BroadcastProjectRefresh

\* The delete key in the project list; the list is drawn once more.
OnKeyDown(row) ==
  /\ UserEvent
  /\ \/ DestroySFC(GetNthSFC(row))
     \/ ~IsKey(GetNthSFC(row)) /\ Abort("assert(it)")

RedrawProjectList ==
  /\ over = "" /\ "Redraw" \in later
  /\ later' = later \ {"Redraw"}
  /\ UNCHANGED <<order, docs, disk, tabs, selected, editor, bps, rows, started>>
  /\ Redraw

\* DestroyAllSFCs(): in the order of a hash map, the lists drawn after each. A
\* page that is selected and not the last to go brings up another, which is
\* reloaded later.
DestroyAllSFCs ==
  /\ Sources \cap Capital = {}
  /\ Cardinality({f \in Sources : disk[f] = Gone}) <= 1
  /\ tabs' = << >> /\ selected' = 0
  /\ editor' = Loaded(None)
  /\ \/ later' = LaterWith(None)
     \/ Len(tabs) > 1 /\ later' = LaterWith(None) \cup {"ReloadStylCache"}
DestroyAllSFCsFails ==
  \/ Sources \cap Capital # {} /\ Abort("assert(it)")
  \/ Cardinality(Sources) > 1 /\ (\E f \in Sources : disk[f] = Gone) /\ Abort("assert(FileExists)")

ResetProject ==
  /\ UserEvent
  /\ \/ DestroyAllSFCsFails
     \/ /\ DestroyAllSFCs
        /\ order' = << >> /\ bps' = {}
        /\ docs' = [f \in Files |-> NoSFC]
        /\ UNCHANGED <<disk, started>>
        /\ BroadcastProjectRefresh

\* SetLoadedBreakpoints(): as the project file has them, also those of sources it
\* was loaded without.
SetLoadedBreakpoints(loaded) == bps' = loaded

\* LoadProjectDone() with SortSFCs(): the new order, by name, is drawn.
LoadProjectDone(files) == order' = Ascending(files) /\ BroadcastProjectRefresh

\* LoadProject(), of a file with these sources and breakpoints: the missing ones
\* are passed over, the others made anew.
LoadProject(files, loaded) ==
  LET present == {f \in files : disk[f] # Gone} IN
    /\ UserEvent
    /\ \A b \in loaded : b[1] \in files \/ disk[b[1]] = Gone
    /\ DestroyAllSFCs
    /\ docs' = [f \in Files |-> IF f \in present THEN Fresh(f) ELSE NoSFC]
    /\ SetLoadedBreakpoints(loaded)
    /\ UNCHANGED <<disk, started>>
    /\ LoadProjectDone(present)

\* Another program deletes a file.
FileGone(f) ==
  /\ over = "" /\ f \in Vanishing /\ disk[f] # Gone
  /\ disk' = [disk EXCEPT ![f] = Gone]
  /\ UNCHANGED <<order, docs, tabs, selected, editor, bps, listed, rows, later, started, over>>

-----------------------------------------------------------------------------
(* The editor.                                                             *)

\* OnTextModifiedEvent(): a changed dirty flag is told to the source and the titles.
TextModified(text) ==
  LET ed == [editor EXCEPT !.text = text] IN
    /\ text # editor.text
    /\ editor' = [ed EXCEPT !.dirty = Modified(ed)]
    /\ later' = later \cup {"ReloadStylCache"}
    /\ UNCHANGED <<order, disk, tabs, selected, bps, started>>
    /\ IF Modified(ed) # editor.dirty THEN OnEditorDirtyChanged(editor.sfc, Modified(ed))
       ELSE UNCHANGED <<docs, listed, rows, over>>

\* A key typed, the text cleared, or all undone back to what was loaded.
EditText ==
  /\ UserEvent /\ editor.sfc \in Edited /\ ~editor.lock
  /\ \/ editor.text < MaxText /\ editor.text # Empty /\ TextModified(editor.text + 1)
     \/ editor.text = Empty /\ TextModified(Blank)
     \/ TextModified(Empty)
     \/ TextModified(editor.base)

IsWritableFile(f) == f \notin ReadOnly

\* SetEditorDirty(), of a source just saved.
SetEditorClean == editor' = [editor EXCEPT !.dirty = FALSE, !.save = editor.text]

\* SourceFileClass::SaveToDisk(): whether the source is dirty is asked of the
\* editor, whose save point is where the text was loaded.
SaveToDisk(f) ==
  \/ /\ ~Modified(editor)
     /\ docs' = Kept
     /\ UNCHANGED <<order, disk, tabs, selected, editor, bps, listed, rows, later, started, over>>
  \/ /\ Modified(editor)
     /\ disk' = [disk EXCEPT ![f] = LinesOf(editor.text)]
     /\ docs' = [Kept EXCEPT ![f].dirty = FALSE]
     /\ SetEditorClean
     /\ UNCHANGED <<order, tabs, selected, bps, later, started>>
     /\ BroadcastProjectRefresh

\* OnSaveFileMenu(): EditorCtrl::SaveToDisk().
OnSaveFileMenu ==
  /\ UserEvent /\ editor.sfc # None
  /\ \/ disk[editor.sfc] = Gone /\ Abort("assert(FileExists)")
     \/ disk[editor.sfc] # Gone /\ ~IsWritableFile(editor.sfc) /\ Abort("assert(IsWritableFile)")
     \/ disk[editor.sfc] # Gone /\ IsWritableFile(editor.sfc) /\ SaveToDisk(editor.sfc)

\* Posted by SetAllTextLines() and OnTextModifiedEvent(): finds no text when the
\* user has emptied the source, or its page is gone.
ReloadStylCache ==
  /\ over = "" /\ "ReloadStylCache" \in later
  /\ IF editor.text = Empty THEN Abort("assert(end_pos)")
     ELSE /\ later' = (later \ {"ReloadStylCache"}) \cup {"OnReloadLuaFunctions"}
          /\ UNCHANGED <<order, docs, disk, tabs, selected, editor, bps, listed, rows, started, over>>

\* The delayed scan for functions, of the source in the editor.
OnReloadLuaFunctions ==
  /\ UserEvent /\ "OnReloadLuaFunctions" \in later
  /\ IF editor.sfc = None THEN Abort("null source")
     ELSE /\ later' = later \ {"OnReloadLuaFunctions"}
          /\ UNCHANGED <<order, docs, disk, tabs, selected, editor, bps, listed, rows, started, over>>

-----------------------------------------------------------------------------
(* Breakpoints.                                                            *)

\* ToggleBreakpoint(), SetBreakpoint_LL(): all is drawn again.
ToggleBreakpoint(f, line) ==
  /\ bps' = IF HasBreakpoint_LL(f, line) THEN bps \ {<<f, line>>} ELSE bps \cup {<<f, line>>}
  /\ BroadcastProjectRefresh
  /\ OnRefreshSfcBreakpoints(f)

\* A click in the margin, or the toggle key, whatever the margin shows.
OnClickedBreakpoint(line) ==
  /\ UserEvent /\ editor.sfc # None
  /\ UNCHANGED <<order, docs, disk, tabs, selected, later, started>>
  /\ ToggleBreakpoint(editor.sfc, line)

\* Row by row in some order; each removal draws the list again. A row that the
\* shorter list no longer has is passed over.
RowRemoved(set, i) == IF i \in 1..Cardinality(set) THEN set \ {SortedBreakpoints(set)[i]} ELSE set
RowsRemoved(sequence) == FoldLeft(RowRemoved, bps, sequence)

Fault_Removal(selection) == Ascending(selection)
\* "delete back to front".
Removal(selection) == Reverse(Ascending(selection))

\* DeleteSelectedBreakpoints(): SetSourceBreakpoint() needs the short name to be a
\* key; the markers of the last source removed from are set on the editor,
\* whatever it shows.
DeleteSelectedBreakpoints(selection) ==
  /\ UserEvent /\ selection # {}
  /\ \/ \E i \in selection : ~IsKey(rows[i][1]) /\ Abort("assert(count)")
     \/ /\ \A i \in selection : IsKey(rows[i][1])
        /\ bps' = RowsRemoved(Removal(selection))
        /\ UNCHANGED <<order, docs, disk, tabs, selected, later, started>>
        /\ BroadcastProjectRefresh
        /\ OnRefreshSfcBreakpoints(rows[CHOOSE i \in selection : \A j \in selection : i <= j][1])

-----------------------------------------------------------------------------
(* The session.                                                            *)

HasDirtySFCEdit == \E f \in Sources : docs[f].dirty

\* SetInitLevel(): all sources are locked from the start to the end of a session,
\* those added meanwhile at its next level.
SetAllSFCEditLockFlag(flag) ==
  docs' = [f \in Files |-> IF f \in Sources THEN [docs[f] EXCEPT !.lock = flag] ELSE docs[f]]

\* OnToolStartRun(): the daemon reads the files.
OnToolStartRun ==
  /\ UserEvent /\ ~started /\ ~HasDirtySFCEdit
  /\ started' = TRUE
  /\ SetAllSFCEditLockFlag(TRUE)
  /\ UNCHANGED <<order, disk, tabs, selected, editor, bps, listed, rows, later, over>>

\* A pause or resume in the session.
LevelChanges ==
  /\ UserEvent /\ started
  /\ SetAllSFCEditLockFlag(TRUE)
  /\ UNCHANGED <<order, disk, tabs, selected, editor, bps, listed, rows, later, started, over>>

\* The session ends: ClearVarViews() also empties the breakpoint list, if its pane
\* is in front.
SessionEnded ==
  /\ UserEvent /\ started
  /\ started' = FALSE
  /\ SetAllSFCEditLockFlag(FALSE)
  /\ rows' = rows \/ rows' = << >>
  /\ UNCHANGED <<order, disk, tabs, selected, editor, bps, listed, later, over>>

\* The pane of the breakpoint list comes to the front: RequestVarReload().
BreakpointsPaneShown ==
  /\ UserEvent
  /\ rows' = SortedBreakpoints(bps)
  /\ UNCHANGED <<order, docs, disk, tabs, selected, editor, bps, listed, later, started, over>>

Over == over # "" /\ UNCHANGED vars

Next ==
  \/ \E f \in Files : OnDroppedFiles(f) \/ FileGone(f)
  \/ \E files \in SUBSET Files : \E loaded \in SUBSET (Files \X Lines) : LoadProject(files, loaded)
  \/ HideAllSFCs \/ ResetProject \/ RedrawProjectList
  \/ \E i \in DOMAIN tabs : ClickTab(i)
  \/ \E row \in DOMAIN listed : OnItemActivated(row) \/ OnKeyDown(row)
  \/ \E row \in DOMAIN rows : OnShowLocation(row)
  \/ EditText \/ OnSaveFileMenu \/ ReloadStylCache \/ OnReloadLuaFunctions
  \/ \E line \in Lines : OnClickedBreakpoint(line)
  \/ \E selection \in SUBSET DOMAIN rows : DeleteSelectedBreakpoints(selection)
  \/ OnToolStartRun \/ LevelChanges \/ SessionEnded \/ BreakpointsPaneShown \/ Over

Spec == Init /\ [][Next]_vars

-----------------------------------------------------------------------------
(* Properties.                                                             *)

\* The variables have their types, and the pages are distinct.
TypeOK ==
  /\ order \in Seq(Files) /\ IsInjective(order)
  /\ docs \in [Files -> [text : Texts \ {Empty}, dirty : BOOLEAN, lock : BOOLEAN]]
  /\ disk \in [Files -> (Texts \ {Empty}) \cup {Gone}]
  /\ tabs \in Seq(Files) /\ IsInjective(tabs) /\ selected \in 0..Len(tabs)
  /\ editor \in [sfc : Files \cup {None}, text : Texts, save : Texts, base : Texts,
                 dirty : BOOLEAN, lock : BOOLEAN, marks : SUBSET Lines]
  /\ bps \subseteq Files \X Lines
  /\ later \subseteq {"Redraw", "ReloadStylCache", "OnReloadLuaFunctions"}
  /\ started \in BOOLEAN /\ over \in Ends

\* However tabs are opened, closed, deleted with their sources or all reset, the
\* pages are of sources the project has, and the one editor shows the source of the
\* selected page: two notebooks' maps, wxNotebook's own choice of the next page and
\* the workaround for the last one must agree. Nor does the delayed scan for functions
\* meet an editor whose source went away meanwhile. (TopNotebookImp::ReIndex,
\* MixZapGroup() in UnloadCurrentSFC())
EditorShowsSelectedTab ==
  over = "" =>
    /\ ToSet(tabs) \subseteq Sources
    /\ editor.sfc = IF selected = 0 THEN None ELSE tabs[selected]
    /\ "OnReloadLuaFunctions" \in later => editor.sfc # None

\* Every breakpoint is in a source the project still has, or was loaded without since
\* its file is gone: those of a source that is deleted, alone or with the project, go
\* with it, and are neither sent to the daemon nor met by the lists' asserts on the
\* map. (DeleteSFC(), SetLoadedBreakpoints())
BreakpointsHaveSources == over = "" => \A b \in bps : b[1] \in Sources \/ disk[b[1]] = Gone

\* Opening, closing and switching tabs, breakpoints, saves and deletes never change
\* the text of a source, in the editor or kept: only an edit of the one shown does, or
\* another project that reads it from its file. (SaveFromEditor(), RestoreToEditor())
OnlyEditsChangeTexts ==
  [][\A f \in Sources : f \in Sources' /\ TextOf(f)' # TextOf(f) =>
       \/ editor.sfc = f /\ editor'.sfc = f /\ disk' = disk
       \/ tabs' = << >> /\ TextOf(f)' = disk[f]]_vars

\* Deleting the selected rows of the breakpoint list removes those breakpoints and no
\* other, though each removal draws the list again under the loop.
DeletesTheSelected ==
  [][bps' # bps /\ over' = "" => \A selection \in SUBSET DOMAIN rows :
       DeleteSelectedBreakpoints(selection) => bps' = bps \ {rows[i] : i \in selection}]_vars

-----------------------------------------------------------------------------
(* Why the editor, the breakpoints and the lists stay together. *)

\* While the client runs the lists show what there is, or no breakpoint at all; an editor
\* without a source has no text, so that no scan is asked for.
SourcesInv ==
  /\ TypeOK /\ EditorShowsSelectedTab /\ BreakpointsHaveSources
  /\ editor.sfc = None => editor.text = Empty
  /\ over = "" => listed = order /\ rows \in {<< >>, SortedBreakpoints(bps)}
=============================================================================
