------------------------------- MODULE Project -------------------------------
(***************************************************************************)
(* The client's project: what of it is in memory, the file it was loaded    *)
(* from, the dirty flag with its delayed save, and the bookmarks of recent  *)
(* projects in the prefs file (ProjectPrefs.cpp, WatchBag.cpp, and their     *)
(* commands in TopFrame.cpp, Toolbar.cpp and Controller.cpp).                *)
(*                                                                         *)
(* Breakpoints, watches, flags, the mask of types that the variable views    *)
(* show, host and start function are one value. Most changes of it say that  *)
(* the project is dirty; one of the mask never does, nor a text that is      *)
(* pasted with the mouse.                                                   *)
(***************************************************************************)
EXTENDS Orders, SequencesExt

CONSTANTS
  Projects,  \* paths of project files
  Files,     \* Lua files
  Vanishing, \* those that may be deleted (bound)
  MaxMRU,    \* PROJECT_MRU_MAX
  Untitled,  \* no m_ProjectCfn
  Absent,    \* no such file
  Newer,     \* a file of a later version
  Torn       \* what a failed write left

ASSUME ProjectAssumption == Vanishing \subseteq Files /\ MaxMRU \in Nat \ {0}

ASSUME PathsAssumption == Untitled \notin Projects

VARIABLES
  content,    \* in memory: sources and the rest
  silent,     \* while clean, it has changed without a word (history)
  proj,       \* m_ProjectCfn
  dirty,      \* m_DirtyFlag
  due,        \* the "proj_prefs" timer runs
  disk,       \* the project files
  gone,       \* the Lua files that are no longer on disk
  bookmarks,  \* m_ProjectBookmarks
  menu,       \* the entries of the menu of recent projects
  rebuild,    \* RebuildProjectMRUMenu() is posted
  stored,     \* the bookmarks in the UI prefs file
  uiDue,      \* the "ui_prefs" timer runs
  over        \* what ended the client: "closed" or a failed assert; or ""

mru == <<bookmarks, menu, rebuild, uiDue>>
vars == <<content, silent, proj, dirty, due, disk, gone, mru, stored, over>>

Contents == [sources : SUBSET Files, rest : {0, 1}]
NoContent == [sources |-> {}, rest |-> 0]

\* What is in a file can be told from there being none.
ASSUME DiskAssumption ==
  {Absent, Newer, Torn} \cap Contents = {} /\ Absent \notin {Newer, Torn} /\ Newer # Torn

\* What loading a file gives: sources that are gone are skipped, and nothing else.
Readable(c) == [c EXCEPT !.sources = @ \ gone]

Loaded == proj # Untitled

Init ==
  /\ disk \in [Projects -> {Absent, Newer, [sources |-> Files, rest |-> 1]}]
  /\ content = NoContent /\ silent = FALSE /\ proj = Untitled /\ dirty = FALSE /\ due = FALSE
  /\ gone = {} /\ bookmarks = << >> /\ menu = << >> /\ rebuild = FALSE
  /\ stored = << >> /\ uiDue = FALSE /\ over = ""

-----------------------------------------------------------------------------
(* Pieces of the handlers.                                                 *)

\* The timer is restarted only if it runs.
Fault_SetDirty == dirty' = TRUE /\ due' = due
\* SetDirty(): the timer is started by the first change only.
SetDirty == dirty' = TRUE /\ due' = (due \/ ~dirty)

\* The flag is left as it is.
Fault_SetClean == UNCHANGED <<dirty, due>>
\* CloseProject(): DestroyAllSFCs() says dirty, then the flag is cleared; the timer
\* goes on.
SetClean == dirty' = FALSE /\ due' = (due \/ ~dirty)

\* Sources, breakpoints, watches, host and start go; the flags and the mask stay.
Closed == {[sources |-> {}, rest |-> r] : r \in {0, content.rest}}

\* AddProjectMRUEntry(): to the front, once, and clamped.
WithBookmark(p) ==
  LET all == <<p>> \o Those(bookmarks, Projects \ {p})
  IN SubSeq(all, 1, IF Len(all) > MaxMRU THEN MaxMRU ELSE Len(all))
\* The menu cannot be rebuilt by the handler of its own event, and is later.
AddProjectMRUEntry(p) ==
  bookmarks' = WithBookmark(p) /\ rebuild' = TRUE /\ uiDue' = TRUE /\ UNCHANGED menu

\* The end of the process, by an assert or by closing the frame, takes its memory along.
Ends(how) ==
  /\ over' = how
  /\ content' = NoContent /\ silent' = FALSE /\ proj' = Untitled /\ dirty' = FALSE /\ due' = FALSE
  /\ bookmarks' = << >> /\ menu' = << >> /\ rebuild' = FALSE /\ uiDue' = FALSE
  /\ UNCHANGED <<disk, gone, stored>>

\* DestroyAllSFCs(): the list of sources is drawn after each, in the order of a hash map,
\* and asserts that those left exist.
CloseProjectFails ==
  /\ Cardinality(content.sources) > 1 /\ content.sources \cap gone # {}
  /\ Ends("assert(FileExists)")
CloseProject == Cardinality(content.sources \cap gone) <= 1 /\ SetClean /\ silent' = FALSE

\* LoadProject(), up to its result: closes, and takes the name before it reads the
\* file. The flag is held meanwhile, so that nothing loaded asks for a save.
LoadProject(p, ok) ==
  /\ CloseProject /\ proj' = p
  /\ \/ ok = FALSE /\ disk[p] \in {Newer, Torn} /\ content' \in Closed
     \/ ok = TRUE /\ disk[p] \in Contents /\ content' = Readable(disk[p])
     \/ ok = TRUE /\ disk[p] = Torn /\ content' \in {Readable(c) : c \in Contents}
\* Its asserts.
LoadProjectFails(p) ==
  \/ CloseProjectFails
  \/ disk[p] = Absent /\ Ends("assert(fis.IsOk())")
  \/ disk[p] = Torn /\ Ends("assert(sig)")

\* GetRelativePath() asserts that the file exists.
GetRelativePath(f) == f \notin gone
GetRelativeSFCPaths == \A f \in content.sources : GetRelativePath(f)

\* SaveProject(), of a project with a name: nothing is written if a source is gone, or
\* the file cannot be opened. The project is clean whether all is written or not. The
\* timer is left alone, or has lapsed.
SaveProject(p, timer) ==
  \/ ~GetRelativeSFCPaths /\ Ends("assert(FileExists)")
  \/ /\ GetRelativeSFCPaths
     /\ proj' = p /\ \E written \in {content, Torn} : disk' = [disk EXCEPT ![p] = written]
     /\ silent' = FALSE /\ dirty' = FALSE /\ due' = timer
     /\ AddProjectMRUEntry(p)
     /\ UNCHANGED <<content, gone, stored, over>>
  \/ GetRelativeSFCPaths /\ Ends("assert(fos.IsOk())")

-----------------------------------------------------------------------------
(* Actions. What the user does comes after the calls that were posted.     *)

UserEvent == over = "" /\ ~rebuild

\* A source added, by menu or drop; one already there is skipped.
DroppedFile == {[content EXCEPT !.sources = @ \cup {f}] : f \in Files \ (gone \cup content.sources)}
\* One taken out with its breakpoints, or a breakpoint clicked.
EditedSource ==
  {[sources |-> content.sources \ {f}, rest |-> r] : f \in content.sources, r \in {0, 1}}
    \cup {[content EXCEPT !.rest = 1 - @] : f \in content.sources}
\* A watch edited, of which a blank name adds none.
EditedWatch == {content, [content EXCEPT !.rest = 1 - @]}
\* A flag toggled, the host or the start function typed.
ToggledFlag == {[content EXCEPT !.rest = 1 - @]}

\* The list of sources is drawn again at once, and asserts that they exist.
ChangeProject ==
  /\ UserEvent
  /\ \E c \in DroppedFile \cup EditedSource \cup EditedWatch \cup ToggledFlag :
       \/ c.sources \cap gone # {} /\ Ends("assert(FileExists)")
       \/ /\ c.sources \cap gone = {}
          /\ content' = c /\ SetDirty /\ silent' = FALSE
          /\ UNCHANGED <<proj, disk, gone, mru, stored, over>>

\* A type hidden or shown in the variable views, or a text pasted with the mouse.
SetFlag ==
  /\ UserEvent
  /\ content' = [content EXCEPT !.rest = 1 - @] /\ silent' = ~dirty
  /\ UNCHANGED <<proj, dirty, due, disk, gone, mru, stored, over>>

\* OnSavePrefsTimerLapsed(): without a name only the title is set, and the flag stays.
SavePrefsTimerLapsed ==
  \/ Loaded /\ dirty /\ SaveProject(proj, FALSE)
  \/ /\ ~Loaded \/ ~dirty
     /\ due' = FALSE
     /\ UNCHANGED <<content, silent, proj, dirty, disk, gone, mru, stored, over>>

\* The delayed call of SetDirty().
OnSaveProjectPrefs == over = "" /\ due /\ SavePrefsTimerLapsed

\* The name is taken before anything is saved.
PromptSaveNewProject == Projects
\* "Save Project", which asks for a name if there is none.
OnSaveProject ==
  /\ UserEvent
  /\ \E p \in IF Loaded THEN {proj} ELSE PromptSaveNewProject : SaveProject(p, due)
\* "Save Project As".
OnSaveProjectAs == UserEvent /\ \E p \in PromptSaveNewProject : SaveProject(p, due)

OnCloseProject ==
  /\ UserEvent
  /\ \/ CloseProjectFails
     \/ /\ CloseProject /\ content' \in Closed /\ proj' = Untitled
        /\ UNCHANGED <<disk, gone, mru, stored, over>>

\* "Open File(s)": a file that exists, and assert(ok).
OnOpenProject(p) ==
  /\ UserEvent /\ disk[p] # Absent
  /\ \/ LoadProjectFails(p)
     \/ disk[p] \in {Newer, Torn} /\ Ends("assert(ok)")
     \/ /\ LoadProject(p, TRUE) /\ AddProjectMRUEntry(p)
        /\ UNCHANGED <<disk, gone, stored, over>>

\* The entry's place in the menu picks the bookmark, whose file may be gone since.
OnMRUMenuSelected(i) ==
  /\ UserEvent
  /\ LET p == bookmarks[i]
     IN \/ LoadProjectFails(p)
        \/ LoadProject(p, FALSE) /\ UNCHANGED <<disk, gone, mru, stored, over>>
        \/ /\ LoadProject(p, TRUE) /\ AddProjectMRUEntry(p)
           /\ UNCHANGED <<disk, gone, stored, over>>

OnMRUMenuClear ==
  /\ UserEvent
  /\ bookmarks' = << >> /\ rebuild' = TRUE /\ uiDue' = TRUE
  /\ UNCHANGED <<content, silent, proj, dirty, due, disk, gone, menu, stored, over>>

RebuildProjectMRUMenu ==
  /\ over = "" /\ rebuild
  /\ menu' = bookmarks /\ rebuild' = FALSE
  /\ UNCHANGED <<content, silent, proj, dirty, due, disk, gone, bookmarks, uiDue, stored, over>>

SaveUIConfig ==
  /\ over = "" /\ uiDue
  /\ stored' = bookmarks /\ uiDue' = FALSE
  /\ UNCHANGED <<content, silent, proj, dirty, due, disk, gone, bookmarks, menu, rebuild, over>>

\* The timers are stopped, and nothing is saved: neither project nor bookmarks.
OnCloseEvent == UserEvent /\ Ends("closed")

\* The group is read back entry by entry.
LoadUIGroupEntries == stored
\* Bookmarks of files that are gone are skipped.
SetProjectBookmarkList ==
  /\ bookmarks' = Those(LoadUIGroupEntries, {p \in Projects : disk[p] # Absent})
  /\ rebuild' = TRUE

\* The client started again, with a project on the command line or without.
Relaunch ==
  /\ over # ""
  /\ \/ /\ SetProjectBookmarkList
        /\ \/ UNCHANGED <<content, silent, proj, dirty, due>>
           \/ \E p \in Projects, ok \in BOOLEAN : LoadProject(p, ok)
        /\ over' = ""
        /\ UNCHANGED <<disk, gone, menu, uiDue, stored>>
     \/ \E p \in Projects : disk[p] # Absent /\ LoadProjectFails(p)

\* Other programs: a Lua file deleted, a project file deleted, or replaced by that of a
\* later version.
FileChanged ==
  /\ \/ \E p \in Projects \ {proj} :
          disk' \in {[disk EXCEPT ![p] = Absent], [disk EXCEPT ![p] = Newer]} /\ UNCHANGED gone
     \/ gone' \in SUBSET Vanishing /\ gone \subseteq gone' /\ UNCHANGED disk
  /\ UNCHANGED <<content, silent, proj, dirty, due, mru, stored, over>>

Next ==
  \/ ChangeProject \/ SetFlag \/ OnSaveProjectPrefs \/ OnSaveProject \/ OnSaveProjectAs \/ OnCloseProject
  \/ \E p \in Projects : OnOpenProject(p)
  \/ \E i \in DOMAIN menu : OnMRUMenuSelected(i)
  \/ OnMRUMenuClear \/ RebuildProjectMRUMenu \/ SaveUIConfig
  \/ OnCloseEvent \/ Relaunch \/ FileChanged

\* The event loop runs its timers.
Fairness == WF_vars(OnSaveProjectPrefs)

Spec == Init /\ [][Next]_vars /\ Fairness

-----------------------------------------------------------------------------
(* Properties.                                                             *)

BookmarkLists == {list \in Seq(Projects) : IsInjective(list) /\ Len(list) <= MaxMRU}
\* The variables have their types; bookmarks are distinct and not too many.
TypeOK ==
  /\ content \in Contents /\ silent \in BOOLEAN /\ proj \in Projects \cup {Untitled}
  /\ dirty \in BOOLEAN /\ due \in BOOLEAN /\ uiDue \in BOOLEAN /\ rebuild \in BOOLEAN
  /\ disk \in [Projects -> Contents \cup {Absent, Newer, Torn}] /\ gone \subseteq Vanishing
  /\ bookmarks \in BookmarkLists /\ menu \in BookmarkLists /\ stored \in BookmarkLists
  /\ over \in {"", "closed", "assert(ok)", "assert(sig)", "assert(fis.IsOk())", "assert(fos.IsOk())",
               "assert(FileExists)"}

\* While a project that has been loaded or saved differs from what its file would load
\* as, its save is due: a change is told to SetDirty(), whose early return relies on the
\* timer of the first change, which a save, a load and a close must leave true. Two
\* things are excepted, of which the project is not told: a mask toggled or a text pasted
\* while it is clean, and a file whose write failed.
UnsavedIsDue ==
  LET Saved(c) == [Readable(c) EXCEPT !.rest = IF silent THEN 0 ELSE @]
  IN (Loaded /\ disk[proj] \in Contents /\ Saved(content) # Saved(disk[proj])) => dirty /\ due

\* A project with a name does not stay dirty, however much is changed: the delay is not
\* started again. (SetDirty(), OnSavePrefsTimerLapsed()) What it ends in may be the assert
\* of a source that is gone, with nothing saved.
EventuallySaved ==
  \A p \in Projects : proj = p /\ dirty ~> ~dirty \/ proj # p

-----------------------------------------------------------------------------
(* Why the save is due. *)

\* While the project has a name, a change waits for its timer; and the menu shows the
\* bookmarks whenever it can be used.
ProjectInv ==
  /\ TypeOK /\ UnsavedIsDue
  /\ Loaded /\ dirty => due
  /\ ~rebuild => menu = bookmarks
=============================================================================
