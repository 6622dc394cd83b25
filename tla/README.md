# ddt3, specified: a remote Lua debugger in TLA+

ddt3 is a graphical debugger for Lua in two processes. The **daemon** hosts a
Lua VM, runs the program and stops it in a debug loop. The **client** (a
wxWidgets IDE with some JUCE panes) keeps a project of sources, breakpoints and
watches, ships them to the daemon over TCP, shows stack, variables and memory at
a pause, and says how to go on. This directory holds TLA+ modules of the two, the
TLC configurations that check them, and TLAPS proofs about nine of them: the debugger
core, the session on the wire, the byte stream under it, the log, and the sources, marks,
panes, project and variable views of the client.

## Inventory

| Component | State it keeps | Operations | Talks to | What must be right |
|---|---|---|---|---|
| Debugger core, `Daemon/src/LuaGlue.cpp` | Lua hook and saved hook type, breakpoint lists and line table, entry lock, abort level, resume command, last error | hooks, `error`/`assert`/`breakpoint` overrides, error handler, `pcall`, `loadfile`, debug loop, resume, abort, profiler toggle | Lua VM (callbacks, `longjmp`), daemon (read and send) | finds exactly the live breakpoints, is armed when told to run, never re-enters, an abort is final and thrown only where it is caught |
| Load overrider, `LoadOverrider.cpp` | files sent and instantiated | `require` of project sources | core (load, `pcall`, breakpoints) | breakpoints of a file loaded late come alive |
| Session, `main.cpp`, `Daemon.cpp` | session phase | accept, setup loop, start, clean up and loop | TCP, core | sessions do not leak into each other; ends with its client |
| Profiler glue, `DaemonJIT.cpp` | profiler and JIT flags | toggle | LuaJIT, core | no hook under the profiler |
| TCP, `ServerTCP.cpp`, `ClientTCP.cpp`, `Client.cpp` | sockets, a reader thread and its future | connect, write, read in pieces (synchronous, asynchronous), close | each other | messages arrive whole and in order; one reader of a socket at a time; loss is noticed |
| Messages, `CommonClient.cpp`, `CommonDaemon.cpp`, `Collected.cpp` | none | write and read each record field by field | both programs | read as written; lines mean the same on both sides |
| UDP log, `ServerTCP.cpp`, `ClientTCP.cpp`, `OutputTextCtrl.cpp`, `SoloLogFrame.cpp` | queue, mutex, timer thread; receiver thread; two windows | queue, flush, receive, show | every thread that logs | nothing stuck in the queue; shown once and in order |
| Client frame, `TopFrame.cpp`, `Controller.cpp`, `Toolbar.cpp` | init level, toolbar flags, posted events, timer, message queue | toolbar and keys, dispatch of daemon messages, synchronous requests | TCP, views, editors | knows whose turn it is; replies meet requests; never waits for a daemon that waits for it |
| Variable collectors, `VarCollectors.cpp`, `Stack.cpp` | none between pauses | collect locals, upvalues, globals, watches, one variable, arguments, the stack | Lua stack | each row under its table |
| Variable views, `VarView*.cpp`, `TraceBackList.cpp` | rows, expanded tables, last values, type buttons | request, show, sort, expand, edit watches | frame (posted events), JUCE thread | show this pause and this frame |
| Hover, `TopNotebook.cpp`, `StyledSourceCtrl.cpp` | cache, requests made, daemon tick | solve, receive, tip | frame | no value of an earlier pause |
| Memory view, `MemoryViewCtrl.cpp` | bytes, mode, selection | redraw in hex or ASCII | views | the dump is of the bytes |
| Sources and notebook, `Controller.cpp`, `SourceFileClass.cpp`, `TopNotebook.cpp`, `StyledSourceCtrl.cpp` | registry, order, a text and flags each, pages, one shared editor | drop, load, show, hide, edit, save, delete, reset | lists, files | editor follows the selected page; no text is lost |
| Breakpoints and marks, `BreakpointsListCtrl.cpp` and the same | a set of breakpoints, marks that move with the text | toggle, list, delete, show | sources | go with their source; marks show them |
| Function list, `FunctionsComponent.cpp` | bookmarks, on two threads | scan, list, click | editor | lists the source shown, rows lead to it |
| Project, `ProjectPrefs.cpp`, `WatchBag.cpp` | project file, dirty flag, delayed save, recent projects | load, save, close, relaunch | files | what is changed gets saved |
| Panes, `BottomNotebook.cpp` | three books, splitters, a drag | show, hide, drag, shift, reset | prefs | no pane is lost; the layout is saved |

The hard behaviours: a Lua callback that reads the network and leaves by
`longjmp` (`OnDebuggerEntry`, `DoInternalAbort`); state that outlives a session
(`ExitLuaHooks` keeps two lists); a client that sets its level from messages,
from a timer that hands over what a thread has read, and from events it posts to
itself; a synchronous read on the UI thread beside that thread; delayed saves,
scans and redraws that meet a state changed since; a second GUI thread (JUCE)
that gets copies; lists drawn again under the loop that walks them; files that
vanish; a peer that dies at any point. `PROJECT.json` lists them line by line
under "hazards".

## Modules

| Module | Role |
|---|---|
| `Debuggee` | abstract: sessions that run and pause in turns; once doomed, never paused again |
| `LuaGlue`, `LuaGlueProofs` | the debugger core, one daemon process, several sessions; the program and the client are free; its theorems |
| `Channel` | abstract: messages arrive whole and in order until the reader gives up |
| `Stream` | one direction of the connection in pieces, with each of its three readers; implements `Channel` |
| `Wire` | both directions, message by message: sockets, closes, lost writes |
| `DaemonSession`, `ClientFrame` | the two ends on the wire |
| `RemoteDebug`, `RemoteDebugProofs` | both composed over the wire; its theorems |
| `Format` | the fields of every message as one side writes and the other reads them |
| `Exchange` | a session through the contents of its messages |
| `ConnectionProofs` | the theorems of `Stream` and of `Exchange` |
| `Collect` | what a stopped program's variables are collected to |
| `Dump` | what a memory view makes of bytes |
| `Inspect` | the views of a stopped program over several pauses; uses both |
| `WorkspaceProofs` | the theorems of `Inspect`, `Collect` and `Project` |
| `Orders` | numbers in ascending order, and the entries of a list that are kept |
| `Sources`, `SourcesProofs` | sources, pages, the editor, breakpoints, their lists |
| `Marks`, `MarksProofs` | lines: marks, cursor, function list, locations |
| `Project` | the project, its file, delayed saves, recent projects |
| `Panes`, `PanesProofs` | the pane layout and its delayed save |
| `LogWindows`, `Log`, `LogProofs` | the windows of the log; the log from the daemon to them |
| `MC...` | what TLC runs |

`LuaGlue` and `DaemonSession` look at the daemon from the Lua VM's side and from
the network's side. Both are checked to implement `Debuggee`, the one promise
they share, and proved to. `Stream` implements `Channel`, which is what `Wire`
takes for granted: it moves whole messages. `Exchange` takes the order of
messages from the session and adds what is in them; `Inspect` takes the level and
the answers from it and adds what is made of them.

### LuaGlue against the code

Variables carry the members' names (`AllSavedBreakpoints` is
`m_AllSavedBreakpoints`, and so on). `at` is where `main()` is: in the setup
loop, loading, in the outer chunk's pcall, between the two pcalls, in the start
function's, or cleaning up; or how the process ended, a failed assert by its
text. `depth` counts the activations of `LuaGlue::pcall` on the C stack, nested
by `require`. `entry` is the `ENTRY_TYPE` while `OnDebuggerEntry` reads.

- A hook that does not stop changes nothing, so only hooks that enter the
  debugger or change the hook are steps: `HookFires`, `StepLeavesFunction`.
- `EnterDebugger` is the part of `OnDebuggerEntry` before its read loop,
  `Resume` and `ReadFails` are rounds of the loop that leave it,
  `SaveAllBreakpoints` one that does not. Requests for variables change nothing
  here and are left to `DaemonSession`.
- `DoInternalAbort` throws: to the innermost `LuaGlue::pcall`, or to a protected
  call of the program's own, which may swallow the error. Whether the unwinding
  runs the entry lock's destructor depends on the build of Lua (C or C++), so the
  lock is either free or still held.
- `LineLUT` keeps what `UpdateFastBreakpoints` keeps when it resizes the table.

Left open: which line a step over or out reaches. Left out: `m_pcallRecurseLock`,
file notifications, logs; the Lua 5.2 build is modelled, LuaJIT only where a flag
changes the hook.

### RemoteDebug against the code

A message is a `CLIENT_MSG` or `DAEMON_MSG`, a resume also its command
(`STEP_OUT` as `STEP_OVER`, which differ in the hook only). `level` is
`INIT_LEVEL`; `tools` are the enabled flags as last set by
`UpdateToolbarState`, so they can be stale; `reader` is the asynchronous read,
its result included (the timer runs exactly while it is not `"none"`); `posted`
and `queue` are the events posted by `wxQueueEvent` and `m_ClientQueue`; `ui`
says whether the UI thread is in its loop, in a synchronous read, or ended by
which assert. `dialog` is the modal dialog of a locked editor: user input is
shut out, timers and posted events go on.

- `WaitForNewMessage`, `SendAndWait`, `ResumeExecution` are pieces of the
  handlers `ToolConnect`, `ToolStartRun`, `OnStep`, `OnToolStop`, which take all
  the writes of a handler in one step: the daemon cannot answer a handler before
  it has handed over to the reader, so nothing happens in between but a loss,
  which `WriteFails` covers.
- `OnAsyncReadTimerDone` dispatches the message and reads on unless the client
  has its turn, as the code does. `OnIncomingMessage` takes what a synchronous
  read queued.
- `ReadMessage` and `ReadMessagePolls` are the two outcomes of a round of
  `ClientTCP::ReadMessage`.
- A write to a daemon that is gone is accepted or fails, at random: TCP tells
  late. A close may take what the peer has not read.

The constant `Environment` says what the world may do. `"kill"`: the daemon's
process dies. `"load_error"`: sources with syntax errors. `"overtake"`: native
events (keys, timers) may be handled before events posted earlier, as GTK's
idle-driven queue does; without it posted events come first, as on Windows.
`"locked"`: editors are
read-only in a session, as `SetLockFlag` means them to be. Step keys and the stress test
are not a matter of the environment: they are there whenever the code enables them, also
before the program is started and in a session, and the properties state what comes of
it. `early` remembers a step sent before the start, and that it was refused.

Left out: startup structures that are not OK (the client refuses to send them, so
`NOTIFY_SYNC_FAILED` is never sent), UDP logs (see `Log`), highlights, and
the data of messages (see `Exchange`, `Inspect`). A second reader of the socket is a data race and ends the
model in the state `"two readers"`.

### Stream, Format and Exchange against the code

A body is a number of units and a header is one; `ReadSome` reads any part of
what has arrived, up to what the reader in question asks for: the daemon what
remains, the client's two readers up to a whole body (`ClientTCP.cpp:688`). That
the latter never eats the next header is not a fact about one reader: it holds
because the daemon does not write ahead of a reply that is being read, and `Stream`
models that. `"abort"`, `"spin"` and `"failed"` are what each reader makes of the end
of the stream.

In `Format` a message is a record, a stream a sequence of cells without names, and
every type has two schemas, the order of the `<<` of one program and that of the `>>`
of the other, each translated from its own lines. `Exchange` writes with one and
reads with the other along a session: platform, breakpoints, sources with their byte
order mark and `#` line taken out, stack, variables, errors, notifications. The user
edits and saves sources at any time, in a session too; `started` remembers what they were
at its start.

### Collect, Dump and Inspect against the code

A stopped program is frames, upvalues and a heap of tables. `DumpLuaTableRecursive` opens
a table as soon as it meets it; `Rows` of `Collect` opens the tables of one depth after
those of the depth before, which leads to the same rows, for what is opened is put
behind its row. `Dump` computes the layout `RefreshHexDump` prints,
positions included, and its reference says what each line must show.

In `Inspect` a request is answered at once, for the UI thread waits for the answer
(`RemoteDebug` has the waiting); what a view does with it waits in `wx` or `juce`, the
events of each thread. `now` numbers the pause. `Ranked`, `AutoSorted` and the rest
are the phases of `VarViewCtrl::SetVariables`. `Event`s come in the order they were
posted; user actions are taken when at most `MaxEvents` wait. A pause is taken in after the
panes were told to empty themselves at the end of the last session: these are events posted
before, while the message is read by a thread and handed over by a timer
(`WaitForNewMessage`, `OnAsyncReadTimer` of `TopFrame.cpp`).

### Sources, Marks, Project and Panes against the code

`Sources` keeps a text as the number of edits in it, so that a text lost is a number
changed. `later` is what `CallAfter` and `MixDelay` put off. A failed assert ends the
client in `over`, named by its text: files that vanish, capitals in names, an emptied
text, and the broken iterator of `HideAllSFCs` all end there, and every action asks
for `over = ""`. `Marks` has the lines that `Sources` leaves out: texts are sequences
of lines that insertions and deletions shift, marks move with them, breakpoints do not.
`apart` is history: an edit has moved a mark, or given a breakpoint's line another text,
since the marks were last set. So are `cached`, the age of the text in the cache, and the
same number on the lists and locations made of it (`of`): `RowsLeadToFunctions` asks a row
for its function if no line came or went since. A list that is sent before
`FunctionsComponent` is connected (`Rebind`) is lost until the next edit or tab (`missed`).

`Project` takes breakpoints, watches, flags, mask, host and start function as one value.
Most changes of it say the same (`ChangeProject`); a type hidden in the variable views and
a text pasted with the mouse say nothing (`SetFlag`), and the history `silent` tells that
this has happened to a clean project. A write may fail, which leaves a `Torn` file and a
clean project. A close may meet a source that is gone and end the client, as in `Sources`.
The timers of both prefs files are kept.
`Panes` has the places of panes and which books are hidden, not sash positions; pane 0 is
the output, and three of the eleven panes are enough to share, fill and empty books.

### Log against the code

Each step is a piece between two holds of a mutex. A forced flush is made by the
thread that logs, with the mutex held; another by the timer's thread. A batch is two
datagrams, and either send may fail, for its size or any other reason: the thread that
reports it stays in its own mutex (`"stuck"`). UDP gives no order and the code numbers
nothing: the receiver may take any datagram that was ever sent, so one may be lost, come
late, or come twice. It takes a body for a header and ends, as `ReceiveBulkMessage` does; a
header for a body ends it too, and a body of another size may be a wild read. A body of the
same size as the one announced is taken for it, whosever it is, and so messages can be out of
order or shown twice (`mixed`): `ShownInOrder` claims the order of arrival always, and the
order logged unless that happened. The windows are called by every thread, and the list's map
of threads is changed without its lock (`OutputTextCtrl.cpp:266`): two at once end the model
in `ruined`. The list is drawn in two steps, of which each reads the number of rows without
the lock (276-288, 106): rows appended between the two may end the model likewise.

## Runs

| Run | Shows | Bounds |
|---|---|---|
| `LuaGlue` | all safety properties of the core, its inductive invariant, its refinement of `Debuggee`, and that a lost client releases the pause and the process | two files, two lines, pcalls nested twice |
| `LuaGlueRequire` | fails: a syntax error in a required file meets an assert | two files, one line |
| `RemoteDebug` | turns, one reader, matching replies, nothing unexpected, no mutual wait, each but for what early steps and stress tests in a session do; synchronous reads return; refinement of `Debuggee`; a loss is noticed | load errors, locked editors; the daemon killed and relaunched; not `"overtake"` |
| `StressInSession` | fails: a stress test in a pause meets an assert | the same |
| `Stream` | readers stop only at a closed end, implement `Channel`, deliver | three messages of up to three pieces, each reader |
| `Exchange` | every message is read as it was written; Lua's lines are those of the start | three projects of two or three sources, stacks of one and two frames, seven messages of the client |
| `Inspect` | views, call stack, tips and dump are of this pause; tables stay whole | four programs, two pauses, two waiting events, two uses |
| `Sources` | editor and pages agree, breakpoints have sources, texts are kept, deletions hit what is selected | three sources, of which one has a capital, one is read-only, one is edited and may vanish |
| `Marks` | marks are the breakpoints, rows of functions lead to them, the list follows | two sources, three lines, one edit |
| `Project` | what is unsaved is due, but for silent changes and failed writes, and saved | two projects, two sources, both of which may vanish |
| `Panes` | hidden books return, the layout is saved | three panes in three books |
| `Log` | log is sent, shown, and shown in order | three messages of the daemon, or one and two logging threads of the client, or one restart; four datagrams received |

Why the bounds are enough. Two files make a loaded and a not yet loaded one, and
a breakpoint in each; two lines make a table that shrinks and grows; two nested
pcalls make a `require` inside the chunk, and the proof holds for every nesting.
In `RemoteDebug` nothing but `MaxPosted` is bounded: without `"overtake"` the event
queue stays short by itself and the wire holds what the two programs put there. Three
units of a body can be cut into a first, a middle and a last piece, and three messages
put one in front of and one behind the one being read. Three sources give a page before, at
and after the selected one, and three rows a list that a deletion shifts. Two pauses
give an earlier and a later one, the two events one that is late and one behind it. Three
panes in three books make books that are empty, full and shared. Of three log messages
two small ones pass the limit of the count and fit a datagram, so that they are flushed ahead
of a timer that runs, and the third has only that timer; a small and a large one do not fit.
Four datagrams are two batches in any order, or one of them twice. One edit shifts a mark, and an undo is an edit back.

No run lists the inductive invariants but `IndInv` of `LuaGlue`, nor the `TypeOK` of the
modules: the theorems state them. Each of them (`SessionInv`, `DeliveryInv`, `SourcesInv`,
`MarksInv`, `RowsInv`, `ProjectInv`, `PanesInv`, `LogInv`, `InspectInv`, `BlockInv`, `DumpInv`, with the module's `TypeOK`) was checked by TLC with the
constants of its run before it was proved, and holds there when it is added to the
configuration.

What the passing runs cannot see is written into what they leave out. `"overtake"` is
in no run, for its state space is too large (over ten million states with the bounds
of the run); the proof of `SessionRefinement`
and that of `SessionTypes` cover it. `ReadMessageReturns` is about a daemon that lives. In every client module a failed assert is an end, and the
properties are about clients that have not met one.

### Fairness

`LuaGlue`: weak fairness of the daemon's own steps, a thread that is scheduled;
nothing of the Lua program, which may loop for ever, or of the client.
`RemoteDebug`: weak fairness of the daemon's thread, of the reader thread, of
posted events and of a synchronous read whose message is there; strong fairness
of the asynchronous timer, because the event loop takes its sources in turn and a
timer due again and again is served though user events keep interrupting. The
end of a process closes its socket. `Stream`: a reader with something to read and a
writer within a message. `Log`: threads run, a free mutex is given to the timer's
thread, event loops handle what is posted. `Project`: the event loop runs its timers;
nothing ever starts the delay again. `Marks`: posted calls run, timers fire, the other
thread's loop goes on. The user, the program, the network and the hosts are free.

## Proofs

`LuaGlueProofs` proves, for every set of files and lines and every nesting, with
`StartFileAssumption`, `LinesAssumption` and `MaxNestAssumption`:

| Theorem | Property |
|---|---|
| `Invariance` | `TypeOK /\ IndInv` always |
| `TypeCorrect` | `TypeOK` |
| `EntryLockIsSafe` | `NoReentry` |
| `AbortNeverPanics` | `NoPanic` |
| `BreakpointsAreFound` | `BreakpointsFound` |
| `RunIsArmed` | `RunKeepsBreakpoints` |
| `ProfilerIsQuiet` | `ProfilerSilencesHooks` |
| `AbortIsFinal` | `AbortSticks` |
| `Refinement` | `ImplementsDebuggee` |

The argument. `BreakpointsFound` is not inductive: it speaks of running programs,
while the lists are changed at pauses, between sessions and by a load. `IndInv`
adds, part by part, what every step needs:

- `StackInv`: pcalls are active exactly in the two program phases, and a pause is
  in one of them or that of a failed load. This bounds `depth` from below, so a
  return never underflows and an abort in a program phase always has a catcher.
- `EntryInv`: a pause holds the lock and is not aborted; a lock held outside a
  pause means an aborted session, whose entries return before the assert; the
  last error is `LOAD_FILE_ERROR` at the pause of a failed load only, so an abort
  there returns and any other throws.
- `ListInv`: once a source is loaded the set is the saved breakpoints in loaded
  files; and the table covers the set always, also between sessions, where the
  set itself is stale.
- `HookInv`: the Lua hook is the one last chosen except under the profiler or in
  an aborted session; and what was chosen serves the breakpoints.

`NextType`, `NextControl`, `NextList` and `NextHook` show each part kept, with one
step per action; `NextInv` joins them. TLC checks `IndInv` in the run `LuaGlue`.

`RemoteDebugProofs` has two results about different hypotheses.

`SessionRefinement` proves `ImplementsDebuggee`, and `SessionTypes` proves `TypeOK`, for every
`Environment` and `MaxPosted`, which is more than TLC shows. The invariant of the first is `AbortInv`: an aborted session is
running or cleaning up; without it a resume could clear the abort and pause again. Client
steps and messages never matter to it, so the theorem holds against a client that
breaks the protocol.

`TurnsAreTaken`, `RepliesAreMatched`, `NothingIsUnexpected` and `NobodyWaitsForBoth` prove
`TurnTaking`, `RepliesMatch`, `NothingUnexpected` and `NoMutualWait` under `Orderly`:
no `"overtake"` in `Environment`. The hypothesis is
needed: TLC finds `TurnTaking` violated without it. Deaths of
the daemon, load errors, locked editors, step keys before the start and stress tests stay in.
`SessionInvariant` proves the inductive
`SessionInv`: `Ruined`, a session a stress test has broken, whose daemon never answers the
echo, or `Served`, whose parts say

- `FrameInv`, `EventsInv`: which level, tools, reader and posted events go together;
- `SocketInv`: what a daemon may find to read in each of its phases, so that no phase meets
  a message it has no handler for;
- `SyncInv`: in the client's turn the daemon serves it, and nothing is under way but the
  request of a synchronous read or its reply;
- `AsyncInv`: in the daemon's turn exactly one thing carries it: a message to the daemon, the
  running program, or what the daemon has said and the frame has yet to handle, which may
  be with the reader thread already;
- `LostInv`: the same for a client whose daemon is gone, which reads on what was sent.

`RepliesMatch` and the others are not inductive, since they look at the moment of a read,
and what they need is where the token was before.

The other modules:

| Theorem | Property | For every |
|---|---|---|
| `ConnectionProofs!DeliveryInvariant` | `DeliveryInv` | reader, body size and number of messages |
| `ConnectionProofs!ReadersDoNotStop` | `StopsOnlyIfClosed` | the same |
| `ConnectionProofs!StreamImplementsChannel` | `ImplementsChannel` | the same |
| `ConnectionProofs!ReadAsWrittenAlways` | `ReadAsWritten` | set of projects, breakpoints, stacks and lists of rows, of any length; number of messages |
| `ConnectionProofs!TurnsAlways`, `LinesAgreeAlways` | `Turns`, `LinesAgree` | the same, and any texts |
| `LogProofs!LogInShownOrder` | `ShownInOrder` | number of messages, threads, restarts, any sizes |
| `MarksProofs!MarksTypes`, `MarksStayBreakpoints` | `TypeOK`, `MarksAreBreakpoints` | set of files, text and number of edits |
| `MarksProofs!RowsLead` | `RowsLeadToFunctions` | the same |
| `SourcesProofs!SourcesInvariant` | `SourcesInv` | number of sources, lines and edits |
| `SourcesProofs!EditorFollowsTabs`, `NoStrayBreakpoints` | `EditorShowsSelectedTab`, `BreakpointsHaveSources` | the same |
| `SourcesProofs!TextsAreKept`, `SelectionIsDeleted` | `OnlyEditsChangeTexts`, `DeletesTheSelected` | the same |
| `WorkspaceProofs!ProjectTypes`, `UnsavedStaysDue` | `TypeOK`, `UnsavedIsDue` | set of projects and files, length of the menu |
| `WorkspaceProofs!ShownIsCurrentAlways` | `ShownIsCurrent` | set of programs, words, panes and books; number of starts, pauses, uses and waiting events |
| `WorkspaceProofs!TipsAreOfThisPauseAlways` | `TipsAreOfThisPause` | the same |
| `WorkspaceProofs!BlocksStayWholeAlways` | `BlocksStayWhole` | the same, and any heap and depth of tables |
| `WorkspaceProofs!DumpIsOfTheBufferAlways` | `DumpIsOfTheBuffer` | the same, and any bytes, widths and selected byte |
| `PanesProofs!PanesTypes`, `BooksReturn`, `ChangesAreSaved` | `TypeOK`, `HiddenBooksReturn`, `LayoutIsSaved` | number of panes |

`Stream`. The hard fact is that a client that asks for a whole body again and again never
reads into the next header. `DeliveryInv` says that the units under way follow each other as
they were written (`StreamInv`, by distance, so that a read of any length keeps it), that the
first of them is what the reader expects and the last what the writer wrote last (`EndsInv`),
that the bodies returned are those written (`BodiesInv`), and how far each end is
(`CountersInv`): a daemon's client writes nothing behind a message whose reply it reads.
Each step is then a step of `Channel` or none.

`Exchange`. A stream has no names and no ends, so that a message can be read at all rests on
each of its parts: reading an item out of what was put, whatever follows, gives the item and
what follows. `ItemTaken`, `FlatTaken`, `ListTaken`, `PartTaken` and `BodyTaken` say this of
a string list, a record, a list of records, a part and a whole body, each by induction over the
places that are read: what is left of the stream after `k` of them is what was put of the
others. The source files have no count of their own; `PartTaken` needs that the record read
before has it. With `SchemasAgree` (what one program reads is what the other writes, field
by field and width by width) a message with the fields of its type is read back
(`DaemonReadsIt`, `ClientReadsIt`), and `Written` says that every stream in flight is that of such
a message: each action sends some, and what it sends of what it has read or kept is well formed
again, as the names of a request that come back in an answer.

For `LinesAgree` no start may reach a daemon that has files, though sources are edited at
any time. `Turns` says that
the daemon runs, ends or is dead only while the client waits with nothing in flight
(`Waited`), that nothing goes up while something comes down (`InTurn`), that of the messages of
a request only the last is answered (`BreakpointsFirst`), and that the client of a paused
daemon is at a pause or has yet to read of it, and not of an end (`PauseIsTold`). So a start
is sent, at `CONNECTED` with nothing in flight, to the daemon's setup loop only, and until the
next one the files in flight and those loaded are what the project was then
(`StartsCarrySources`, `LoadedAreSources`).
`SerializedKeepsLines` is about any text: what is blanked is before its first line end. TLC
found the parts of `Turns` to hold on the instance of the run `Exchange` before they were proved.

`Log`. What has arrived is numbered as it came (`arrivals`), and `QueuesInv` says that each
of three queues holds increasing numbers and only later ones than the one it feeds, and all
of them together every number: nothing is lost or shown twice past the socket, whatever the
network did before it. `DaemonInv` says that a datagram holds later messages than those sent
before it and earlier ones than the buffer, whence arrivals are in the order logged as long
as none came after a later one or twice. For the client's own threads `ThreadsInv` counts
what each has given.

`Marks`. The property speaks of marks not moved by an edit, which is the history variable
`apart`. The proof attempt showed that it had to be set too when an edit gives a breakpoint's
line another text, a case that takes three edits and that the run's one does not reach.
`RowsLead` follows the rows from the cached text over the second thread to the cursor:
`RowsInv` says that the cache about to be scanned is the text of the source shown, and
that every row on its way names its function's line in its source's text, both unless a
line came or went; `OpenTexts` that changing tabs only adds lines at the end.

`Project`. A dirty project that is loaded always has its timer (`Loaded /\ dirty => due`), and
that the menu shows the bookmarks unless it is to be rebuilt makes a click on it open the
project shown. While a clean project has changed without a word, `UnsavedIsDue` still
speaks of its sources, of which every change is told. The menus are lists without
repetitions, of length `MaxMRU` at most.

`Panes`. That the types hold is the substance: no pane in two books, one page in front of
each book with pages, and a file whose text `Loaded` reads back as the books it was made of
by `PageList`, which needs an induction along the fold of `Loaded`.

`Sources`. `SourcesInv` adds to the two invariants that the lists show what there is while
the client runs, and that an editor without a source has no text. `SelectionIsDeleted` is the
argument of the comment "delete back to front": a breakpoint's row is the number of those
before it, and the removal of a later one leaves this number as it is. `SortedBreakpoints` is
stated by this rank, and `Ranked` proves that ranks fill the rows exactly.

`Inspect`. `ShownIsCurrent` speaks of the moment at which nothing waits. `InspectInv` says what
holds while something does: a view in front is current, or an event is under way that will
make it so, and the last such event carries this pause and this frame (`Showing`); the client
listens only while the daemon waits, and while it does not know of the pause yet nothing
that asks anything is behind the event that tells of it (`Told`); a cached value, or one
that waits to be cached, is older than the tick or of this pause (`Hovering`). The first attempt failed for a
good reason: with two starts the panes could be told to empty themselves after the pause of the
second, and TLC showed `ShownIsCurrent` violated. The code reads no message before
it has handled what was posted when the session ended, so `Pause` waits for those events.

For `BlocksStayWhole`, `BlockInv` adds that each list that waits is `Whole`: a row of a
table has the root of the row before it and lies under it. Three arguments meet. Opening the tables of
one depth puts rows behind their table and leaves the others in order, by induction on the
depth. Lists of blocks put one behind the other are lists of blocks, whether they are locals,
upvalues, environments or watches (`FlattenIn`). And the auto sort is a bijection, of which
the rank of a row is one more than that of the row before if both have one root: a
block has one kind (`RankedAlike`), so nothing comes between.

For `DumpIsOfTheBuffer`, `DumpInv` says that a dump that is not of the bytes, width and mode of
the view has a redraw waiting, and that what the user clicked has bytes, so that the
last one may be selected (`Len - 1`). The rest is about one dump. In hex a quotient and a remainder
say in which line a byte is, and the digits of two bytes are at least three positions
apart (`DigitsApart`), so the colours are as many as the zeros, two each, by a bijection
(`PairsCounted`); the last line is padded to the length of a whole one (`LastLine`). In text the spans
are those of the first bytes, by induction over the bytes (`SpansMarked`): they are apart, and
cover what is no character and nothing else.

Assumptions on the constants are those the modules state: the files are numbered in the order
of their names and finite in number (`FilesAssumption`), breakable lines are finite
(`LinesAssumption`), no project's contents are the marks of an absent, a newer or a torn file
(`DiskAssumption`), `"daemon"` is not the name of a thread (`ThreadsAssumption`), `PANE_ID_MAX`
is positive, a program's lists start at 1, its tables are in its heap and a function of Lua
is among its frames (`ProgramsAssumption`), the memory behind a row is a list of bytes and the
widths of the view have a greatest (`MemoryAssumption`), `DDT_LUA_HUGE_STRING_LENGTH` is a number
(`HugeAssumption`), what the two programs send of their own - breakpoints,
stacks, rows, projects - are lists of records of the fields that are written
(`BreakpointsAssumption`, `StacksAssumption`, `RowsAssumption`, `ProjectsAssumption`), and the like.
All of them hold of any program and any project.

Induction over data. The library's induction theorems cannot be instantiated, so where
a fact holds for every length it is proved from finite sets: a set with 0 and the successors
of its members has every number, since else the successor would be a one-to-one map of a
finite set into itself that misses 0 (`NaturalsAreReached`). The folds of
`Sources` and `Panes`, the readers of `Format`, the depths of `Collect` and the spans of `Dump` are proved about in
this way. Where a constant's lists have elements of any kind, a sequence is whatever is one of
its own elements (`IsSeq`), and `CatIs`, `TailIs`, `AppendIs` and `FlattenIs` restate the
library's facts for it. Each proof module has the lemmas about `Orders` and sequences
that it needs.

Only model-checked:

- the liveness properties (`LostClientReleases`, `LostDaemonNoticed`, `ReadMessageReturns`,
  `Delivered`, `EventuallySent`, `EventuallyShown`, `FunctionsGetListed`, `EventuallySaved`),
  since `ENABLED` and fairness are out of the prover's reach;
- `TypeOK` of `Log`, of which `LogInv` has the part the order needs.

## Disagreements found

Checked by a run of its own:

1. A syntax error in a required file ends the daemon at
   `LoadOverrider.cpp:226`, after a pause that looked like any other (`LuaGlueRequire`).
   And the stress test, which a menu item starts whenever there is a connection
   (`TopFrame.cpp:1853`), ends the daemon (`LuaGlue.cpp:439`) and then the client
   (`Client.cpp:466`) when it is used in a pause (`StressInSession`); while the program runs
   it reads beside the reader thread.

In the models, and seen by stating the property or setting `Environment`:

2. Step Over and Step Out at the pause of a load error end the daemon at
   `LuaGlue.cpp:1180`: the faked stack has no valid lines (`LuaGlue`: `ResumeDaemon`).
3. `OnLuaSuspended_SYNTH` sets `LUA_PAUSED` although a step already resumed the
   program, where native events overtake posted ones (`TopFrame.cpp:1440`;
   `Environment` with `"overtake"`, `TurnTaking`).
4. Step keys are live before the program is started; the daemon refuses the step, the
   status bar says so, and client and daemon then wait for each other until the user
   disconnects (`Toolbar.cpp:1046`; the exception in `NothingUnexpected` and `NoMutualWait`).
5. The synchronous read does not see the end of the stream and spins on the UI
   thread (`ClientTCP.cpp:658`; drop `server # "open"` from `ReadMessageReturns`).
6. The stop dialog's answer asserts a session that may have ended while it was
   open (`TopFrame.cpp:1290`); not reachable today, for the editors that would open it
   never lock: `AutoMuteStc` puts the unlocked flag back (`Sources`: `lock`). So sources are
   edited and saved under a running program, and the lines it stops at are no longer theirs
   (`Exchange`: `EditProject`; `LinesAgree` with `project` for `started` is violated).
7. An edited source whose tab is left and entered twice counts as clean, and a run
   starts with its old text, although "Save all source files first" (`TopFrame.cpp:1007`).
8. `HideAllSFCs` walks a map that each step clears and fills again
   (`TopNotebook.cpp:183`).
9. A source with a capital in its name cannot be deleted: the maps' keys are in
   lower case, the name is not (`Controller.cpp:545`).
10. Emptying a source fails `assert(end_pos)` (`StyledSourceCtrl.cpp:1422`).
11. Each load of a source adds an empty line at its end (`StyledSourceCtrl.cpp:719`;
    `Marks`: `Loaded`).
12. A project file of a later version is refused, and written over by the next save
    (`ProjectPrefs.cpp:202`).
13. Closing the client saves neither a dirty project nor the recent projects
    (`TopFrame.cpp:662`), and opening a project loses unsaved edits without asking. A change
    of the types shown in the variable views (`VarViewCommon.cpp:82`, where the call is
    commented out) and a host or start function pasted with the mouse (`Toolbar.cpp:837`) do
    not make a project dirty, and a write that fails leaves it clean (`ProjectPrefs.cpp:313`;
    drop `silent` from `UnsavedIsDue`, or its `disk[proj] \in Contents`).
14. `locals_map.insert` keeps the first of two locals of a name, though its comment says
    the last, while `SolveOneVar` finds the last (`VarCollectors.cpp`, `Collect`:
    `Locals`, `SolveOneVar`).
15. Two threads that log for the first time at once change a map without its lock
    (`OutputTextCtrl.cpp:266`; `LogWindows`: `ruined`), and the list's size is read without
    it while threads append (106, 278). Datagrams of the log are not numbered: one that comes
    late or twice is shown late or twice if its size fits (`ClientTCP.cpp:262`; `Log`:
    `mixed`), and a failed send of the daemon locks a mutex twice (`ServerTCP.cpp:569`).
16. The last line of a hex dump whose bytes fill it is padded by a whole line
    (`MemoryViewCtrl.cpp:333`); harmless, since nothing follows.

Smaller ones met on the way: a one-line `#` file without a line end is not blanked
(`Client.cpp:233`); watches and tips always use the first Lua frame, not the selected
one; hovering a field shows what the table's name leads to; a watch of a hidden type
gets no row; the mask of shown types is shared, but only the view whose button was
pressed reloads; a list of functions sent before the pane is connected is lost
(`FunctionsComponent.cpp:186`); the views are not cleared at a resume; adding a watch from a source asks for no reload;
"Clear Log" clears the frame and not the list.

## Not modelled

- The stop condition of step over and step out, and the valid lines of a frame that
  bound it: which line a step reaches is left open in `LuaGlue`.
- Drawing, layout, file dialogs, tab titles, the overlay's animation, columns, folding,
  hiding and colours of the log frame.
- LuaJIT's sampling, the Lua 5.1 loader chain, search path patches.
- File names and the file system library (`FileName.cpp`, `FileSystem*.cpp`): pure input
  and output, hardly used by the debugger, which calls wxFileName.
- What no event reaches: `DoSearch` and user bookmarks (switched off by `#if 0`),
  `FunctionsPane`, `ProjectBreakPoints`, `MappingsFrame` and its directory trees,
  `NavigationBar`, `udpClient.cpp`, the local path bookmarks of the controller,
  handlers of the memory view that are not connected (`ClearVariables`,
  `RequestVarReload`, `OnMouseHover`, `Randomize`), `CheckMemoryWatch`,
  `UpdateVarCheckboxes`, `RemoveAllSourceHighlights`, `Daemon/disabled`,
  `PassThruDebugger.cpp`.
- Lifetimes of objects: `Disconnect()` deletes the receiver its thread may be in.

## Plan

1. Overtaking events: what of the four properties of the session survives them, with the
   weaker invariant it asks for.
2. The step hooks: stop conditions over call, return and line events, against a
   reference on the call depth.

## Running

    tlc -config LuaGlue.cfg MCLuaGlue
    tlc -config Sources.cfg MCSources
    tlapm LuaGlueProofs.tla
    tlapm RemoteDebugProofs.tla

and so on for the other proof modules, each of them in one to five minutes.

Each `X.cfg` runs with `MCX.tla`; `LuaGlueRequire.cfg` with `MCLuaGlue`, `StressInSession.cfg`
with `MCRemoteDebug`. The longest take two to three minutes.
