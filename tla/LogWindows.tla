------------------------------ MODULE LogWindows ------------------------------
(***************************************************************************)
(* The two windows of the client's log. Every thread of the client calls both  *)
(* with what it logs: the list (OutputTextCtrl.cpp), which also gets the        *)
(* daemon's messages and is drawn by JUCE's thread, and the separate frame      *)
(* (SoloLogFrame.cpp), which passes its text to the main thread.                *)
(***************************************************************************)
EXTENDS Integers, FiniteSets, SequencesExt, Functions

CONSTANTS
  Threads, \* of the client, "wx" the main one
  Loggers, \* those that log once they run
  MaxOwn   \* bound: messages each thread logs

ASSUME ThreadsAssumption ==
  "wx" \in Threads /\ "daemon" \notin Threads /\ Loggers \subseteq Threads /\ MaxOwn \in Nat

VARIABLES
  events,   \* LogListModel::m_LogEvents
  updating, \* its asynchronous update is triggered
  drawing,  \* n_tot of an update that has begun, 0 without one
  rows,     \* those the table knows of, as painted
  indices,  \* its m_ThreadIdMap
  own,      \* messages each thread has logged
  phase,    \* of each thread: "idle", "naming" in the list, "listed" with the frame to come
  seen,     \* the size of the map a naming thread has read
  cued,     \* SoloLogFrame::m_ThreadLogs
  calls,    \* DequeueLogs() posted
  text,     \* its text control
  ruined    \* two threads were in the list's map at once, and the client crashed

windows == <<events, updating, drawing, rows, indices, own, phase, seen, cued, calls, text, ruined>>

Entry(from, n) == [from |-> from, n |-> n]
Froms == Threads \cup {"daemon"}

\* The main thread has logged on its way to the event loop.
InitWindows ==
  /\ events = <<Entry("wx", 0)>> /\ updating = TRUE /\ drawing = 0 /\ rows = << >>
  /\ indices = [t \in {"wx"} |-> 0]
  /\ own = [t \in Threads |-> 0] /\ phase = [t \in Threads |-> "idle"]
  /\ seen = [t \in Threads |-> 0]
  /\ cued = events /\ calls = 1 /\ text = << >> /\ ruined = FALSE

\* Appended without a trigger.
Fault_LogEntry(from, n) == events' = Append(events, Entry(from, n)) /\ UNCHANGED updating
\* LogEntry(): under the mutex.
LogEntry(from, n) == events' = Append(events, Entry(from, n)) /\ updating' = TRUE

\* The main thread is in its event loop.
InLoop == phase["wx"] = "idle" /\ ~ruined

\* LogListModel::LogAtLevel(), of a thread it has not met: no lock is taken for the map.
NameThread(t) ==
  /\ ~ruined /\ t \in Loggers /\ own[t] < MaxOwn /\ phase[t] = "idle" /\ t \notin DOMAIN indices
  /\ phase' = [phase EXCEPT ![t] = "naming"]
  /\ seen' = [seen EXCEPT ![t] = Cardinality(DOMAIN indices)]
  /\ UNCHANGED <<events, updating, drawing, rows, indices, own, cued, calls, text, ruined>>

\* Its rest. Threads that name themselves at once may get one index, or break the map.
ListMessage(t) ==
  /\ ~ruined /\ t \in Loggers /\ own[t] < MaxOwn
  /\ phase[t] = "naming" \/ (phase[t] = "idle" /\ t \in DOMAIN indices)
  /\ indices' = [u \in DOMAIN indices \cup {t} |-> IF u \in DOMAIN indices THEN indices[u] ELSE seen[u]]
  /\ ruined' \in {FALSE, \E u \in Threads \ {t} : phase[t] = "naming" /\ phase[u] = "naming"}
  /\ LogEntry(t, own[t] + 1)
  /\ phase' = [phase EXCEPT ![t] = "listed"]
  /\ UNCHANGED <<drawing, rows, own, seen, cued, calls, text>>

\* SoloLogFrame::LogAtLevel(): all of it under the lock.
CueMessage(t) ==
  /\ ~ruined /\ phase[t] = "listed"
  /\ own' = [own EXCEPT ![t] = @ + 1]
  /\ cued' = Append(cued, Entry(t, own'[t])) /\ calls' = calls + 1
  /\ phase' = [phase EXCEPT ![t] = "idle"]
  /\ UNCHANGED <<events, updating, drawing, rows, indices, seen, text, ruined>>

\* The first call takes all there is; the others find nothing.
DequeueLogs == text' = text \o cued /\ cued' = << >>

DequeueCall ==
  /\ InLoop /\ calls > 0
  /\ DequeueLogs
  /\ calls' = calls - 1
  /\ UNCHANGED <<events, updating, drawing, rows, indices, own, phase, seen, ruined>>

\* GetEntry(): its assert is kept by a list that never shrinks.
GetEntry(row) == events[row]
\* paintCell(), of the columns of a row: the daemon's messages are of thread 0, as if the
\* main thread had logged them; their delay is painted for them alone.
paintCell(row) ==
  LET e == GetEntry(row) daemonFlag == e.from = "daemon"
  IN [idx |-> row - 1, thread |-> IF daemonFlag THEN 0 ELSE indices[e.from],
      d_us |-> daemonFlag, msg |-> e.n]

\* handleAsyncUpdate(), in JUCE's thread: the number of rows is read, without the lock.
handleAsyncUpdate ==
  /\ ~ruined /\ updating /\ drawing = 0
  /\ updating' = FALSE /\ drawing' = Len(events)
  /\ UNCHANGED <<events, rows, indices, own, phase, seen, cued, calls, text, ruined>>

\* Its rest: the table asks getNumRows(), which reads it again, without the lock too, and
\* paints. A thread that appends meanwhile moves what is read, which may break the client.
updateContent ==
  /\ ~ruined /\ drawing > 0
  /\ drawing' = 0 /\ rows' = [row \in DOMAIN events |-> paintCell(row)]
  /\ ruined' \in {FALSE, drawing < Len(events)}
  /\ UNCHANGED <<events, updating, indices, own, phase, seen, cued, calls, text>>

\* "Clear Log" reaches the frame alone: the list has no ClearLog().
ClearLog ==
  /\ InLoop /\ text # << >>
  /\ text' = << >>
  /\ UNCHANGED <<events, updating, drawing, rows, indices, own, phase, seen, cued, calls, ruined>>

\* Messages each at most once, and in the order of their sender.
InOrder(log) == \A i, j \in DOMAIN log : i < j /\ log[i].from = log[j].from => log[i].n < log[j].n

TypeOKWindows ==
  /\ \A log \in {events, cued, text} : \A i \in DOMAIN log : log[i].from \in Froms /\ log[i].n \in Nat
  /\ updating \in BOOLEAN /\ drawing \in Nat /\ ruined \in BOOLEAN /\ Len(rows) <= Len(events)
  /\ DOMAIN indices \subseteq Threads /\ calls \in Nat
  /\ own \in [Threads -> 0..MaxOwn] /\ seen \in [Threads -> Nat]
  /\ phase \in [Threads -> {"idle", "naming", "listed"}]

\* What a window was given does not wait for the next message: a list with new rows is
\* drawn, those that came while an update was reading their number too, and text cued has
\* its call posted, through two locks and three threads. (LogEntry(), handleAsyncUpdate(),
\* SoloLogFrame::LogAtLevel())
EventuallyShown ==
  /\ Len(rows) < Len(events) ~> Len(rows) = Len(events) \/ ruined
  /\ cued # << >> ~> cued = << >> \/ ruined
=============================================================================
