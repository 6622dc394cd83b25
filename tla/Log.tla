--------------------------------- MODULE Log ---------------------------------
(***************************************************************************)
(* The log the daemon sends to the client: its queue, which every thread of *)
(* the daemon may append to and a timer thread empties (ServerUDP in         *)
(* ServerTCP.cpp), the two datagrams of each batch, the client's receiver    *)
(* thread (udp_server in ClientTCP.cpp), the frame's message queue, and the    *)
(* windows that show the log (Client.cpp, TopFrame.cpp, LogWindows).           *)
(*                                                                         *)
(* Messages are numbered in the order they are queued, datagrams in the order *)
(* they are sent, sizes are in units. Datagrams carry no numbers in the code:   *)
(* UDP may lose them, give them in any order, or give one twice.                *)
(***************************************************************************)
EXTENDS LogWindows

CONSTANTS
  Sizes,          \* of messages, each with its four bytes of length
  MaxQueuedSize,  \* DDT_UDP_LOG_MAX_QUEUED_SIZE: passing it forces a flush
  MaxQueuedCount, \* DDT_UDP_LOG_MAX_QUEUED_COUNT: likewise
  MaxDatagram,    \* DDT_UDP_MAX_MESSAGE_SIZE: a larger send fails
  MaxLogs,        \* bound: messages the daemon logs
  MaxBeside,      \* bound: those beside messages of the client's threads or a restart
  MaxTaken,       \* bound: datagrams the clients receive
  MaxRestarts     \* bound: times the client is started again

ASSUME SizesAssumption ==
  /\ Sizes \subseteq Nat \ {0} /\ MaxQueuedSize \in Nat /\ MaxQueuedCount \in Nat
  /\ MaxDatagram \in Nat /\ MaxLogs \in Nat /\ MaxBeside \in Nat /\ MaxTaken \in Nat /\ MaxRestarts \in Nat

VARIABLES
  sizes,    \* of the messages logged so far
  buffer,   \* m_OutStreamBuff
  count,    \* m_CuedLogCnt
  holder,   \* of ServerUDP::m_Mutex: "none", "caller", "timer", or "stuck": its owner locks it again
  timers,   \* m_TimerCnt
  sending,  \* the owner of the mutex is about to send "header" or "body"
  stopped,  \* m_IOService.stopped()
  sent,     \* datagrams so far
  net,      \* those sent: a header's size, or a body's messages
  taken,    \* datagrams the clients have received
  receiver, \* udp_server::DoLoop(): the size of the body it waits for, 0 if it waits for a header
  arrivals, \* history: the messages this client has received, in that order
  latest,   \* history: the number of the datagram it has received last
  mixed,    \* history: one came after a later one, or twice
  received, \* m_DaemonMessages: places in arrivals
  posted,   \* TopFrame::m_ClientQueue, likewise
  wakes,    \* DBGF_ID_INCOMING_MESSAGE events
  restarts

daemon == <<sizes, buffer, count, holder, timers, sending, stopped>>
network == <<sent, net>>
history == <<arrivals, latest, mixed>>
client == <<taken, receiver, history, received, posted, wakes>>
vars == <<daemon, network, client, restarts, windows>>

Ids == 1..MaxLogs
Ended == -1 \* DoLoop() has returned
Wild == -2  \* the receiver copies from beyond its buffer
Header(no, n) == [no |-> no, type |-> "header", size |-> n, logs |-> << >>]
Body(no, n, logs) == [no |-> no, type |-> "body", size |-> n, logs |-> logs]

Init ==
  /\ sizes = << >> /\ buffer = << >> /\ count = 0
  /\ holder = "none" /\ timers = 0 /\ sending = "no" /\ stopped = FALSE
  /\ sent = 0 /\ net = {}
  /\ arrivals = << >> /\ latest = 0 /\ mixed = FALSE
  /\ taken = 0 /\ receiver = 0 /\ received = << >> /\ posted = << >> /\ wakes = 0
  /\ restarts = 0
  /\ InitWindows

\* Bytes of a sequence of messages.
Bytes(logs) == FoldLeft(LAMBDA sum, i : sum + sizes[i], 0, logs)

-----------------------------------------------------------------------------
(* The daemon.                                                             *)

\* Past either limit.
MustFlush(bytes, n) == bytes > MaxQueuedSize \/ n > MaxQueuedCount

\* The condition that is left in a comment, after the count was incremented.
Fault_TimerWanted(n) == n = 0
TimerWanted(n) == timers = 0

\* A bound: fewer messages beside what else may happen to the client.
LogsBound == IF restarts = 0 /\ \A t \in Threads : phase[t] = "idle" /\ own[t] = 0 THEN MaxLogs ELSE MaxBeside

\* QueueLog(), of a message that may be sent: appended under the mutex, which a forced
\* flush keeps; else the timer thread is started unless it runs. Levels are filtered
\* before.
QueueLog(size) ==
  /\ Len(sizes) < LogsBound /\ ~stopped /\ holder = "none"
  /\ sizes' = Append(sizes, size)
  /\ buffer' = Append(buffer, Len(sizes'))
  /\ count' = count + 1
  /\ IF MustFlush(Bytes(buffer) + size, count')
     THEN holder' = "caller" /\ sending' = "header" /\ UNCHANGED timers
     ELSE timers' = (IF TimerWanted(count') THEN 1 ELSE timers) /\ UNCHANGED <<holder, sending>>
  /\ UNCHANGED <<stopped, network, client, restarts, windows>>

\* The timer's second is over: it locks, and flushes what there is, if anything.
TimerLapsed ==
  /\ timers = 1 /\ holder = "none"
  /\ IF stopped \/ buffer = << >>
     THEN timers' = 0 /\ UNCHANGED <<holder, sending>>
     ELSE holder' = "timer" /\ sending' = "header" /\ UNCHANGED timers
  /\ UNCHANGED <<sizes, buffer, count, stopped, network, client, restarts, windows>>

\* A send that fails, for whatever reason, says so in the log, whose errors go to
\* QueueLog(), and that locks the mutex its own thread holds.
SendFails == holder' = "stuck" /\ UNCHANGED <<buffer, count, timers, sending, sent, net>>

Sends(d) == sent' = sent + 1 /\ net' = net \cup {d}

SendHeader ==
  /\ sending = "header" /\ holder \in {"caller", "timer"}
  /\ \/ SendFails
     \/ /\ Sends(Header(sent + 1, Bytes(buffer))) /\ sending' = "body"
        /\ UNCHANGED <<buffer, count, holder, timers>>
  /\ UNCHANGED <<sizes, stopped, client, restarts, windows>>

\* DoBroadcastNetLogs() returns; the timer's thread counts itself out before it unlocks.
Release ==
  /\ holder' = "none" /\ sending' = "no"
  /\ timers' = IF holder = "timer" THEN timers - 1 ELSE timers

\* The buffer is sent and cleared; more than a datagram holds cannot be sent.
SendBody ==
  /\ sending = "body" /\ holder \in {"caller", "timer"}
  /\ \/ SendFails
     \/ /\ Bytes(buffer) <= MaxDatagram
        /\ Sends(Body(sent + 1, Bytes(buffer), buffer))
        /\ buffer' = << >> /\ count' = 0
        /\ Release
  /\ UNCHANGED <<sizes, stopped, client, restarts, windows>>

\* ~ServerUDP(), at the end of main(): a timer that runs is waited for.
Stop ==
  /\ ~stopped /\ holder = "none"
  /\ stopped' = TRUE
  /\ UNCHANGED <<sizes, buffer, count, holder, timers, sending, network, client, restarts, windows>>

-----------------------------------------------------------------------------
(* The client.                                                             *)

\* The messages that lie in the first n units.
Within(logs, n) == SubSeq(logs, 1, Cardinality({k \in DOMAIN logs : Bytes(SubSeq(logs, 1, k)) <= n}))

\* The network: any datagram may be the next, may come again, and may never come.
Arrives(d) ==
  /\ taken < MaxTaken /\ taken' = taken + 1
  /\ mixed' = (mixed \/ d.no <= latest)
  /\ latest' = IF mixed' THEN 0 ELSE d.no

\* The messages are copied out of the bulk.
Copied(logs) ==
  /\ arrivals' = arrivals \o logs
  /\ received' = received \o [k \in DOMAIN logs |-> Len(arrivals) + k]

\* ReceiveBulkMessage(), in the receiver's thread, one receive_from() at a time. A
\* datagram that is no header, or is too short to be the body, ends the thread. A longer
\* one is cut, and taken; its messages are sliced by the lengths they state, the last of
\* which may then lie beyond the buffer.
ReceiveBulkMessage ==
  /\ receiver >= 0
  /\ \E d \in net :
       /\ Arrives(d)
       /\ LET whole == Within(d.logs, receiver)
          IN \/ /\ d.type = (IF receiver = 0 THEN "body" ELSE "header") \/ d.size < receiver
                /\ receiver' = Ended /\ UNCHANGED <<arrivals, received>>
             \/ /\ receiver = 0 /\ d.type = "header"
                /\ receiver' = d.size /\ UNCHANGED <<arrivals, received>>
             \/ /\ receiver > 0 /\ d.type = "body" /\ d.size >= receiver
                /\ IF Bytes(whole) = receiver
                   THEN receiver' = 0 /\ Copied(whole)
                   ELSE receiver' = Wild /\ UNCHANGED <<arrivals, received>>
  /\ UNCHANGED <<daemon, network, posted, wakes, restarts, windows>>

\* The messages are read, and left.
Fault_ServiceUDPLogs == UNCHANGED received
\* ServiceUDPLogs(): all are taken under the lock.
ServiceUDPLogs == received' = << >>

\* QueueMessage(), delayed: into the queue, and an event that wakes the frame.
QueueMessage(logs) == posted' = posted \o logs /\ wakes' = wakes + Len(logs)

\* CheckUDPQueue(): what there is, as messages of the daemon.
CheckUDPQueue == received # << >> /\ QueueMessage(received) /\ ServiceUDPLogs
\* Each second, in the main thread.
OnUdpTimer ==
  /\ InLoop /\ CheckUDPQueue
  /\ UNCHANGED <<daemon, network, taken, receiver, history, restarts, windows>>

\* ProcessCustomQueue(), of one message: DispatchMessage(), DaemonLog().
ProcessCustomQueue ==
  /\ posted' = Tail(posted)
  /\ LogEntry("daemon", Head(posted))

\* One event, one message, and another event if messages are left.
OnIncomingMessage ==
  /\ InLoop /\ wakes > 0
  /\ IF posted = << >> THEN UNCHANGED <<posted, events, updating>> ELSE ProcessCustomQueue
  /\ wakes' = wakes - 1 + (IF Len(posted) > 1 THEN 1 ELSE 0)
  /\ UNCHANGED <<daemon, network, taken, receiver, history, received, restarts, drawing, rows, indices,
                 own, phase, seen, cued, calls, text, ruined>>

\* What the client's threads log, of levels that are on: the receiver's its error, when it
\* ends, the reader of the socket its own, the main one anything. (A bound: in the first
\* client, beside few messages of the daemon.)
ClientLogs(t) ==
  /\ t = "udp" => receiver = Ended
  /\ Len(sizes) <= MaxBeside /\ restarts = 0
  /\ NameThread(t) \/ ListMessage(t)
  /\ UNCHANGED <<daemon, network, client, restarts>>

WindowStep(A) == A /\ UNCHANGED <<daemon, network, client, restarts>>

-----------------------------------------------------------------------------
(* Processes.                                                              *)

\* Another client is started, at any point between two datagrams.
RestartClient ==
  /\ restarts < MaxRestarts /\ Len(sizes) <= MaxBeside
  /\ restarts' = restarts + 1
  /\ arrivals' = << >> /\ latest' = 0 /\ mixed' = FALSE
  /\ UNCHANGED taken /\ receiver' = 0 /\ received' = << >> /\ posted' = << >> /\ wakes' = 0
  /\ events' = <<Entry("wx", 0)>> /\ updating' = TRUE /\ drawing' = 0 /\ rows' = << >>
  /\ indices' = [t \in {"wx"} |-> 0]
  /\ own' = [t \in Threads |-> 0] /\ phase' = [t \in Threads |-> "idle"]
  /\ seen' = [t \in Threads |-> 0]
  /\ cued' = events' /\ calls' = 1 /\ text' = << >> /\ ruined' = FALSE
  /\ UNCHANGED <<daemon, network>>

Next ==
  \/ \E size \in Sizes : QueueLog(size)
  \/ TimerLapsed \/ SendHeader \/ SendBody \/ Stop
  \/ ReceiveBulkMessage \/ OnUdpTimer \/ OnIncomingMessage
  \/ \E t \in Threads : ClientLogs(t) \/ WindowStep(CueMessage(t))
  \/ WindowStep(DequeueCall) \/ WindowStep(handleAsyncUpdate) \/ WindowStep(updateContent)
  \/ WindowStep(ClearLog)
  \/ RestartClient

\* Threads run, the mutex is given to the timer's thread when it is free, and the event
\* loops of the client handle what is posted to them.
Fairness ==
  /\ WF_vars(TimerLapsed) /\ WF_vars(SendHeader) /\ WF_vars(SendBody)
  /\ WF_vars(WindowStep(\E t \in Threads : CueMessage(t)))
  /\ WF_vars(WindowStep(DequeueCall)) /\ WF_vars(WindowStep(handleAsyncUpdate))
  /\ WF_vars(WindowStep(updateContent))
  /\ WF_vars(OnIncomingMessage)

Spec == Init /\ [][Next]_vars /\ Fairness

-----------------------------------------------------------------------------
(* Properties.                                                             *)

\* The variables have their types; whoever holds the mutex has something to send, and a
\* thread of the timer runs while something waits.
TypeOK ==
  /\ sizes \in Seq(Sizes) /\ Len(sizes) <= MaxLogs
  /\ buffer \in Seq(Ids) /\ arrivals \in Seq(Ids)
  /\ sent \in Nat /\ taken \in 0..MaxTaken /\ latest \in 0..sent /\ mixed \in BOOLEAN
  /\ \A d \in net : d.no \in 1..sent /\ d.logs \in Seq(Ids)
  /\ \A s \in {received, posted} : s \in Seq(DOMAIN arrivals)
  /\ wakes \in Nat /\ TypeOKWindows
  /\ count = Len(buffer)
  /\ holder \in {"none", "caller", "timer", "stuck"} /\ sending \in {"no", "header", "body"}
  /\ timers \in {0, 1} /\ stopped \in BOOLEAN
  /\ (holder = "none") <=> (sending = "no")
  /\ sending # "no" => buffer # << >>
  /\ (buffer # << >> /\ holder = "none") => timers = 1 \/ stopped
  /\ receiver \in Nat \cup {Ended, Wild}

\* What is logged does not stay in the queue, however often a forced flush gets ahead of
\* the timer, unless a send fails, as that of a batch does that is too large for a datagram:
\* the thread that reports it holds the queue's mutex. (QueueLog() starts the timer only if
\* its count is zero)
EventuallySent == buffer # << >> ~> buffer = << >> \/ stopped \/ holder = "stuck"

\* The daemon's messages in the list.
Listed == {events[i].n : i \in {k \in DOMAIN events : events[k].from = "daemon"}}
Increasing(logs) == \A i, j \in DOMAIN logs : i < j => logs[i] < logs[j]

\* Whatever datagrams are lost and whenever the client was started, what it receives it
\* shows all of, once each, in the order it came, through three queues and two threads; and
\* that is the order it was logged, unless the network gave datagrams in another order or
\* one twice, which the code does not notice. The messages of the client's own threads are
\* in both windows in their order. (udp_server, QueueMessage(), LogListModel, SoloLogFrame)
ShownInOrder ==
  LET logs == posted \o received
  IN /\ InOrder(events \o [i \in DOMAIN logs |-> Entry("daemon", logs[i])])
     /\ Listed \cup Range(logs) = DOMAIN arrivals
     /\ ~mixed => Increasing(arrivals)
     /\ InOrder(text \o cued)

-----------------------------------------------------------------------------
(* Why the log is in order: each queue holds later arrivals than the one it feeds, and a  *)
(* datagram later messages than the ones sent before it.                                *)

Entries == [from : Froms, n : Nat]
Below(A, B) == \A a \in A, b \in B : a < b

QueuesInv ==
  /\ \A logs \in {received, posted} : logs \in Seq(Nat) /\ Increasing(logs)
  /\ Below(Listed, Range(posted)) /\ Below(Listed \cup Range(posted), Range(received))
  /\ Listed \cup Range(posted) \cup Range(received) = 1..Len(arrivals)

\* What has arrived, is on its way, and waits in the buffer.
DaemonInv ==
  /\ sizes \in Seq(Sizes) /\ sent \in Nat /\ latest \in Nat /\ latest <= sent /\ arrivals \in Seq(Nat)
  /\ buffer \in Seq(Nat) /\ Increasing(buffer) /\ Range(buffer) \subseteq 1..Len(sizes)
  /\ \A d \in net : d.no \in 1..sent /\ d.logs \in Seq(Nat) /\ Increasing(d.logs)
  /\ \A logs \in {d.logs : d \in net} \cup {arrivals} :
       Below(Range(logs), Range(buffer)) /\ Range(logs) \subseteq 1..Len(sizes)
  /\ \A c, d \in net : c.no < d.no => Below(Range(c.logs), Range(d.logs))
  /\ ~mixed => /\ Increasing(arrivals)
               /\ \A d \in net : d.no > latest => Below(Range(arrivals), Range(d.logs))

\* What a thread has in the list is one ahead of what it has counted until the frame has it.
Given == [t \in Threads |-> own[t] + (IF phase[t] = "listed" THEN 1 ELSE 0)]
ThreadsInv ==
  /\ \A log \in {events, cued, text} : log \in Seq(Entries) /\ InOrder(log)
  /\ own \in [Threads -> Nat] /\ phase \in [Threads -> {"idle", "naming", "listed"}]
  /\ \A i \in DOMAIN events : events[i].from \in Threads => events[i].n <= Given[events[i].from]
  /\ \A log \in {cued, text} : \A i \in DOMAIN log :
       log[i].from \in Threads /\ log[i].n <= own[log[i].from]
  /\ \A i \in DOMAIN text, j \in DOMAIN cued : text[i].from = cued[j].from => text[i].n < cued[j].n

LogInv == QueuesInv /\ DaemonInv /\ ThreadsInv

=============================================================================
