-------------------------- MODULE RemoteDebugProofs --------------------------
(***************************************************************************)
(* Proofs about the composed system. In every environment the state keeps  *)
(* its types, and the daemon's session implements the abstract debuggee    *)
(* that the debugger core implements too. Where posted events are handled  *)
(* before native ones the client and the daemon take turns.                *)
(***************************************************************************)
EXTENDS RemoteDebug, SequenceTheorems, TLAPS

\* Only a session that is being unwound or cleaned up is an aborted one.
AbortInv == aborted \in BOOLEAN /\ (aborted => daemon \in {"running", "cleanup"})

\* The daemon's end of a process is an end of the abstract one.
LEMMA EndsAbstract ==
  ASSUME NEW how \in DaemonOver, DaemonEnds(how), daemon \notin DaemonOver
  PROVE  AbortInv' /\ Abstract!Die
<1>1. phase # "dead"
  BY DEF phase
<1>2. phase' = "dead"
  BY DEF phase, DaemonEnds
<1> QED  BY <1>1, <1>2 DEF AbortInv, Abstract!Die, DaemonEnds

\* A step that leaves the daemon alone is a stutter.
LEMMA StutterAbstract ==
  ASSUME AbortInv, UNCHANGED daemonVars
  PROVE  AbortInv' /\ UNCHANGED Abstract!view
BY DEF AbortInv, daemonVars, Abstract!view, phase

\* Every step of the daemon's own thread keeps the invariant and is a step of
\* the debuggee or a stutter.
LEMMA ThreadAbstract ==
  ASSUME AbortInv, DaemonThread
  PROVE  AbortInv' /\ (Abstract!Next \/ UNCHANGED Abstract!view)
<1> USE DEF AbortInv, DaemonOver
<1>1. CASE Accept
  BY <1>1 DEF Accept, phase, Abstract!view
<1>2. CASE SetupRead \/ PausedRead
  BY <1>2, StutterAbstract DEF SetupRead, PausedRead
<1>3. CASE SyncNStart
  BY <1>3 DEF SyncNStart, phase, Abstract!Next, Abstract!Start
<1>4. CASE LoadStartFile
  BY <1>4 DEF LoadStartFile, phase, Abstract!view
<1>5. CASE PausedReadUnexpected
  BY <1>5, EndsAbstract DEF PausedReadUnexpected, Abstract!Next
<1>6. CASE ResumeDaemon
  <2>1. CASE \E cmd \in Resumes : Receive(cmd, << >>) /\ aborted' = (cmd = "RESUME_END_SESSION")
                                  /\ daemon = "paused" /\ daemon' = "running"
    <3>1. aborted' \in BOOLEAN /\ ~aborted /\ daemon = "paused" /\ daemon' = "running"
      BY <2>1
    <3> QED  BY <3>1 DEF phase, Abstract!Next, Abstract!Resume, Abstract!Abort
  <2>2. CASE daemon = "paused" /\ daemon' = "cleanup" /\ UNCHANGED aborted
    BY <2>2 DEF phase, Abstract!Next, Abstract!Resume
  <2>3. CASE daemon = "paused" /\ \E how \in DaemonOver : DaemonEnds(how)
    <3>1. PICK how \in DaemonOver : DaemonEnds(how)
      BY <2>3
    <3> QED  BY <2>3, <3>1, EndsAbstract DEF Abstract!Next
  <2> QED  BY <1>6, <2>1, <2>2, <2>3 DEF ResumeDaemon, DaemonFailsOn
<1>7. CASE CleanUp
  BY <1>7 DEF CleanUp, phase, Abstract!Next, Abstract!End
<1>8. CASE DaemonLosesClient
  <2>1. CASE /\ daemon = "paused" /\ aborted' = TRUE
             /\ daemon' = IF pause = "load" THEN "cleanup" ELSE "running"
    BY <2>1 DEF phase, Abstract!Next, Abstract!Abort
  <2>2. CASE daemon \in {"paused", "setup"} /\ \E how \in DaemonOver : DaemonEnds(how)
    <3>1. PICK how \in DaemonOver : DaemonEnds(how)
      BY <2>2
    <3> QED  BY <2>2, <3>1, EndsAbstract DEF Abstract!Next
  <2> QED  BY <1>8, <2>1, <2>2 DEF DaemonLosesClient
<1> QED  BY <1>1, <1>2, <1>3, <1>4, <1>5, <1>6, <1>7, <1>8 DEF DaemonThread

\* So does every step of the daemon's program and hosts.
LEMMA WorldAbstract ==
  ASSUME AbortInv, DaemonWorld
  PROVE  AbortInv' /\ (Abstract!Next \/ UNCHANGED Abstract!view)
<1> USE DEF AbortInv, DaemonOver
<1>1. CASE PauseProgram
  <2>1. daemon \in {"loading", "running"} /\ ~aborted /\ daemon' = "paused" /\ UNCHANGED aborted
    BY <1>1 DEF PauseProgram
  <2> QED  BY <2>1 DEF phase, Abstract!Next, Abstract!Pause
<1>2. CASE ProgramEnds
  BY <1>2 DEF ProgramEnds, phase, Abstract!view
<1>3. CASE Kill
  BY <1>3, EndsAbstract DEF Kill, Abstract!Next
<1>4. CASE Launch
  BY <1>4 DEF Launch, phase, Abstract!Next, Abstract!Launch
<1> QED  BY <1>1, <1>2, <1>3, <1>4 DEF DaemonWorld

\* The initial state is the debuggee's, and each step of the system maps to one of
\* the debuggee or to a stutter.
LEMMA InitAbstract == Init => AbortInv /\ Abstract!Init
BY DEF Init, DaemonInit, AbortInv, Abstract!Init, phase, DaemonOver

LEMMA StepAbstract == AbortInv /\ [Next]_vars => AbortInv' /\ [Abstract!Next]_Abstract!view
<1> SUFFICES ASSUME AbortInv, [Next]_vars
             PROVE  AbortInv' /\ [Abstract!Next]_Abstract!view
  OBVIOUS
<1>1. CASE UNCHANGED daemonVars
  BY <1>1, StutterAbstract
<1>2. CASE DaemonNext
  BY <1>2, ThreadAbstract, WorldAbstract DEF DaemonNext
<1> QED  BY <1>1, <1>2 DEF Next, ClientNext, vars

\* Against every client, network and host that the environment allows, also one
\* that breaks the protocol, the daemon on the wire behaves as the debuggee that the
\* core implements: it pauses only when it runs, and never once it is aborted.
THEOREM SessionRefinement == Spec => ImplementsDebuggee
<1>1. Init => AbortInv /\ Abstract!Init
  BY InitAbstract
<1>2. AbortInv /\ [Next]_vars => AbortInv' /\ [Abstract!Next]_Abstract!view
  BY StepAbstract
<1> QED  BY <1>1, <1>2, PTL DEF Spec, ImplementsDebuggee, Abstract!Spec

-----------------------------------------------------------------------------
(* Types, in every environment.                                            *)

USE DEF vars, wireVars, clientVars, daemonVars

\* The tables of the daemon's answers, and the messages of a pause.
LEMMA AnswerTypes ==
  /\ \A msg \in DOMAIN SetupAnswers : SetupAnswers[msg] \in Seq(DaemonMessages)
  /\ \A msg \in DOMAIN PausedAnswers : PausedAnswers[msg] \in Seq(DaemonMessages)
  /\ \A why \in Pauses : PauseMessages(why) \subseteq Seq(DaemonMessages)
<1>1. \A x \in DaemonMessages : <<x>> \in Seq(DaemonMessages)
  OBVIOUS
<1>2. << >> \in Seq(DaemonMessages)
  OBVIOUS
<1>3. ASSUME NEW msg \in DOMAIN SetupAnswers
      PROVE  SetupAnswers[msg] \in Seq(DaemonMessages)
  BY <1>1, <1>2 DEF SetupAnswers, DaemonMessages, Unexpected
<1>4. ASSUME NEW msg \in DOMAIN PausedAnswers
      PROVE  PausedAnswers[msg] \in Seq(DaemonMessages)
  BY <1>1, <1>2 DEF PausedAnswers, DaemonMessages
<1>5. ASSUME NEW why \in Pauses
      PROVE  PauseMessages(why) \subseteq Seq(DaemonMessages)
  <2>1. \A x, y \in DaemonMessages : <<x, y>> \in Seq(DaemonMessages)
    OBVIOUS
  <2>2. \A x, y, z \in DaemonMessages : <<x, y, z>> \in Seq(DaemonMessages)
    OBVIOUS
  <2> QED  BY <2>1, <2>2 DEF PauseMessages, DaemonMessages
<1> QED  BY <1>3, <1>4, <1>5

\* The steps of the wire keep its types.
LEMMA WireSteps ==
  ASSUME WireType
  PROVE  /\ UNCHANGED wireVars => WireType'
         /\ \A msg \in ClientMessages : Connect(msg) => WireType'
         /\ \A msgs \in Seq(ClientMessages) : Write(msgs) => WireType'
         /\ WriteFails => WireType'
         /\ ClientCloses => WireType'
         /\ \A msg : \A answer \in Seq(DaemonMessages) : Receive(msg, answer) => WireType'
         /\ \A msgs \in Seq(DaemonMessages) : Send(msgs) => WireType'
         /\ DaemonCloses => WireType'
<1> USE DEF WireType
<1>0. << >> \in Seq(ClientMessages) /\ << >> \in Seq(DaemonMessages)
  OBVIOUS
<1>1. UNCHANGED wireVars => WireType'
  OBVIOUS
<1>2. \A msg \in ClientMessages : Connect(msg) => WireType'
  BY DEF Connect
<1>3. \A msgs \in Seq(ClientMessages) : Write(msgs) => WireType'
  BY ConcatProperties DEF Write
<1>4. WriteFails => WireType'
  BY <1>0 DEF WriteFails
<1>5. ClientCloses => WireType'
  BY <1>0 DEF ClientCloses
<1>6. ASSUME NEW msg, NEW answer \in Seq(DaemonMessages), Receive(msg, answer)
      PROVE  WireType'
  <2>1. Tail(toDaemon) \in Seq(ClientMessages)
    BY <1>6, HeadTailProperties DEF Receive
  <2>2. toClient \o answer \in Seq(DaemonMessages)
    BY <1>6, ConcatProperties
  <2> QED  BY <1>6, <2>1, <2>2 DEF Receive
<1>7. \A msgs \in Seq(DaemonMessages) : Send(msgs) => WireType'
  BY ConcatProperties DEF Send
<1>8. DaemonCloses => WireType'
  BY <1>0 DEF DaemonCloses
<1> QED  BY <1>1, <1>2, <1>3, <1>4, <1>5, <1>6, <1>7, <1>8

\* The pieces of the client's handlers keep the types of the level, the toolbar,
\* the reader and the UI thread.
FrameType ==
  /\ level \in Levels
  /\ tools \in [{"start", "step", "stop", "stress"} -> BOOLEAN]
  /\ reader \in {"none", "reading", "failed"} \cup DaemonMessages
  /\ ui \in {"loop", "reply", "echo"} \cup ClientOver

\* The flags of a toolbar are flags.
LEMMA ToolbarType ==
  ASSUME NEW lvl \in Levels, NEW open \in BOOLEAN
  PROVE  Toolbar(lvl, open) \in [{"start", "step", "stop", "stress"} -> BOOLEAN]
<1>1. \A a, b, c, d \in BOOLEAN :
        [start |-> a, step |-> b, stop |-> c, stress |-> d]
          \in [{"start", "step", "stop", "stress"} -> BOOLEAN]
  OBVIOUS
<1>2. /\ (lvl \in ActiveLevels /\ open) \in BOOLEAN
      /\ (lvl \in ActiveLevels) \in BOOLEAN
      /\ (lvl \in ActiveLevels \cap Started) \in BOOLEAN
  OBVIOUS
<1> QED  BY ONLY <1>1, <1>2, open \in BOOLEAN, Zenon DEF Toolbar

LEMMA FrameSteps ==
  ASSUME FrameType
  PROVE  /\ \A how \in ClientOver : Fail(how) => FrameType'
         /\ \A lvl \in Levels : SetLevel(lvl) /\ clientOpen' \in BOOLEAN => FrameType'
         /\ WaitForNewMessage => FrameType'
<1> USE DEF FrameType
<1>1. \A how \in ClientOver : Fail(how) => FrameType'
  BY DEF Fail
<1>2. \A lvl \in Levels : SetLevel(lvl) /\ clientOpen' \in BOOLEAN => FrameType'
  BY ToolbarType DEF SetLevel
<1>3. WaitForNewMessage => FrameType'
  <2>1. "WAIT_REPLY" \in Levels /\ "two readers" \in ClientOver /\ TRUE \in BOOLEAN
    BY DEF Levels, ClientOver
  <2> QED  BY <1>1, <2>1, ToolbarType DEF WaitForNewMessage
<1> QED  BY <1>1, <1>2, <1>3

\* The second message of two.
LEMMA AppendToOne == \A x, y : Append(<<x>>, y) = <<x, y>>
<1> SUFFICES ASSUME NEW x, NEW y
             PROVE  Append(<<x>>, y) = <<x, y>>
  OBVIOUS
<1> DEFINE S == {x, y}
           one == <<x>>
           last == <<y>>
           two == <<x, y>>
<1>1. /\ one \in Seq(S) /\ last \in Seq(S) /\ two \in Seq(S) /\ y \in S
      /\ Len(one) = 1 /\ Len(last) = 1 /\ Len(two) = 2
      /\ one[1] = x /\ last[1] = y /\ two[1] = x /\ two[2] = y
  OBVIOUS
<1>2. Append(<<x>>, y) = one \o last
  BY <1>1, AppendIsConcat
<1> HIDE DEF S, one, last, two
<1>3. /\ one \o last \in Seq(S) /\ Len(one \o last) = 2
      /\ (one \o last)[1] = x /\ (one \o last)[2] = y
  <2>1. one \o last \in Seq(S) /\ Len(one \o last) = Len(one) + Len(last)
    BY <1>1, ConcatProperties
  <2>2. \A i \in 1 .. Len(one) + Len(last) :
          (one \o last)[i] = IF i <= Len(one) THEN one[i] ELSE last[i - Len(one)]
    BY <1>1, ConcatProperties
  <2>3. Len(one) + Len(last) = 2 /\ 1 <= Len(one) /\ ~(2 <= Len(one)) /\ 2 - Len(one) = 1
    BY <1>1
  <2>4. 1 \in 1 .. Len(one) + Len(last) /\ 2 \in 1 .. Len(one) + Len(last)
    BY <2>3
  <2>5. (one \o last)[1] = one[1] /\ (one \o last)[2] = last[1]
    BY <2>2, <2>3, <2>4, Zenon
  <2> QED  BY <1>1, <2>1, <2>3, <2>5
<1>4. \A i \in 1 .. 2 : i = 1 \/ i = 2
  OBVIOUS
<1>5. one \o last = two
  BY <1>1, <1>3, <1>4, SeqEqual
<1> QED  BY <1>2, <1>5 DEF two

\* What the frame writes.
LEMMA Writes ==
  /\ <<"NOTIFY_BREAKPOINTS", "REQUEST_SYNC_N_START_LUA">> \in Seq(ClientMessages)
  /\ \A cmd \in Resumes : Append(<<"NOTIFY_BREAKPOINTS">>, cmd) = <<"NOTIFY_BREAKPOINTS", cmd>>
  /\ \A cmd \in Resumes : <<"NOTIFY_BREAKPOINTS", cmd>> \in Seq(ClientMessages)
  /\ <<"REQUEST_ECHO_DATA">> \in Seq(ClientMessages)
  /\ <<"REQUEST_VARIABLES">> \in Seq(ClientMessages)
<1>1. \A x \in ClientMessages : <<x>> \in Seq(ClientMessages)
  OBVIOUS
<1>2. \A x, y \in ClientMessages : <<x, y>> \in Seq(ClientMessages)
  OBVIOUS
<1>3. \A cmd : Append(<<"NOTIFY_BREAKPOINTS">>, cmd) = <<"NOTIFY_BREAKPOINTS", cmd>>
  BY AppendToOne
<1> QED  BY <1>1, <1>2, <1>3 DEF ClientMessages, Resumes

\* ResumeExecution() keeps the types of what it changes.
LEMMA ResumeTypes ==
  ASSUME WireType, FrameType, NEW cmd \in Resumes, ResumeExecution(cmd)
  PROVE  WireType' /\ FrameType'
<1> USE DEF FrameType
<1>0. "DISCONNECTED" \in Levels /\ "assert(StartReadMessage)" \in ClientOver
  BY DEF Levels, ClientOver
<1>1. CASE UNCHANGED <<wireVars, level, tools, reader, ui>>
  BY <1>1, WireSteps
<1>2. CASE SpuriousDisconnection
  <2>1. WireType'
    BY <1>2, WireSteps DEF SpuriousDisconnection
  <2> QED  BY <1>0, <1>2, <2>1, FrameSteps DEF SpuriousDisconnection, WireType
<1>3. CASE SendAndWait(<<"NOTIFY_BREAKPOINTS">>, cmd)
  <2>1. CASE Write(Append(<<"NOTIFY_BREAKPOINTS">>, cmd)) /\ WaitForNewMessage
    BY <2>1, Writes, WireSteps, FrameSteps
  <2>2. CASE WriteFails /\ (SetLevel("DISCONNECTED") \/ Fail("assert(StartReadMessage)"))
    <3>1. WireType'
      BY <2>2, WireSteps
    <3> QED  BY <1>0, <2>2, <3>1, FrameSteps DEF WireType
  <2> QED  BY <1>3, <2>1, <2>2 DEF SendAndWait
<1> QED  BY <1>1, <1>2, <1>3 DEF ResumeExecution

\* The rest of the frame's types.
Rest ==
  /\ posted \in Seq(Events) /\ queue \in Seq(DaemonMessages) /\ dialog \in BOOLEAN
  /\ early \in {"no", "sent", "refused"}

\* What the user, the event loop and the daemon do keeps the types.
LEMMA UserTypes ==
  ASSUME WireType, FrameType, Rest, User
  PROVE  WireType' /\ FrameType' /\ Rest'
<1> USE DEF Rest
<1>0. /\ {"DISCONNECTED", "WAIT_REPLY"} \subseteq Levels
      /\ {"assert(DISCONNECTED)", "assert(IsConnected)", "assert(WriteMessage)",
        "stress beside the reader", "two readers"}
           \subseteq ClientOver
      /\ "REQUEST_PLATFORM" \in ClientMessages
      /\ {TRUE, FALSE} = BOOLEAN
  BY DEF Levels, ClientOver, ClientMessages
<1>1. CASE ToolConnect
  <2>1. WireType'
    BY <1>0, <1>1, WireSteps DEF ToolConnect
  <2>2. FrameType'
    BY <1>0, <1>1, FrameSteps, ToolbarType DEF ToolConnect, FrameType
  <2> QED  BY <1>1, <2>1, <2>2 DEF ToolConnect
<1>2. CASE ToolDisconnect
  BY <1>0, <1>2, WireSteps, ToolbarType DEF ToolDisconnect, FrameType
<1>3. CASE ToolStartRun
  <2>1. WireType'
    BY <1>3, WireSteps, Writes DEF ToolStartRun
  <2>2. FrameType'
    BY <1>0, <1>3, <2>1, FrameSteps DEF ToolStartRun, FrameType, WireType
  <2>3. posted' \in Seq(Events)
    <3>1. "RESUME_RUN" \in Events
      BY DEF Events
    <3>2. posted' \in {posted, Append(posted, "RESUME_RUN")}
      BY <1>3 DEF ToolStartRun
    <3>3. Append(posted, "RESUME_RUN") \in Seq(Events)
      BY <3>1, AppendProperties
    <3> QED  BY <3>2, <3>3
  <2> QED  BY <1>3, <2>1, <2>2, <2>3 DEF ToolStartRun
<1>4. CASE OnStep
  BY <1>4, ResumeTypes DEF OnStep, Resumes
<1>5. CASE OnToolStop
  <2>1. "RESUME_END_SESSION" \in Resumes
    BY DEF Resumes
  <2> QED  BY <1>5, <2>1, ResumeTypes DEF OnToolStop
<1>6. CASE PaneReload
  <2>1. "RELOAD" \in Events
    BY DEF Events
  <2> QED  BY <1>6, <2>1, AppendProperties DEF PaneReload, WireType, FrameType
<1>7. CASE OnNetStressTest
  <2>1. WireType'
    BY <1>7, WireSteps, Writes DEF OnNetStressTest
  <2>2. ui' \in {"echo"} \cup ClientOver
    BY <1>0, <1>7 DEF OnNetStressTest
  <2> QED  BY <1>7, <2>1, <2>2 DEF OnNetStressTest, FrameType
<1>8. CASE OnReadOnlyEditAttempt
  BY <1>8 DEF OnReadOnlyEditAttempt, WireType, FrameType
<1>9. CASE DialogAnswered
  <2>1. "STOP_SESSION" \in Events
    BY DEF Events
  <2>2. posted' \in Seq(Events)
    BY <1>9, <2>1, AppendProperties DEF DialogAnswered
  <2> QED  BY <1>9, <2>2 DEF DialogAnswered, WireType, FrameType
<1> QED  BY <1>1, <1>2, <1>3, <1>4, <1>5, <1>6, <1>7, <1>8, <1>9 DEF User

LEMMA Reloads ==
  ASSUME NEW n \in Nat, NEW E, "RELOAD" \in E
  PROVE  [i \in 1 .. n |-> "RELOAD"] \in Seq(E)
BY SeqDef

LEMMA UiThreadTypes ==
  ASSUME WireType, FrameType, Rest, UiThread
  PROVE  WireType' /\ FrameType' /\ Rest'
<1> USE DEF Rest
<1>0. /\ {"DISCONNECTED", "CONNECTED", "LUA_PAUSED", "LUA_FATAL_ERROR"} \subseteq Levels
      /\ {"assert(IsLuaStarted)", "assert(REPLY_ECHO_DATA)", "two readers"} \subseteq ClientOver
      /\ {"RELOAD", "INCOMING_MESSAGE", "LUA_SUSPENDED"} \subseteq Events
      /\ {"RESUME_RUN", "RESUME_END_SESSION"} \subseteq Resumes
      /\ {TRUE, FALSE} = BOOLEAN
  BY DEF Levels, ClientOver, Events, Resumes
<1>10. << >> \in Seq(Events) /\ \A event \in Events : <<event>> \in Seq(Events)
  OBVIOUS
<1>1. ASSUME NEW msg
      PROVE  /\ level \in Levels => LevelAfter(msg) \in Levels
             /\ EventsAfter(msg) \in Seq(Events)
  <2>1. level \in Levels => LevelAfter(msg) \in Levels
    BY <1>0 DEF LevelAfter
  <2>2. EventsAfter(msg) \in Seq(Events)
    BY <1>0, <1>10 DEF EventsAfter
  <2> QED  BY <2>1, <2>2
<1>2. posted # << >> => Tail(posted) \in Seq(Events)
  BY HeadTailProperties
<1>3. CASE ProcessPendingEvents
  <2>1. CASE OnLuaSuspended
    <3>1. WireType'
      BY <2>1, WireSteps DEF OnLuaSuspended
    <3>2. FrameType'
      BY <1>0, <2>1, ToolbarType DEF OnLuaSuspended, FrameType, WireType
    <3>3. PICK visible \in 0 .. Books : posted' = Tail(posted) \o [i \in 1 .. visible |-> "RELOAD"]
      BY <2>1 DEF OnLuaSuspended
    <3>4. [i \in 1 .. visible |-> "RELOAD"] \in Seq(Events)
      <4>1. visible \in Nat
        BY FrameAssumption
      <4>2. "RELOAD" \in Events
        BY DEF Events
      <4> QED  BY <4>1, <4>2, Reloads
    <3>5. posted' \in Seq(Events)
      BY <1>2, <1>3, <3>3, <3>4, ConcatProperties DEF ProcessPendingEvents
    <3> QED  BY <1>3, <2>1, <3>1, <3>2, <3>5 DEF OnLuaSuspended, ProcessPendingEvents
  <2>2. CASE OnIncomingMessage
    <3>1. WireType'
      BY <2>2, WireSteps DEF OnIncomingMessage
    <3>2. level' \in Levels
      BY <1>1, <2>2 DEF OnIncomingMessage, FrameType
    <3>3. FrameType'
      BY <2>2, <3>1, <3>2, ToolbarType DEF OnIncomingMessage, FrameType, WireType
    <3>4. queue' \in Seq(DaemonMessages)
      BY <2>2, HeadTailProperties DEF OnIncomingMessage
    <3>5. posted' \in Seq(Events)
      <4>1. CASE queue = << >>
        BY <1>2, <1>3, <2>2, <4>1 DEF OnIncomingMessage, ProcessPendingEvents
      <4>2. CASE queue # << >>
        <5> DEFINE more == IF Len(queue) > 1 THEN <<"INCOMING_MESSAGE">> ELSE << >>
        <5>1. more \in Seq(Events)
          BY <1>0, <1>10
        <5>2. Tail(posted) \o EventsAfter(Head(queue)) \in Seq(Events)
          BY <1>1, <1>2, <1>3, ConcatProperties DEF ProcessPendingEvents
        <5>3. posted' = Tail(posted) \o EventsAfter(Head(queue)) \o more
          BY <2>2, <4>2 DEF OnIncomingMessage
        <5> HIDE DEF more
        <5> QED  BY <5>1, <5>2, <5>3, ConcatProperties
      <4> QED  BY <4>1, <4>2
    <3>6. early' \in {early, "refused"}
      BY <2>2 DEF OnIncomingMessage, EarlyAfter
    <3> QED  BY <1>3, <3>1, <3>3, <3>4, <3>5, <3>6 DEF ProcessPendingEvents
  <2>3. CASE RequestVarReload
    <3>1. WireType'
      BY <2>3, WireSteps, Writes DEF RequestVarReload
    <3>2. ui' \in {ui, "reply", "two readers"}
      BY <2>3 DEF RequestVarReload
    <3> QED  BY <1>0, <1>2, <1>3, <2>3, <3>1, <3>2 DEF RequestVarReload, ProcessPendingEvents, FrameType
  <2>4. CASE OnStopSession
    <3>1. WireType' /\ FrameType'
      BY <1>0, <2>4, WireSteps, FrameSteps, ResumeTypes DEF OnStopSession
    <3> QED  BY <1>2, <1>3, <2>4, <3>1 DEF OnStopSession, ProcessPendingEvents
  <2>5. CASE ResumeExecution("RESUME_RUN") /\ posted' = Tail(posted) /\ UNCHANGED <<queue, early>>
    BY <1>0, <1>2, <1>3, <2>5, ResumeTypes DEF ProcessPendingEvents
  <2> QED  BY <1>3, <2>1, <2>2, <2>3, <2>4, <2>5 DEF ProcessPendingEvents
<1>4. CASE OnAsyncReadTimerDone
  <2>1. level' \in Levels
    BY <1>1, <1>4 DEF OnAsyncReadTimerDone, FrameType
  <2>2. posted' \in Seq(Events)
    BY <1>1, <1>4, ConcatProperties DEF OnAsyncReadTimerDone
  <2>3. early' \in {early, "refused"}
    BY <1>4 DEF OnAsyncReadTimerDone, EarlyAfter
  <2> QED  BY <1>0, <1>4, <2>1, <2>2, <2>3, WireSteps, ToolbarType DEF OnAsyncReadTimerDone, FrameType
<1>5. CASE OnAsyncReadTimerFailed
  BY <1>0, <1>5, WireSteps, ToolbarType DEF OnAsyncReadTimerFailed, FrameType
<1>6. CASE ReadMessage
  <2>1. Head(toClient) \in DaemonMessages /\ Tail(toClient) \in Seq(DaemonMessages)
    BY <1>6, HeadTailProperties DEF ReadMessage, WireType
  <2>2. WireType'
    BY <1>6, <2>1 DEF ReadMessage, WireType
  <2>3. ui' \in {"loop"} \cup ClientOver
    BY <1>0, <1>6 DEF ReadMessage
  <2>4. queue' \in Seq(DaemonMessages) /\ posted' \in Seq(Events)
    <3>1. CASE queue' = Append(queue, Head(toClient)) /\ posted' = Append(posted, "INCOMING_MESSAGE")
      BY <1>0, <2>1, <3>1, AppendProperties
    <3>2. CASE UNCHANGED <<queue, posted>>
      BY <3>2
    <3> QED  BY <1>6, <3>1, <3>2 DEF ReadMessage
  <2> QED  BY <1>6, <2>2, <2>3, <2>4 DEF ReadMessage, FrameType
<1>7. CASE ReadMessagePolls
  BY <1>7, WireSteps DEF ReadMessagePolls, FrameType
<1> QED  BY <1>3, <1>4, <1>5, <1>6, <1>7 DEF UiThread

LEMMA DaemonTypes ==
  ASSUME WireType, DaemonType, DaemonThread \/ DaemonWorld
  PROVE  WireType' /\ DaemonType'
<1> USE DEF DaemonOver, Pauses
<1>0. << >> \in Seq(DaemonMessages)
  OBVIOUS
<1>1. \A how \in DaemonOver : DaemonEnds(how) => DaemonType'
  BY DEF DaemonEnds, DaemonType
<1>2. CASE Accept \/ LoadStartFile \/ ProgramEnds
  <2>1. WireType'
    BY <1>2, WireSteps DEF Accept, LoadStartFile, ProgramEnds
  <2> QED  BY <1>2, <2>1 DEF Accept, LoadStartFile, ProgramEnds, DaemonType
<1>3. CASE SetupRead \/ PausedRead
  <2>1. WireType'
    BY <1>3, WireSteps, AnswerTypes DEF SetupRead, PausedRead
  <2> QED  BY <1>3, <2>1 DEF SetupRead, PausedRead, DaemonType
<1>4. CASE SyncNStart
  BY <1>0, <1>4, WireSteps DEF SyncNStart, DaemonType
<1>5. CASE PausedReadUnexpected
  <2>1. "UNEXPECTED_DURING_DEBUG" \in DaemonMessages /\ << >> \in Seq(ClientMessages)
    BY DEF DaemonMessages, Unexpected
  <2>2. WireType'
    BY <1>5, <2>1, AppendProperties DEF PausedReadUnexpected, WireType
  <2> QED  BY <1>1, <1>5, <2>2 DEF PausedReadUnexpected
<1>6. CASE ResumeDaemon
  <2>1. CASE \E msg : Receive(msg, << >>)
    <3>1. WireType'
      BY <1>0, <2>1, WireSteps
    <3>2. CASE \E cmd \in Resumes : aborted' = (cmd = "RESUME_END_SESSION") /\ daemon' = "running" /\ pause' = "none"
      <4>1. PICK cmd \in Resumes : aborted' = (cmd = "RESUME_END_SESSION")
        BY <3>2
      <4>2. aborted' \in BOOLEAN
        BY <4>1
      <4> QED  BY <3>1, <3>2, <4>2 DEF DaemonType
    <3>3. CASE daemon' = "cleanup" /\ pause' = "none" /\ UNCHANGED aborted
      BY <3>1, <3>3 DEF DaemonType
    <3>4. CASE \E how \in DaemonOver : DaemonEnds(how)
      BY <1>1, <3>1, <3>4
    <3> QED  BY <1>6, <3>2, <3>3, <3>4 DEF ResumeDaemon, DaemonFailsOn
  <2>2. CASE DaemonCloses /\ \E how \in DaemonOver : DaemonEnds(how)
    BY <1>1, <2>2, WireSteps
  <2> QED  BY <1>6, <2>1, <2>2 DEF ResumeDaemon, DaemonFailsOn
<1>7. CASE CleanUp
  <2>1. <<"NOTIFY_SESSION_ENDED">> \in Seq(DaemonMessages)
    BY DEF DaemonMessages
  <2>2. WireType'
    BY <1>7, <2>1, WireSteps DEF CleanUp
  <2> QED  BY <1>7, <2>2 DEF CleanUp, DaemonType
<1>8. CASE DaemonLosesClient
  <2>1. CASE UNCHANGED wireVars /\ daemon' \in {"cleanup", "running"} /\ aborted' = TRUE /\ pause' = "none"
    BY <2>1, WireSteps DEF DaemonType
  <2>2. CASE DaemonCloses /\ \E how \in DaemonOver : DaemonEnds(how)
    BY <1>1, <2>2, WireSteps
  <2> QED  BY <1>8, <2>1, <2>2 DEF DaemonLosesClient
<1>9. CASE PauseProgram
  <2>1. PICK why \in Pauses : (\E msgs \in PauseMessages(why) : Send(msgs)) /\ daemon' = "paused" /\ pause' = why
    BY <1>9 DEF PauseProgram
  <2>2. WireType'
    BY <2>1, WireSteps, AnswerTypes
  <2> QED  BY <1>9, <2>1, <2>2 DEF PauseProgram, DaemonType
<1>10. CASE Kill
  BY <1>1, <1>10, WireSteps DEF Kill
<1>11. CASE Launch
  BY <1>11 DEF Launch, WireType, DaemonType
<1> QED
  BY <1>2, <1>3, <1>4, <1>5, <1>6, <1>7, <1>8, <1>9, <1>10, <1>11 DEF DaemonThread, DaemonWorld

\* The first state has its types, and so has the state after every step.
LEMMA InitTypes == Init => TypeOK
<1>1. Toolbar("DISCONNECTED", FALSE) \in [{"start", "step", "stop", "stress"} -> BOOLEAN]
  BY ToolbarType DEF Levels
<1>2. << >> \in Seq(ClientMessages) /\ << >> \in Seq(DaemonMessages) /\ << >> \in Seq(Events)
  OBVIOUS
<1> QED
  BY <1>1, <1>2 DEF Init, WireInit, ClientInit, DaemonInit, TypeOK, WireType, ClientType, DaemonType, Levels

LEMMA StepTypes == TypeOK /\ [Next]_vars => TypeOK'
<1> SUFFICES ASSUME TypeOK, [Next]_vars
             PROVE  TypeOK'
  OBVIOUS
<1>1. TypeOK <=> WireType /\ FrameType /\ Rest /\ DaemonType
  BY DEF TypeOK, ClientType, FrameType, Rest
<1>2. TypeOK' <=> (WireType /\ FrameType /\ Rest /\ DaemonType)'
  BY DEF TypeOK, ClientType, FrameType, Rest
<1>3. UNCHANGED clientVars => (FrameType /\ Rest)'
  BY <1>1 DEF FrameType, Rest
<1>4. UNCHANGED daemonVars => DaemonType'
  BY <1>1 DEF DaemonType
<1>5. CASE UNCHANGED vars
  BY <1>1, <1>2, <1>3, <1>4, <1>5, WireSteps
<1>6. CASE DaemonNext
  BY <1>1, <1>2, <1>3, <1>6, DaemonTypes DEF DaemonNext
<1>7. CASE ClientNext
  <2>1. CASE User \/ UiThread
    BY <1>1, <1>2, <1>4, <1>7, <2>1, UserTypes, UiThreadTypes DEF ClientNext
  <2>2. CASE AsyncRead
    <3>1. toClient # << >> => Head(toClient) \in DaemonMessages /\ Tail(toClient) \in Seq(DaemonMessages)
      BY <1>1, HeadTailProperties DEF WireType
    <3>2. (WireType /\ FrameType /\ Rest)'
      BY <1>1, <2>2, <3>1 DEF AsyncRead, WireType, FrameType, Rest
    <3> QED  BY <1>2, <1>4, <1>7, <3>2 DEF ClientNext
  <2>3. CASE ClientProcessOver
    BY <1>1, <1>2, <1>3, <1>4, <1>7, <2>3, WireSteps DEF ClientNext, ClientProcessOver
  <2> QED  BY <1>7, <2>1, <2>2, <2>3 DEF ClientNext
<1> QED  BY <1>5, <1>6, <1>7 DEF Next

\* In every environment the state is one of the declared types: no handler leaves a
\* level, an event, a message or a thread's state that no code knows.
THEOREM SessionTypes == Spec => []TypeOK
BY InitTypes, StepTypes, PTL DEF Spec

-----------------------------------------------------------------------------
(* The turns. Facts about sequences first.                                 *)

Inv == TypeOK /\ Served

\* The events that queue up are handled from their head, and others are posted alone.
LEMMA EventSeqs ==
  /\ << >> \in Backlog
  /\ \A s, t \in Backlog : s \o t \in Backlog
  /\ \A s \in Backlog : s # << >> => Tail(s) \in Backlog /\ Head(s) \in {"RELOAD", "INCOMING_MESSAGE"}
  /\ \A s \in Backlog : \A e \in {"RELOAD", "INCOMING_MESSAGE"} : Append(s, e) \in Backlog
  /\ \A event : event \notin {"RELOAD", "INCOMING_MESSAGE"} => <<event>> \notin Backlog
<1> USE DEF Backlog
<1>1. << >> \in Backlog
  OBVIOUS
<1>2. \A s, t \in Backlog : s \o t \in Backlog
  BY ConcatProperties
<1>3. \A s \in Backlog : s # << >> => Tail(s) \in Backlog /\ Head(s) \in {"RELOAD", "INCOMING_MESSAGE"}
  BY HeadTailProperties
<1>4. \A s \in Backlog : \A e \in {"RELOAD", "INCOMING_MESSAGE"} : Append(s, e) \in Backlog
  BY AppendProperties
<1>5. \A event : event \notin {"RELOAD", "INCOMING_MESSAGE"} => <<event>> \notin Backlog
  OBVIOUS
<1> QED  BY <1>1, <1>2, <1>3, <1>4, <1>5

\* So are the replies in the queue.
LEMMA QueueFacts ==
  \A s \in Seq({"REPLY_VARIABLES"}) :
    /\ Append(s, "REPLY_VARIABLES") \in Seq({"REPLY_VARIABLES"})
    /\ s # << >> => Tail(s) \in Seq({"REPLY_VARIABLES"}) /\ Head(s) = "REPLY_VARIABLES"
BY AppendProperties, HeadTailProperties

\* Sequences of up to three messages.
LEMMA Short ==
  /\ << >> \o << >> = << >>
  /\ \A x : /\ Head(<<x>>) = x /\ Tail(<<x>>) = << >> /\ <<x>> # << >>
            /\ << >> \o <<x>> = <<x>> /\ <<x>> \o << >> = <<x>> /\ Append(<< >>, x) = <<x>>
  /\ \A x, y : /\ Head(<<x, y>>) = x /\ Tail(<<x, y>>) = <<y>> /\ <<x, y>> # << >>
               /\ << >> \o <<x, y>> = <<x, y>>
  /\ \A x, y, z : /\ Head(<<x, y, z>>) = x /\ Tail(<<x, y, z>>) = <<y, z>> /\ <<x, y, z>> # << >>
                  /\ << >> \o <<x, y, z>> = <<x, y, z>> /\ <<x>> # <<y, z>>
OBVIOUS

\* What the frame has yet to handle begins with what the reader thread got.
LEMMA UnhandledFacts ==
  ASSUME NEW got, NEW coming \in Seq(DaemonMessages)
  PROVE  /\ got \in DaemonMessages =>
              /\ UnhandledOf(got, coming) # << >>
              /\ Head(UnhandledOf(got, coming)) = got
              /\ Tail(UnhandledOf(got, coming)) = coming
         /\ got \notin DaemonMessages => UnhandledOf(got, coming) = coming
<1>1. CASE got \in DaemonMessages
  <2> DEFINE all == <<got>> \o coming
  <2>0. <<got>> \in Seq(DaemonMessages) /\ Len(<<got>>) = 1 /\ <<got>>[1] = got
    BY <1>1
  <2>1. all \in Seq(DaemonMessages) /\ Len(all) = 1 + Len(coming) /\ Len(coming) \in Nat
    BY <2>0, ConcatProperties
  <2>2. all[1] = got
    BY <2>0, <2>1, ConcatProperties
  <2>3. \A i \in 1 .. Len(coming) : all[i + 1] = coming[i]
    BY <2>0, <2>1, ConcatProperties
  <2> HIDE DEF all
  <2>4. all # << >> /\ Head(all) = got
    BY <2>1, <2>2
  <2>5. Tail(all) \in Seq(DaemonMessages) /\ Len(Tail(all)) = Len(coming)
        /\ \A i \in 1 .. Len(coming) : Tail(all)[i] = coming[i]
    BY <2>1, <2>3, <2>4, HeadTailProperties
  <2>6. Tail(all) = coming
    BY <2>5, SeqEqual
  <2> QED  BY <1>1, <2>4, <2>6 DEF UnhandledOf, all
<1> QED  BY <1>1 DEF UnhandledOf

\* The messages of a pause, read one by one, end with the suspended state.
LEMMA PauseTailFacts ==
  /\ \A msgs \in PauseTail :
       /\ msgs # << >> /\ msgs \in Seq(DaemonMessages)
       /\ \/ Head(msgs) \in Suspensions /\ Tail(msgs) = << >>
          \/ Head(msgs) \in {"REPLY_STACK", "NOTIFY_SCRIPT_LOADED"} /\ Tail(msgs) \in PauseTail
  /\ \A why \in Pauses : PauseMessages(why) \subseteq PauseTail
<1>1. ASSUME NEW msgs \in PauseTail
      PROVE  /\ msgs # << >> /\ msgs \in Seq(DaemonMessages)
             /\ \/ Head(msgs) \in Suspensions /\ Tail(msgs) = << >>
                \/ Head(msgs) \in {"REPLY_STACK", "NOTIFY_SCRIPT_LOADED"} /\ Tail(msgs) \in PauseTail
  <2>1. PICK end \in Suspensions :
          msgs \in {<<end>>, <<"REPLY_STACK", end>>, <<"NOTIFY_SCRIPT_LOADED", end>>,
                    <<"REPLY_STACK", "NOTIFY_SCRIPT_LOADED", end>>}
    BY DEF PauseTail
  <2>2. /\ <<end>> \in PauseTail /\ <<"NOTIFY_SCRIPT_LOADED", end>> \in PauseTail
    BY DEF PauseTail
  <2>3. end \in DaemonMessages /\ {"REPLY_STACK", "NOTIFY_SCRIPT_LOADED"} \subseteq DaemonMessages
    BY DEF Suspensions, DaemonMessages
  <2>4. msgs \in Seq(DaemonMessages)
    <3>1. /\ \A x \in DaemonMessages : <<x>> \in Seq(DaemonMessages)
          /\ \A x, y \in DaemonMessages : <<x, y>> \in Seq(DaemonMessages)
          /\ \A x, y, z \in DaemonMessages : <<x, y, z>> \in Seq(DaemonMessages)
      OBVIOUS
    <3> QED  BY <2>1, <2>3, <3>1
  <2>5. CASE msgs = <<end>>
    BY <2>4, <2>5, Short
  <2>6. ASSUME NEW first \in {"REPLY_STACK", "NOTIFY_SCRIPT_LOADED"}, msgs = <<first, end>>
        PROVE  msgs # << >> /\ Head(msgs) = first /\ Tail(msgs) \in PauseTail
    BY <2>2, <2>6, Short
  <2>7. CASE msgs = <<"REPLY_STACK", "NOTIFY_SCRIPT_LOADED", end>>
    BY <2>2, <2>4, <2>7, Short
  <2> QED  BY <2>1, <2>4, <2>5, <2>6, <2>7
<1>2. ASSUME NEW why \in Pauses
      PROVE  PauseMessages(why) \subseteq PauseTail
  BY DEF PauseMessages, PauseTail, Suspensions
<1> QED  BY <1>1, <1>2

-----------------------------------------------------------------------------
(* The client's half.                                                      *)

\* In its turn the client has an idle connection.
LEMMA ClientTurn ==
  ASSUME Inv, clientOpen, IsClientActive, ui = "loop"
  PROVE  /\ reader = "none" /\ toClient = << >> /\ toDaemon = << >>
         /\ server = "open" => daemon = IF level = "CONNECTED" THEN "setup" ELSE "paused"
         /\ level \in {"CONNECTED", "LUA_PAUSED", "LUA_FATAL_ERROR"}
<1>1. reader = "none"
  BY DEF Inv, Served, FrameInv
<1>2. level \in {"CONNECTED", "LUA_PAUSED", "LUA_FATAL_ERROR"}
  BY DEF Inv, Served, FrameInv, IsClientActive, ActiveLevels, Levels
<1>3. CASE server = "open"
  BY <1>1, <1>2, <1>3 DEF Inv, Served, SyncInv, Connected
<1>4. CASE server # "open"
  BY <1>1, <1>2, <1>4 DEF Inv, Served, LostInv, SocketInv
<1> QED  BY <1>1, <1>2, <1>3, <1>4

\* What is handled of a backlog leaves a backlog.
LEMMA BacklogKept ==
  ASSUME Inv, posted' \in Backlog, queue' = queue, ui' \notin {"reply", "echo"}
  PROVE  EventsInv'
<1>1. <<"LUA_SUSPENDED">> \notin Backlog /\ <<"RESUME_RUN">> \notin Backlog
  BY EventSeqs
<1> QED  BY <1>1 DEF EventsInv, Inv, Served

\* The invariant does not depend on what the rest of the frame does.
LEMMA Stays ==
  ASSUME Inv, UNCHANGED <<wireVars, level, tools, reader, ui, early, daemonVars>>, EventsInv'
  PROVE  Served'
BY DEF Inv, Served, FrameInv, SocketInv, SyncInv, AsyncInv, LostInv, Requests, Connected,
       IsClientActive, IsLuaStarted, Unhandled, EarlySteps, Refusals, SetupTail

\* A client that closes, or has closed, leaves a daemon that will notice.
LEMMA Disconnects ==
  ASSUME Inv, clientOpen' = FALSE, toClient' = << >>, toDaemon' \in {toDaemon, << >>},
         UNCHANGED <<server, daemonVars>>, early' = early,
         level' # "WAIT_REPLY" \/ ui' = "assert(WriteMessage)",
         ui' \notin {"reply", "echo", "two readers", "stress beside the reader", "assert(REPLY_ECHO_DATA)"},
         tools'.stop => level' \in Started, EventsInv'
  PROVE  Served'
<1>1. FrameInv'
  BY DEF FrameInv, IsLuaStarted
<1>2. SocketInv'
  <2>1. << >> \in Requests
    BY DEF Requests
  <2>2. toDaemon' \in Requests
    BY <2>1 DEF Inv, Served, SocketInv
  <2> QED  BY <2>2 DEF Inv, Served, SocketInv, Requests, EarlySteps
<1>3. SyncInv' /\ AsyncInv' /\ LostInv'
  BY DEF SyncInv, AsyncInv, LostInv, Connected
<1> QED  BY <1>1, <1>2, <1>3 DEF Served

\* A client that gives its turn away, to a daemon that reads this in its phase.
LEMMA GivesTurn ==
  ASSUME Inv, clientOpen, IsClientActive, ui = "loop",
         NEW msgs \in Seq(ClientMessages), msgs # << >>,
         msgs \notin Asks,
         server = "open" => msgs \in Requests',
         Write(msgs), WaitForNewMessage, UNCHANGED daemonVars, posted' = << >>, queue' = queue
  PROVE  Served'
<1>1. /\ reader = "none" /\ toClient = << >> /\ toDaemon = << >>
  BY ClientTurn
<1>2. level' = "WAIT_REPLY" /\ reader' = "reading" /\ ui' = "loop" /\ tools' = Toolbar("WAIT_REPLY", TRUE)
  BY <1>1 DEF WaitForNewMessage
<1>3. /\ toDaemon' = IF server = "open" THEN msgs ELSE << >>
      /\ UNCHANGED <<toClient, server, clientOpen>>
  BY <1>1, ConcatEmptySeq DEF Write
<1>4. EventsInv'
  BY <1>2, EventSeqs DEF EventsInv, Inv, Served
<1>5. FrameInv'
  BY <1>2, <1>3 DEF FrameInv, IsClientActive, ActiveLevels, Toolbar
<1>7. SocketInv'
  BY <1>1, <1>3 DEF Inv, Served, SocketInv, Requests
<1>8. Unhandled' = << >>
  BY <1>1, <1>2, <1>3 DEF Unhandled, UnhandledOf, DaemonMessages, Unexpected
<1>9. SyncInv' /\ AsyncInv' /\ LostInv'
  BY <1>1, <1>2, <1>3, <1>8 DEF SyncInv, AsyncInv, LostInv, Connected, IsClientActive, ActiveLevels
<1> QED  BY <1>4, <1>5, <1>7, <1>9 DEF Served

\* What ResumeExecution() does with a client that has its turn, in a pause or for a
\* step before the start, or has not, or has lost its socket.
LEMMA Resuming ==
  ASSUME Inv, NEW cmd \in Resumes, ResumeExecution(cmd), ui = "loop",
         level = "CONNECTED" => cmd \in StepCmds,
         early' = IF level = "CONNECTED" /\ level' = "WAIT_REPLY" THEN "sent" ELSE early,
         UNCHANGED daemonVars, posted' = << >>, queue' = queue
  PROVE  Served'
<1>1. ui' \notin {"reply", "echo"} => EventsInv'
  BY EventSeqs DEF EventsInv, Inv, Served
<1>2. CASE UNCHANGED <<wireVars, level, tools, reader, ui>>
  BY <1>1, <1>2, Stays
<1>3. CASE SpuriousDisconnection
  <2>1. /\ clientOpen' = FALSE /\ toClient' = << >> /\ UNCHANGED <<toDaemon, server>>
        /\ level' = "DISCONNECTED" /\ ui' = "loop" /\ tools' = Toolbar("DISCONNECTED", clientOpen')
    BY <1>3 DEF SpuriousDisconnection, SetLevel, Inv, Served, SocketInv, TypeOK, WireType
  <2>2. ~tools'.stop
    BY <2>1 DEF Toolbar, ActiveLevels, Started
  <2> QED  BY <1>1, <2>1, <2>2, Disconnects
<1>4. CASE clientOpen /\ IsClientActive /\ SendAndWait(<<"NOTIFY_BREAKPOINTS">>, cmd)
  <2>1. CASE Write(Append(<<"NOTIFY_BREAKPOINTS">>, cmd)) /\ WaitForNewMessage
    <3> DEFINE msgs == <<"NOTIFY_BREAKPOINTS", cmd>>
    <3>1. msgs = Append(<<"NOTIFY_BREAKPOINTS">>, cmd) /\ msgs \in Seq(ClientMessages)
      BY Writes
    <3>2. msgs # << >> /\ msgs \notin Asks
      BY Short DEF Asks
    <3>3. server = "open" => msgs \in Requests'
      <4>1. server = "open" => daemon' = IF level = "CONNECTED" THEN "setup" ELSE "paused"
        BY <1>4, ClientTurn
      <4>2. msgs \in {<<"NOTIFY_BREAKPOINTS", c>> : c \in Resumes}
        OBVIOUS
      <4>3. CASE level = "CONNECTED"
        <5>1. level' = "WAIT_REPLY" /\ early' = "sent"
          BY <1>4, <2>1, <4>3, ClientTurn DEF WaitForNewMessage
        <5>2. msgs \in {<<"NOTIFY_BREAKPOINTS", c>> : c \in StepCmds}
          BY <4>3
        <5>3. msgs \in EarlySteps'
          BY <5>1, <5>2 DEF EarlySteps
        <5> QED  BY <4>1, <4>3, <5>3 DEF Requests
      <4>4. CASE level # "CONNECTED"
        BY <4>1, <4>2, <4>4 DEF Requests
      <4> QED  BY <4>3, <4>4
    <3> HIDE DEF msgs
    <3>4. Write(msgs)
      BY <2>1, <3>1
    <3> QED  BY <1>4, <2>1, <3>1, <3>2, <3>3, <3>4, GivesTurn
  <2>2. CASE WriteFails /\ (SetLevel("DISCONNECTED") \/ Fail("assert(StartReadMessage)"))
    <3>1. clientOpen' = FALSE /\ toClient' = << >> /\ UNCHANGED <<toDaemon, server>>
      BY <2>2 DEF WriteFails
    <3>2. CASE SetLevel("DISCONNECTED")
      <4>1. level' = "DISCONNECTED" /\ ui' = "loop" /\ ~tools'.stop
        BY <3>2 DEF SetLevel, Toolbar, ActiveLevels, Started
      <4> QED  BY <1>1, <3>1, <4>1, Disconnects
    <3>3. CASE Fail("assert(StartReadMessage)")
      <4>1. ui' = "assert(StartReadMessage)" /\ level' = level /\ tools' = tools
        BY <3>3 DEF Fail
      <4>2. level' # "WAIT_REPLY" /\ (tools'.stop => level' \in Started)
        BY <1>4, <4>1 DEF IsClientActive, ActiveLevels, Inv, Served, FrameInv, IsLuaStarted
      <4> QED  BY <1>1, <3>1, <4>1, <4>2, Disconnects
    <3> QED  BY <2>2, <3>2, <3>3
  <2> QED  BY <1>4, <2>1, <2>2 DEF SendAndWait
<1> QED  BY <1>2, <1>3, <1>4 DEF ResumeExecution

\* The user acts only on a frame whose events are handled.
LEMMA Unoverlapped ==
  ASSUME Inv, Orderly, NativeEvent
  PROVE  posted = << >> /\ ui = "loop"
BY DEF NativeEvent, Orderly

\* No message of a pause is an echo.
LEMMA NoEcho ==
  \A msgs \in PauseTail \cup {<< >>} : \A i \in DOMAIN msgs : msgs[i] \notin {"REPLY_ECHO_DATA"} \cup Unexpected
<1> SUFFICES ASSUME NEW msgs \in PauseTail \cup {<< >>}, NEW i \in DOMAIN msgs
             PROVE  msgs[i] \notin {"REPLY_ECHO_DATA"} \cup Unexpected
  OBVIOUS
<1>1. CASE msgs = << >>
  BY <1>1
<1>2. CASE msgs \in PauseTail
  <2>1. PICK end \in Suspensions :
          msgs \in {<<end>>, <<"REPLY_STACK", end>>, <<"NOTIFY_SCRIPT_LOADED", end>>,
                    <<"REPLY_STACK", "NOTIFY_SCRIPT_LOADED", end>>}
    BY <1>2 DEF PauseTail
  <2>2. msgs[i] \in {end, "REPLY_STACK", "NOTIFY_SCRIPT_LOADED"}
    BY <2>1
  <2> QED  BY <2>1, <2>2 DEF Suspensions, Unexpected
<1> QED  BY <1>1, <1>2

\* A stress test at CONNECTED, or beside a message that gives the client its turn in
\* the setup, is answered; any other ruins the session.
LEMMA StressTest ==
  ASSUME Inv, OnNetStressTest, posted = << >>, ui = "loop", UNCHANGED daemonVars
  PROVE  Served' \/ Ruined'
<1>0. /\ clientOpen /\ UNCHANGED <<level, tools, reader, posted, queue, dialog, early, daemonVars>>
  BY DEF OnNetStressTest
<1>1. CASE WriteFails /\ ui' = "assert(WriteMessage)"
  <2>1. clientOpen' = FALSE /\ toClient' = << >> /\ UNCHANGED <<toDaemon, server>>
    BY <1>1 DEF WriteFails
  <2>2. tools'.stop => level' \in Started
    BY <1>0 DEF Inv, Served, FrameInv, IsLuaStarted
  <2>3. EventsInv'
    BY <1>0, <1>1, EventSeqs DEF EventsInv, Inv, Served
  <2> QED  BY <1>0, <1>1, <2>1, <2>2, <2>3, Disconnects
<1>2. CASE Write(<<"REQUEST_ECHO_DATA">>) /\ reader = "reading" /\ ui' = "stress beside the reader"
  <2>1. ~IsClientActive
    BY <1>0, <1>2 DEF Inv, Served, FrameInv
  <2>2. level' # "CONNECTED"
    BY <1>0, <2>1 DEF IsClientActive, ActiveLevels, Levels
  <2> QED  BY <1>2, <2>2 DEF Ruined
<1>3. CASE Write(<<"REQUEST_ECHO_DATA">>) /\ reader # "reading" /\ ui' = "echo"
  <2>1. /\ toDaemon' = IF server = "open" THEN toDaemon \o <<"REQUEST_ECHO_DATA">> ELSE toDaemon
        /\ UNCHANGED <<toClient, server, clientOpen>>
    BY <1>3 DEF Write
  <2>2. EventsInv'
    BY <1>0, <1>3, <2>1, EventSeqs DEF EventsInv, Inv, Served
  <2>3. CASE IsClientActive
    <3>1. /\ reader = "none" /\ toClient = << >> /\ toDaemon = << >>
          /\ server = "open" => daemon = IF level = "CONNECTED" THEN "setup" ELSE "paused"
          /\ level \in {"CONNECTED", "LUA_PAUSED", "LUA_FATAL_ERROR"}
      BY <1>0, <2>3, ClientTurn
    <3>2. toDaemon' = IF server = "open" THEN <<"REQUEST_ECHO_DATA">> ELSE << >>
      BY <2>1, <3>1, Short
    <3>3. CASE level = "CONNECTED"
      <4>1. FrameInv'
        BY <1>0, <1>3, <2>1, <3>1, <3>3 DEF FrameInv, IsClientActive, Inv, Served, IsLuaStarted
      <4>2. SocketInv'
        BY <1>0, <2>1, <3>1, <3>2, <3>3 DEF SocketInv, Requests, EarlySteps, Inv, Served
      <4>3. SyncInv' /\ AsyncInv' /\ LostInv'
        BY <1>0, <1>3, <2>1, <3>1, <3>2, <3>3
           DEF SyncInv, AsyncInv, LostInv, Connected, IsClientActive, ActiveLevels, Echoes
      <4> QED  BY <2>2, <4>1, <4>2, <4>3 DEF Served
    <3>4. CASE level # "CONNECTED"
      <4>1. server # "open" => daemon \in DaemonOver \cup {"listen"}
        BY DEF Inv, Served, SocketInv, TypeOK, WireType
      <4> QED  BY <1>0, <1>3, <2>1, <3>1, <3>2, <3>4, <4>1 DEF Ruined, IsClientActive
    <3> QED  BY <3>3, <3>4
  <2>4. CASE ~IsClientActive
    <3>1. level = "WAIT_REPLY" /\ reader # "none"
      BY <1>0, <2>4 DEF IsClientActive, ActiveLevels, Inv, TypeOK, ClientType, Served, FrameInv
    <3>2. CASE server = "open"
      <4>1. reader \in DaemonMessages
        BY <1>0, <1>3, <3>1, <3>2 DEF Inv, Served, AsyncInv, Connected, TypeOK, ClientType
      <4>2. Unhandled # << >> /\ Head(Unhandled) = reader /\ Tail(Unhandled) = toClient
        BY <4>1, UnhandledFacts DEF Inv, TypeOK, WireType, Unhandled
      <4>3. /\ toDaemon = << >>
            /\ \/ daemon = "setup" /\ Unhandled \in SetupTail
               \/ daemon = "paused" /\ Unhandled \in PauseTail
        BY <1>0, <3>1, <3>2, <4>2 DEF Inv, Served, AsyncInv, Connected
      <4>4. toDaemon' = <<"REQUEST_ECHO_DATA">>
        BY <2>1, <3>2, <4>3, Short
      <4>5. CASE daemon = "setup" /\ Unhandled \in SetupTail
        <5>1. toClient = << >> /\ <<reader>> \in SetupTail
          BY <4>2, <4>5, Short DEF SetupTail, Refusals
        <5>2. FrameInv'
          BY <1>0, <1>3, <2>1, <3>1, <4>1 DEF FrameInv, IsClientActive, Inv, Served, IsLuaStarted
        <5>3. SocketInv'
          BY <1>0, <2>1, <3>2, <4>4, <4>5 DEF SocketInv, Requests, EarlySteps, Inv, Served
        <5>4. SyncInv' /\ LostInv'
          BY <1>0, <2>1, <2>4, <3>2 DEF SyncInv, LostInv, IsClientActive
        <5>5. AsyncInv'
          BY <1>0, <1>3, <2>1, <4>4, <4>5, <5>1 DEF AsyncInv, Echoes, SetupTail, Refusals
        <5> QED  BY <2>2, <5>2, <5>3, <5>4, <5>5 DEF Served
      <4>6. CASE daemon = "paused" /\ Unhandled \in PauseTail
        <5>1. toClient = << >> \/ toClient \in PauseTail
          BY <4>2, <4>6, PauseTailFacts
        <5> QED  BY <1>0, <1>3, <2>1, <2>4, <3>1, <3>2, <4>4, <4>6, <5>1, NoEcho DEF Ruined, IsClientActive
      <4> QED  BY <4>3, <4>5, <4>6
    <3>3. CASE server # "open"
      <4>1. daemon \in DaemonOver \cup {"listen"}
        BY <3>3 DEF Inv, Served, SocketInv, TypeOK, WireType
      <4>2. \/ toClient = << >>
            \/ reader # "failed" /\ Unhandled \in {<< >>} \cup SetupTail \cup PauseTail
        BY <1>0, <3>1, <3>3 DEF Inv, Served, LostInv
      <4>3. toClient = << >> \/ toClient \in PauseTail
        <5>1. CASE reader \in DaemonMessages
          <6>1. Unhandled # << >> /\ Tail(Unhandled) = toClient
            BY <5>1, UnhandledFacts DEF Inv, TypeOK, WireType, Unhandled
          <6> QED  BY <4>2, <6>1, PauseTailFacts, Short DEF SetupTail, Refusals
        <5>2. CASE reader \notin DaemonMessages
          BY <1>3, <3>1, <4>2, <5>2 DEF Inv, TypeOK, ClientType
        <5> QED  BY <5>1, <5>2
      <4> QED  BY <1>0, <1>3, <2>1, <3>1, <3>3, <4>1, <4>3, NoEcho DEF Ruined
    <3> QED  BY <3>2, <3>3
  <2> QED  BY <2>3, <2>4
<1> QED  BY <1>1, <1>2, <1>3 DEF OnNetStressTest

\* What the user does keeps the session served, but for a stress test run in it.
LEMMA UserKeeps ==
  ASSUME Inv, Orderly, User, UNCHANGED daemonVars
  PROVE  Served' \/ Ruined'
<1>0. /\ posted = << >> /\ ui = "loop"
  BY Unoverlapped DEF User, ToolConnect, ToolDisconnect, ToolStartRun, OnStep, OnToolStop, PaneReload,
     OnNetStressTest, OnReadOnlyEditAttempt, DialogAnswered, UserEvent
<1>a. posted' = << >> /\ queue' = queue /\ ui' \notin {"reply", "echo"} => EventsInv'
  BY EventSeqs DEF EventsInv, Inv, Served
<1>1. CASE ToolConnect
  <2>1. CASE Connect("REQUEST_PLATFORM") /\ level = "DISCONNECTED" /\ level' = "WAIT_REPLY"
             /\ tools' = Toolbar(level', TRUE) /\ reader' = "reading" /\ ui' = ui
    <3>1. /\ daemon' = "listen" /\ server' = "open" /\ clientOpen'
          /\ toDaemon' = <<"REQUEST_PLATFORM">> /\ toClient' = << >>
      BY <2>1 DEF Connect, Inv, Served, SocketInv
    <3>2. FrameInv'
      BY <1>0, <2>1, <3>1 DEF FrameInv, IsClientActive, ActiveLevels, Toolbar
    <3>3. SocketInv'
      BY <3>1 DEF SocketInv, Requests, DaemonOver
    <3>4. Unhandled' = << >>
      BY <2>1, <3>1 DEF Unhandled, UnhandledOf, DaemonMessages, Unexpected
    <3>5. toDaemon' # << >> /\ toDaemon' \notin Asks
      BY <3>1, Short DEF Asks
    <3>6. SyncInv' /\ AsyncInv' /\ LostInv'
      BY <1>0, <2>1, <3>1, <3>4, <3>5 DEF SyncInv, AsyncInv, LostInv, Connected, IsClientActive, ActiveLevels
    <3> QED  BY <1>0, <1>a, <1>1, <2>1, <3>2, <3>3, <3>6 DEF Served, ToolConnect
  <2>2. CASE level # "DISCONNECTED" /\ Fail("assert(DISCONNECTED)") /\ UNCHANGED wireVars
    <3>1. /\ clientOpen' = FALSE /\ toClient' = << >> /\ UNCHANGED <<toDaemon, server>>
          /\ level' = level /\ ui' = "assert(DISCONNECTED)" /\ tools' = tools
      BY <1>1, <2>2 DEF ToolConnect, Fail, Inv, Served, SocketInv, TypeOK, WireType
    <3>2. level' # "WAIT_REPLY" /\ (tools'.stop => level' \in Started)
      BY <1>0, <1>1, <3>1 DEF ToolConnect, Inv, Served, FrameInv, IsLuaStarted
    <3> QED  BY <1>0, <1>a, <1>1, <3>1, <3>2, Disconnects DEF ToolConnect
  <2> QED  BY <1>1, <2>1, <2>2 DEF ToolConnect
<1>2. CASE ToolDisconnect
  <2>1. /\ clientOpen' = FALSE /\ toClient' = << >> /\ toDaemon' \in {toDaemon, << >>}
        /\ server' = server /\ level' = "DISCONNECTED" /\ ui' = ui /\ ~tools'.stop
    BY <1>2 DEF ToolDisconnect, ClientCloses, Toolbar, ActiveLevels, Started
  <2> QED  BY <1>0, <1>a, <1>2, <2>1, Disconnects DEF ToolDisconnect
<1>3. CASE ToolStartRun
  <2>1. CASE ~clientOpen /\ Fail("assert(IsConnected)") /\ UNCHANGED <<wireVars, posted>>
    <3>1. /\ clientOpen' = FALSE /\ toClient' = << >> /\ UNCHANGED <<toDaemon, server>>
          /\ level' = level /\ ui' = "assert(IsConnected)" /\ tools' = tools
      BY <2>1 DEF Fail, Inv, Served, SocketInv, TypeOK, WireType
    <3>2. level' # "WAIT_REPLY" /\ (tools'.stop => level' \in Started)
      BY <1>0, <2>1, <3>1 DEF Inv, Served, FrameInv, IsLuaStarted
    <3> QED  BY <1>0, <1>a, <1>3, <2>1, <3>1, <3>2, Disconnects DEF ToolStartRun
  <2>2. CASE clientOpen /\ level = "CONNECTED" /\ UNCHANGED posted
             /\ Write(<<"NOTIFY_BREAKPOINTS", "REQUEST_SYNC_N_START_LUA">>) /\ WaitForNewMessage
    <3> DEFINE msgs == <<"NOTIFY_BREAKPOINTS", "REQUEST_SYNC_N_START_LUA">>
    <3>1. msgs \in Seq(ClientMessages)
      BY Writes
    <3>2. msgs # << >> /\ msgs \notin Asks
      BY Short DEF Asks
    <3>3. IsClientActive
      BY <2>2 DEF IsClientActive, ActiveLevels, Levels
    <3>4. server = "open" => msgs \in Requests'
      <4>1. server = "open" => daemon' = "setup"
        BY <1>0, <2>2, <3>3, ClientTurn
      <4> QED  BY <4>1 DEF Requests
    <3>5. Write(msgs) /\ posted' = << >> /\ queue' = queue
      BY <1>0, <1>3, <2>2 DEF ToolStartRun
    <3> HIDE DEF msgs
    <3> QED  BY <1>0, <2>2, <3>1, <3>2, <3>3, <3>4, <3>5, GivesTurn
  <2>3. CASE clientOpen /\ level = "CONNECTED" /\ UNCHANGED posted
             /\ WriteFails /\ SetLevel("DISCONNECTED")
    <3>1. /\ clientOpen' = FALSE /\ toClient' = << >> /\ UNCHANGED <<toDaemon, server>>
          /\ level' = "DISCONNECTED" /\ ui' = "loop" /\ ~tools'.stop
      BY <1>0, <2>3 DEF WriteFails, SetLevel, Toolbar, ActiveLevels, Started
    <3> QED  BY <1>0, <1>a, <1>3, <2>3, <3>1, Disconnects DEF ToolStartRun
  <2>4. CASE clientOpen /\ level = "LUA_PAUSED" /\ posted' = Append(posted, "RESUME_RUN")
             /\ UNCHANGED <<wireVars, level, tools, reader, ui>>
    <3>1. posted' = <<"RESUME_RUN">> /\ queue' = queue
      BY <1>0, <1>3, <2>4, Short DEF ToolStartRun
    <3>2. <<"RESUME_RUN">> # <<"LUA_SUSPENDED">> /\ "RESUME_RUN" \in Events
      BY Short DEF Events
    <3>3. EventsInv'
      BY <1>0, <2>4, <3>1, <3>2 DEF EventsInv, Inv, Served
    <3> QED  BY <1>3, <2>4, <3>3, Stays DEF ToolStartRun
  <2> QED  BY <1>3, <2>1, <2>2, <2>3, <2>4 DEF ToolStartRun
<1>4. CASE OnStep
  <2>1. PICK cmd \in StepCmds : ResumeExecution(cmd)
    BY <1>4 DEF OnStep
  <2>2. cmd \in Resumes
    BY <2>1 DEF Resumes
  <2> QED  BY <1>0, <1>4, <2>1, <2>2, Resuming DEF OnStep
<1>5. CASE OnToolStop
  <2>1. "RESUME_END_SESSION" \in Resumes /\ IsLuaStarted
    BY <1>5 DEF OnToolStop, Resumes, Inv, Served, FrameInv
  <2> QED  BY <1>0, <1>5, <2>1, Resuming DEF OnToolStop, IsLuaStarted, Started
<1>6. CASE PaneReload
  <2>1. posted' = <<"RELOAD">> /\ queue' = queue /\ ui' = "loop"
    BY <1>0, <1>6, Short DEF PaneReload
  <2>2. <<"RELOAD">> \in Backlog /\ <<"RELOAD">> # <<"LUA_SUSPENDED">> /\ <<"RELOAD">> # <<"RESUME_RUN">>
    BY Short DEF Backlog
  <2>3. EventsInv'
    BY <2>1, <2>2 DEF EventsInv, Inv, Served
  <2> QED  BY <1>6, <2>3, Stays DEF PaneReload
<1>7. CASE OnNetStressTest
  BY <1>0, <1>7, StressTest
<1>8. CASE OnReadOnlyEditAttempt
  <2>1. EventsInv'
    BY <1>0, <1>8, EventSeqs, BacklogKept DEF OnReadOnlyEditAttempt
  <2> QED  BY <1>8, <2>1, Stays DEF OnReadOnlyEditAttempt
<1>9. CASE DialogAnswered
  <2>1. posted' \in {<< >>, <<"STOP_SESSION">>} /\ queue' = queue /\ ui' = "loop"
    BY <1>0, <1>9, Short DEF DialogAnswered
  <2>2. /\ <<"STOP_SESSION">> # <<"LUA_SUSPENDED">> /\ <<"STOP_SESSION">> # <<"RESUME_RUN">>
        /\ << >> # <<"LUA_SUSPENDED">> /\ << >> # <<"RESUME_RUN">> /\ "STOP_SESSION" \in Events
    BY Short DEF Events
  <2>3. EventsInv'
    BY <2>1, <2>2, EventSeqs DEF EventsInv, Inv, Served
  <2> QED  BY <1>9, <2>3, Stays DEF DialogAnswered
<1> QED  BY <1>1, <1>2, <1>3, <1>4, <1>5, <1>6, <1>7, <1>8, <1>9 DEF User

\* An event that is handled was alone, or leaves a backlog of reloads and replies.
LEMMA FirstEvent ==
  ASSUME Inv, posted # << >>
  PROVE  /\ Tail(posted) \in Backlog
         /\ Head(posted) \in {"RELOAD", "INCOMING_MESSAGE"}
              \/ (Tail(posted) = << >> /\ posted = <<Head(posted)>>)
<1>1. CASE posted \in Backlog
  BY <1>1, EventSeqs
<1>2. CASE \E event \in Events : posted = <<event>>
  BY <1>2, EventSeqs, Short
<1> QED  BY <1>1, <1>2 DEF Inv, Served, EventsInv

\* So does the handling of the first event that is posted.
LEMMA EventsKeep ==
  ASSUME Inv, ProcessPendingEvents, UNCHANGED daemonVars
  PROVE  Served'
<1>0. /\ ui = "loop" /\ posted # << >> /\ Tail(posted) \in Backlog
      /\ Head(posted) \in {"RELOAD", "INCOMING_MESSAGE"}
           \/ (Tail(posted) = << >> /\ posted = <<Head(posted)>>)
  BY FirstEvent DEF ProcessPendingEvents
<1>1. CASE Head(posted) = "LUA_SUSPENDED" /\ OnLuaSuspended
  <2>1. level \in {"LUA_PAUSED", "LUA_FATAL_ERROR"} /\ level' = "LUA_PAUSED" /\ Tail(posted) = << >>
    BY <1>0, <1>1 DEF Inv, Served, EventsInv, OnLuaSuspended
  <2>2. PICK visible \in 0 .. Books : posted' = Tail(posted) \o [i \in 1 .. visible |-> "RELOAD"]
    BY <1>1 DEF OnLuaSuspended
  <2>3. UNCHANGED <<wireVars, daemonVars, reader, ui, early, queue>>
    BY <1>1 DEF OnLuaSuspended
  <2>4. EventsInv'
    <3>1. [i \in 1 .. visible |-> "RELOAD"] \in Backlog
      BY FrameAssumption, Reloads DEF Backlog
    <3>2. posted' \in Backlog
      BY <1>0, <2>2, <3>1, EventSeqs
    <3> QED  BY <1>0, <2>3, <3>2, BacklogKept
  <2>5. IsClientActive /\ IsClientActive' /\ IsLuaStarted'
    BY <2>1 DEF IsClientActive, ActiveLevels, Levels, IsLuaStarted, Started
  <2>6. FrameInv'
    BY <1>0, <2>1, <2>3, <2>5 DEF FrameInv, Inv, Served
  <2>7. SocketInv'
    BY <2>3 DEF SocketInv, Requests, EarlySteps, Inv, Served
  <2>8. SyncInv'
    BY <1>0, <2>1, <2>3, <2>5 DEF SyncInv, Connected, Inv, Served
  <2>9. AsyncInv' /\ LostInv'
    BY <1>0, <2>1, <2>3 DEF AsyncInv, LostInv, Connected, Inv, Served
  <2> QED  BY <2>4, <2>6, <2>7, <2>8, <2>9 DEF Served
<1>2. CASE Head(posted) = "INCOMING_MESSAGE" /\ OnIncomingMessage
  <2>1. CASE queue = << >>
    <3>1. posted' = Tail(posted) /\ UNCHANGED <<wireVars, level, tools, reader, ui, early, queue>>
      BY <1>2, <2>1 DEF OnIncomingMessage
    <3>2. EventsInv'
      BY <1>0, <3>1, BacklogKept
    <3> QED  BY <3>1, <3>2, Stays
  <2>2. CASE queue # << >>
    <3>1. Head(queue) = "REPLY_VARIABLES" /\ Tail(queue) \in Seq({"REPLY_VARIABLES"})
      BY <2>2, QueueFacts DEF Inv, Served, EventsInv
    <3>2. /\ LevelAfter("REPLY_VARIABLES") = level /\ EventsAfter("REPLY_VARIABLES") = << >>
          /\ EarlyAfter("REPLY_VARIABLES") = early
      BY DEF LevelAfter, EventsAfter, EarlyAfter
    <3>3. /\ level' = level /\ queue' = Tail(queue) /\ UNCHANGED <<wireVars, reader, ui, early, daemonVars>>
          /\ tools' = IF level = "CONNECTED" THEN Toolbar(level', clientOpen) ELSE tools
      BY <1>2, <2>2, <3>1, <3>2 DEF OnIncomingMessage
    <3>4. posted' \in Backlog
      <4> DEFINE more == IF Len(queue) > 1 THEN <<"INCOMING_MESSAGE">> ELSE << >>
      <4>1. more \in Backlog
        <5>1. <<"INCOMING_MESSAGE">> \in Backlog
          BY DEF Backlog
        <5> QED  BY <5>1, EventSeqs
      <4>2. posted' = Tail(posted) \o << >> \o more
        BY <1>2, <2>2, <3>1, <3>2 DEF OnIncomingMessage
      <4> HIDE DEF more
      <4> QED  BY <1>0, <4>1, <4>2, EventSeqs
    <3>5. EventsInv'
      <4>1. <<"LUA_SUSPENDED">> \notin Backlog /\ <<"RESUME_RUN">> \notin Backlog
        BY EventSeqs
      <4> QED  BY <1>0, <3>1, <3>3, <3>4, <4>1 DEF EventsInv
    <3>6. tools'.stop => IsLuaStarted'
      BY <3>3 DEF Toolbar, IsLuaStarted, Started, Inv, Served, FrameInv
    <3>7. FrameInv'
      BY <3>3, <3>6 DEF FrameInv, IsClientActive, Inv, Served
    <3>8. SocketInv' /\ SyncInv' /\ AsyncInv' /\ LostInv'
      BY <3>3 DEF SocketInv, SyncInv, AsyncInv, LostInv, Requests, Connected, IsClientActive,
         Unhandled, EarlySteps, Refusals, SetupTail, Inv, Served
    <3> QED  BY <3>5, <3>7, <3>8 DEF Served
  <2> QED  BY <2>1, <2>2
<1>3. CASE Head(posted) = "RELOAD" /\ RequestVarReload
  <2>1. posted' = Tail(posted) /\ UNCHANGED <<level, tools, reader, queue, early>>
    BY <1>3 DEF RequestVarReload
  <2>a. ui' \notin {"reply", "echo"} => EventsInv'
    BY <1>0, <2>1, BacklogKept
  <2>2. CASE UNCHANGED <<wireVars, ui>>
    BY <1>0, <2>a, <2>1, <2>2, Stays
  <2>3. CASE IsLuaListening /\ clientOpen /\ WriteFails /\ UNCHANGED ui
    <3>1. clientOpen' = FALSE /\ toClient' = << >> /\ UNCHANGED <<toDaemon, server>>
      BY <2>3 DEF WriteFails
    <3>2. level' # "WAIT_REPLY" /\ (tools'.stop => level' \in Started)
      BY <2>1, <2>3 DEF IsLuaListening, IsClientActive, ActiveLevels, IsLuaStarted
    <3> QED  BY <1>0, <2>a, <2>1, <2>3, <3>1, <3>2, Disconnects
  <2>4. CASE IsLuaListening /\ clientOpen /\ Write(<<"REQUEST_VARIABLES">>)
             /\ ui' = IF reader = "reading" THEN "two readers" ELSE "reply"
    <3>1. IsClientActive /\ level \in {"LUA_PAUSED", "LUA_FATAL_ERROR"}
      BY <2>4 DEF IsLuaListening, IsClientActive, ActiveLevels, IsLuaStarted, Started
    <3>2. /\ reader = "none" /\ toClient = << >> /\ toDaemon = << >>
          /\ server = "open" => daemon = "paused"
      BY <1>0, <2>4, <3>1, ClientTurn
    <3>3. /\ toDaemon' = IF server = "open" THEN <<"REQUEST_VARIABLES">> ELSE << >>
          /\ toClient' = << >> /\ UNCHANGED <<server, clientOpen, level, tools, reader>>
          /\ ui' = "reply"
      BY <2>1, <2>4, <3>2, Short DEF Write
    <3>4. EventsInv'
      <4>1. <<"LUA_SUSPENDED">> \notin Backlog /\ <<"RESUME_RUN">> \notin Backlog
        BY EventSeqs
      <4> QED  BY <1>0, <2>1, <2>4, <3>3, <4>1 DEF EventsInv, Inv, Served
    <3>5. FrameInv'
      BY <2>4, <3>1, <3>2, <3>3 DEF FrameInv, IsClientActive, Inv, Served, IsLuaStarted
    <3>6. SocketInv'
      BY <3>2, <3>3 DEF SocketInv, Requests, Inv, Served
    <3>7. SyncInv' /\ AsyncInv' /\ LostInv'
      BY <3>1, <3>2, <3>3 DEF SyncInv, AsyncInv, LostInv, Connected, IsClientActive
    <3> QED  BY <3>4, <3>5, <3>6, <3>7 DEF Served
  <2> QED  BY <1>3, <2>2, <2>3, <2>4 DEF RequestVarReload
<1>4. CASE Head(posted) = "STOP_SESSION" /\ OnStopSession
  <2>1. posted' = << >> /\ UNCHANGED <<queue, early>>
    BY <1>0, <1>4 DEF OnStopSession
  <2>2. CASE ~IsLuaStarted /\ Fail("assert(IsLuaStarted)") /\ UNCHANGED wireVars
    <3>1. ui' = "assert(IsLuaStarted)" /\ UNCHANGED <<wireVars, level, tools, reader, early, daemonVars>>
      BY <2>1, <2>2 DEF Fail
    <3>2. level # "WAIT_REPLY"
      BY <2>2 DEF IsLuaStarted, Started
    <3>3. FrameInv'
      BY <3>1, <3>2 DEF FrameInv, IsClientActive, IsLuaStarted, Inv, Served
    <3>4. SocketInv' /\ AsyncInv'
      BY <3>1, <3>2 DEF SocketInv, AsyncInv, Requests, EarlySteps, Connected, Inv, Served
    <3>5. SyncInv' /\ LostInv'
      BY <1>0, <3>1, <3>2 DEF SyncInv, LostInv, Connected, IsClientActive, Inv, Served
    <3>6. EventsInv'
      BY <2>1, <3>1, EventSeqs, BacklogKept
    <3> QED  BY <3>3, <3>4, <3>5, <3>6 DEF Served
  <2>3. CASE IsLuaStarted /\ ResumeExecution("RESUME_END_SESSION")
    <3>1. "RESUME_END_SESSION" \in Resumes /\ level # "CONNECTED"
      BY <2>3 DEF Resumes, IsLuaStarted, Started
    <3> QED  BY <1>0, <2>1, <2>3, <3>1, Resuming
  <2> QED  BY <1>4, <2>2, <2>3 DEF OnStopSession
<1>5. CASE Head(posted) = "RESUME_RUN" /\ ResumeExecution("RESUME_RUN") /\ posted' = Tail(posted)
           /\ UNCHANGED <<queue, early>>
  <2>1. level = "LUA_PAUSED" /\ "RESUME_RUN" \in Resumes /\ posted' = << >>
    BY <1>0, <1>5 DEF Inv, Served, EventsInv, Resumes
  <2> QED  BY <1>0, <1>5, <2>1, Resuming
<1> QED  BY <1>1, <1>2, <1>3, <1>4, <1>5 DEF ProcessPendingEvents

\* A timer's message ends the daemon's turn, or is one of several.
LEMMA TimerKeeps ==
  ASSUME Inv, Orderly, OnAsyncReadTimerDone, UNCHANGED daemonVars
  PROVE  Served'
<1>0. /\ posted = << >> /\ ui = "loop"
  BY Unoverlapped DEF OnAsyncReadTimerDone
<1>1. /\ clientOpen /\ reader \in DaemonMessages /\ level = "WAIT_REPLY"
  <2>1. clientOpen /\ reader \in DaemonMessages /\ reader # "none"
    BY DEF OnAsyncReadTimerDone, DaemonMessages, Unexpected
  <2>2. ~IsClientActive
    BY <2>1 DEF Inv, Served, FrameInv
  <2> QED  BY <2>1, <2>2 DEF IsClientActive, ActiveLevels, Inv, TypeOK, ClientType
<1>2. /\ Unhandled # << >> /\ Head(Unhandled) = reader /\ Tail(Unhandled) = toClient
  BY <1>1, UnhandledFacts DEF Inv, TypeOK, WireType, Unhandled
<1>3. /\ Unhandled \in SetupTail \cup PauseTail /\ toDaemon = << >>
      /\ server = "open" => daemon = IF Unhandled \in PauseTail THEN "paused" ELSE "setup"
  <2>1. CASE server = "open"
    <3>1. \A x \in {"REPLY_PLATFORM", "NOTIFY_SESSION_ENDED", "UNEXPECTED_DURING_SYNC"} : <<x>> \notin PauseTail
      BY PauseTailFacts, Short DEF Suspensions
    <3>2. SetupTail \cap PauseTail = {}
      BY <3>1 DEF SetupTail, Refusals
    <3> QED  BY <1>0, <1>1, <1>2, <2>1, <3>2 DEF Inv, Served, AsyncInv, Connected
  <2>2. CASE server # "open"
    BY <1>0, <1>1, <1>2, <2>2 DEF Inv, Served, LostInv, SocketInv, DaemonMessages, Unexpected
  <2> QED  BY <2>1, <2>2
<1>4. /\ level' = LevelAfter(reader) /\ posted' = << >> \o EventsAfter(reader) /\ queue' = queue
      /\ tools' = Toolbar(level', TRUE) /\ UNCHANGED <<wireVars, ui, daemonVars>>
      /\ reader' = IF level' \in ActiveLevels THEN "none" ELSE "reading"
      /\ early' = EarlyAfter(reader)
  BY <1>0 DEF OnAsyncReadTimerDone
<1>5. SocketInv'
  BY <1>3, <1>4 DEF SocketInv, Requests, Inv, Served
<1>6. level' \in ActiveLevels => tools'.stop = (level' \in Started)
  BY <1>4 DEF Toolbar
<1>7. FrameInv'
  <2>1. level' # "DISCONNECTED" /\ level' \in Levels
    BY <1>1, <1>4 DEF LevelAfter, Levels
  <2>2. (reader' = "none" <=> IsClientActive')
    BY <1>4 DEF IsClientActive
  <2>3. level' \notin ActiveLevels => ~tools'.stop
    BY <1>4 DEF Toolbar
  <2> QED  BY <1>0, <1>1, <1>4, <1>6, <2>1, <2>2, <2>3 DEF FrameInv, IsLuaStarted
<1>e. posted' = << >> => EventsInv'
  BY <1>0, <1>4, EventSeqs, BacklogKept
<1>8. CASE reader \in {"REPLY_PLATFORM", "NOTIFY_SESSION_ENDED"}
  <2>1. level' = "CONNECTED" /\ posted' = << >>
    BY <1>4, <1>8, Short DEF LevelAfter, EventsAfter
  <2>2. Unhandled \notin PauseTail
    BY <1>2, <1>8, PauseTailFacts DEF Suspensions
  <2>3. toClient = << >> /\ (server = "open" => daemon = "setup")
    BY <1>2, <1>3, <2>2, Short DEF SetupTail, Refusals
  <2>4. EventsInv'
    BY <1>e, <2>1
  <2>5. SyncInv' /\ AsyncInv' /\ LostInv'
    BY <1>0, <1>3, <1>4, <2>1, <2>3 DEF SyncInv, AsyncInv, LostInv, Connected
  <2> QED  BY <1>5, <1>7, <2>4, <2>5 DEF Served
<1>9. CASE Unhandled \in PauseTail
  <2>1. server = "open" => daemon = "paused"
    BY <1>3, <1>9
  <2>3. CASE reader \in Suspensions
    <3>1. toClient = << >>
      BY <1>2, <1>9, <2>3, PauseTailFacts DEF Suspensions
    <3>2. level' \in {"LUA_PAUSED", "LUA_FATAL_ERROR"}
      BY <1>4, <2>3 DEF LevelAfter, Suspensions
    <3>3. posted' = <<"LUA_SUSPENDED">>
      BY <1>4, <2>3, Short DEF EventsAfter, Suspensions
    <3>4. "LUA_SUSPENDED" \in Events /\ <<"LUA_SUSPENDED">> # <<"RESUME_RUN">>
      BY Short DEF Events
    <3>5. EventsInv'
      BY <1>0, <1>4, <3>2, <3>3, <3>4 DEF EventsInv, Inv, Served
    <3>6. SyncInv' /\ AsyncInv' /\ LostInv'
      BY <1>0, <1>3, <1>4, <2>1, <3>1, <3>2 DEF SyncInv, AsyncInv, LostInv, Connected
    <3> QED  BY <1>5, <1>7, <3>5, <3>6 DEF Served
  <2>4. CASE reader \notin Suspensions
    <3>1. toClient \in PauseTail /\ reader \in {"REPLY_STACK", "NOTIFY_SCRIPT_LOADED"}
      BY <1>2, <1>9, <2>4, PauseTailFacts
    <3>2. level' = "WAIT_REPLY" /\ posted' = << >>
      BY <1>1, <1>4, <3>1, Short DEF LevelAfter, EventsAfter
    <3>3. reader' = "reading"
      BY <1>4, <3>2 DEF ActiveLevels
    <3>4. Unhandled' = toClient
      BY <1>4, <3>3 DEF Unhandled, UnhandledOf, DaemonMessages, Unexpected
    <3>6. SyncInv'
      BY <3>2 DEF SyncInv, IsClientActive, ActiveLevels
    <3>7. AsyncInv'
      BY <1>0, <1>3, <1>4, <2>1, <3>1, <3>3, <3>4 DEF AsyncInv, Connected
    <3>8. LostInv'
      BY <1>0, <1>4, <3>1, <3>2, <3>3, <3>4 DEF LostInv
    <3> QED  BY <1>5, <1>7, <1>e, <3>2, <3>6, <3>7, <3>8 DEF Served
  <2> QED  BY <2>3, <2>4
<1>10. CASE Unhandled = <<"UNEXPECTED_DURING_SYNC">> /\ Unhandled \notin PauseTail
  <2>1. reader = "UNEXPECTED_DURING_SYNC" /\ toClient = << >>
    BY <1>2, <1>10, Short
  <2>2. level' = "WAIT_REPLY" /\ posted' = << >> /\ early' = "refused"
    BY <1>1, <1>4, <2>1, Short DEF LevelAfter, EventsAfter, EarlyAfter
  <2>3. reader' = "reading"
    BY <1>4, <2>2 DEF ActiveLevels
  <2>4. Unhandled' = << >>
    BY <1>4, <2>1, <2>3 DEF Unhandled, UnhandledOf, DaemonMessages, Unexpected
  <2>5. SyncInv'
    BY <2>2 DEF SyncInv, IsClientActive, ActiveLevels
  <2>6. server = "open" => daemon = "setup"
    BY <1>3, <1>10
  <2>7. AsyncInv' /\ LostInv'
    BY <1>0, <1>3, <1>4, <2>2, <2>3, <2>4, <2>6 DEF AsyncInv, LostInv, Connected
  <2> QED  BY <1>5, <1>7, <1>e, <2>2, <2>5, <2>7 DEF Served
<1>11. reader \in {"REPLY_PLATFORM", "NOTIFY_SESSION_ENDED"} \/ Unhandled \in PauseTail
       \/ Unhandled = <<"UNEXPECTED_DURING_SYNC">>
  <2>1. CASE Unhandled \in SetupTail
    <3>1. \E x \in {"REPLY_PLATFORM", "NOTIFY_SESSION_ENDED", "UNEXPECTED_DURING_SYNC"} : Unhandled = <<x>>
      BY <2>1 DEF SetupTail, Refusals
    <3> QED  BY <1>2, <3>1, Short
  <2> QED  BY <1>3, <2>1
<1> QED  BY <1>8, <1>9, <1>10, <1>11

\* The synchronous read gets its reply, the reader thread its next message or the
\* end of the stream, and a failed assert closes the socket.
LEMMA ReadsKeep ==
  ASSUME Inv, Orderly, OnAsyncReadTimerFailed \/ ReadMessage \/ ReadMessagePolls \/ AsyncRead \/ ClientProcessOver,
         UNCHANGED daemonVars
  PROVE  Served'
<1>1. CASE OnAsyncReadTimerFailed
  <2>1. /\ posted' = << >> /\ queue' = queue /\ ui' = "loop" /\ early' = early
    BY <1>1, Unoverlapped DEF OnAsyncReadTimerFailed
  <2>2. EventsInv'
    BY <2>1, EventSeqs, BacklogKept
  <2>3. /\ clientOpen' = FALSE /\ toClient' = << >> /\ toDaemon' \in {toDaemon, << >>}
        /\ server' = server /\ level' = "DISCONNECTED" /\ ~tools'.stop
    BY <1>1 DEF OnAsyncReadTimerFailed, ClientCloses, Toolbar, ActiveLevels, Started
  <2> QED  BY <2>1, <2>2, <2>3, Disconnects
<1>2. CASE ReadMessagePolls
  <2>1. EventsInv'
    BY <1>2 DEF ReadMessagePolls, EventsInv, Inv, Served
  <2> QED  BY <1>2, <2>1, Stays DEF ReadMessagePolls
<1>3. CASE ReadMessage
  <2>1. /\ clientOpen /\ toClient # << >> /\ ui \in {"reply", "echo"}
        /\ UNCHANGED <<toDaemon, server, clientOpen, level, tools, reader, early>>
    BY <1>3 DEF ReadMessage, Inv, Served, EventsInv
  <2>2. /\ ui = "reply" => level \in {"LUA_PAUSED", "LUA_FATAL_ERROR"}
        /\ ui = "echo" => IF level = "WAIT_REPLY" THEN reader \in DaemonMessages ELSE level = "CONNECTED"
        /\ level # "WAIT_REPLY" <=> IsClientActive
    BY <2>1 DEF Inv, Served, FrameInv, IsClientActive, ActiveLevels, Levels, TypeOK, ClientType
  <2>3. toClient = IF ui = "reply" THEN <<"REPLY_VARIABLES">> ELSE <<"REPLY_ECHO_DATA">>
    <3>1. CASE server = "open" /\ level # "WAIT_REPLY"
      BY <2>1, <2>2, <3>1, Short DEF Inv, Served, SyncInv, Connected, Echoes
    <3>2. CASE server = "open" /\ level = "WAIT_REPLY"
      BY <2>1, <2>2, <3>2, Short DEF Inv, Served, AsyncInv, Connected, Echoes
    <3>3. CASE server # "open"
      BY <2>1, <2>2, <3>3, Short DEF Inv, Served, LostInv
    <3> QED  BY <3>1, <3>2, <3>3
  <2>4. toClient' = << >> /\ (server = "open" => toDaemon = << >>)
    <3>1. toClient' = << >>
      BY <1>3, <2>3, Short DEF ReadMessage
    <3>2. CASE server = "open" /\ level # "WAIT_REPLY"
      BY <2>1, <2>2, <3>1, <3>2 DEF Inv, Served, SyncInv, Connected, Echoes
    <3>3. CASE server = "open" /\ level = "WAIT_REPLY"
      BY <2>1, <2>2, <3>1, <3>3 DEF Inv, Served, AsyncInv, Connected, Echoes
    <3> QED  BY <3>1, <3>2, <3>3
  <2>5. ui' = "loop"
    BY <1>3, <2>1, <2>3, Short DEF ReadMessage
  <2>6. EventsInv'
    <3>1. CASE ui = "reply"
      <4>1. posted' = Append(posted, "INCOMING_MESSAGE") /\ queue' = Append(queue, "REPLY_VARIABLES")
        BY <1>3, <2>1, <2>3, <3>1, Short DEF ReadMessage
      <4>2. posted' \in Backlog /\ queue' \in Seq({"REPLY_VARIABLES"})
        BY <3>1, <4>1, EventSeqs, QueueFacts DEF Inv, Served, EventsInv
      <4>3. <<"LUA_SUSPENDED">> \notin Backlog /\ <<"RESUME_RUN">> \notin Backlog
        BY EventSeqs
      <4> QED  BY <2>5, <4>2, <4>3 DEF EventsInv
    <3>2. CASE ui = "echo"
      <4>1. posted' = << >> /\ queue' = queue
        BY <1>3, <2>1, <3>2 DEF ReadMessage, Inv, Served, EventsInv
      <4> QED  BY <2>5, <4>1, EventSeqs, BacklogKept
    <3> QED  BY <2>1, <3>1, <3>2
  <2>7. FrameInv'
    BY <2>1, <2>5 DEF FrameInv, IsClientActive, IsLuaStarted, Inv, Served
  <2>8. SocketInv'
    BY <1>3, <2>1, <2>4 DEF SocketInv, Requests, EarlySteps, Inv, Served
  <2>9. CASE level # "WAIT_REPLY"
    <3>1. SyncInv' /\ AsyncInv' /\ LostInv'
      BY <1>3, <2>1, <2>2, <2>4, <2>5, <2>9 DEF SyncInv, AsyncInv, LostInv, Connected, IsClientActive,
         Inv, Served
    <3> QED  BY <2>6, <2>7, <2>8, <3>1 DEF Served
  <2>10. CASE level = "WAIT_REPLY"
    <3>1. ui = "echo" /\ reader \in DaemonMessages /\ reader # "failed"
      BY <2>1, <2>2, <2>10 DEF DaemonMessages, Unexpected
    <3>2. <<reader>> \in SetupTail /\ (server = "open" => daemon = "setup")
      BY <2>1, <2>10, <3>1 DEF Inv, Served, AsyncInv, LostInv, Connected
    <3>3. Unhandled' = <<reader>>
      BY <2>1, <2>4, <3>1, Short DEF Unhandled, UnhandledOf
    <3>4. SetupTail' = SetupTail
      BY <2>1 DEF SetupTail, Refusals
    <3>5. SyncInv'
      BY <2>1, <2>10 DEF SyncInv, IsClientActive, ActiveLevels
    <3>6. AsyncInv' /\ LostInv'
      BY <1>3, <2>1, <2>4, <2>5, <2>10, <3>1, <3>2, <3>3, <3>4 DEF AsyncInv, LostInv, Connected
    <3> QED  BY <2>6, <2>7, <2>8, <3>5, <3>6 DEF Served
  <2> QED  BY <2>9, <2>10
<1>4. CASE AsyncRead
  <2>1. /\ clientOpen /\ reader = "reading" /\ level = "WAIT_REPLY" /\ ui # "echo"
        /\ UNCHANGED <<toDaemon, server, clientOpen, level, tools, posted, queue, ui, early>>
    <3>1. /\ clientOpen /\ reader = "reading"
          /\ UNCHANGED <<toDaemon, server, clientOpen, level, tools, posted, queue, ui, early>>
      BY <1>4 DEF AsyncRead
    <3>2. ~IsClientActive
      BY <3>1 DEF Inv, Served, FrameInv
    <3>3. level = "WAIT_REPLY"
      BY <3>2 DEF IsClientActive, ActiveLevels, Inv, TypeOK, ClientType
    <3> QED  BY <3>1, <3>3 DEF Inv, Served, FrameInv, DaemonMessages, Unexpected
  <2>2. Unhandled = toClient
    BY <2>1 DEF Unhandled, UnhandledOf, DaemonMessages, Unexpected
  <2>3. EventsInv'
    BY <2>1 DEF EventsInv, Inv, Served
  <2>4. reader' # "none"
    <3>1. toClient # << >> => Head(toClient) \in DaemonMessages
      BY HeadTailProperties DEF Inv, TypeOK, WireType
    <3> QED  BY <1>4, <3>1 DEF AsyncRead, DaemonMessages, Unexpected
  <2>5. FrameInv'
    BY <2>1, <2>4 DEF FrameInv, IsClientActive, ActiveLevels, IsLuaStarted, Inv, Served
  <2>6. SocketInv'
    BY <1>4, <2>1 DEF SocketInv, Requests, EarlySteps, Inv, Served
  <2>7. SyncInv'
    BY <2>1 DEF SyncInv, IsClientActive, ActiveLevels
  <2>8. CASE toClient # << >> /\ reader' = Head(toClient) /\ toClient' = Tail(toClient)
    <3>1. Head(toClient) \in DaemonMessages /\ Tail(toClient) \in Seq(DaemonMessages)
      BY <2>8, HeadTailProperties DEF Inv, TypeOK, WireType
    <3>2. toClient = <<Head(toClient)>> \o Tail(toClient)
      <4> DEFINE got == Head(toClient)
                 rest == Tail(toClient)
                 all == <<got>> \o rest
      <4>1. /\ got \in DaemonMessages /\ rest \in Seq(DaemonMessages)
            /\ toClient \in Seq(DaemonMessages) /\ Len(rest) = Len(toClient) - 1 /\ Len(toClient) \in Nat
            /\ Len(toClient) > 0 /\ toClient[1] = got
            /\ \A i \in 1 .. Len(rest) : rest[i] = toClient[i + 1]
        BY <2>8, HeadTailProperties DEF Inv, TypeOK, WireType
      <4>2. /\ <<got>> \in Seq(DaemonMessages) /\ Len(<<got>>) = 1 /\ <<got>>[1] = got
        BY <4>1
      <4> HIDE DEF got, rest
      <4>3. /\ all \in Seq(DaemonMessages) /\ Len(all) = Len(toClient)
            /\ all[1] = got /\ \A i \in 2 .. Len(toClient) : all[i] = rest[i - 1]
        BY <4>1, <4>2, ConcatProperties
      <4>4. \A i \in 1 .. Len(toClient) : all[i] = toClient[i]
        <5> TAKE i \in 1 .. Len(toClient)
        <5>1. CASE i = 1
          BY <4>1, <4>3, <5>1
        <5>2. CASE i # 1
          <6>1. i \in 2 .. Len(toClient) /\ i - 1 \in 1 .. Len(rest) /\ (i - 1) + 1 = i
            BY <4>1, <5>2
          <6> HIDE DEF all
          <6> QED  BY <4>1, <4>3, <6>1
        <5> QED  BY <5>1, <5>2
      <4> HIDE DEF all
      <4>5. all = toClient
        BY <4>1, <4>3, <4>4, SeqEqual
      <4> QED  BY <4>5 DEF all, got, rest
    <3>3. Unhandled' = Unhandled
      BY <2>2, <2>8, <3>1, <3>2 DEF Unhandled, UnhandledOf
    <3>4. reader' # "failed"
      BY <2>8, <3>1 DEF DaemonMessages, Unexpected
    <3>5. SetupTail' = SetupTail
      BY <2>1 DEF SetupTail, Refusals
    <3>6. AsyncInv'
      BY <1>4, <2>1, <2>8, <3>3, <3>4, <3>5 DEF AsyncInv, Connected, Inv, Served
    <3>7. LostInv'
      BY <1>4, <2>1, <2>8, <3>3, <3>4, <3>5 DEF LostInv, Inv, Served
    <3> QED  BY <2>3, <2>5, <2>6, <2>7, <3>6, <3>7 DEF Served
  <2>9. CASE toClient = << >> /\ server # "open" /\ reader' = "failed" /\ UNCHANGED toClient
    <3>1. AsyncInv' /\ LostInv'
      BY <2>1, <2>9 DEF AsyncInv, LostInv, Connected
    <3> QED  BY <2>3, <2>5, <2>6, <2>7, <3>1 DEF Served
  <2> QED  BY <1>4, <2>8, <2>9 DEF AsyncRead
<1>5. CASE ClientProcessOver
  <2>1. ui \in ClientOver /\ UNCHANGED clientVars
    BY <1>5 DEF ClientProcessOver
  <2>2. /\ ui' \notin {"reply", "echo", "two readers", "stress beside the reader", "assert(REPLY_ECHO_DATA)"}
        /\ level' # "WAIT_REPLY" \/ ui' = "assert(WriteMessage)"
        /\ tools'.stop => level' \in Started
    BY <2>1 DEF ClientOver, Inv, Served, FrameInv, IsLuaStarted
  <2>3. EventsInv'
    BY <2>1, <2>2 DEF EventsInv, Inv, Served
  <2>4. CASE clientOpen /\ ClientCloses
    BY <2>1, <2>2, <2>3, <2>4, Disconnects DEF ClientCloses
  <2>5. CASE UNCHANGED wireVars
    BY <2>1, <2>3, <2>5, Stays
  <2> QED  BY <1>5, <2>4, <2>5 DEF ClientProcessOver
<1> QED  BY <1>1, <1>2, <1>3, <1>4, <1>5

-----------------------------------------------------------------------------
(* The daemon's half.                                                      *)

\* Nothing the daemon does touches the frame, or the client's socket.
LEMMA FrameUntouched ==
  ASSUME Inv, UNCHANGED clientVars, UNCHANGED clientOpen
  PROVE  EventsInv' /\ FrameInv'
BY DEF Inv, Served, EventsInv, FrameInv, IsClientActive, IsLuaStarted

\* While the daemon has something to read its client has nothing to, but what the
\* reader thread holds of it beside an echo.
LEMMA NothingBoth ==
  ASSUME Inv, toDaemon # << >>, clientOpen, server = "open"
  PROVE  /\ toClient = << >>
         /\ level = "WAIT_REPLY" /\ ui # "echo" => reader \notin DaemonMessages /\ toDaemon \notin Asks
         /\ level # "WAIT_REPLY" => reader \notin DaemonMessages
         /\ level # "WAIT_REPLY" \/ ui = "echo" =>
              \/ ui = "reply" /\ toDaemon = <<"REQUEST_VARIABLES">>
              \/ ui = "echo" /\ toDaemon = <<"REQUEST_ECHO_DATA">>
<1>1. CASE level = "WAIT_REPLY" /\ ui # "echo"
  <2>1. Unhandled = << >> /\ toDaemon \notin Asks
    BY <1>1 DEF Inv, Served, AsyncInv, Connected
  <2>2. reader \notin DaemonMessages
    BY <2>1, UnhandledFacts DEF Inv, TypeOK, WireType, Unhandled
  <2> QED  BY <1>1, <2>1, <2>2 DEF Unhandled, UnhandledOf
<1>2. CASE level = "WAIT_REPLY" /\ ui = "echo"
  BY <1>2, Short DEF Inv, Served, AsyncInv, Connected, Echoes
<1>3. CASE level # "WAIT_REPLY"
  <2>1. IsClientActive
    BY <1>3 DEF IsClientActive, ActiveLevels, Inv, TypeOK, ClientType
  <2>2. reader = "none"
    BY <2>1 DEF Inv, Served, FrameInv
  <2>3. /\ toClient = << >>
        /\ \/ ui = "reply" /\ toDaemon = <<"REQUEST_VARIABLES">>
           \/ ui = "echo" /\ toDaemon = <<"REQUEST_ECHO_DATA">>
    BY <2>1, Short DEF Inv, Served, SyncInv, Connected, Echoes
  <2> QED  BY <1>3, <2>2, <2>3 DEF DaemonMessages, Unexpected
<1> QED  BY <1>1, <1>2, <1>3

\* The daemon's process ends, by itself or not.
LEMMA DaemonGone ==
  ASSUME Inv, NEW how \in DaemonOver \ {"assert(ok)"}, DaemonEnds(how), DaemonCloses, UNCHANGED clientVars
  PROVE  Served'
<1>1. EventsInv' /\ FrameInv'
  BY FrameUntouched DEF DaemonCloses
<1>2. daemon' = how /\ server' = "none" /\ toDaemon' = << >> /\ clientOpen' = clientOpen
  BY DEF DaemonEnds, DaemonCloses
<1>3. toClient' = toClient \/ (toClient' = << >> /\ toDaemon # << >>)
  BY DEF DaemonCloses
<1>4. SocketInv'
  BY <1>2, <1>3 DEF SocketInv, Requests, DaemonOver, Inv, Served
<1>5. SyncInv' /\ AsyncInv'
  BY <1>2 DEF SyncInv, AsyncInv, Connected
<1>6. LostInv'
  <2> SUFFICES ASSUME clientOpen
               PROVE  LostInv'
    BY <1>2 DEF LostInv
  <2>1. toClient' = toClient
    <3>1. CASE server = "open"
      BY <1>3, <3>1, NothingBoth
    <3>2. CASE server # "open"
      BY <1>3, <3>2 DEF Inv, Served, SocketInv
    <3> QED  BY <3>1, <3>2
  <2>2. Unhandled' = Unhandled /\ SetupTail' = SetupTail
    BY <2>1 DEF Unhandled, SetupTail, Refusals
  <2>3. CASE server # "open"
    BY <1>2, <2>1, <2>2, <2>3 DEF LostInv, Inv, Served
  <2>4. CASE server = "open" /\ level = "WAIT_REPLY" /\ ui # "echo"
    <3>1. Unhandled \in {<< >>} \cup SetupTail \cup PauseTail /\ reader # "failed"
      BY <2>4 DEF Inv, Served, AsyncInv, Connected
    <3> QED  BY <2>1, <2>2, <2>4, <3>1 DEF LostInv
  <2>5. CASE server = "open" /\ level = "WAIT_REPLY" /\ ui = "echo"
    <3>1. <<reader>> \in SetupTail /\ toClient \in {<< >>, <<"REPLY_ECHO_DATA">>}
      BY <2>5, Short DEF Inv, Served, AsyncInv, Connected, Echoes
    <3> QED  BY <2>1, <2>2, <2>5, <3>1 DEF LostInv
  <2>6. CASE server = "open" /\ level # "WAIT_REPLY"
    <3>1. IsClientActive
      BY <2>6 DEF IsClientActive, ActiveLevels, Inv, TypeOK, ClientType
    <3>2. toClient \in {<< >>} \cup (CASE ui = "reply" -> {<<"REPLY_VARIABLES">>}
                                       [] ui = "echo"  -> {<<"REPLY_ECHO_DATA">>}
                                       [] OTHER        -> {<< >>})
      BY <2>6, <3>1, Short DEF Inv, Served, SyncInv, Connected, Echoes
    <3> QED  BY <2>1, <2>6, <3>2 DEF LostInv
  <2> QED  BY <2>3, <2>4, <2>5, <2>6
<1> QED  BY <1>1, <1>4, <1>5, <1>6 DEF Served

\* A step of the daemon that leaves the wire alone, and nothing to read.
LEMMA DaemonMoves ==
  ASSUME Inv, UNCHANGED <<clientVars, wireVars>>,
         daemon \notin DaemonOver, daemon' \notin DaemonOver, server = "open",
         \/ daemon = "listen" /\ daemon' = "setup"
         \/ daemon \in {"loading", "running"} /\ daemon' \in {"running", "cleanup"}
         \/ daemon = "paused" /\ daemon' \in {"running", "cleanup"} /\ ~clientOpen /\ toDaemon = << >>
  PROVE  Served'
<1>1. EventsInv' /\ FrameInv'
  BY FrameUntouched
<1>2. SocketInv'
  <2>1. toDaemon \in Requests'
    BY DEF Inv, Served, SocketInv, Requests, EarlySteps
  <2> QED  BY <2>1 DEF Inv, Served, SocketInv, DaemonOver
<1>3. SyncInv' /\ AsyncInv' /\ LostInv'
  <2>1. LostInv'
    BY DEF LostInv
  <2>2. CASE ~clientOpen
    BY <2>1, <2>2 DEF SyncInv, AsyncInv, Connected
  <2>3. CASE clientOpen /\ level = "WAIT_REPLY"
    <3>1. SyncInv'
      BY <2>3 DEF SyncInv, IsClientActive, ActiveLevels
    <3>2. AsyncInv'
      BY <2>3 DEF AsyncInv, Connected, Unhandled, Inv, Served, SocketInv, Requests
    <3> QED  BY <2>1, <3>1, <3>2
  <2>4. CASE clientOpen /\ level # "WAIT_REPLY"
    <3>1. daemon \in {"setup", "paused"}
      BY <2>4 DEF Inv, Served, SyncInv, Connected, IsClientActive, ActiveLevels, TypeOK, ClientType
    <3> QED  BY <2>4, <3>1
  <2> QED  BY <2>2, <2>3, <2>4
<1> QED  BY <1>1, <1>2, <1>3 DEF Served

\* A daemon that reads a message has its connection open, and finds it among those
\* of its phase.
LEMMA Reads ==
  ASSUME Inv, NEW msg, NEW answer, Receive(msg, answer)
  PROVE  /\ server = "open" /\ toDaemon # << >> /\ Head(toDaemon) = msg /\ daemon \notin DaemonOver
         /\ toDaemon' = Tail(toDaemon) /\ UNCHANGED <<server, clientOpen>>
         /\ daemon = "setup" =>
              \/ toDaemon = <<msg>> /\ msg \in {"REQUEST_PLATFORM", "REQUEST_ECHO_DATA", "REQUEST_SYNC_N_START_LUA"}
              \/ toDaemon = <<msg>> /\ msg \in StepCmds /\ early = "sent"
              \/ /\ msg = "NOTIFY_BREAKPOINTS"
                 /\ \E last : /\ toDaemon = <<msg, last>>
                              /\ last = "REQUEST_SYNC_N_START_LUA" \/ (early = "sent" /\ last \in StepCmds)
         /\ daemon = "paused" =>
              \/ toDaemon = <<msg>> /\ msg \in Resumes \cup {"REQUEST_VARIABLES"}
              \/ msg = "NOTIFY_BREAKPOINTS" /\ \E cmd \in Resumes : toDaemon = <<msg, cmd>>
<1>1. toDaemon # << >> /\ Head(toDaemon) = msg /\ toDaemon' = Tail(toDaemon) /\ UNCHANGED <<server, clientOpen>>
  BY DEF Receive
<1>2. server = "open" /\ daemon \notin DaemonOver
  BY <1>1 DEF Inv, Served, SocketInv, TypeOK, WireType
<1>3. ASSUME daemon = "setup"
      PROVE  \/ toDaemon = <<msg>> /\ msg \in {"REQUEST_PLATFORM", "REQUEST_ECHO_DATA", "REQUEST_SYNC_N_START_LUA"}
             \/ toDaemon = <<msg>> /\ msg \in StepCmds /\ early = "sent"
             \/ /\ msg = "NOTIFY_BREAKPOINTS"
                /\ \E last : /\ toDaemon = <<msg, last>>
                             /\ last = "REQUEST_SYNC_N_START_LUA" \/ (early = "sent" /\ last \in StepCmds)
  <2>1. CASE toDaemon \in {<<"REQUEST_PLATFORM">>, <<"REQUEST_ECHO_DATA">>, <<"REQUEST_SYNC_N_START_LUA">>}
    BY <1>1, <2>1, Short
  <2>2. CASE toDaemon = <<"NOTIFY_BREAKPOINTS", "REQUEST_SYNC_N_START_LUA">>
    BY <1>1, <2>2, Short
  <2>3. CASE early = "sent" /\ \E cmd \in StepCmds : toDaemon = <<cmd>>
    BY <1>1, <2>3, Short
  <2>4. CASE early = "sent" /\ \E cmd \in StepCmds : toDaemon = <<"NOTIFY_BREAKPOINTS", cmd>>
    BY <1>1, <2>4, Short
  <2>5. toDaemon \in EarlySteps =>
          early = "sent" /\ \E cmd \in StepCmds : toDaemon \in {<<cmd>>, <<"NOTIFY_BREAKPOINTS", cmd>>}
    BY DEF EarlySteps
  <2> QED  BY <1>1, <1>3, <2>1, <2>2, <2>3, <2>4, <2>5 DEF Inv, Served, SocketInv, Requests
<1>4. ASSUME daemon = "paused"
      PROVE  \/ toDaemon = <<msg>> /\ msg \in Resumes \cup {"REQUEST_VARIABLES"}
             \/ msg = "NOTIFY_BREAKPOINTS" /\ \E cmd \in Resumes : toDaemon = <<msg, cmd>>
  <2>1. \/ toDaemon = <<"REQUEST_VARIABLES">>
        \/ \E cmd \in Resumes : toDaemon = <<cmd>>
        \/ \E cmd \in Resumes : toDaemon = <<"NOTIFY_BREAKPOINTS", cmd>>
    BY <1>1, <1>4 DEF Inv, Served, SocketInv, Requests
  <2>2. CASE toDaemon = <<"REQUEST_VARIABLES">>
    BY <1>1, <2>2, Short
  <2>3. CASE \E cmd \in Resumes : toDaemon = <<cmd>>
    BY <1>1, <2>3, Short
  <2>4. CASE \E cmd \in Resumes : toDaemon = <<"NOTIFY_BREAKPOINTS", cmd>>
    BY <1>1, <2>4, Short
  <2> QED  BY <2>1, <2>2, <2>3, <2>4
<1> QED  BY <1>1, <1>2, <1>3, <1>4

\* An answer to a synchronous read, to the first message of a connection, or to a step
\* asked for before the start.
LEMMA Answers ==
  ASSUME Inv, UNCHANGED <<clientVars, daemonVars>>, NEW msg, NEW reply, Receive(msg, <<reply>>),
         \/ daemon = "setup" /\ msg = "REQUEST_PLATFORM" /\ reply = "REPLY_PLATFORM"
         \/ daemon = "setup" /\ msg = "REQUEST_ECHO_DATA" /\ reply = "REPLY_ECHO_DATA"
         \/ daemon = "setup" /\ msg \in StepCmds /\ reply = "UNEXPECTED_DURING_SYNC"
         \/ daemon = "paused" /\ msg = "REQUEST_VARIABLES" /\ reply = "REPLY_VARIABLES"
  PROVE  Served'
<1>1. /\ server = "open" /\ toDaemon = <<msg>> /\ toDaemon' = << >> /\ UNCHANGED <<server, clientOpen>>
      /\ daemon \notin DaemonOver /\ toDaemon # << >>
      /\ reply = "UNEXPECTED_DURING_SYNC" => early = "sent"
  <2>1. /\ server = "open" /\ toDaemon' = Tail(toDaemon) /\ UNCHANGED <<server, clientOpen>>
        /\ daemon \notin DaemonOver /\ toDaemon # << >>
    BY Reads
  <2>2. msg # "NOTIFY_BREAKPOINTS" /\ ("REQUEST_PLATFORM" \notin StepCmds /\ "REQUEST_ECHO_DATA" \notin StepCmds)
    BY DEF StepCmds
  <2>3. toDaemon = <<msg>>
    BY <2>2, Reads
  <2>4. reply = "UNEXPECTED_DURING_SYNC" => early = "sent"
    BY <2>2, Reads DEF StepCmds
  <2> QED  BY <2>1, <2>3, <2>4, Short
<1>2. EventsInv' /\ FrameInv'
  BY <1>1, FrameUntouched
<1>3. toClient' = IF clientOpen THEN toClient \o <<reply>> ELSE toClient
  BY DEF Receive
<1>4. SocketInv'
  BY <1>1, <1>3 DEF SocketInv, Requests, DaemonOver, Inv, Served
<1>5. LostInv'
  BY <1>1 DEF LostInv
<1>6. CASE ~clientOpen
  BY <1>1, <1>2, <1>4, <1>5, <1>6 DEF Served, SyncInv, AsyncInv, Connected
<1>7. CASE clientOpen
  <2>1. toClient = << >>
    BY <1>1, <1>7, NothingBoth, Short
  <2>2. toClient' = <<reply>>
    BY <1>3, <1>7, <2>1, Short
  <2>3. CASE level = "WAIT_REPLY" /\ ui # "echo"
    <3>1. toDaemon \notin Asks /\ reader \notin DaemonMessages
      BY <1>1, <1>7, <2>3, NothingBoth
    <3>2. daemon = "setup" /\ reply \in {"REPLY_PLATFORM", "UNEXPECTED_DURING_SYNC"}
      BY <1>1, <3>1 DEF Asks
    <3>3. Unhandled' = <<reply>>
      BY <2>2, <3>1 DEF Unhandled, UnhandledOf
    <3>4. <<reply>> \in SetupTail /\ SetupTail' = SetupTail
      BY <1>1, <3>2 DEF SetupTail, Refusals
    <3>5. reader # "failed"
      BY <1>1, <1>7, <2>3 DEF Inv, Served, AsyncInv, Connected
    <3>6. SyncInv' /\ AsyncInv'
      BY <1>1, <2>3, <3>2, <3>3, <3>4, <3>5 DEF SyncInv, AsyncInv, IsClientActive, ActiveLevels
    <3> QED  BY <1>2, <1>4, <1>5, <3>6 DEF Served
  <2>4. CASE level # "WAIT_REPLY" \/ ui = "echo"
    <3>1. \/ ui = "reply" /\ toDaemon = <<"REQUEST_VARIABLES">>
          \/ ui = "echo" /\ toDaemon = <<"REQUEST_ECHO_DATA">>
      BY <1>1, <1>7, <2>4, NothingBoth
    <3>2. \/ ui = "reply" /\ reply = "REPLY_VARIABLES" /\ daemon = "paused"
          \/ ui = "echo" /\ reply = "REPLY_ECHO_DATA" /\ daemon = "setup"
      BY <1>1, <3>1, Short DEF StepCmds
    <3>3. level # "WAIT_REPLY" => daemon = IF level = "CONNECTED" THEN "setup" ELSE "paused"
      BY <1>1, <1>7 DEF Inv, Served, SyncInv, Connected, IsClientActive, ActiveLevels, TypeOK, ClientType
    <3>4. level = "WAIT_REPLY" => <<reader>> \in SetupTail /\ ui = "echo"
      BY <1>1, <1>7, <2>4 DEF Inv, Served, AsyncInv, Connected
    <3>5. SyncInv'
      BY <1>1, <2>2, <3>2, <3>3 DEF SyncInv, Echoes, IsClientActive, ActiveLevels
    <3>6. AsyncInv'
      BY <1>1, <2>2, <2>4, <3>2, <3>4 DEF AsyncInv, Echoes, SetupTail, Refusals
    <3> QED  BY <1>2, <1>4, <1>5, <3>5, <3>6 DEF Served
  <2> QED  BY <2>3, <2>4
<1> QED  BY <1>6, <1>7

\* Of two messages the daemon takes the first, or of one it starts to run.
LEMMA Takes ==
  ASSUME Inv, UNCHANGED clientVars, NEW msg, Receive(msg, << >>), UNCHANGED server,
         \/ msg = "NOTIFY_BREAKPOINTS" /\ daemon \in {"setup", "paused"} /\ daemon' = daemon
         \/ msg = "REQUEST_SYNC_N_START_LUA" /\ daemon = "setup" /\ daemon' = "loading"
         \/ msg \in Resumes /\ daemon = "paused" /\ daemon' \in {"running", "cleanup"}
  PROVE  Served'
<1>1. /\ server = "open" /\ toDaemon # << >> /\ toDaemon' = Tail(toDaemon) /\ UNCHANGED <<server, clientOpen>>
  BY Reads
<1>2. toClient' = toClient
  BY ConcatEmptySeq DEF Receive, Inv, TypeOK, WireType
<1>3. EventsInv' /\ FrameInv'
  BY <1>1, FrameUntouched
<1>4. LostInv'
  BY <1>1 DEF LostInv
<1>5. msg \notin {"REQUEST_VARIABLES", "REQUEST_ECHO_DATA"}
  BY DEF Resumes, StepCmds
<1>6. toDaemon \notin Asks
  BY <1>5, Reads, Short DEF Asks
<1>7. \/ /\ msg = "NOTIFY_BREAKPOINTS" /\ daemon = "setup" /\ daemon' = daemon
         /\ \/ toDaemon' = <<"REQUEST_SYNC_N_START_LUA">>
            \/ early = "sent" /\ \E cmd \in StepCmds : toDaemon' = <<cmd>>
      \/ /\ msg = "NOTIFY_BREAKPOINTS" /\ daemon = "paused" /\ daemon' = daemon
         /\ \E cmd \in Resumes : toDaemon' = <<cmd>>
      \/ /\ toDaemon' = << >> /\ daemon' \in {"loading", "running", "cleanup"}
  <2>1. CASE msg = "NOTIFY_BREAKPOINTS" /\ daemon = "setup" /\ daemon' = daemon
    <3>1. PICK last : /\ toDaemon = <<msg, last>>
                      /\ last = "REQUEST_SYNC_N_START_LUA" \/ (early = "sent" /\ last \in StepCmds)
      BY <2>1, Reads DEF StepCmds
    <3> QED  BY <1>1, <2>1, <3>1, Short
  <2>2. CASE msg = "NOTIFY_BREAKPOINTS" /\ daemon = "paused" /\ daemon' = daemon
    <3>1. "NOTIFY_BREAKPOINTS" \notin Resumes
      BY DEF Resumes, StepCmds
    <3>2. PICK cmd \in Resumes : toDaemon = <<msg, cmd>>
      BY <2>2, <3>1, Reads
    <3> QED  BY <1>1, <2>2, <3>2, Short
  <2>3. CASE msg = "REQUEST_SYNC_N_START_LUA" /\ daemon = "setup" /\ daemon' = "loading"
    <3>1. toDaemon = <<msg>>
      BY <2>3, Reads
    <3> QED  BY <1>1, <2>3, <3>1, Short
  <2>4. CASE msg \in Resumes /\ daemon = "paused" /\ daemon' \in {"running", "cleanup"}
    <3>1. toDaemon = <<msg>>
      BY <2>4, Reads DEF Resumes, StepCmds
    <3> QED  BY <1>1, <2>4, <3>1, Short
  <2> QED  BY <2>1, <2>2, <2>3, <2>4
<1>8. SocketInv'
  <2>1. toDaemon' \in Requests'
    BY <1>7 DEF Requests, EarlySteps
  <2>2. daemon' \in {"setup", "paused", "loading", "running", "cleanup"}
    BY <1>7
  <2> QED  BY <1>1, <1>2, <2>1, <2>2 DEF SocketInv, DaemonOver, Inv, Served
<1>9. CASE ~clientOpen
  BY <1>1, <1>3, <1>4, <1>8, <1>9 DEF Served, SyncInv, AsyncInv, Connected
<1>10. CASE clientOpen
  <2>1. /\ level = "WAIT_REPLY" /\ ui # "echo" /\ toClient = << >> /\ reader \notin DaemonMessages
    BY <1>1, <1>6, <1>10, NothingBoth DEF Asks
  <2>2. Unhandled' = << >> /\ reader # "failed"
    BY <1>1, <1>2, <1>10, <2>1 DEF Unhandled, UnhandledOf, Inv, Served, AsyncInv, Connected
  <2>3. SyncInv'
    BY <2>1 DEF SyncInv, IsClientActive, ActiveLevels
  <2>4. AsyncInv'
    <3>1. CASE toDaemon' = << >> /\ daemon' \in {"loading", "running", "cleanup"}
      BY <2>1, <2>2, <3>1 DEF AsyncInv
    <3>2. CASE toDaemon' = <<"REQUEST_SYNC_N_START_LUA">>
      <4>1. toDaemon' # << >> /\ toDaemon' \notin Asks
        BY <3>2, Short DEF Asks
      <4> QED  BY <2>1, <2>2, <4>1 DEF AsyncInv
    <3>3. CASE \E cmd \in Resumes : toDaemon' = <<cmd>>
      <4>1. {"REQUEST_VARIABLES", "REQUEST_ECHO_DATA"} \cap Resumes = {}
        BY DEF Resumes, StepCmds
      <4>2. toDaemon' # << >> /\ toDaemon' \notin Asks
        BY <3>3, <4>1, Short DEF Asks
      <4> QED  BY <2>1, <2>2, <4>2 DEF AsyncInv
    <3>4. StepCmds \subseteq Resumes
      BY DEF Resumes
    <3> QED  BY <1>7, <3>1, <3>2, <3>3, <3>4
  <2> QED  BY <1>3, <1>4, <1>8, <2>3, <2>4 DEF Served
<1> QED  BY <1>9, <1>10

\* The daemon tells that its program is suspended, or over.
LEMMA Tells ==
  ASSUME Inv, UNCHANGED clientVars, NEW msgs, Send(msgs), UNCHANGED server,
         \/ daemon \in {"loading", "running"} /\ daemon' = "paused" /\ msgs \in PauseTail
         \/ daemon = "cleanup" /\ daemon' = "setup" /\ msgs = <<"NOTIFY_SESSION_ENDED">>
  PROVE  Served'
<1>1. UNCHANGED <<toDaemon, server, clientOpen>>
      /\ toClient' = IF clientOpen THEN toClient \o msgs ELSE toClient
  BY DEF Send
<1>2. toDaemon = << >> /\ server = "open"
  BY DEF Inv, Served, SocketInv, Requests, DaemonOver, TypeOK, WireType
<1>3. EventsInv' /\ FrameInv'
  BY <1>1, FrameUntouched
<1>4. SocketInv'
  BY <1>1, <1>2 DEF SocketInv, Requests, DaemonOver, Inv, Served
<1>5. LostInv'
  BY <1>1, <1>2 DEF LostInv
<1>6. CASE ~clientOpen
  BY <1>1, <1>3, <1>4, <1>5, <1>6 DEF Served, SyncInv, AsyncInv, Connected
<1>7. CASE clientOpen
  <2>1. level = "WAIT_REPLY"
    BY <1>2, <1>7 DEF Inv, Served, SyncInv, Connected, IsClientActive, ActiveLevels, TypeOK, ClientType
  <2>2. Unhandled = << >> /\ reader # "failed" /\ ui # "echo"
    BY <1>2, <1>7, <2>1 DEF Inv, Served, AsyncInv, Connected
  <2>3. toClient = << >> /\ reader \notin DaemonMessages
    BY <2>2, UnhandledFacts DEF Inv, TypeOK, WireType, Unhandled, UnhandledOf
  <2>4. msgs \in Seq(DaemonMessages)
    <3>1. "NOTIFY_SESSION_ENDED" \in DaemonMessages
      BY DEF DaemonMessages
    <3>2. <<"NOTIFY_SESSION_ENDED">> \in Seq(DaemonMessages)
      BY <3>1
    <3> QED  BY <3>2, PauseTailFacts
  <2>5. Unhandled' = msgs
    BY <1>1, <1>7, <2>3, <2>4, ConcatEmptySeq DEF Unhandled, UnhandledOf
  <2>6. SyncInv'
    BY <2>1 DEF SyncInv, IsClientActive, ActiveLevels
  <2>7. AsyncInv'
    BY <1>1, <1>2, <2>1, <2>2, <2>5 DEF AsyncInv, SetupTail
  <2> QED  BY <1>3, <1>4, <1>5, <2>6, <2>7 DEF Served
<1> QED  BY <1>6, <1>7

\* What the daemon, its program and its hosts do keeps the session's invariant.
LEMMA DaemonKeeps ==
  ASSUME Inv, DaemonThread \/ DaemonWorld, UNCHANGED clientVars
  PROVE  Served'
<1>1. CASE Accept
  BY <1>1, DaemonMoves DEF Accept, DaemonOver
<1>2. CASE SetupRead
  <2>1. PICK msg \in DOMAIN SetupAnswers : Receive(msg, SetupAnswers[msg])
    BY <1>2 DEF SetupRead
  <2>2. daemon = "setup" /\ UNCHANGED daemonVars
    BY <1>2 DEF SetupRead
  <2>3. msg \in {"REQUEST_PLATFORM", "REQUEST_ECHO_DATA", "NOTIFY_BREAKPOINTS"} \cup StepCmds
    BY <2>1, <2>2, Reads DEF SetupAnswers
  <2>4. CASE msg = "REQUEST_PLATFORM"
    <3>1. Receive("REQUEST_PLATFORM", <<"REPLY_PLATFORM">>)
      BY <2>1, <2>4 DEF SetupAnswers
    <3> QED  BY <2>2, <3>1, Answers
  <2>5. CASE msg = "REQUEST_ECHO_DATA"
    <3>1. Receive("REQUEST_ECHO_DATA", <<"REPLY_ECHO_DATA">>)
      BY <2>1, <2>5 DEF SetupAnswers
    <3> QED  BY <2>2, <3>1, Answers
  <2>6. CASE msg = "NOTIFY_BREAKPOINTS"
    <3>1. Receive("NOTIFY_BREAKPOINTS", << >>)
      BY <2>1, <2>6 DEF SetupAnswers
    <3> QED  BY <2>2, <3>1, Takes DEF Receive
  <2>7. CASE msg \in StepCmds
    <3>1. Receive(msg, <<"UNEXPECTED_DURING_SYNC">>)
      BY <2>1, <2>7 DEF SetupAnswers, StepCmds, ClientMessages, Resumes
    <3> QED  BY <2>2, <2>7, <3>1, Answers
  <2> QED  BY <2>3, <2>4, <2>5, <2>6, <2>7
<1>3. CASE SyncNStart
  BY <1>3, Takes DEF SyncNStart, Receive
<1>4. CASE LoadStartFile \/ ProgramEnds
  <2>1. server = "open"
    BY <1>4 DEF LoadStartFile, ProgramEnds, Inv, Served, SocketInv, DaemonOver, TypeOK, WireType
  <2> QED  BY <1>4, <2>1, DaemonMoves DEF LoadStartFile, ProgramEnds, DaemonOver
<1>5. CASE PausedRead
  <2>1. PICK msg \in DOMAIN PausedAnswers : Receive(msg, PausedAnswers[msg])
    BY <1>5 DEF PausedRead
  <2>2. daemon = "paused" /\ UNCHANGED daemonVars
    BY <1>5 DEF PausedRead
  <2>3. CASE msg = "REQUEST_VARIABLES"
    <3>1. Receive("REQUEST_VARIABLES", <<"REPLY_VARIABLES">>)
      BY <2>1, <2>3 DEF PausedAnswers
    <3> QED  BY <2>2, <3>1, Answers
  <2>4. CASE msg = "NOTIFY_BREAKPOINTS"
    <3>1. Receive("NOTIFY_BREAKPOINTS", << >>)
      BY <2>1, <2>4 DEF PausedAnswers
    <3> QED  BY <2>2, <3>1, Takes DEF Receive
  <2> QED  BY <2>1, <2>3, <2>4 DEF PausedAnswers
<1>6. CASE PausedReadUnexpected
  <2>1. /\ daemon = "paused" /\ toDaemon # << >>
        /\ Head(toDaemon) \notin Resumes \cup {"REQUEST_VARIABLES", "NOTIFY_BREAKPOINTS"}
    BY <1>6 DEF PausedReadUnexpected, PausedAnswers
  <2>2. \/ toDaemon = <<"REQUEST_VARIABLES">>
        \/ \E cmd \in Resumes : toDaemon = <<cmd>>
        \/ \E cmd \in Resumes : toDaemon = <<"NOTIFY_BREAKPOINTS", cmd>>
    BY <2>1 DEF Inv, Served, SocketInv, Requests
  <2>3. Head(toDaemon) \in Resumes \cup {"REQUEST_VARIABLES", "NOTIFY_BREAKPOINTS"}
    BY <2>2, Short
  <2> QED  BY <2>1, <2>3
<1>7. CASE ResumeDaemon
  <2>1. CASE \E cmd \in Resumes : Receive(cmd, << >>) /\ daemon = "paused" /\ daemon' \in {"running", "cleanup"}
    BY <2>1, Takes DEF Receive
  <2>2. CASE \E how \in DaemonOver \ {"assert(ok)"} : DaemonEnds(how) /\ DaemonCloses
    BY <2>2, DaemonGone
  <2> QED  BY <1>7, <2>1, <2>2 DEF ResumeDaemon, DaemonFailsOn, DaemonOver
<1>8. CASE CleanUp
  <2>1. server' = server
    BY <1>8 DEF CleanUp, Send
  <2> QED  BY <1>8, <2>1, Tells DEF CleanUp
<1>9. CASE DaemonLosesClient
  <2>1. CASE /\ daemon = "paused" /\ daemon' \in {"running", "cleanup"} /\ UNCHANGED wireVars
    <3>1. server = "open" /\ ~clientOpen /\ toDaemon = << >>
      BY <1>9, <2>1 DEF DaemonLosesClient, DaemonAtEof, Inv, Served, SocketInv, DaemonOver, TypeOK, WireType
    <3> QED  BY <2>1, <3>1, DaemonMoves DEF DaemonOver
  <2>2. CASE \E how \in DaemonOver \ {"assert(ok)"} : DaemonEnds(how) /\ DaemonCloses
    BY <2>2, DaemonGone
  <2> QED  BY <1>9, <2>1, <2>2 DEF DaemonLosesClient, DaemonOver
<1>10. CASE PauseProgram
  <2>1. PICK why \in Pauses : \E msgs \in PauseMessages(why) : Send(msgs)
    BY <1>10 DEF PauseProgram
  <2>2. PICK msgs \in PauseMessages(why) : Send(msgs)
    BY <2>1
  <2>3. msgs \in PauseTail /\ server' = server
    BY <2>2, PauseTailFacts DEF Send
  <2>4. daemon \in {"loading", "running"} /\ daemon' = "paused"
    BY <1>10 DEF PauseProgram
  <2> QED  BY <2>2, <2>3, <2>4, Tells
<1>11. CASE Kill
  <2>1. DaemonEnds("exited") /\ DaemonCloses /\ "exited" \in DaemonOver \ {"assert(ok)"}
    BY <1>11 DEF Kill, DaemonOver
  <2> QED  BY <2>1, DaemonGone
<1>12. CASE Launch
  <2>1. /\ server = "none" /\ toDaemon = << >> /\ server' = "listening" /\ daemon' = "listen"
        /\ UNCHANGED <<toDaemon, toClient, clientOpen>>
    BY <1>12 DEF Launch, Inv, Served, SocketInv
  <2>2. EventsInv' /\ FrameInv'
    BY <2>1, FrameUntouched
  <2>3. SocketInv'
    BY <2>1 DEF SocketInv, Requests, DaemonOver, Inv, Served
  <2>4. SyncInv' /\ AsyncInv' /\ LostInv'
    BY <2>1 DEF SyncInv, AsyncInv, LostInv, Connected, Unhandled, SetupTail, Refusals, Inv, Served
  <2> QED  BY <2>2, <2>3, <2>4 DEF Served
<1> QED
  BY <1>1, <1>2, <1>3, <1>4, <1>5, <1>6, <1>7, <1>8, <1>9, <1>10, <1>11, <1>12 DEF DaemonThread, DaemonWorld

-----------------------------------------------------------------------------
(* The session.                                                            *)

\* The first state is a session nobody has connected to.
LEMMA InitSession == Init => SessionInv
<1> SUFFICES ASSUME Init
             PROVE  Served /\ queue \in Seq({"REPLY_VARIABLES"})
  BY DEF SessionInv
<1> USE DEF Init, WireInit, ClientInit, DaemonInit
<1>1. EventsInv /\ queue \in Seq({"REPLY_VARIABLES"})
  BY EventSeqs DEF EventsInv, Backlog
<1>2. FrameInv
  BY DEF FrameInv, Toolbar, Started, IsLuaStarted
<1>3. SocketInv
  BY DEF SocketInv, Requests, DaemonOver
<1>4. SyncInv /\ AsyncInv /\ LostInv
  BY DEF SyncInv, AsyncInv, LostInv, Connected
<1> QED  BY <1>1, <1>2, <1>3, <1>4 DEF Served

\* Every step keeps the session served, but for a stress test run in it.
LEMMA StepServed ==
  ASSUME Orderly, Inv, [Next]_vars
  PROVE  Served' \/ Ruined'
<1>1. CASE UNCHANGED vars
  <2>1. EventsInv'
    BY <1>1 DEF EventsInv, Inv, Served
  <2> QED  BY <1>1, <2>1, Stays
<1>2. CASE ClientNext
  <2>1. CASE User
    BY <1>2, <2>1, UserKeeps DEF ClientNext
  <2>2. CASE ProcessPendingEvents
    BY <1>2, <2>2, EventsKeep DEF ClientNext
  <2>3. CASE OnAsyncReadTimerDone
    BY <1>2, <2>3, TimerKeeps DEF ClientNext
  <2>4. CASE OnAsyncReadTimerFailed \/ ReadMessage \/ ReadMessagePolls \/ AsyncRead \/ ClientProcessOver
    BY <1>2, <2>4, ReadsKeep DEF ClientNext
  <2> QED  BY <1>2, <2>1, <2>2, <2>3, <2>4 DEF ClientNext, UiThread
<1>3. CASE DaemonNext
  BY <1>3, DaemonKeeps DEF DaemonNext
<1> QED  BY <1>1, <1>2, <1>3 DEF Next

\* A session that a stress test has ruined stays so: the UI thread takes no more
\* events, and the echo it waits for is never sent.
LEMMA StepRuined ==
  ASSUME TypeOK, Ruined, [Next]_vars
  PROVE  Ruined' /\ queue' = queue
<1> DEFINE Over == ui \in {"stress beside the reader", "assert(REPLY_ECHO_DATA)"}
<1>1. ui # "loop" /\ level # "CONNECTED"
  BY DEF Ruined
<1>2. ~User /\ ~ProcessPendingEvents /\ ~OnAsyncReadTimerDone /\ ~OnAsyncReadTimerFailed
  BY <1>1 DEF User, ToolConnect, ToolDisconnect, ToolStartRun, OnStep, OnToolStop, PaneReload, OnNetStressTest,
     OnReadOnlyEditAttempt, DialogAnswered, UserEvent, NativeEvent, ProcessPendingEvents,
     OnAsyncReadTimerDone, OnAsyncReadTimerFailed
<1>3. CASE UNCHANGED vars
  BY <1>3 DEF Ruined, IsClientActive
<1>4. CASE Over /\ ClientNext
  <2>1. ReadMessage \/ ReadMessagePolls \/ AsyncRead \/ ClientProcessOver
    BY <1>2, <1>4 DEF ClientNext, UiThread
  <2>2. UNCHANGED <<ui, level, queue>>
    BY <1>4, <2>1 DEF ReadMessage, ReadMessagePolls, AsyncRead, ClientProcessOver
  <2> QED  BY <1>1, <1>4, <2>2 DEF Ruined
<1>5. CASE Over /\ DaemonNext
  BY <1>1, <1>5 DEF DaemonNext, Ruined
<1>6. CASE ~Over
  <2>1. /\ ui = "echo" /\ clientOpen /\ reader # "reading"
        /\ \A i \in DOMAIN toClient : toClient[i] # "REPLY_ECHO_DATA"
        /\ IF server = "open"
           THEN /\ daemon = "paused" /\ toDaemon = <<"REQUEST_ECHO_DATA">>
                /\ IsClientActive => reader = "none" /\ toClient = << >>
           ELSE daemon \in DaemonOver \cup {"listen"}
    BY <1>6 DEF Ruined
  <2>2. toClient \in Seq(DaemonMessages)
    BY DEF TypeOK, WireType
  <2>3. CASE ClientNext
    <3>1. ReadMessage \/ ReadMessagePolls
      BY <1>2, <2>1, <2>3 DEF ClientNext, UiThread, AsyncRead, ClientProcessOver, ClientOver
    <3>2. CASE ReadMessage
      <4>1. toClient # << >> /\ Head(toClient) # "REPLY_ECHO_DATA"
        <5>1. toClient # << >>
          BY <3>2 DEF ReadMessage
        <5>2. Head(toClient) = toClient[1] /\ 1 \in DOMAIN toClient
          BY <2>2, <5>1, HeadTailProperties
        <5> QED  BY <2>1, <5>1, <5>2
      <4>2. ui' = "assert(REPLY_ECHO_DATA)" /\ level' = level /\ queue' = queue
        BY <2>1, <3>2, <4>1 DEF ReadMessage
      <4> QED  BY <1>1, <4>2 DEF Ruined
    <3>3. CASE ReadMessagePolls
      BY <1>1, <2>1, <2>3, <3>3 DEF ReadMessagePolls, ClientNext, Ruined, IsClientActive
    <3> QED  BY <3>1, <3>2, <3>3
  <2>4. CASE DaemonNext
    <3>1. UNCHANGED clientVars
      BY <2>4 DEF DaemonNext
    <3>2. CASE server = "open"
      <4>1. daemon = "paused" /\ toDaemon # << >> /\ Head(toDaemon) = "REQUEST_ECHO_DATA"
        BY <2>1, <3>2, Short
      <4>2. PausedReadUnexpected \/ Kill
        BY <2>1, <2>4, <4>1 DEF DaemonNext, DaemonThread, DaemonWorld, Accept, SetupRead, SyncNStart, LoadStartFile,
           PausedRead, PausedAnswers, Receive, ResumeDaemon, Resumes, StepCmds, DaemonFailsOn, CleanUp,
           DaemonLosesClient, DaemonAtEof, PauseProgram, ProgramEnds, Launch, DaemonOver
      <4>3. /\ server' = "none" /\ daemon' \in DaemonOver /\ clientOpen' = clientOpen
            /\ toClient' \in {toClient, << >>, Append(toClient, "UNEXPECTED_DURING_DEBUG")}
        BY <4>2 DEF PausedReadUnexpected, Kill, DaemonEnds, DaemonCloses, DaemonOver
      <4>4. \A i \in DOMAIN toClient' : toClient'[i] # "REPLY_ECHO_DATA"
        <5>1. CASE toClient' \in {toClient, << >>}
          BY <2>1, <5>1
        <5>2. CASE toClient' = Append(toClient, "UNEXPECTED_DURING_DEBUG")
          BY <2>1, <2>2, <5>2
        <5> QED  BY <4>3, <5>1, <5>2
      <4> QED  BY <1>1, <2>1, <3>1, <4>3, <4>4 DEF Ruined
    <3>3. CASE server # "open"
      <4>1. daemon \in DaemonOver \cup {"listen"}
        BY <2>1, <3>3
      <4>2. Kill \/ Launch
        BY <2>4, <3>3, <4>1 DEF DaemonNext, DaemonThread, DaemonWorld, Accept, SetupRead, SyncNStart, LoadStartFile,
           PausedRead, PausedReadUnexpected, ResumeDaemon, CleanUp, DaemonLosesClient, PauseProgram, ProgramEnds,
           DaemonOver
      <4>3. /\ server' \in {"none", "listening"} /\ daemon' \in DaemonOver \cup {"listen"} /\ clientOpen' = clientOpen
            /\ toClient' \in {toClient, << >>}
        BY <4>2 DEF Kill, Launch, DaemonEnds, DaemonCloses, DaemonOver
      <4> QED  BY <1>1, <2>1, <3>1, <4>3 DEF Ruined
    <3> QED  BY <3>2, <3>3
  <2> QED  BY <1>3, <2>3, <2>4 DEF Next
<1> QED  BY <1>3, <1>4, <1>5, <1>6 DEF Next

LEMMA StepSession ==
  ASSUME Orderly
  PROVE  TypeOK /\ SessionInv /\ [Next]_vars => (TypeOK /\ SessionInv)'
<1> SUFFICES ASSUME TypeOK, SessionInv, [Next]_vars
             PROVE  SessionInv'
  BY StepTypes
<1>1. CASE Ruined
  BY <1>1, StepRuined DEF SessionInv
<1>2. CASE Served
  <2>1. Served' \/ Ruined'
    BY <1>2, StepServed DEF Inv
  <2>2. queue' \in Seq({"REPLY_VARIABLES"})
    <3>1. CASE queue' = queue
      BY <3>1 DEF SessionInv
    <3>2. CASE Served'
      BY <3>2 DEF Served, EventsInv
    <3>3. CASE Ruined' /\ queue' # queue
      <4>1. OnIncomingMessage \/ ReadMessage
        BY <3>3 DEF Next, ClientNext, DaemonNext, User, UiThread, ToolConnect, ToolDisconnect, ToolStartRun,
           OnStep, OnToolStop, PaneReload, OnNetStressTest, OnReadOnlyEditAttempt, DialogAnswered,
           ProcessPendingEvents, OnLuaSuspended, RequestVarReload, OnStopSession, OnAsyncReadTimerDone,
           OnAsyncReadTimerFailed, AsyncRead, ReadMessagePolls, ClientProcessOver
      <4>2. CASE OnIncomingMessage
        BY <3>3, <4>2, QueueFacts DEF OnIncomingMessage, SessionInv
      <4>3. CASE ReadMessage
        BY <3>3, <4>3 DEF ReadMessage, Ruined
      <4> QED  BY <4>1, <4>2, <4>3
    <3> QED  BY <2>1, <3>1, <3>2, <3>3
  <2> QED  BY <2>1, <2>2 DEF SessionInv
<1> QED  BY <1>1, <1>2 DEF SessionInv

\* The invariant that says who has the turn, and what is on the wire for it: where
\* posted events come first, every step of the user, of the event loop, of the reader
\* and of the daemon keeps it, also when a step is asked for before the start, when a
\* stress test is run, and when either process dies, loads a bad source or is started
\* again.
THEOREM SessionInvariant ==
  ASSUME Orderly
  PROVE  Spec => [](TypeOK /\ SessionInv)
<1>1. Init => TypeOK /\ SessionInv
  BY InitTypes, InitSession
<1>2. TypeOK /\ SessionInv /\ [Next]_vars => (TypeOK /\ SessionInv)'
  BY StepSession
<1> QED  BY <1>1, <1>2, PTL DEF Spec

\* Whenever the client has its turn the daemon is in the loop that serves it, no
\* reader thread runs, and nothing is on the wire but one request or its reply.
THEOREM TurnsAreTaken ==
  ASSUME Orderly
  PROVE  Spec => []TurnTaking
<1>0. Len(<< >>) = 0 /\ \A x : Len(<<x>>) = 1
  OBVIOUS
<1>1. ASSUME TypeOK, Served, Connected, IsClientActive, ui \in {"loop", "reply", "echo"}
      PROVE  /\ daemon = IF level = "CONNECTED" THEN "setup" ELSE "paused"
             /\ reader = "none"
             /\ Len(toDaemon) + Len(toClient) = IF ui = "loop" THEN 0 ELSE 1
  <2>1. daemon = IF level = "CONNECTED" THEN "setup" ELSE "paused"
    BY <1>1 DEF Served, SyncInv
  <2>2. reader = "none"
    BY <1>1 DEF Served, FrameInv, Connected
  <2>3. Len(toDaemon) + Len(toClient) = IF ui = "loop" THEN 0 ELSE 1
    <3>1. /\ ui = "loop" => toDaemon = << >> /\ toClient = << >>
          /\ ui # "loop" =>
               \/ toClient = << >> /\ \E x \in ClientMessages : toDaemon = <<x>>
               \/ toDaemon = << >> /\ \E x \in DaemonMessages : toClient = <<x>>
      BY <1>1, Short DEF Served, SyncInv, Echoes, ClientMessages, DaemonMessages
    <3>3. CASE ui = "loop"
      BY <1>0, <3>1, <3>3
    <3>4. CASE ui # "loop" /\ toClient = << >>
      BY <1>0, <3>1, <3>4, Short
    <3>5. CASE ui # "loop" /\ toDaemon = << >>
      BY <1>0, <3>1, <3>5, Short
    <3> QED  BY <3>1, <3>3, <3>4, <3>5
  <2> QED  BY <2>1, <2>2, <2>3
<1>2. ASSUME Ruined, Connected, IsClientActive, ui \in {"loop", "reply", "echo"}
      PROVE  /\ daemon = IF level = "CONNECTED" THEN "setup" ELSE "paused"
             /\ reader = "none"
             /\ Len(toDaemon) + Len(toClient) = IF ui = "loop" THEN 0 ELSE 1
  <2>1. /\ daemon = "paused" /\ level # "CONNECTED" /\ reader = "none" /\ ui = "echo"
        /\ toDaemon = <<"REQUEST_ECHO_DATA">> /\ toClient = << >>
    BY <1>2 DEF Ruined, Connected
  <2>2. Len(toDaemon) = 1 /\ Len(toClient) = 0
    BY <1>0, <2>1
  <2> QED  BY <2>1, <2>2
<1>3. TypeOK /\ SessionInv => TurnTaking
  BY <1>1, <1>2 DEF TurnTaking, SessionInv
<1> QED  BY <1>3, SessionInvariant, PTL

\* What is on its way to the client of a session that no stress test has ruined.
LEMMA ToClient ==
  ASSUME TypeOK, Served
  PROVE  /\ toClient \in {<< >>, <<"REPLY_VARIABLES">>, <<"REPLY_ECHO_DATA">>} \cup SetupTail \cup PauseTail
         /\ ui = "reply" => toClient \in {<< >>, <<"REPLY_VARIABLES">>}
<1> DEFINE Some == {<< >>, <<"REPLY_VARIABLES">>, <<"REPLY_ECHO_DATA">>} \cup SetupTail \cup PauseTail
<1>1. CASE ~clientOpen
  BY <1>1 DEF Served, SocketInv
<1>2. CASE clientOpen /\ level # "WAIT_REPLY"
  <2>1. IsClientActive
    BY <1>2 DEF IsClientActive, ActiveLevels, TypeOK, ClientType
  <2>2. CASE server = "open"
    BY <1>2, <2>1, <2>2, Short DEF Served, SyncInv, Connected, Echoes
  <2>3. CASE server # "open"
    BY <1>2, <2>1, <2>3, Short DEF Served, LostInv
  <2> QED  BY <2>2, <2>3
<1>3. CASE clientOpen /\ level = "WAIT_REPLY" /\ ui = "echo"
  <2>1. CASE server = "open"
    BY <1>3, <2>1, Short DEF Served, AsyncInv, Connected, Echoes
  <2>2. CASE server # "open"
    BY <1>3, <2>2, Short DEF Served, LostInv
  <2> QED  BY <1>3, <2>1, <2>2
<1>4. CASE clientOpen /\ level = "WAIT_REPLY" /\ ui # "echo"
  <2>1. ui # "reply"
    BY <1>4 DEF Served, FrameInv
  <2>2. toClient = << >> \/ Unhandled \in {<< >>} \cup SetupTail \cup PauseTail
    <3>1. CASE server = "open"
      BY <1>4, <3>1 DEF Served, AsyncInv, Connected
    <3>2. CASE server # "open"
      BY <1>4, <3>2 DEF Served, LostInv
    <3> QED  BY <3>1, <3>2
  <2>3. CASE reader \in DaemonMessages
    <3>1. Unhandled # << >> /\ Tail(Unhandled) = toClient
      BY <2>3, UnhandledFacts DEF TypeOK, WireType, Unhandled
    <3>2. \A msgs \in SetupTail \cup PauseTail : Tail(msgs) \in {<< >>} \cup PauseTail
      BY PauseTailFacts, Short DEF SetupTail, Refusals
    <3> QED  BY <2>1, <2>2, <3>1, <3>2
  <2>4. CASE reader \notin DaemonMessages
    BY <2>1, <2>2, <2>4 DEF Unhandled, UnhandledOf
  <2> QED  BY <2>3, <2>4
<1> QED  BY <1>1, <1>2, <1>3, <1>4

\* A synchronous read gets the answer to what it asked, but for an echo asked for in a
\* pause, and, but for a stress test, never beside another read.
THEOREM RepliesAreMatched ==
  ASSUME Orderly
  PROVE  Spec => []RepliesMatch
<1>1. ASSUME TypeOK, SessionInv
      PROVE  RepliesMatch
  <2>1. CASE Ruined
    BY <1>1, <2>1 DEF SessionInv, Ruined, RepliesMatch
  <2>2. CASE Served
    <3>1. ui # "two readers" /\ ui # "assert(REPLY_ECHO_DATA)"
      BY <2>2 DEF Served, FrameInv
    <3>2. ui = "reply" /\ toClient # << >> => Head(toClient) = "REPLY_VARIABLES"
      BY <1>1, <2>2, ToClient, Short
    <3> QED  BY <1>1, <3>1, <3>2 DEF RepliesMatch, SessionInv
  <2> QED  BY <1>1, <2>1, <2>2 DEF SessionInv
<1>2. TypeOK /\ SessionInv => RepliesMatch
  BY <1>1
<1> QED  BY <1>2, SessionInvariant, PTL

\* Unless a stress test is run in a session, no message reaches the daemon in a phase
\* that does not expect it but a step asked for before the start, which it refuses.
THEOREM NothingIsUnexpected ==
  ASSUME Orderly
  PROVE  Spec => []NothingUnexpected
<1>1. ASSUME TypeOK, Served
      PROVE  NothingUnexpected
  <2>1. toClient \in {<< >>, <<"REPLY_VARIABLES">>, <<"REPLY_ECHO_DATA">>} \cup SetupTail \cup PauseTail
    BY <1>1, ToClient
  <2>2. daemon # "assert(ok)"
    BY <1>1 DEF Served, SocketInv
  <2>3. CASE toClient \in PauseTail \cup {<< >>}
    BY <2>2, <2>3, NoEcho DEF NothingUnexpected
  <2>4. CASE toClient \in {<<"REPLY_VARIABLES">>, <<"REPLY_ECHO_DATA">>, <<"REPLY_PLATFORM">>, <<"NOTIFY_SESSION_ENDED">>}
    <3>1. \A i \in DOMAIN toClient : toClient[i] \notin Unexpected
      BY <2>4 DEF Unexpected
    <3> QED  BY <2>2, <3>1 DEF NothingUnexpected
  <2>5. CASE early = "sent" /\ toClient = <<"UNEXPECTED_DURING_SYNC">>
    <3>1. \A i \in DOMAIN toClient : toClient[i] = "UNEXPECTED_DURING_SYNC"
      BY <2>5
    <3> QED  BY <2>2, <2>5, <3>1 DEF NothingUnexpected
  <2> QED  BY <2>1, <2>3, <2>4, <2>5 DEF SetupTail, Refusals
<1>2. Ruined => NothingUnexpected
  BY DEF Ruined, NothingUnexpected, StressedInSession
<1>3. TypeOK /\ SessionInv => NothingUnexpected
  BY <1>1, <1>2 DEF SessionInv
<1> QED  BY <1>3, SessionInvariant, PTL

\* A client that waits never waits for a daemon that waits for it, but for one that has
\* refused a step asked for before the start and said so.
THEOREM NobodyWaitsForBoth ==
  ASSUME Orderly
  PROVE  Spec => []NoMutualWait
<1>1. ASSUME TypeOK, Served, Connected, level = "WAIT_REPLY", ui = "loop", reader = "reading",
             toDaemon = << >>, toClient = << >>, daemon \in {"setup", "paused"}
      PROVE  daemon = "setup" /\ early = "refused"
  <2>1. Unhandled = << >>
    BY <1>1 DEF Unhandled, UnhandledOf, DaemonMessages, Unexpected
  <2>2. << >> \notin PauseTail /\ << >> \notin SetupTail
    BY PauseTailFacts, Short DEF SetupTail, Refusals
  <2> QED  BY <1>1, <2>1, <2>2 DEF Served, AsyncInv
<1>2. Ruined => ui # "loop"
  BY DEF Ruined
<1>3. TypeOK /\ SessionInv => NoMutualWait
  BY <1>1, <1>2 DEF NoMutualWait, SessionInv
<1> QED  BY <1>3, SessionInvariant, PTL
=============================================================================
