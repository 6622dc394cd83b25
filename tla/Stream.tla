-------------------------------- MODULE Stream --------------------------------
(***************************************************************************)
(* One direction of the TCP connection: messages written as a header and a   *)
(* body in pieces, and cut out of the byte stream again by one of three      *)
(* readers: the daemon's ReadMessage() (ServerTCP.cpp), the client's          *)
(* ReadMessage() for replies and its asynchronous receiver (ClientTCP.cpp).   *)
(*                                                                         *)
(* A body is made of units, its header is one: unit k of message i is        *)
(* <<i, k>>, the header k = 0.                                                *)
(***************************************************************************)
EXTENDS Integers, SequencesExt

CONSTANTS
  Readers,     \* those modelled, of {"daemon", "client", "receiver"}
  MaxBody,     \* bound: units of a body
  MaxMessages  \* bound: messages written

ASSUME StreamAssumption ==
  /\ Readers \subseteq {"daemon", "client", "receiver"}
  /\ MaxBody \in Nat \ {0} /\ MaxMessages \in Nat

VARIABLES
  reader,
  bodies,  \* sizes of the messages whose header was written
  left,    \* units of the last one still to be written
  stream,  \* units under way
  closed,  \* the writer's end is closed, or its process gone
  state,   \* of the reader: "idle", "header", "body"; "failed" disconnected, "abort" an assert
           \* failed, "spin" it loops for ever
  some,    \* units of the current body read so far
  done     \* bodies returned

writer == <<bodies, left, closed>>
vars == <<reader, writer, stream, state, some, done>>

Init ==
  /\ reader \in Readers
  /\ bodies = << >> /\ left = 0 /\ stream = << >> /\ closed = FALSE
  /\ state = "idle" /\ some = << >> /\ done = << >>

Body(i) == [k \in 1..bodies[i] |-> <<i, k>>]

-----------------------------------------------------------------------------
(* Writing: WriteMessage() of either side.                                  *)

\* The daemon answers one request at a time, and notifies only a client that waits
\* for it with its receiver; the client sends its lists in a row.
MayWrite == reader = "client" => Len(done) = Len(bodies)

WriteHeader(size) ==
  /\ ~closed /\ left = 0 /\ Len(bodies) < MaxMessages
  /\ MayWrite
  /\ bodies' = Append(bodies, size)
  /\ left' = size
  /\ stream' = Append(stream, <<Len(bodies'), 0>>)
  /\ UNCHANGED <<reader, closed, state, some, done>>

\* write_some() sends what the socket takes; between two calls the writer breathes.
WriteSome ==
  /\ ~closed /\ left > 0
  /\ \E n \in 1..left :
       /\ left' = left - n
       /\ stream' = stream \o SubSeq(Body(Len(bodies)), bodies[Len(bodies)] - left + 1,
                                     bodies[Len(bodies)] - left + n)
  /\ UNCHANGED <<reader, bodies, closed, state, some, done>>

\* The writer closes its socket or its process ends, also within a message; what was not
\* read yet may be lost with it.
Close ==
  /\ ~closed
  /\ closed' = TRUE
  /\ stream' \in {stream, << >>}
  /\ UNCHANGED <<reader, bodies, left, state, some, done>>

-----------------------------------------------------------------------------
(* Reading.                                                                *)

StartRead ==
  /\ state = "idle"
  /\ state' = "header"
  /\ UNCHANGED <<reader, writer, stream, some, done>>

\* A header is read when it is all there; anything else in its place fails
\* assert(header.IsOK()), or the receiver's check.
ReadHeader ==
  /\ state = "header" /\ stream # << >>
  /\ stream' = Tail(stream)
  /\ state' = IF Head(stream)[2] = 0 THEN "body" ELSE IF reader = "receiver" THEN "failed" ELSE "abort"
  /\ some' = << >>
  /\ UNCHANGED <<reader, writer, done>>

\* The end of the stream before a header: read() and async_read() report it, the
\* client polls available(), which is zero and no error.
EndBeforeHeader ==
  /\ state = "header" /\ stream = << >> /\ closed
  /\ state' = IF reader = "client" THEN "spin" ELSE "failed"
  /\ UNCHANGED <<reader, writer, stream, some, done>>

\* The units of the body being read, and those missing.
BodySize == bodies[Len(done) + 1]
Remain == BodySize - Len(some)

\* All that is available is read.
Fault_ToRead(avail) == IF avail = 0 THEN 1 ELSE avail
\* How many units one read_some() asks for, of those that are available: the daemon at
\* most what remains and at least one, the client at most a whole body, the receiver all
\* that remains.
ToRead(avail) ==
  CASE reader = "daemon"   -> IF avail = 0 THEN 1 ELSE IF avail > Remain THEN Remain ELSE avail
    [] reader = "client"   -> IF avail > BodySize THEN BodySize ELSE avail
    [] reader = "receiver" -> Remain

\* The units read are kept from an earlier body.
Fault_Finished(units) == state' = "idle" /\ some' = units /\ done' = Append(done, units)
\* A body is returned when as many units were read as its header says: with more than
\* those, the client's loop goes on for ever, and the daemon fails an assert.
Finished(units) ==
  IF Len(units) = BodySize
  THEN state' = "idle" /\ some' = << >> /\ done' = Append(done, units)
  ELSE /\ state' = IF Len(units) < BodySize THEN "body" ELSE IF reader = "client" THEN "spin" ELSE "abort"
       /\ some' = units /\ UNCHANGED done

\* available() may see less than what arrives meanwhile. The client does not read while it
\* sees none, the others block until what they ask for is there.
ReadSome ==
  /\ state = "body"
  /\ \E avail \in 0..Len(stream) :
       LET n == ToRead(avail)
       IN /\ n \in 1..Len(stream)
          /\ Finished(some \o SubSeq(stream, 1, n))
          /\ stream' = SubSeq(stream, n + 1, Len(stream))
  /\ UNCHANGED <<reader, writer>>

\* The stream ends within a body: the daemon's read_some() returns nothing, which fails
\* an assert, for its error is not looked at; the client breathes for ever; the receiver
\* reports it.
EndWithinBody ==
  /\ state = "body" /\ closed
  /\ IF reader = "receiver" THEN Len(stream) < Remain ELSE stream = << >>
  /\ state' = CASE reader = "daemon" -> "abort" [] reader = "client" -> "spin"
                [] reader = "receiver" -> "failed"
  /\ UNCHANGED <<reader, writer, stream, some, done>>

Next ==
  \/ \E size \in 1..MaxBody : WriteHeader(size)
  \/ WriteSome \/ Close
  \/ StartRead \/ ReadHeader \/ EndBeforeHeader \/ ReadSome \/ EndWithinBody

\* The reader's thread and the socket make progress; a writer that has begun a message
\* goes on, for its loop ends with the body.
Fairness == WF_vars(StartRead \/ ReadHeader \/ ReadSome) /\ WF_vars(WriteSome)

Spec == Init /\ [][Next]_vars /\ Fairness

-----------------------------------------------------------------------------
(* Properties.                                                             *)

\* The variables have their types; no more is read than was written.
TypeOK ==
  /\ reader \in Readers /\ closed \in BOOLEAN
  /\ bodies \in Seq(1..MaxBody) /\ Len(bodies) <= MaxMessages
  /\ left \in 0..MaxBody
  /\ \A s \in {stream, some} : s \in Seq((1..MaxMessages) \X (0..MaxBody))
  /\ Len(done) <= Len(bodies)
  /\ state \in {"idle", "header", "body", "failed", "abort", "spin"}

\* A reader fails an assert or loops for ever only if the other side went away: neither
\* the pieces the body comes in, nor the message behind it, can make it. In the client's
\* case that is because the daemon does not write before its last reply was read
\* (ClientTCP.cpp:688 reads up to a whole body into what remains).
StopsOnlyIfClosed == state \in {"failed", "abort", "spin"} => closed

\* Messages returned are those written, whole and in order, until the reader gives up;
\* a body that differs from what was written is no message of the channel.
Chan == INSTANCE Channel WITH
  Messages <- 1..MaxMessages,
  queue <- [i \in 1..(Len(bodies) - Len(done)) |-> Len(done) + i],
  got <- [i \in DOMAIN done |-> IF done[i] = Body(i) THEN i ELSE 0],
  gone <- state \in {"failed", "abort", "spin"}
ImplementsChannel == Chan!Spec

\* A message that was written in full is read, however it was cut into pieces.
Delivered ==
  \A i \in 1..MaxMessages :
    (Len(bodies) >= i) ~> (Len(done) >= i \/ closed)

-----------------------------------------------------------------------------
(* The inductive invariant: where in the written messages the reader, the    *)
(* units under way and the writer are.                                      *)

Stopped == {"failed", "abort", "spin"}

\* The unit the reader needs next, and the one that is written next.
Expected == IF state = "body" THEN <<Len(done) + 1, Len(some) + 1>> ELSE <<Len(done) + 1, 0>>
NextWritten == IF left > 0 THEN <<Len(bodies), bodies[Len(bodies)] - left + 1>> ELSE <<Len(bodies) + 1, 0>>

CountersInv ==
  /\ left > 0 => Len(bodies) > 0 /\ left <= bodies[Len(bodies)]
  /\ reader = "client" => Len(bodies) <= Len(done) + 1

\* The bodies returned are those written, the one being read is a proper beginning of one.
BodiesInv ==
  /\ \A i \in 1..Len(done) : done[i] = Body(i)
  /\ state \notin Stopped \cup {"body"} => some = << >>
  /\ state = "body" => /\ Len(done) < Len(bodies) /\ Len(some) < bodies[Len(done) + 1]
                      /\ \A k \in 1..Len(some) : some[k] = <<Len(done) + 1, k>>

\* The unit d after a unit in the stream of bytes: its message goes on to its end, and
\* then comes the header of the next.
After(unit, d) ==
  IF unit[2] + d <= bodies[unit[1]] THEN <<unit[1], unit[2] + d>> ELSE <<unit[1] + 1, 0>>

\* The units under way are of messages begun, and follow each other as they were written.
StreamInv ==
  /\ \A j \in 1..Len(stream) : stream[j][1] <= Len(bodies) /\ stream[j][2] <= bodies[stream[j][1]]
  /\ \A j \in 1..Len(stream) : \A d \in 0..(bodies[stream[j][1]] - stream[j][2] + 1) :
       j + d <= Len(stream) => stream[j + d] = After(stream[j], d)

\* The first of them is what the reader needs, the last what was written last, and with
\* none the reader needs what will be written next.
EndsInv ==
  /\ state \notin Stopped /\ stream # << >> => stream[1] = Expected
  /\ ~closed /\ stream # << >> => stream[Len(stream)] = <<Len(bodies), bodies[Len(bodies)] - left>>
  /\ ~closed /\ stream = << >> => Expected = NextWritten

DeliveryInv ==
  /\ TypeOK /\ done \in Seq(Seq((1..MaxMessages) \X (0..MaxBody)))
  /\ CountersInv /\ BodiesInv /\ StreamInv /\ EndsInv /\ StopsOnlyIfClosed
=============================================================================
