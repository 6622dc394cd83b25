------------------------------ MODULE LogProofs ------------------------------
(***************************************************************************)
(* Proofs about MODULE Log: what the client receives of the log it shows, in  *)
(* the order it came, which is the order it was logged unless the network      *)
(* mixed it up, whatever is lost, restarted, or logged by other threads         *)
(* meanwhile, for all sizes, limits and threads.                            *)
(***************************************************************************)
EXTENDS Log, SequenceTheorems, FiniteSetTheorems, TLAPS

(* Sequences. *)

\* A sequence has its elements at the places up to its length.
LEMMA Places ==
  ASSUME NEW S, NEW s \in Seq(S)
  PROVE  /\ Len(s) \in Nat /\ DOMAIN s = 1..Len(s)
         /\ \A i \in DOMAIN s : s[i] \in S /\ i \in Nat
         /\ Range(s) \subseteq S /\ \A i \in DOMAIN s : s[i] \in Range(s)
BY DEF Range

\* A sequence with one more at its end.
LEMMA AppendRange ==
  ASSUME NEW S, NEW s \in Seq(S), NEW e \in S
  PROVE  Range(Append(s, e)) = Range(s) \cup {e}
<1>1. /\ Len(s) \in Nat /\ DOMAIN s = 1..Len(s) /\ DOMAIN Append(s, e) = 1..(Len(s) + 1)
      /\ \A i \in 1..Len(s) : Append(s, e)[i] = s[i]
      /\ Append(s, e)[Len(s) + 1] = e
  BY AppendProperties, Places
<1>2. 1..(Len(s) + 1) = 1..Len(s) \cup {Len(s) + 1}
  BY <1>1
<1> QED  BY <1>1, <1>2 DEF Range

\* Two sequences in a row.
LEMMA ConcatRange ==
  ASSUME NEW S, NEW a \in Seq(S), NEW b \in Seq(S)
  PROVE  Range(a \o b) = Range(a) \cup Range(b)
<1> DEFINE m == Len(a)
<1> DEFINE n == Len(b)
<1>1. m \in Nat /\ n \in Nat /\ DOMAIN a = 1..m /\ DOMAIN b = 1..n
  BY Places
<1>2. /\ a \o b \in Seq(S) /\ Len(a \o b) = m + n
      /\ \A i \in 1..(m + n) : (a \o b)[i] = IF i <= m THEN a[i] ELSE b[i - m]
  BY ConcatProperties
<1>3. DOMAIN (a \o b) = 1..(m + n)
  BY <1>2, Places
<1> HIDE DEF m, n
<1>4. ASSUME NEW i \in 1..(m + n) PROVE (a \o b)[i] \in Range(a) \cup Range(b)
  <2>1. CASE i <= m
    <3>1. i \in DOMAIN a
      BY <1>1, <2>1
    <3> QED  BY <1>2, <2>1, <3>1 DEF Range
  <2>2. CASE ~(i <= m)
    <3>1. i - m \in DOMAIN b
      BY <1>1, <2>2
    <3> QED  BY <1>2, <2>2, <3>1 DEF Range
  <2> QED  BY <2>1, <2>2
<1>5. ASSUME NEW i \in 1..m PROVE a[i] \in Range(a \o b)
  <2>1. i \in 1..(m + n) /\ i <= m
    BY <1>1
  <2> QED  BY <1>2, <1>3, <2>1 DEF Range
<1>6. ASSUME NEW i \in 1..n PROVE b[i] \in Range(a \o b)
  <2>1. m + i \in 1..(m + n) /\ ~(m + i <= m) /\ (m + i) - m = i
    BY <1>1
  <2>2. (a \o b)[m + i] = b[i]
    BY <1>2, <2>1
  <2> QED  BY <1>3, <2>1, <2>2 DEF Range
<1> QED  BY <1>1, <1>3, <1>4, <1>5, <1>6 DEF Range

\* Numbers that go up, followed by larger ones that do.
LEMMA ConcatIncreasing ==
  ASSUME NEW a \in Seq(Nat), NEW b \in Seq(Nat), Increasing(a), Increasing(b), Below(Range(a), Range(b))
  PROVE  Increasing(a \o b)
<1> DEFINE m == Len(a)
<1> DEFINE n == Len(b)
<1>1. m \in Nat /\ n \in Nat /\ DOMAIN a = 1..m /\ DOMAIN b = 1..n
  BY Places
<1>2. /\ a \o b \in Seq(Nat) /\ Len(a \o b) = m + n
      /\ \A i \in 1..(m + n) : (a \o b)[i] = IF i <= m THEN a[i] ELSE b[i - m]
  BY ConcatProperties
<1>3. DOMAIN (a \o b) = 1..(m + n)
  BY <1>2, Places
<1> HIDE DEF m, n
<1> SUFFICES ASSUME NEW i \in 1..(m + n), NEW j \in 1..(m + n), i < j
             PROVE  (a \o b)[i] < (a \o b)[j]
  BY <1>3 DEF Increasing
<1>4. CASE j <= m
  <2>1. i \in DOMAIN a /\ j \in DOMAIN a /\ i <= m
    BY <1>1, <1>4
  <2>2. a[i] < a[j]
    BY <2>1 DEF Increasing
  <2> QED  BY <1>2, <1>4, <2>1, <2>2
<1>5. CASE i <= m /\ ~(j <= m)
  <2>1. i \in DOMAIN a /\ j - m \in DOMAIN b
    BY <1>1, <1>5
  <2>2. a[i] < b[j - m]
    BY <2>1, Places DEF Below
  <2> QED  BY <1>2, <1>5, <2>2
<1>6. CASE ~(i <= m)
  <2>1. i - m \in DOMAIN b /\ j - m \in DOMAIN b /\ i - m < j - m /\ ~(j <= m)
    BY <1>1, <1>6
  <2>2. b[i - m] < b[j - m]
    BY <2>1 DEF Increasing
  <2> QED  BY <1>2, <1>6, <2>1, <2>2
<1> QED  BY <1>1, <1>4, <1>5, <1>6

\* One larger number is appended.
LEMMA AppendIncreasing ==
  ASSUME NEW s \in Seq(Nat), NEW e \in Nat, Increasing(s), Below(Range(s), {e})
  PROVE  Increasing(Append(s, e))
<1>1. /\ Len(s) \in Nat /\ DOMAIN s = 1..Len(s) /\ DOMAIN Append(s, e) = 1..(Len(s) + 1)
      /\ \A i \in 1..Len(s) : Append(s, e)[i] = s[i]
      /\ Append(s, e)[Len(s) + 1] = e
  BY AppendProperties, Places
<1> SUFFICES ASSUME NEW i \in 1..(Len(s) + 1), NEW j \in 1..(Len(s) + 1), i < j
             PROVE  Append(s, e)[i] < Append(s, e)[j]
  BY <1>1 DEF Increasing
<1>2. i \in 1..Len(s)
  BY <1>1
<1>3. CASE j = Len(s) + 1
  BY <1>1, <1>2, <1>3 DEF Below, Range
<1>4. CASE j # Len(s) + 1
  <2>1. j \in 1..Len(s)
    BY <1>1, <1>4
  <2> QED  BY <1>1, <1>2, <2>1 DEF Increasing
<1> QED  BY <1>3, <1>4

\* The first of numbers that go up is taken.
LEMMA TailIncreasing ==
  ASSUME NEW s \in Seq(Nat), s # << >>, Increasing(s)
  PROVE  /\ Head(s) \in Nat /\ Tail(s) \in Seq(Nat) /\ Increasing(Tail(s))
         /\ Range(s) = {Head(s)} \cup Range(Tail(s)) /\ Below({Head(s)}, Range(Tail(s)))
<1> DEFINE n == Len(s)
<1>1. n \in Nat \ {0} /\ DOMAIN s = 1..n
  BY Places, EmptySeq
<1>2. /\ Head(s) = s[1] /\ Tail(s) \in Seq(Nat) /\ Len(Tail(s)) = n - 1
      /\ \A i \in 1..(n - 1) : Tail(s)[i] = s[i + 1]
  BY <1>1, HeadTailProperties
<1>3. DOMAIN Tail(s) = 1..(n - 1)
  BY <1>2, Places
<1> HIDE DEF n
<1>4. \A i \in 1..(n - 1) : i + 1 \in 1..n /\ 1 < i + 1
  BY <1>1
<1>5. 1 \in 1..n
  BY <1>1
<1>6. Increasing(Tail(s))
  <2> SUFFICES ASSUME NEW i \in 1..(n - 1), NEW j \in 1..(n - 1), i < j PROVE Tail(s)[i] < Tail(s)[j]
    BY <1>3 DEF Increasing
  <2>1. i + 1 < j + 1
    OBVIOUS
  <2> QED  BY <1>1, <1>2, <1>4, <2>1 DEF Increasing
<1>7. Below({Head(s)}, Range(Tail(s)))
  <2> SUFFICES ASSUME NEW i \in 1..(n - 1) PROVE s[1] < Tail(s)[i]
    BY <1>2, <1>3 DEF Below, Range
  <2> QED  BY <1>1, <1>2, <1>4, <1>5 DEF Increasing
<1>8. Range(s) = {Head(s)} \cup Range(Tail(s))
  <2>1. ASSUME NEW i \in 1..n PROVE s[i] \in {s[1]} \cup Range(Tail(s))
    <3>1. CASE i # 1
      <4>1. i - 1 \in 1..(n - 1) /\ (i - 1) + 1 = i
        BY <1>1, <3>1
      <4>2. Tail(s)[i - 1] = s[i]
        BY <1>2, <4>1
      <4> QED  BY <1>3, <4>1, <4>2 DEF Range
    <3> QED  BY <3>1
  <2> QED  BY <1>1, <1>2, <1>3, <1>4, <1>5, <2>1 DEF Range
<1>9. s[1] \in Nat
  BY <1>1, <1>5, Places
<1> QED  BY <1>2, <1>6, <1>7, <1>8, <1>9

\* Entries in order, followed by later ones of each sender.
LEMMA ConcatInOrder ==
  ASSUME NEW a \in Seq(Entries), NEW b \in Seq(Entries), InOrder(a), InOrder(b),
         \A i \in DOMAIN a, j \in DOMAIN b : a[i].from = b[j].from => a[i].n < b[j].n
  PROVE  InOrder(a \o b)
<1> DEFINE m == Len(a)
<1> DEFINE n == Len(b)
<1>1. m \in Nat /\ n \in Nat /\ DOMAIN a = 1..m /\ DOMAIN b = 1..n
  BY Places
<1>2. /\ a \o b \in Seq(Entries) /\ Len(a \o b) = m + n
      /\ \A i \in 1..(m + n) : (a \o b)[i] = IF i <= m THEN a[i] ELSE b[i - m]
  BY ConcatProperties
<1>3. DOMAIN (a \o b) = 1..(m + n)
  BY <1>2, Places
<1> HIDE DEF m, n
<1> SUFFICES ASSUME NEW i \in 1..(m + n), NEW j \in 1..(m + n), i < j, (a \o b)[i].from = (a \o b)[j].from
             PROVE  (a \o b)[i].n < (a \o b)[j].n
  BY <1>3 DEF InOrder
<1>4. CASE j <= m
  <2>1. i \in DOMAIN a /\ j \in DOMAIN a /\ i <= m
    BY <1>1, <1>4
  <2>2. (a \o b)[i] = a[i] /\ (a \o b)[j] = a[j]
    BY <1>2, <1>4, <2>1
  <2> QED  BY <2>1, <2>2 DEF InOrder
<1>5. CASE i <= m /\ ~(j <= m)
  <2>1. i \in DOMAIN a /\ j - m \in DOMAIN b
    BY <1>1, <1>5
  <2>2. (a \o b)[i] = a[i] /\ (a \o b)[j] = b[j - m]
    BY <1>2, <1>5
  <2> QED  BY <2>1, <2>2
<1>6. CASE ~(i <= m)
  <2>1. i - m \in DOMAIN b /\ j - m \in DOMAIN b /\ i - m < j - m /\ ~(j <= m)
    BY <1>1, <1>6
  <2>2. (a \o b)[i] = b[i - m] /\ (a \o b)[j] = b[j - m]
    BY <1>2, <1>6, <2>1
  <2> QED  BY <2>1, <2>2 DEF InOrder
<1> QED  BY <1>1, <1>4, <1>5, <1>6

\* One later entry is appended.
LEMMA AppendInOrder ==
  ASSUME NEW s \in Seq(Entries), NEW e \in Entries, InOrder(s),
         \A i \in DOMAIN s : s[i].from = e.from => s[i].n < e.n
  PROVE  InOrder(Append(s, e))
<1>1. /\ Len(s) \in Nat /\ DOMAIN s = 1..Len(s) /\ DOMAIN Append(s, e) = 1..(Len(s) + 1)
      /\ \A i \in 1..Len(s) : Append(s, e)[i] = s[i]
      /\ Append(s, e)[Len(s) + 1] = e
  BY AppendProperties, Places
<1> SUFFICES ASSUME NEW i \in 1..(Len(s) + 1), NEW j \in 1..(Len(s) + 1), i < j,
                    Append(s, e)[i].from = Append(s, e)[j].from
             PROVE  Append(s, e)[i].n < Append(s, e)[j].n
  BY <1>1 DEF InOrder
<1>2. i \in 1..Len(s)
  BY <1>1
<1>3. CASE j = Len(s) + 1
  BY <1>1, <1>2, <1>3
<1>4. CASE j # Len(s) + 1
  <2>1. j \in 1..Len(s)
    BY <1>1, <1>4
  <2> QED  BY <1>1, <1>2, <2>1 DEF InOrder
<1> QED  BY <1>3, <1>4

-----------------------------------------------------------------------------
(* What a step leaves. *)

Queues == <<received, posted, events, arrivals>>
Origins == <<sizes, buffer, sent, net, arrivals, latest, mixed>>
Shown == <<events, cued, text, own, phase>>

\* The queues are in order as long as nothing touches them.
LEMMA QueuesStay ==
  ASSUME LogInv, UNCHANGED Queues
  PROVE  QueuesInv'
BY DEF LogInv, QueuesInv, Queues, Listed

\* What is on its way comes later than what has arrived, likewise.
LEMMA DaemonStays ==
  ASSUME LogInv, UNCHANGED Origins
  PROVE  DaemonInv'
BY DEF LogInv, DaemonInv, Origins

\* What the threads have logged is in order, likewise.
LEMMA ThreadsStay ==
  ASSUME LogInv, UNCHANGED Shown
  PROVE  ThreadsInv'
BY DEF LogInv, ThreadsInv, Shown, Given

\* The types the steps below need.
LEMMA LogTypes ==
  ASSUME LogInv
  PROVE  /\ sizes \in Seq(Sizes) /\ Len(sizes) \in Nat /\ sent \in Nat /\ latest \in Nat /\ latest <= sent
         /\ buffer \in Seq(Nat) /\ received \in Seq(Nat) /\ posted \in Seq(Nat) /\ arrivals \in Seq(Nat)
         /\ Increasing(buffer) /\ Increasing(received) /\ Increasing(posted)
         /\ events \in Seq(Entries) /\ cued \in Seq(Entries) /\ text \in Seq(Entries)
         /\ InOrder(events) /\ InOrder(cued) /\ InOrder(text)
         /\ own \in [Threads -> Nat]
<1>1. sizes \in Seq(Sizes)
  BY DEF LogInv, DaemonInv
<1>2. Len(sizes) \in Nat
  BY <1>1
<1> QED  BY <1>1, <1>2 DEF LogInv, QueuesInv, DaemonInv, ThreadsInv

\* The messages of a datagram, and those that have arrived, lie below those of the buffer.
LEMMA BelowBuffer ==
  ASSUME LogInv
  PROVE  /\ Range(buffer) \subseteq 1..Len(sizes)
         /\ \A d \in net : Below(Range(d.logs), Range(buffer)) /\ Range(d.logs) \subseteq 1..Len(sizes)
         /\ Below(Range(arrivals), Range(buffer)) /\ Range(arrivals) \subseteq 1..Len(sizes)
BY DEF LogInv, DaemonInv

\* The daemon's messages in the list, after one is listed.
LEMMA OneListed ==
  ASSUME LogInv, NEW e \in Entries, events' = Append(events, e)
  PROVE  Listed' = Listed \cup {n \in {e.n} : e.from = "daemon"}
<1>1. /\ Len(events) \in Nat /\ DOMAIN events = 1..Len(events)
      /\ DOMAIN events' = 1..(Len(events) + 1)
      /\ \A i \in 1..Len(events) : events'[i] = events[i]
      /\ events'[Len(events) + 1] = e
  BY AppendProperties, Places, LogTypes
<1>2. DOMAIN events' = DOMAIN events \cup {Len(events) + 1} /\ Len(events) + 1 \notin DOMAIN events
  BY <1>1
<1> QED  BY <1>1, <1>2 DEF Listed

\* An entry of the list is the daemon's, or one its thread has given.
LEMMA EventTypes ==
  ASSUME LogInv
  PROVE  \A i \in DOMAIN events :
           /\ events[i] \in Entries /\ events[i].n \in Nat
           /\ events[i].from \in Threads => events[i].n <= Given[events[i].from]
<1>1. events \in Seq(Entries)
  BY LogTypes
<1>2. \A i \in DOMAIN events : events[i] \in Entries
  BY <1>1
<1> QED  BY <1>2 DEF LogInv, ThreadsInv, Entries

-----------------------------------------------------------------------------
(* The daemon and the network. *)

\* A message is queued with the next number.
LEMMA QueueLogKeeps ==
  ASSUME LogInv, NEW size \in Sizes, QueueLog(size)
  PROVE  LogInv'
<1> DEFINE n == Len(sizes) + 1
<1>1. /\ sizes' = Append(sizes, size) /\ buffer' = Append(buffer, Len(sizes'))
      /\ UNCHANGED <<sent, net, arrivals, latest, mixed>> /\ UNCHANGED Queues /\ UNCHANGED Shown
  BY DEF QueueLog, network, client, history, windows, Queues, Shown
<1>2. sizes' \in Seq(Sizes) /\ Len(sizes') = n /\ n \in Nat /\ Len(sizes) \in Nat
  BY <1>1, LogTypes, AppendProperties
<1>3. \A A \in SUBSET (1..Len(sizes)) : Below(A, {n})
  BY <1>2 DEF Below
<1>4. buffer' \in Seq(Nat) /\ Range(buffer') = Range(buffer) \cup {n} /\ Increasing(buffer')
  <2>1. buffer \in Seq(Nat) /\ Increasing(buffer) /\ buffer' = Append(buffer, n)
    BY <1>1, <1>2, LogTypes
  <2>2. Below(Range(buffer), {n})
    BY <1>3, BelowBuffer
  <2>3. n \in Nat
    BY <1>2
  <2> HIDE DEF n
  <2>4. Increasing(buffer')
    BY <2>1, <2>2, <2>3, AppendIncreasing
  <2> QED  BY <2>1, <2>3, <2>4, AppendRange, AppendProperties
<1>5. n \in 1..Len(sizes') /\ 1..Len(sizes) \subseteq 1..Len(sizes')
  BY <1>2
<1> HIDE DEF n
<1>6. \A logs \in {d.logs : d \in net'} \cup {arrivals'} :
        Below(Range(logs), Range(buffer')) /\ Range(logs) \subseteq 1..Len(sizes')
  <2> SUFFICES ASSUME NEW logs \in {d.logs : d \in net} \cup {arrivals}
               PROVE  Below(Range(logs), Range(buffer')) /\ Range(logs) \subseteq 1..Len(sizes')
    BY <1>1
  <2>1. Below(Range(logs), Range(buffer)) /\ Range(logs) \subseteq 1..Len(sizes)
    BY BelowBuffer
  <2>2. Below(Range(logs), {n})
    BY <1>3, <2>1
  <2> QED  BY <1>4, <1>5, <2>1, <2>2 DEF Below
<1>7. Range(buffer') \subseteq 1..Len(sizes')
  BY <1>4, <1>5, BelowBuffer
<1>8. DaemonInv'
  BY <1>1, <1>2, <1>4, <1>6, <1>7 DEF LogInv, DaemonInv
<1> QED  BY <1>1, <1>8, QueuesStay, ThreadsStay DEF LogInv

\* One more datagram, with messages of the buffer or none, of which the rest stays.
LEMMA OneSent ==
  ASSUME LogInv, NEW d, Sends(d), d.no = sent + 1, d.logs \in Seq(Nat), Increasing(d.logs),
         Range(d.logs) \subseteq Range(buffer),
         buffer' \in Seq(Nat), Increasing(buffer'), Range(buffer') \subseteq Range(buffer),
         Below(Range(d.logs), Range(buffer')), UNCHANGED <<sizes, arrivals, latest, mixed>>
  PROVE  DaemonInv'
<1>1. net' = net \cup {d} /\ sent' = sent + 1 /\ sent \in Nat /\ latest \in Nat /\ latest <= sent
  BY LogTypes DEF Sends
<1>2. sent' \in Nat /\ latest' \in Nat /\ latest' <= sent'
  BY <1>1
<1>3. \A e \in net' : e.no \in 1..sent' /\ e.logs \in Seq(Nat) /\ Increasing(e.logs)
  <2>1. \A e \in net : e.no \in 1..sent /\ e.logs \in Seq(Nat) /\ Increasing(e.logs)
    BY DEF LogInv, DaemonInv
  <2>2. 1..sent \subseteq 1..sent' /\ d.no \in 1..sent'
    BY <1>1
  <2> QED  BY <1>1, <2>1, <2>2
<1>4. \A logs \in {e.logs : e \in net'} \cup {arrivals'} :
        Below(Range(logs), Range(buffer')) /\ Range(logs) \subseteq 1..Len(sizes')
  BY <1>1, BelowBuffer DEF Below
<1>5. \A e \in net : e.no < d.no /\ ~(d.no < e.no) /\ Below(Range(e.logs), Range(d.logs))
  <2>1. \A e \in net : e.no \in 1..sent
    BY DEF LogInv, DaemonInv
  <2>2. \A e \in net : e.no < d.no /\ ~(d.no < e.no)
    BY <1>1, <2>1
  <2> QED  BY <2>2, BelowBuffer DEF Below
<1>6. \A c, e \in net' : c.no < e.no => Below(Range(c.logs), Range(e.logs))
  <2>1. ~(d.no < d.no)
    BY <1>1
  <2>2. \A c, e \in net : c.no < e.no => Below(Range(c.logs), Range(e.logs))
    BY DEF LogInv, DaemonInv
  <2> QED  BY Zenon, <1>1, <1>5, <2>1, <2>2
<1>7. ~mixed' => /\ Increasing(arrivals')
                /\ \A e \in net' : e.no > latest' => Below(Range(arrivals'), Range(e.logs))
  <2>1. Below(Range(arrivals), Range(d.logs))
    BY BelowBuffer DEF Below
  <2> QED  BY <1>1, <2>1 DEF LogInv, DaemonInv
<1>8. Range(buffer') \subseteq 1..Len(sizes')
  BY BelowBuffer
<1> QED  BY <1>2, <1>3, <1>4, <1>6, <1>7, <1>8, LogTypes DEF DaemonInv

\* The batch goes from the buffer to the network, behind a header.
LEMMA SendKeeps ==
  ASSUME LogInv, SendHeader \/ SendBody
  PROVE  LogInv'
<1>1. UNCHANGED <<sizes, arrivals, latest, mixed>> /\ UNCHANGED Queues /\ UNCHANGED Shown
  BY DEF SendHeader, SendBody, client, history, windows, Queues, Shown
<1>2. CASE UNCHANGED <<buffer, sent, net>>
  BY <1>1, <1>2, QueuesStay, DaemonStays, ThreadsStay DEF Origins, LogInv
<1>3. CASE SendHeader /\ Sends(Header(sent + 1, Bytes(buffer)))
  <2> DEFINE d == Header(sent + 1, Bytes(buffer))
  <2>1. /\ buffer' = buffer /\ d.no = sent + 1 /\ d.logs = << >>
        /\ d.logs \in Seq(Nat) /\ Range(d.logs) = {} /\ Increasing(d.logs)
    <3>1. buffer' = buffer \/ UNCHANGED <<buffer, sent, net>>
      BY <1>3 DEF SendHeader, SendFails
    <3> QED  BY <3>1 DEF Header, Range, Increasing
  <2>2. Below(Range(d.logs), Range(buffer')) /\ Sends(d)
    BY <1>3, <2>1 DEF Below
  <2> HIDE DEF d
  <2>3. DaemonInv'
    BY <1>1, <2>1, <2>2, LogTypes, OneSent
  <2> QED  BY <1>1, <2>3, QueuesStay, ThreadsStay DEF LogInv
<1>4. CASE buffer' = << >> /\ Sends(Body(sent + 1, Bytes(buffer), buffer))
  <2> DEFINE d == Body(sent + 1, Bytes(buffer), buffer)
  <2>1. /\ d.no = sent + 1 /\ d.logs = buffer /\ buffer' \in Seq(Nat) /\ Increasing(buffer')
        /\ Range(buffer') = {}
    BY <1>4 DEF Body, Increasing, Range
  <2>2. Below(Range(d.logs), Range(buffer')) /\ Sends(d)
    BY <1>4, <2>1 DEF Below
  <2> HIDE DEF d
  <2>3. DaemonInv'
    BY <1>1, <2>1, <2>2, LogTypes, OneSent
  <2> QED  BY <1>1, <2>3, QueuesStay, ThreadsStay DEF LogInv
<1>5. \/ UNCHANGED <<buffer, sent, net>>
      \/ SendHeader /\ Sends(Header(sent + 1, Bytes(buffer)))
      \/ buffer' = << >> /\ Sends(Body(sent + 1, Bytes(buffer), buffer))
  BY DEF SendHeader, SendBody, SendFails
<1> QED  BY <1>2, <1>3, <1>4, <1>5

-----------------------------------------------------------------------------
(* The client. *)

\* Some of the places of a sequence are no more than all.
LEMMA SomeOfSome ==
  ASSUME NEW l \in Nat, NEW T \in SUBSET (1..l)
  PROVE  Cardinality(T) \in Nat /\ Cardinality(T) <= l
<1>1. IsFiniteSet(1..l) /\ Cardinality(1..l) = IF 1 > l THEN 0 ELSE l - 1 + 1
  BY FS_Interval
<1>2. Cardinality(1..l) = l
  BY <1>1
<1>3. IsFiniteSet(T) /\ Cardinality(T) <= Cardinality(1..l)
  BY <1>1, FS_Subset
<1> QED  BY <1>2, <1>3, FS_CardinalityType

\* The messages that lie in the first units are the first messages.
LEMMA FirstMessages ==
  ASSUME NEW logs \in Seq(Nat), Increasing(logs), NEW n
  PROVE  /\ Within(logs, n) \in Seq(Nat) /\ Increasing(Within(logs, n))
         /\ Range(Within(logs, n)) \subseteq Range(logs)
<1> DEFINE S == {k \in DOMAIN logs : Bytes(SubSeq(logs, 1, k)) <= n}
<1> DEFINE c == Cardinality(S)
<1>1. Len(logs) \in Nat /\ DOMAIN logs = 1..Len(logs) /\ S \subseteq 1..Len(logs)
  BY Places
<1> HIDE DEF S
<1>3. c \in Nat /\ c <= Len(logs)
  BY <1>1, SomeOfSome
<1>4. Within(logs, n) = SubSeq(logs, 1, c)
  BY DEF Within, S
<1> HIDE DEF c
<1> DEFINE w == SubSeq(logs, 1, c)
<1>5. w \in Seq(Nat) /\ DOMAIN w = 1..c /\ \A i \in 1..c : w[i] = logs[i] /\ i \in DOMAIN logs
  BY <1>1, <1>3
<1> HIDE DEF w
<1>6. Increasing(w) /\ Range(w) \subseteq Range(logs)
  BY <1>5 DEF Increasing, Range
<1> QED  BY <1>4, <1>5, <1>6 DEF w

\* The places of the messages that come, in order behind those that have.
LEMMA NextPlaces ==
  ASSUME NEW a \in Nat, NEW logs \in Seq(Nat)
  PROVE  LET places == [k \in DOMAIN logs |-> a + k]
         IN /\ places \in Seq(Nat) /\ Increasing(places)
            /\ Range(places) = (a + 1)..(a + Len(logs)) /\ Below(1..a, Range(places))
<1> DEFINE n == Len(logs)
<1> DEFINE places == [k \in DOMAIN logs |-> a + k]
<1>1. n \in Nat /\ DOMAIN logs = 1..n
  BY Places
<1> HIDE DEF n
<1>2. \A k \in 1..n : a + k \in Nat /\ a + k \in (a + 1)..(a + n)
  BY <1>1
<1>3. places \in Seq(Nat) /\ DOMAIN places = 1..n
  BY <1>1, <1>2
<1>4. Increasing(places)
  BY <1>1 DEF Increasing
<1>5. Range(places) = (a + 1)..(a + n)
  <2>1. ASSUME NEW m \in (a + 1)..(a + n) PROVE m \in Range(places)
    <3>1. m - a \in 1..n /\ a + (m - a) = m
      BY <1>1
    <3> QED  BY <1>1, <3>1 DEF Range
  <2> QED  BY <1>1, <1>2, <2>1 DEF Range
<1>6. Below(1..a, Range(places))
  BY <1>1, <1>5 DEF Below
<1> QED  BY <1>3, <1>4, <1>5, <1>6 DEF n

\* A datagram is taken by the receiver's thread, and its messages wait for the main thread.
LEMMA ReceiveKeeps ==
  ASSUME LogInv, ReceiveBulkMessage
  PROVE  LogInv'
<1>1. PICK d \in net :
        /\ (mixed' = (mixed \/ d.no <= latest)) /\ (latest' = IF mixed' THEN 0 ELSE d.no)
        /\ UNCHANGED <<arrivals, received>> \/ Copied(Within(d.logs, receiver))
  BY DEF ReceiveBulkMessage, Arrives
<1> DEFINE whole == Within(d.logs, receiver)
<1> DEFINE places == [k \in DOMAIN whole |-> Len(arrivals) + k]
<1>2. /\ UNCHANGED <<sizes, buffer, sent, net, posted, events>> /\ UNCHANGED Shown
      /\ mixed' = (mixed \/ d.no <= latest) /\ latest' = IF mixed' THEN 0 ELSE d.no
      /\ UNCHANGED <<arrivals, received>> \/ (arrivals' = arrivals \o whole /\ received' = received \o places)
  <2>1. UNCHANGED <<sizes, buffer, sent, net, posted, events>> /\ UNCHANGED Shown
    BY DEF ReceiveBulkMessage, daemon, network, windows, Shown
  <2>2. mixed' = (mixed \/ d.no <= latest) /\ latest' = IF mixed' THEN 0 ELSE d.no
    BY <1>1
  <2>3. UNCHANGED <<arrivals, received>> \/ (arrivals' = arrivals \o whole /\ received' = received \o places)
    BY <1>1 DEF Copied
  <2> QED  BY <2>1, <2>2, <2>3
<1>3. d.no \in 1..sent /\ d.logs \in Seq(Nat) /\ Increasing(d.logs)
  BY DEF LogInv, DaemonInv
<1>4. /\ whole \in Seq(Nat) /\ Increasing(whole) /\ Range(whole) \subseteq Range(d.logs)
      /\ Range(whole) \subseteq 1..Len(sizes) /\ Below(Range(whole), Range(buffer))
  BY <1>3, FirstMessages, BelowBuffer DEF Below
<1>5. Len(arrivals) \in Nat /\ Len(whole) \in Nat
  BY <1>4, LogTypes
<1>6. /\ places \in Seq(Nat) /\ Increasing(places) /\ Below(1..Len(arrivals), Range(places))
      /\ Range(places) = (Len(arrivals) + 1)..(Len(arrivals) + Len(whole))
  BY <1>4, <1>5, NextPlaces
<1> HIDE DEF whole, places
<1>7. QueuesInv'
  <2>1. CASE received' = received /\ arrivals' = arrivals
    BY <1>2, <2>1, QueuesStay DEF Queues
  <2>2. CASE arrivals' = arrivals \o whole /\ received' = received \o places
    <3>1. Listed \cup Range(posted) \cup Range(received) = 1..Len(arrivals)
      BY DEF LogInv, QueuesInv
    <3>2. Below(Range(received), Range(places))
      BY <1>6, <3>1 DEF Below
    <3>3. received' \in Seq(Nat) /\ Increasing(received') /\ Range(received') = Range(received) \cup Range(places)
      BY <1>6, <2>2, <3>2, LogTypes, ConcatIncreasing, ConcatRange, ConcatProperties
    <3>4. Len(arrivals') = Len(arrivals) + Len(whole)
      BY <1>4, <2>2, LogTypes, ConcatProperties
    <3>5. 1..Len(arrivals') = 1..Len(arrivals) \cup (Len(arrivals) + 1)..(Len(arrivals) + Len(whole))
      BY <1>5, <3>4
    <3>6. Listed' = Listed
      BY <1>2 DEF Listed
    <3>7. Below(Listed \cup Range(posted), Range(received) \cup Range(places))
      BY <1>6, <3>1 DEF Below, LogInv, QueuesInv
    <3>8. Listed' \cup Range(posted') \cup Range(received') = 1..Len(arrivals')
      BY <1>2, <1>6, <3>1, <3>3, <3>5, <3>6
    <3> QED  BY <1>2, <3>3, <3>6, <3>7, <3>8 DEF LogInv, QueuesInv
  <2> QED  BY <1>2, <2>1, <2>2
<1>8. arrivals' \in Seq(Nat) /\ (Range(arrivals') = Range(arrivals) \/ Range(arrivals') = Range(arrivals) \cup Range(whole))
  <2>1. CASE arrivals' = arrivals \o whole
    BY <1>4, <2>1, LogTypes, ConcatRange, ConcatProperties
  <2> QED  BY <1>2, <2>1, LogTypes
<1>9. latest' \in Nat /\ latest' <= sent' /\ (~mixed' => ~mixed /\ latest' = d.no /\ d.no > latest)
  <2>1. sent \in Nat /\ latest \in Nat
    BY LogTypes
  <2>2. d.no \in Nat /\ d.no <= sent /\ 0 <= sent /\ (~(d.no <= latest) => d.no > latest)
    BY <1>3, <2>1
  <2> QED  BY <1>2, <2>1, <2>2
<1>10. ASSUME ~mixed'
       PROVE  /\ Increasing(arrivals')
              /\ \A e \in net' : e.no > latest' => Below(Range(arrivals'), Range(e.logs))
  <2>1. Increasing(arrivals) /\ \A e \in net : e.no > latest => Below(Range(arrivals), Range(e.logs))
    BY <1>9, <1>10 DEF LogInv, DaemonInv
  <2>2. Below(Range(arrivals), Range(whole))
    BY <1>4, <1>9, <1>10, <2>1 DEF Below
  <2>3. Increasing(arrivals')
    BY <1>2, <1>4, <2>1, <2>2, LogTypes, ConcatIncreasing
  <2>4. ASSUME NEW e \in net, e.no > d.no PROVE Below(Range(arrivals'), Range(e.logs))
    <3>1. e.no \in Nat /\ e.no > latest /\ d.no < e.no
      <4>1. \A c \in net : c.no \in 1..sent
        BY DEF LogInv, DaemonInv
      <4>2. sent \in Nat /\ latest \in Nat
        BY LogTypes
      <4> QED  BY <1>9, <1>10, <2>4, <4>1, <4>2
    <3>2. Below(Range(d.logs), Range(e.logs))
      BY <3>1 DEF LogInv, DaemonInv
    <3> QED  BY <1>4, <1>8, <2>1, <3>1, <3>2 DEF Below
  <2> QED  BY <1>2, <1>9, <1>10, <2>3, <2>4
<1>11. \A logs \in {e.logs : e \in net'} \cup {arrivals'} :
         Below(Range(logs), Range(buffer')) /\ Range(logs) \subseteq 1..Len(sizes')
  <2>1. Below(Range(arrivals'), Range(buffer)) /\ Range(arrivals') \subseteq 1..Len(sizes)
    BY <1>4, <1>8, BelowBuffer DEF Below
  <2> QED  BY <1>2, <2>1, BelowBuffer
<1>12. DaemonInv'
  BY <1>2, <1>8, <1>9, <1>10, <1>11 DEF LogInv, DaemonInv
<1> QED  BY <1>2, <1>7, <1>12, ThreadsStay DEF LogInv

\* What was received is posted to the frame.
LEMMA UdpTimerKeeps ==
  ASSUME LogInv, OnUdpTimer
  PROVE  LogInv'
<1>1. /\ posted' = posted \o received /\ received' = << >>
      /\ UNCHANGED Origins /\ UNCHANGED Shown
  BY DEF OnUdpTimer, CheckUDPQueue, QueueMessage, ServiceUDPLogs, daemon, network, history, windows,
         Origins, Shown
<1>2. /\ posted' \in Seq(Nat) /\ Increasing(posted') /\ Range(posted') = Range(posted) \cup Range(received)
  <2>1. Below(Range(posted), Range(received))
    BY DEF LogInv, QueuesInv, Below
  <2> QED  BY <1>1, <2>1, LogTypes, ConcatIncreasing, ConcatRange, ConcatProperties
<1>3. received' \in Seq(Nat) /\ Increasing(received') /\ Range(received') = {}
  BY <1>1 DEF Increasing, Range
<1>4. Listed' = Listed /\ arrivals' = arrivals
  BY <1>1 DEF Listed, Shown, Origins
<1>5. QueuesInv'
  BY <1>2, <1>3, <1>4 DEF LogInv, QueuesInv, Below
<1> QED  BY <1>1, <1>5, DaemonStays, ThreadsStay DEF LogInv

\* The next message of the daemon is listed, if there is one.
LEMMA IncomingKeeps ==
  ASSUME LogInv, OnIncomingMessage
  PROVE  LogInv'
<1>1. /\ UNCHANGED Origins /\ UNCHANGED <<arrivals, received, cued, text, own, phase>>
      /\ \/ UNCHANGED <<posted, events>>
         \/ posted # << >> /\ posted' = Tail(posted) /\ events' = Append(events, Entry("daemon", Head(posted)))
  BY DEF OnIncomingMessage, ProcessCustomQueue, LogEntry, daemon, network, history,
         Origins
<1>2. CASE UNCHANGED <<posted, events>>
  BY <1>1, <1>2, QueuesStay, DaemonStays, ThreadsStay DEF Queues, Shown, LogInv
<1>3. CASE /\ posted # << >> /\ posted' = Tail(posted)
           /\ events' = Append(events, Entry("daemon", Head(posted)))
  <2> DEFINE h == Head(posted)
  <2> DEFINE e == Entry("daemon", h)
  <2>1. /\ h \in Nat /\ posted' \in Seq(Nat) /\ Increasing(posted')
        /\ Range(posted) = {h} \cup Range(posted') /\ Below({h}, Range(posted'))
    BY <1>3, LogTypes, TailIncreasing
  <2>2. e \in Entries /\ e.from = "daemon" /\ e.n = h
    BY <2>1 DEF Entry, Entries, Froms
  <2> HIDE DEF h, e
  <2>3. events' = Append(events, e)
    BY <1>3 DEF e, h
  <2>4. Listed' = Listed \cup {h}
    BY <2>2, <2>3, OneListed
  <2>5. Listed' \cup Range(posted') = Listed \cup Range(posted)
    BY <2>1, <2>4
  <2>6. Below(Listed', Range(posted'))
    BY <2>1, <2>4 DEF LogInv, QueuesInv, Below
  <2>7. QueuesInv'
    BY <1>1, <2>1, <2>5, <2>6 DEF LogInv, QueuesInv
  <2>8. ThreadsInv'
    <3>1. events \in Seq(Entries) /\ InOrder(events)
      BY LogTypes
    <3>2. events' \in Seq(Entries)
      BY <2>2, <2>3, <3>1, AppendProperties
    <3>3. InOrder(events')
      <4>1. \A i \in DOMAIN events : events[i].from = e.from => events[i].n < e.n
        BY <2>1, <2>2 DEF LogInv, QueuesInv, Below, Listed
      <4> QED  BY <2>2, <2>3, <3>1, <4>1, AppendInOrder
    <3>4. \A i \in DOMAIN events' : events'[i].from \in Threads => events'[i].n <= Given'[events'[i].from]
      <4>1. "daemon" \notin Threads
        BY ThreadsAssumption
      <4>2. /\ DOMAIN events' = 1..(Len(events) + 1) /\ Len(events) \in Nat /\ DOMAIN events = 1..Len(events)
            /\ \A i \in 1..Len(events) : events'[i] = events[i]
            /\ events'[Len(events) + 1] = e
        BY <2>2, <2>3, <3>1, AppendProperties, Places
      <4>3. DOMAIN events' = DOMAIN events \cup {Len(events) + 1}
        BY <4>2
      <4>4. ASSUME NEW i \in DOMAIN events PROVE events'[i] = events[i]
        BY <4>2
      <4>5. Given' = Given
        BY <1>1 DEF Given
      <4>6. ~(events'[Len(events) + 1].from \in Threads)
        <5>1. events'[Len(events) + 1].from = "daemon"
          BY <2>2, <4>2
        <5> QED  BY <4>1, <5>1
      <4> QED  BY Zenon, <4>3, <4>4, <4>5, <4>6, EventTypes
    <3>5. Given' = Given
      BY <1>1 DEF Given
    <3> QED  BY <1>1, <3>2, <3>3, <3>4, <3>5 DEF LogInv, ThreadsInv
  <2> QED  BY <1>1, <2>7, <2>8, DaemonStays DEF LogInv
<1> QED  BY <1>1, <1>2, <1>3

\* Another client starts with empty queues.
LEMMA RestartKeeps ==
  ASSUME LogInv, RestartClient
  PROVE  LogInv'
<1> DEFINE e == Entry("wx", 0)
<1>1. /\ UNCHANGED <<sizes, buffer, sent, net>> /\ received' = << >> /\ posted' = << >>
      /\ arrivals' = << >> /\ latest' = 0 /\ mixed' = FALSE
      /\ events' = <<e>> /\ cued' = <<e>> /\ text' = << >>
      /\ own' = [t \in Threads |-> 0] /\ phase' = [t \in Threads |-> "idle"]
  BY DEF RestartClient, daemon, network
<1>2. e \in Entries /\ e.from = "wx" /\ e.n = 0 /\ "wx" \in Threads /\ "daemon" \notin Threads
  BY ThreadsAssumption DEF Entry, Entries, Froms
<1> HIDE DEF e
<1>3. << >> \in Seq(Nat) /\ Increasing(<< >>) /\ Range(<< >>) = {} /\ Len(<< >>) = 0 /\ 1..0 = {}
  BY DEF Increasing, Range
<1>4. QueuesInv'
  <2>1. Listed' = {}
    <3>1. \A k \in DOMAIN events' : events'[k].from # "daemon"
      BY <1>1, <1>2
    <3> QED  BY <3>1 DEF Listed
  <2> QED  BY <1>1, <1>3, <2>1 DEF QueuesInv, Below
<1>5. DaemonInv'
  <2>1. \A logs \in {d.logs : d \in net} \cup {arrivals'} :
          Below(Range(logs), Range(buffer)) /\ Range(logs) \subseteq 1..Len(sizes)
    BY <1>1, <1>3, BelowBuffer DEF Below
  <2>2. 0 \in Nat /\ 0 <= sent
    BY LogTypes
  <2>3. \A d \in net : Below(Range(arrivals'), Range(d.logs))
    BY <1>1, <1>3 DEF Below
  <2> QED  BY <1>1, <1>3, <2>1, <2>2, <2>3 DEF LogInv, DaemonInv
<1>6. ThreadsInv'
  <2>1. /\ <<e>> \in Seq(Entries) /\ << >> \in Seq(Entries) /\ InOrder(<<e>>) /\ InOrder(<< >>)
        /\ DOMAIN <<e>> = {1} /\ DOMAIN << >> = {} /\ <<e>>[1] = e
    BY <1>2 DEF InOrder
  <2>2. own' \in [Threads -> Nat] /\ phase' \in [Threads -> {"idle", "naming", "listed"}]
    BY <1>1
  <2>3. \A t \in Threads : own'[t] = 0 /\ Given'[t] = 0
    BY <1>1 DEF Given
  <2>4. \A log \in {events', cued', text'} : log \in Seq(Entries) /\ InOrder(log)
    BY <1>1, <2>1
  <2>5. \A i \in DOMAIN events' : events'[i] = e
    BY <1>1, <2>1
  <2>6. \A log \in {cued', text'} : \A i \in DOMAIN log : log[i] = e
    BY <1>1, <2>1
  <2>7. \A i \in DOMAIN events' : events'[i].from \in Threads => events'[i].n <= Given'[events'[i].from]
    BY <1>2, <2>3, <2>5
  <2>8. \A log \in {cued', text'} : \A i \in DOMAIN log :
          log[i].from \in Threads /\ log[i].n <= own'[log[i].from]
    BY <1>2, <2>3, <2>6
  <2>9. DOMAIN text' = {}
    BY <1>1, <2>1
  <2> QED  BY <2>2, <2>4, <2>7, <2>8, <2>9 DEF ThreadsInv
<1> QED  BY <1>4, <1>5, <1>6 DEF LogInv

-----------------------------------------------------------------------------
(* The threads of the client and the windows. *)

\* A thread that names itself has not listed its message yet.
LEMMA NameKeeps ==
  ASSUME LogInv, NEW t \in Threads, NameThread(t), UNCHANGED <<daemon, network, client>>
  PROVE  LogInv'
<1>1. UNCHANGED Queues /\ UNCHANGED Origins /\ UNCHANGED <<events, cued, text, own>>
  BY DEF NameThread, Queues, Origins, daemon, network, history, client
<1>2. phase' = [phase EXCEPT ![t] = "naming"] /\ phase[t] = "idle"
  BY DEF NameThread
<1>3. phase \in [Threads -> {"idle", "naming", "listed"}]
  BY DEF LogInv, ThreadsInv
<1>4. phase' \in [Threads -> {"idle", "naming", "listed"}]
  BY <1>2, <1>3
<1>5. \A u \in Threads : Given'[u] = Given[u]
  BY <1>1, <1>2, <1>3 DEF Given
<1>6. \A i \in DOMAIN events' : events'[i].from \in Threads => events'[i].n <= Given'[events'[i].from]
  BY <1>1, <1>5 DEF LogInv, ThreadsInv
<1>7. ThreadsInv'
  BY <1>1, <1>4, <1>6 DEF LogInv, ThreadsInv
<1> QED  BY <1>1, <1>7, QueuesStay, DaemonStays DEF LogInv

\* A thread's message is listed, one ahead of what it has counted.
LEMMA ListMessageKeeps ==
  ASSUME LogInv, NEW t \in Threads, ListMessage(t), UNCHANGED <<daemon, network, client>>
  PROVE  LogInv'
<1> DEFINE n == own[t] + 1
<1> DEFINE e == Entry(t, n)
<1>1. /\ UNCHANGED Origins /\ UNCHANGED <<arrivals, received, posted, cued, text, own>>
      /\ events' = Append(events, e) /\ phase' = [phase EXCEPT ![t] = "listed"] /\ phase[t] # "listed"
  BY DEF ListMessage, LogEntry, Origins, daemon, network, history, client
<1>2. own[t] \in Nat /\ n \in Nat /\ t # "daemon"
  BY LogTypes, ThreadsAssumption
<1>3. e \in Entries /\ e.from = t /\ e.n = n
  BY <1>2 DEF Entry, Entries, Froms
<1> HIDE DEF e
<1>4. events \in Seq(Entries) /\ InOrder(events) /\ phase \in [Threads -> {"idle", "naming", "listed"}]
  BY LogTypes DEF LogInv, ThreadsInv
<1>5. Listed' = Listed
  BY <1>1, <1>2, <1>3, OneListed
<1>6. QueuesInv'
  BY <1>1, <1>5 DEF LogInv, QueuesInv
<1>7. Given[t] = own[t] /\ Given'[t] = n /\ \A u \in Threads \ {t} : Given'[u] = Given[u]
  BY <1>1, <1>2, <1>4 DEF Given
<1>8. events' \in Seq(Entries) /\ InOrder(events')
  <2>1. ASSUME NEW i \in DOMAIN events, events[i].from = e.from PROVE events[i].n < e.n
    <3>1. events[i].n \in Nat /\ events[i].n <= Given[t]
      BY <1>3, <2>1, EventTypes
    <3>2. events[i].n < n
      BY <1>2, <1>7, <3>1
    <3> QED  BY <1>3, <3>2
  <2> QED  BY <1>1, <1>3, <1>4, <2>1, AppendInOrder, AppendProperties
<1>9. \A i \in DOMAIN events' : events'[i].from \in Threads => events'[i].n <= Given'[events'[i].from]
  <2>1. /\ DOMAIN events' = 1..(Len(events) + 1) /\ Len(events) \in Nat /\ DOMAIN events = 1..Len(events)
        /\ \A i \in 1..Len(events) : events'[i] = events[i]
        /\ events'[Len(events) + 1] = e
    BY <1>1, <1>3, <1>4, AppendProperties, Places
  <2>2. DOMAIN events' = DOMAIN events \cup {Len(events) + 1}
    BY <2>1
  <2>3. ASSUME NEW i \in DOMAIN events, events'[i].from \in Threads
        PROVE  events'[i].n <= Given'[events'[i].from]
    <3>1. events'[i] = events[i] /\ events[i].n \in Nat /\ events[i].n <= Given[events[i].from]
      <4>1. events'[i] = events[i]
        BY <2>1
      <4> QED  BY Zenon, <2>3, <4>1, EventTypes
    <3>2. CASE events[i].from = t
      <4>1. events[i].n <= n
        BY <1>2, <1>7, <3>1, <3>2
      <4> QED  BY <1>7, <3>1, <3>2, <4>1
    <3>3. CASE events[i].from # t
      BY <1>7, <2>3, <3>1, <3>3
    <3> QED  BY <3>2, <3>3
  <2>4. n <= n
    BY <1>2
  <2>5. events'[Len(events) + 1].n <= Given'[events'[Len(events) + 1].from]
    BY <1>3, <1>7, <2>1, <2>4
  <2> QED  BY Zenon, <2>2, <2>3, <2>5
<1>10. phase' \in [Threads -> {"idle", "naming", "listed"}]
  BY <1>1, <1>4
<1> HIDE DEF n
<1>11. ThreadsInv'
  BY <1>1, <1>8, <1>9, <1>10 DEF LogInv, ThreadsInv
<1> QED  BY <1>1, <1>6, <1>11, DaemonStays DEF LogInv

\* A thread's message goes on to the frame, and is counted.
LEMMA CueKeeps ==
  ASSUME LogInv, NEW t \in Threads, CueMessage(t), UNCHANGED <<daemon, network, client>>
  PROVE  LogInv'
<1> DEFINE n == own[t] + 1
<1> DEFINE e == Entry(t, n)
<1>1. own \in [Threads -> Nat] /\ n \in Nat /\ n > own[t]
  BY LogTypes
<1>2. /\ UNCHANGED Queues /\ UNCHANGED Origins /\ UNCHANGED <<events, text>> /\ own' = [own EXCEPT ![t] = n]
      /\ cued' = Append(cued, Entry(t, own'[t])) /\ phase[t] = "listed"
      /\ phase' = [phase EXCEPT ![t] = "idle"]
  BY DEF CueMessage, Queues, Origins, daemon, network, history, client
<1>3. cued' = Append(cued, e)
  BY <1>1, <1>2
<1>4. e \in Entries /\ e.from = t /\ e.n = n
  BY <1>1 DEF Entry, Entries, Froms
<1> HIDE DEF e, n
<1>5. phase \in [Threads -> {"idle", "naming", "listed"}]
  BY DEF LogInv, ThreadsInv
<1>6. /\ own' \in [Threads -> Nat] /\ phase' \in [Threads -> {"idle", "naming", "listed"}]
      /\ \A u \in Threads : own[u] \in Nat /\ own[u] <= own'[u]
      /\ own'[t] = n
  BY <1>1, <1>2, <1>5
<1>7. Given' = Given
  <2>1. \A u \in Threads : own'[u] + (IF phase'[u] = "listed" THEN 1 ELSE 0)
                          = own[u] + (IF phase[u] = "listed" THEN 1 ELSE 0)
    BY <1>1, <1>2, <1>5 DEF n
  <2> QED  BY <2>1 DEF Given
<1>8. \A i \in DOMAIN events' : events'[i].from \in Threads => events'[i].n <= Given'[events'[i].from]
  BY <1>2, <1>7, EventTypes
<1>9. cued \in Seq(Entries) /\ text \in Seq(Entries) /\ InOrder(cued) /\ InOrder(text)
  BY LogTypes
<1>10. ASSUME NEW log \in {cued, text}, NEW i \in DOMAIN log
       PROVE  /\ log[i].n \in Nat /\ log[i].from \in Threads
              /\ log[i].n <= own[log[i].from] /\ log[i].n <= own'[log[i].from]
              /\ log[i].from = t => log[i].n < n
  <2>1. log[i].from \in Threads /\ log[i].n <= own[log[i].from]
    BY DEF LogInv, ThreadsInv
  <2>2. log[i] \in Entries
    BY <1>9
  <2>3. log[i].n \in Nat
    BY <2>2 DEF Entries
  <2> QED  BY <1>1, <1>6, <2>1, <2>3
<1>11. /\ DOMAIN cued' = 1..(Len(cued) + 1) /\ Len(cued) \in Nat /\ DOMAIN cued = 1..Len(cued)
       /\ \A i \in 1..Len(cued) : cued'[i] = cued[i]
       /\ cued'[Len(cued) + 1] = e
  BY <1>3, <1>4, <1>9, AppendProperties, Places
<1>12. DOMAIN cued' = DOMAIN cued \cup {Len(cued) + 1} /\ \A i \in DOMAIN cued : cued'[i] = cued[i]
  BY <1>11
<1>13. cued' \in Seq(Entries) /\ InOrder(cued')
  BY <1>3, <1>4, <1>9, <1>10, AppendInOrder, AppendProperties
<1>14. \A i \in DOMAIN cued' : cued'[i].from \in Threads /\ cued'[i].n <= own'[cued'[i].from]
  <2>1. n <= n
    BY <1>1
  <2>2. cued'[Len(cued) + 1].from \in Threads /\ cued'[Len(cued) + 1].n <= own'[cued'[Len(cued) + 1].from]
    BY <1>4, <1>6, <1>11, <2>1
  <2>3. \A i \in DOMAIN cued : cued[i].from \in Threads /\ cued[i].n <= own'[cued[i].from]
    BY <1>10
  <2> QED  BY Zenon, <1>12, <2>2, <2>3
<1>15. \A i \in DOMAIN text : text[i].from \in Threads /\ text[i].n <= own'[text[i].from]
  BY <1>10
<1>16. \A i \in DOMAIN text, j \in DOMAIN cued' : text[i].from = cued'[j].from => text[i].n < cued'[j].n
  <2>1. \A i \in DOMAIN text, j \in DOMAIN cued : text[i].from = cued[j].from => text[i].n < cued[j].n
    BY DEF LogInv, ThreadsInv
  <2>2. \A i \in DOMAIN text : text[i].from = cued'[Len(cued) + 1].from => text[i].n < cued'[Len(cued) + 1].n
    BY <1>4, <1>10, <1>11
  <2> QED  BY Zenon, <1>12, <2>1, <2>2
<1>17. InOrder(events') /\ events' \in Seq(Entries)
  BY <1>2, LogTypes
<1>18. ThreadsInv'
  <2>1. \A log \in {events', cued', text'} : log \in Seq(Entries) /\ InOrder(log)
    BY <1>2, <1>9, <1>13, <1>17
  <2>2. \A log \in {cued', text'} : \A i \in DOMAIN log :
          log[i].from \in Threads /\ log[i].n <= own'[log[i].from]
    BY <1>2, <1>14, <1>15
  <2>3. \A i \in DOMAIN text', j \in DOMAIN cued' : text'[i].from = cued'[j].from => text'[i].n < cued'[j].n
    BY <1>2, <1>16
  <2> QED  BY Zenon, <1>6, <1>8, <2>1, <2>2, <2>3 DEF ThreadsInv
<1> QED  BY <1>2, <1>18, QueuesStay, DaemonStays DEF LogInv

\* The main thread moves what is cued into the text, or clears the text.
LEMMA TextKeeps ==
  ASSUME LogInv, DequeueCall \/ ClearLog, UNCHANGED <<daemon, network, client>>
  PROVE  LogInv'
<1>1. /\ UNCHANGED Queues /\ UNCHANGED Origins /\ UNCHANGED <<events, own, phase>>
      /\ \/ text' = text \o cued /\ cued' = << >>
         \/ text' = << >> /\ cued' = cued
  BY DEF DequeueCall, DequeueLogs, ClearLog, Queues, Origins, daemon, network, history,
         client
<1>2. cued \in Seq(Entries) /\ text \in Seq(Entries) /\ InOrder(cued) /\ InOrder(text)
  BY LogTypes
<1>3. /\ \A i \in DOMAIN cued : cued[i].from \in Threads /\ cued[i].n <= own[cued[i].from]
      /\ \A i \in DOMAIN text : text[i].from \in Threads /\ text[i].n <= own[text[i].from]
  BY DEF LogInv, ThreadsInv
<1>4. \A i \in DOMAIN text, j \in DOMAIN cued : text[i].from = cued[j].from => text[i].n < cued[j].n
  BY DEF LogInv, ThreadsInv
<1>5. << >> \in Seq(Entries) /\ InOrder(<< >>) /\ DOMAIN << >> = {}
  BY DEF InOrder
<1>6. /\ text \o cued \in Seq(Entries) /\ InOrder(text \o cued)
      /\ \A i \in DOMAIN (text \o cued) :
           (text \o cued)[i].from \in Threads /\ (text \o cued)[i].n <= own[(text \o cued)[i].from]
  <2>1. text \o cued \in Seq(Entries) /\ InOrder(text \o cued)
    BY <1>2, <1>4, ConcatInOrder, ConcatProperties
  <2>2. \A e \in Range(text) \cup Range(cued) : e.from \in Threads /\ e.n <= own[e.from]
    BY <1>3 DEF Range
  <2>3. \A i \in DOMAIN (text \o cued) : (text \o cued)[i] \in Range(text) \cup Range(cued)
    BY <1>2, ConcatRange DEF Range
  <2> QED  BY Zenon, <2>1, <2>2, <2>3
<1>7. /\ Given' = Given /\ InOrder(events') /\ events' \in Seq(Entries)
      /\ own' \in [Threads -> Nat] /\ phase' \in [Threads -> {"idle", "naming", "listed"}]
  BY <1>1, LogTypes DEF Given, LogInv, ThreadsInv
<1>8. \A i \in DOMAIN events' : events'[i].from \in Threads => events'[i].n <= Given'[events'[i].from]
  BY <1>1, <1>7, EventTypes
<1>9. /\ \A log \in {cued', text'} : log \in Seq(Entries) /\ InOrder(log)
      /\ \A log \in {cued', text'} : \A i \in DOMAIN log :
           log[i].from \in Threads /\ log[i].n <= own'[log[i].from]
      /\ DOMAIN text' = {} \/ DOMAIN cued' = {}
  BY <1>1, <1>2, <1>3, <1>5, <1>6
<1>10. ThreadsInv'
  BY <1>7, <1>8, <1>9 DEF ThreadsInv
<1> QED  BY <1>1, <1>10, QueuesStay, DaemonStays DEF LogInv

-----------------------------------------------------------------------------
(* The invariant, and the order shown. *)

\* The main thread's first entry is all there is at first.
LEMMA InitLog ==
  ASSUME Init
  PROVE  LogInv
<1> DEFINE e == Entry("wx", 0)
<1>1. /\ sizes = << >> /\ buffer = << >> /\ net = {} /\ sent = 0 /\ latest = 0
      /\ arrivals = << >> /\ mixed = FALSE /\ received = << >> /\ posted = << >>
      /\ events = <<e>> /\ cued = <<e>> /\ text = << >>
      /\ own = [t \in Threads |-> 0] /\ phase = [t \in Threads |-> "idle"]
  BY DEF Init, InitWindows
<1>2. e \in Entries /\ e.from = "wx" /\ e.n = 0 /\ "wx" \in Threads /\ "daemon" \notin Threads
  BY ThreadsAssumption DEF Entry, Entries, Froms
<1> HIDE DEF e
<1>3. << >> \in Seq(Nat) /\ << >> \in Seq(Sizes) /\ << >> \in Seq(Entries) /\ DOMAIN << >> = {}
      /\ Range(<< >>) = {} /\ << >> \in Seq({})
  BY DEF Range
<1>4. Listed = {}
  <2>1. \A k \in DOMAIN events : events[k].from # "daemon"
    BY <1>1, <1>2
  <2> QED  BY <2>1 DEF Listed
<1>5. QueuesInv
  <2>1. Len(<< >>) = 0 /\ 1..0 = {}
    OBVIOUS
  <2> QED  BY <1>1, <1>3, <1>4, <2>1 DEF QueuesInv, Increasing, Below
<1>6. DaemonInv
  BY <1>1, <1>3 DEF DaemonInv, Increasing, Below
<1>7. ThreadsInv
  <2>1. /\ <<e>> \in Seq(Entries) /\ InOrder(<<e>>) /\ InOrder(<< >>)
        /\ DOMAIN <<e>> = {1} /\ <<e>>[1] = e
    BY <1>2 DEF InOrder
  <2>2. own \in [Threads -> Nat] /\ phase \in [Threads -> {"idle", "naming", "listed"}]
    BY <1>1
  <2>3. \A t \in Threads : own[t] = 0 /\ Given[t] = 0
    BY <1>1 DEF Given
  <2>4. \A log \in {events, cued, text} : log \in Seq(Entries) /\ InOrder(log)
    BY <1>1, <1>3, <2>1
  <2>5. \A i \in DOMAIN events : events[i] = e
    BY <1>1, <2>1
  <2>6. \A log \in {cued, text} : \A i \in DOMAIN log : log[i] = e
    BY <1>1, <1>3, <2>1
  <2>7. \A i \in DOMAIN events : events[i].from \in Threads => events[i].n <= Given[events[i].from]
    BY <1>2, <2>3, <2>5
  <2>8. \A log \in {cued, text} : \A i \in DOMAIN log :
          log[i].from \in Threads /\ log[i].n <= own[log[i].from]
    BY <1>2, <2>3, <2>6
  <2>9. DOMAIN text = {}
    BY <1>1, <1>3
  <2> QED  BY <2>2, <2>4, <2>7, <2>8, <2>9 DEF ThreadsInv
<1> QED  BY <1>5, <1>6, <1>7 DEF LogInv

\* Every action keeps the invariant.
LEMMA NextKeepsLog ==
  ASSUME LogInv, Next
  PROVE  LogInv'
<1>1. ASSUME NEW size \in Sizes, QueueLog(size) PROVE LogInv'
  BY <1>1, QueueLogKeeps
<1>2. CASE TimerLapsed \/ Stop
  <2>1. UNCHANGED Queues /\ UNCHANGED Origins /\ UNCHANGED Shown
    BY <1>2 DEF TimerLapsed, Stop, Queues, Origins, Shown, network, history, client, windows
  <2> QED  BY <2>1, QueuesStay, DaemonStays, ThreadsStay DEF LogInv
<1>3. CASE SendHeader \/ SendBody
  BY <1>3, SendKeeps
<1>4. CASE ReceiveBulkMessage
  BY <1>4, ReceiveKeeps
<1>5. CASE OnUdpTimer
  BY <1>5, UdpTimerKeeps
<1>6. CASE OnIncomingMessage
  BY <1>6, IncomingKeeps
<1>7. ASSUME NEW t \in Threads, ClientLogs(t) PROVE LogInv'
  BY <1>7, NameKeeps, ListMessageKeeps DEF ClientLogs
<1>8. ASSUME NEW t \in Threads, WindowStep(CueMessage(t)) PROVE LogInv'
  BY <1>8, CueKeeps DEF WindowStep
<1>9. CASE WindowStep(DequeueCall) \/ WindowStep(ClearLog)
  BY <1>9, TextKeeps DEF WindowStep
<1>10. CASE WindowStep(handleAsyncUpdate) \/ WindowStep(updateContent)
  <2>1. UNCHANGED Queues /\ UNCHANGED Origins /\ UNCHANGED Shown
    BY <1>10 DEF WindowStep, handleAsyncUpdate, updateContent, Queues, Origins, Shown, daemon,
                  network, history, client
  <2> QED  BY <2>1, QueuesStay, DaemonStays, ThreadsStay DEF LogInv
<1>11. CASE RestartClient
  BY <1>11, RestartKeeps
<1> QED  BY <1>1, <1>2, <1>3, <1>4, <1>5, <1>6, <1>7, <1>8, <1>9, <1>10, <1>11 DEF Next

\* The invariant has the messages in the order the property asks for.
LEMMA InOrderAtLast ==
  ASSUME LogInv
  PROVE  ShownInOrder
<1> DEFINE logs == posted \o received
<1> DEFINE rest == [i \in DOMAIN logs |-> Entry("daemon", logs[i])]
<1>1. /\ logs \in Seq(Nat) /\ Increasing(logs) /\ Range(logs) = Range(posted) \cup Range(received)
  <2>1. Below(Range(posted), Range(received))
    BY DEF LogInv, QueuesInv, Below
  <2> QED  BY <2>1, LogTypes, ConcatIncreasing, ConcatRange, ConcatProperties
<1>2. Below(Listed, Range(logs))
  BY <1>1 DEF LogInv, QueuesInv, Below
<1> HIDE DEF logs
<1>3. DOMAIN logs = 1..Len(logs) /\ Len(logs) \in Nat /\ \A i \in DOMAIN logs : logs[i] \in Nat
  BY <1>1, Places
<1>4. \A i \in DOMAIN logs : /\ Entry("daemon", logs[i]) \in Entries
                             /\ Entry("daemon", logs[i]).from = "daemon"
                             /\ Entry("daemon", logs[i]).n = logs[i]
  BY <1>3 DEF Entry, Entries, Froms
<1>5. /\ rest \in Seq(Entries) /\ DOMAIN rest = DOMAIN logs
      /\ \A i \in DOMAIN logs : rest[i].from = "daemon" /\ rest[i].n = logs[i]
  BY <1>3, <1>4
<1> HIDE DEF rest
<1>6. InOrder(rest)
  BY <1>1, <1>5 DEF InOrder, Increasing
<1>7. \A i \in DOMAIN events, j \in DOMAIN rest : events[i].from = rest[j].from => events[i].n < rest[j].n
  BY <1>2, <1>5 DEF Below, Listed, Range
<1>8. InOrder(events \o rest)
  BY <1>5, <1>6, <1>7, LogTypes, ConcatInOrder
<1>9. InOrder(text \o cued)
  <2>1. \A i \in DOMAIN text, j \in DOMAIN cued : text[i].from = cued[j].from => text[i].n < cued[j].n
    BY DEF LogInv, ThreadsInv
  <2> QED  BY <2>1, LogTypes, ConcatInOrder
<1>10. Listed \cup Range(logs) = DOMAIN arrivals
  <2>1. DOMAIN arrivals = 1..Len(arrivals)
    BY LogTypes, Places
  <2> QED  BY <1>1, <2>1 DEF LogInv, QueuesInv
<1>11. ~mixed => Increasing(arrivals)
  BY DEF LogInv, DaemonInv
<1> QED  BY <1>8, <1>9, <1>10, <1>11 DEF ShownInOrder, rest, logs

\* What the client receives it shows, all of it, once, in the order it came, and that is the
\* order it was logged, each message at most once, unless the network mixed datagrams up;
\* whatever is lost and restarted (udp_server, QueueMessage(), LogListModel, SoloLogFrame).
THEOREM LogInShownOrder == Spec => []ShownInOrder
<1>1. Init => LogInv
  BY InitLog
<1>2. LogInv /\ [Next]_vars => LogInv'
  <2>1. ASSUME LogInv, UNCHANGED vars PROVE LogInv'
    <3>1. UNCHANGED Queues /\ UNCHANGED Origins /\ UNCHANGED Shown
      BY <2>1 DEF vars, Queues, Origins, Shown, daemon, network, history, client, windows
    <3> QED  BY <2>1, <3>1, QueuesStay, DaemonStays, ThreadsStay DEF LogInv
  <2> QED  BY <2>1, NextKeepsLog
<1>3. LogInv => ShownInOrder
  BY InOrderAtLast
<1> QED  BY <1>1, <1>2, <1>3, PTL DEF Spec

=============================================================================
