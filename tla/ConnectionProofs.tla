--------------------------- MODULE ConnectionProofs ---------------------------
(***************************************************************************)
(* Proofs about the connection. First one direction of its byte stream: for *)
(* bodies and messages of any size and number a reader stops only when the  *)
(* writer has, and what it returns is what was written; no induction is     *)
(* needed, as of the units under way the invariant knows what comes at each  *)
(* distance after each. Then the contents of the messages: whatever is      *)
(* sent, of any length, is read back as it was written, by induction over   *)
(* the places of the lists that are read.                                    *)
(***************************************************************************)
EXTENDS Stream, Exchange, SequenceTheorems, FiniteSetTheorems, TLAPS


Units == (1..MaxMessages) \X (0..MaxBody)

\* The types of all that the invariant speaks of.
LEMMA Types ==
  ASSUME DeliveryInv
  PROVE  /\ bodies \in Seq(1..MaxBody) /\ Len(bodies) \in 0..MaxMessages
         /\ \A i \in 1..Len(bodies) : bodies[i] \in 1..MaxBody
         /\ stream \in Seq(Units) /\ Len(stream) \in Nat
         /\ \A j \in 1..Len(stream) :
              /\ stream[j] \in Units /\ stream[j] = <<stream[j][1], stream[j][2]>>
              /\ stream[j][1] \in 1..Len(bodies) /\ stream[j][2] \in 0..bodies[stream[j][1]]
         /\ some \in Seq(Units) /\ Len(some) \in Nat
         /\ done \in Seq(Seq(Units)) /\ Len(done) \in 0..Len(bodies)
         /\ MaxBody \in Nat \ {0} /\ MaxMessages \in Nat
         /\ left \in Nat
<1>1. /\ bodies \in Seq(1..MaxBody) /\ Len(bodies) <= MaxMessages /\ left \in 0..MaxBody
      /\ Len(done) <= Len(bodies)
      /\ stream \in Seq(Units) /\ some \in Seq(Units) /\ done \in Seq(Seq(Units))
  BY DEF DeliveryInv, TypeOK, Units
<1>2. MaxBody \in Nat \ {0} /\ MaxMessages \in Nat
  BY StreamAssumption
<1>3. Len(bodies) \in Nat /\ Len(stream) \in Nat /\ Len(some) \in Nat /\ Len(done) \in Nat
  BY <1>1, LenProperties
<1>4. \A i \in 1..Len(bodies) : bodies[i] \in 1..MaxBody
  BY <1>1, ElementOfSeq
<1>5. ASSUME NEW j \in 1..Len(stream)
      PROVE  /\ stream[j] \in Units /\ stream[j] = <<stream[j][1], stream[j][2]>>
             /\ stream[j][1] \in 1..Len(bodies) /\ stream[j][2] \in 0..bodies[stream[j][1]]
  <2>1. stream[j] \in Units
    BY <1>1, ElementOfSeq
  <2>2. stream[j] = <<stream[j][1], stream[j][2]>> /\ stream[j][1] \in 1..MaxMessages
        /\ stream[j][2] \in 0..MaxBody
    BY <2>1, <1>2 DEF Units
  <2>3. stream[j][1] <= Len(bodies) /\ stream[j][2] <= bodies[stream[j][1]]
    BY DEF DeliveryInv, StreamInv
  <2>4. stream[j][1] \in 1..Len(bodies)
    BY <2>2, <2>3, <1>2, <1>3
  <2>5. bodies[stream[j][1]] \in 1..MaxBody
    BY <2>4, <1>4
  <2> QED  BY <2>1, <2>2, <2>3, <2>4, <2>5, <1>2
<1> QED  BY <1>1, <1>2, <1>3, <1>4, <1>5

-----------------------------------------------------------------------------
(* Writing.                                                                *)

\* What goes beyond the units under way belongs to the message written last.
LEMMA BeyondTheLast ==
  ASSUME DeliveryInv, ~closed, NEW j \in 1..Len(stream),
         NEW d \in 0..(bodies[stream[j][1]] - stream[j][2] + 1), j + d > Len(stream)
  PROVE  stream[j][1] = Len(bodies) /\ stream[j][2] + (Len(stream) - j) = bodies[Len(bodies)] - left
<1> DEFINE e == Len(stream) - j
<1>1. /\ Len(stream) \in Nat /\ j \in 1..Len(stream) /\ stream # << >>
      /\ stream[j][1] \in 1..Len(bodies) /\ stream[j][2] \in 0..bodies[stream[j][1]]
      /\ bodies[stream[j][1]] \in Nat /\ left \in Nat
  BY SMTT(60), Types, EmptySeq
<1>2. e \in 0..(bodies[stream[j][1]] - stream[j][2] + 1) /\ j + e = Len(stream)
      /\ stream[j][2] + e <= bodies[stream[j][1]]
  BY <1>1
<1>3. stream[Len(stream)] = After(stream[j], e)
  BY <1>1, <1>2 DEF DeliveryInv, StreamInv
<1>4. stream[Len(stream)] = <<stream[j][1], stream[j][2] + e>>
  BY <1>2, <1>3 DEF After
<1>5. stream[Len(stream)] = <<Len(bodies), bodies[Len(bodies)] - left>>
  BY <1>1 DEF DeliveryInv, EndsInv
<1> QED  BY <1>4, <1>5

\* A header behind what was written keeps the invariant.
LEMMA HeaderKeeps ==
  ASSUME DeliveryInv, NEW size \in 1..MaxBody, WriteHeader(size)
  PROVE  DeliveryInv'
<1> DEFINE L == Len(bodies)
<1> DEFINE S == Len(stream)
<1>0. ~closed /\ left = 0 /\ L < MaxMessages /\ MayWrite
      /\ bodies' = Append(bodies, size) /\ left' = size
      /\ stream' = Append(stream, <<Len(bodies'), 0>>)
      /\ UNCHANGED <<reader, closed, state, some, done>>
  BY DEF WriteHeader
<1>1. L \in Nat /\ S \in Nat /\ size \in Nat /\ L < MaxMessages /\ MaxMessages \in Nat /\ MaxBody \in Nat
  BY <1>0, Types
<1>2. /\ bodies' \in Seq(1..MaxBody) /\ Len(bodies') = L + 1
      /\ \A i \in 1..L : bodies'[i] = bodies[i]
      /\ bodies'[L + 1] = size
  BY <1>0, Types, AppendProperties
<1>3. <<L + 1, 0>> \in Units
  BY <1>1 DEF Units
<1>4. /\ stream' \in Seq(Units) /\ stream' # << >> /\ Len(stream') = S + 1
      /\ \A j \in 1..S : stream'[j] = stream[j]
      /\ stream'[S + 1] = <<L + 1, 0>>
  <2>1. stream' = Append(stream, <<L + 1, 0>>)
    BY <1>0, <1>2
  <2>2. stream \in Seq(Units)
    BY Types
  <2> HIDE DEF L
  <2> QED  BY <2>1, <2>2, <1>3, AppendProperties
<1>5. TypeOK' /\ (done \in Seq(Seq((1..MaxMessages) \X (0..MaxBody))))' /\ StopsOnlyIfClosed'
  <2>1. some' \in Seq(Units) /\ done' \in Seq(Seq(Units)) /\ Len(done') <= Len(bodies')
    BY <1>0, <1>1, <1>2, Types
  <2>2. reader' \in Readers /\ closed' \in BOOLEAN /\ left' \in 0..MaxBody
        /\ state' \in {"idle", "header", "body", "failed", "abort", "spin"} /\ StopsOnlyIfClosed'
    BY <1>0 DEF DeliveryInv, TypeOK, StopsOnlyIfClosed
  <2> QED  BY <2>1, <2>2, <1>1, <1>2, <1>4 DEF TypeOK, Units
<1>6. CountersInv'
  BY <1>0, <1>1, <1>2, Types DEF DeliveryInv, CountersInv, MayWrite
<1>7. BodiesInv'
  <2>1. \A i \in 1..Len(done) : i \in 1..L
    BY Types, <1>1
  <2>2. \A i \in 1..Len(done) : done[i] = Body(i)
    BY DEF DeliveryInv, BodiesInv
  <2>3. \A i \in 1..Len(done') : done'[i] = Body(i)'
    BY <2>1, <2>2, <1>0, <1>2 DEF Body
  <2>4. (state \notin Stopped \cup {"body"} => some = << >>)'
    BY <1>0 DEF DeliveryInv, BodiesInv, Stopped
  <2>5. ASSUME state' = "body"
        PROVE  /\ Len(done') < Len(bodies') /\ Len(some') < bodies'[Len(done') + 1]
               /\ \A k \in 1..Len(some') : some'[k] = <<Len(done') + 1, k>>
    <3>1. /\ Len(done) < L /\ Len(some) < bodies[Len(done) + 1]
          /\ \A k \in 1..Len(some) : some[k] = <<Len(done) + 1, k>>
      BY <2>5, <1>0 DEF DeliveryInv, BodiesInv
    <3>2. Len(done) + 1 \in 1..L
      BY <3>1, <1>1, Types
    <3> QED  BY <3>1, <3>2, <1>0, <1>1, <1>2, Types
  <2> QED  BY <2>3, <2>4, <2>5 DEF BodiesInv
<1>8. StreamInv'
  <2>1. ASSUME NEW j \in 1..S
        PROVE  /\ stream'[j] = stream[j] /\ stream[j][1] \in 1..L /\ stream[j][2] \in Nat
               /\ bodies'[stream[j][1]] = bodies[stream[j][1]] /\ bodies[stream[j][1]] \in Nat
               /\ stream[j][2] <= bodies[stream[j][1]]
    <3>1. stream[j][1] \in 1..L /\ stream[j][2] \in 0..bodies[stream[j][1]]
      BY Types
    <3>2. bodies[stream[j][1]] \in 1..MaxBody
      BY <3>1, Types
    <3>3. bodies[stream[j][1]] \in Nat /\ stream[j][2] \in Nat /\ stream[j][2] <= bodies[stream[j][1]]
      BY <3>1, <3>2, <1>1
    <3>4. bodies'[stream[j][1]] = bodies[stream[j][1]]
      BY <3>1, <1>2
    <3>5. stream'[j] = stream[j]
      BY <1>4
    <3> QED  BY <3>1, <3>3, <3>4, <3>5
  <2>2. ASSUME NEW j \in 1..(S + 1)
        PROVE  stream'[j][1] <= L + 1 /\ stream'[j][2] <= bodies'[stream'[j][1]]
    <3>1. CASE j \in 1..S
      BY <3>1, <2>1, <1>1
    <3>2. CASE j = S + 1
      BY <3>2, <1>1, <1>2, <1>4
    <3> QED  BY <3>1, <3>2, <1>1
  <2>3. ASSUME NEW j \in 1..(S + 1), NEW d \in 0..(bodies'[stream'[j][1]] - stream'[j][2] + 1), j + d <= S + 1
        PROVE  stream'[j + d] = After(stream[j], d)'
    <3>1. CASE j \in 1..S /\ j + d <= S
      <4>1. stream[j + d] = After(stream[j], d)
        BY SMTT(30), <3>1, <2>1 DEF DeliveryInv, StreamInv
      <4>2. j + d \in 1..S
        BY <3>1, <2>1, <1>1
      <4> QED  BY <3>1, <4>1, <4>2, <2>1, <1>4 DEF After
    <3>2. CASE j \in 1..S /\ j + d = S + 1
      <4>1. d \in 0..(bodies[stream[j][1]] - stream[j][2] + 1)
        BY <3>2, <2>1
      <4>2. stream[j][1] = L /\ stream[j][2] + (S - j) = bodies[L] - left
        BY <3>2, <4>1, <1>0, <1>1, BeyondTheLast
      <4>3. stream[j][2] + d = bodies[L] + 1 /\ bodies[L] \in Nat /\ stream[j][2] \in Nat
        <5>1. bodies[L] \in Nat /\ stream[j][2] \in Nat /\ d \in Nat /\ j \in Nat
          BY <4>2, <3>2, <2>1, <4>1, <1>1
        <5>2. stream[j][2] + (S - j) = bodies[L]
          BY <5>1, <4>2, <1>0, <1>1
        <5>3. d = S - j + 1 /\ S - j \in Int
          BY <5>1, <3>2, <1>1
        <5>4. stream[j][2] + d = (stream[j][2] + (S - j)) + 1
          BY <5>1, <5>3
        <5> QED  BY <5>1, <5>2, <5>4
      <4>4. stream'[j + d] = <<L + 1, 0>>
        BY <3>2, <1>4
      <4>5. bodies'[stream'[j][1]] = bodies[L] /\ stream'[j] = stream[j]
        BY <3>2, <4>2, <2>1
      <4>6. ~(stream'[j][2] + d <= bodies'[stream'[j][1]]) /\ stream'[j][1] + 1 = L + 1
        <5>1. stream'[j][2] + d = bodies[L] + 1 /\ bodies'[stream'[j][1]] = bodies[L] /\ stream'[j][1] = L
          BY <4>2, <4>3, <4>5
        <5>2. ~(bodies[L] + 1 <= bodies[L])
          BY <4>3
        <5> QED  BY <5>1, <5>2
      <4> QED  BY <4>4, <4>6 DEF After
    <3>3. CASE j = S + 1
      <4>1. d = 0 /\ stream'[j] = <<L + 1, 0>> /\ bodies'[L + 1] = size
        BY <3>3, <2>3, <1>1, <1>2, <1>4
      <4> QED  BY <4>1, <3>3, <1>1 DEF After
    <3>4. j \in Nat /\ d \in Int /\ S \in Nat /\ j <= S + 1 /\ j >= 1
      BY <2>3, <1>1
    <3> QED  BY <3>1, <3>2, <3>3, <3>4, <2>3
  <2> QED  BY <2>2, <2>3, <1>2, <1>4 DEF StreamInv
<1>9. EndsInv'
  <2>1. Expected' = Expected
    BY <1>0 DEF Expected
  <2>2. ASSUME state' \notin Stopped
        PROVE  stream'[1] = Expected
    <3>1. CASE stream = << >>
      <4>1. Expected = <<L + 1, 0>> /\ S = 0
        BY <3>1, <1>0 DEF DeliveryInv, EndsInv, NextWritten
      <4> QED  BY <4>1, <1>4
    <3>2. CASE stream # << >>
      BY <3>2, <2>2, <1>0, <1>1, <1>4, Types, EmptySeq DEF DeliveryInv, EndsInv
    <3> QED  BY <3>1, <3>2
  <2>3. stream'[Len(stream')] = <<Len(bodies'), bodies'[Len(bodies')] - left'>>
    BY <1>0, <1>1, <1>2, <1>4
  <2> QED  BY <2>1, <2>2, <2>3, <1>4 DEF EndsInv
<1> QED  BY <1>5, <1>6, <1>7, <1>8, <1>9 DEF DeliveryInv

\* So does a piece of the body.
LEMMA PieceKeeps ==
  ASSUME DeliveryInv, WriteSome
  PROVE  DeliveryInv'
<1> DEFINE L == Len(bodies)
<1> DEFINE S == Len(stream)
<1> DEFINE p == bodies[L] - left
<1>1. PICK n \in 1..left :
        /\ left' = left - n
        /\ stream' = stream \o SubSeq(Body(L), p + 1, p + n)
  BY DEF WriteSome
<1>2. ~closed /\ left > 0 /\ UNCHANGED <<reader, bodies, closed, state, some, done>>
  BY DEF WriteSome
<1>3. /\ L \in 1..MaxMessages /\ S \in Nat /\ left \in Nat /\ n \in Nat /\ bodies[L] \in 1..MaxBody
      /\ MaxBody \in Nat /\ MaxMessages \in Nat
  <2>1. L > 0
    BY <1>2 DEF DeliveryInv, CountersInv
  <2>2. L \in 1..L
    BY <2>1, Types
  <2> QED  BY <2>1, <2>2, Types, <1>1
<1>4. p \in Nat /\ p + n <= bodies[L] /\ 1 <= n
  <2>1. left <= bodies[L]
    BY <1>2 DEF DeliveryInv, CountersInv
  <2>2. bodies[L] \in Nat /\ 1 <= n /\ n <= left
    BY <1>1, <1>3
  <2> HIDE DEF L
  <2> QED  BY <2>1, <2>2, <1>3
<1> DEFINE piece == SubSeq(Body(L), p + 1, p + n)
<1>5. piece \in Seq(Units) /\ Len(piece) = n /\ \A k \in 1..n : piece[k] = <<L, p + k>>
  <2>1. \A i \in 1..bodies[L] : Body(L)[i] = <<L, i>>
    BY DEF Body
  <2>2. \A i \in (p + 1)..(p + n) : Body(L)[i] = <<L, i>> /\ Body(L)[i] \in Units
    <3>1. ASSUME NEW i \in (p + 1)..(p + n)
          PROVE  i \in 1..bodies[L] /\ i \in 0..MaxBody
      BY <1>3, <1>4
    <3>2. ASSUME NEW i \in (p + 1)..(p + n)
          PROVE  Body(L)[i] = <<L, i>> /\ <<L, i>> \in Units
      BY <3>1, <2>1, <1>3 DEF Units
    <3> QED  BY <3>2
  <2>3. p + 1 \in Int /\ p + n \in Int /\ p + 1 <= p + n /\ (p + n) - (p + 1) + 1 = n
    BY SMTT(30), <1>3, <1>4
  <2> HIDE DEF p
  <2>4. /\ piece \in Seq(Units)
        /\ Len(piece) = (p + n) - (p + 1) + 1
        /\ \A i \in 1..((p + n) - (p + 1) + 1) : piece[i] = Body(L)[p + 1 + i - 1]
    BY <2>2, <2>3, SubSeqProperties
  <2>5. ASSUME NEW k \in 1..n
        PROVE  piece[k] = <<L, p + k>>
    <3>1. piece[k] = Body(L)[p + 1 + k - 1]
      BY <2>3, <2>4
    <3>2. p + 1 + k - 1 = p + k /\ p + k \in (p + 1)..(p + n)
      BY <1>3, <1>4
    <3> QED  BY <3>1, <3>2, <2>2
  <2> QED  BY <2>3, <2>4, <2>5
<1> HIDE DEF piece
<1>6. /\ stream' \in Seq(Units) /\ Len(stream') = S + n
      /\ \A j \in 1..S : stream'[j] = stream[j]
      /\ \A k \in 1..n : stream'[S + k] = <<L, p + k>>
  <2>1. /\ stream' \in Seq(Units) /\ Len(stream') = S + n
        /\ \A i \in 1..(S + n) : stream'[i] = IF i <= S THEN stream[i] ELSE piece[i - S]
    <3>1. stream' = stream \o piece /\ stream \in Seq(Units)
      BY <1>1, Types DEF piece
    <3>2. /\ stream \o piece \in Seq(Units) /\ Len(stream \o piece) = S + Len(piece)
          /\ \A i \in 1..(S + Len(piece)) :
               (stream \o piece)[i] = IF i <= S THEN stream[i] ELSE piece[i - S]
      BY <3>1, <1>5, ConcatProperties
    <3> QED  BY <3>1, <3>2, <1>5
  <2>2. ASSUME NEW j \in 1..S
        PROVE  stream'[j] = stream[j]
    BY <2>1, <1>3
  <2>3. ASSUME NEW k \in 1..n
        PROVE  stream'[S + k] = <<L, p + k>>
    <3>1. S + k \in 1..(S + n) /\ ~(S + k <= S) /\ S + k - S = k
      BY <1>3
    <3> QED  BY <3>1, <2>1, <1>5
  <2> QED  BY <2>1, <2>2, <2>3
<1>7. bodies' = bodies /\ left' = left - n /\ left' \in Nat /\ left' \in 0..MaxBody
  <2>1. left \in 0..MaxBody
    BY DEF DeliveryInv, TypeOK
  <2> QED  BY <2>1, <1>1, <1>2, <1>3
<1>8. TypeOK' /\ (done \in Seq(Seq((1..MaxMessages) \X (0..MaxBody))))' /\ StopsOnlyIfClosed'
  <2>1. some' \in Seq(Units) /\ done' \in Seq(Seq(Units)) /\ Len(done') <= Len(bodies')
        /\ bodies' \in Seq(1..MaxBody) /\ Len(bodies') <= MaxMessages
    BY <1>2, <1>3, Types
  <2>2. reader' \in Readers /\ closed' \in BOOLEAN
        /\ state' \in {"idle", "header", "body", "failed", "abort", "spin"} /\ StopsOnlyIfClosed'
    BY <1>2 DEF DeliveryInv, TypeOK, StopsOnlyIfClosed
  <2> QED  BY <2>1, <2>2, <1>6, <1>7 DEF TypeOK, Units
<1>9. CountersInv' /\ BodiesInv'
  <2>1. Body(1)' = Body(1) /\ \A i \in 1..Len(done) : Body(i)' = Body(i)
    BY <1>7 DEF Body
  <2>2. left' > 0 => Len(bodies) > 0 /\ left' <= bodies[Len(bodies)]
    BY <1>3, <1>4, <1>7
  <2>3. CountersInv'
    BY <1>2, <1>7, <2>2 DEF DeliveryInv, CountersInv
  <2>4. BodiesInv'
    BY <1>2, <1>7, <2>1 DEF DeliveryInv, BodiesInv, Stopped
  <2> QED  BY <2>3, <2>4
<1>10. StreamInv'
  <2>1. ASSUME NEW j \in 1..S
        PROVE  /\ stream'[j] = stream[j] /\ stream[j][1] \in 1..L /\ stream[j][2] \in Nat
               /\ bodies[stream[j][1]] \in Nat /\ stream[j][2] <= bodies[stream[j][1]]
    <3>1. stream[j][1] \in 1..L /\ stream[j][2] \in 0..bodies[stream[j][1]]
      BY Types
    <3>2. bodies[stream[j][1]] \in 1..MaxBody
      BY <3>1, Types
    <3>3. stream'[j] = stream[j]
      BY <1>6
    <3> QED  BY <3>1, <3>2, <3>3, <1>3
  <2>2. ASSUME NEW k \in 1..n
        PROVE  p + k \in Nat /\ p + k <= bodies[L] /\ k \in Nat
    BY <1>3, <1>4
  <2>3. ASSUME NEW j \in 1..(S + n), ~(j \in 1..S)
        PROVE  j - S \in 1..n /\ j = S + (j - S)
    BY <1>3, <2>3
  <2>4. ASSUME NEW j \in 1..(S + n)
        PROVE  stream'[j][1] <= L /\ stream'[j][2] <= bodies[stream'[j][1]]
    <3>1. CASE j \in 1..S
      BY <3>1, <2>1, <1>3
    <3>2. CASE ~(j \in 1..S)
      <4>1. PICK k \in 1..n : j = S + k
        BY <3>2, <2>3
      <4>2. stream'[j] = <<L, p + k>>
        BY <4>1, <1>6
      <4> QED  BY <4>2, <2>2, <1>3
    <3> QED  BY <3>1, <3>2
  <2>5. ASSUME NEW j \in 1..(S + n), NEW d \in 0..(bodies[stream'[j][1]] - stream'[j][2] + 1), j + d <= S + n
        PROVE  stream'[j + d] = After(stream[j], d)'
    <3>1. CASE j \in 1..S /\ j + d <= S
      <4>1. stream[j + d] = After(stream[j], d)
        BY <3>1, <2>1 DEF DeliveryInv, StreamInv
      <4>2. j + d \in 1..S
        BY <3>1, <2>1, <1>3
      <4> QED  BY <3>1, <4>1, <4>2, <2>1, <1>6, <1>7 DEF After
    <3>2. CASE j \in 1..S /\ ~(j + d <= S)
      <4>1. d \in 0..(bodies[stream[j][1]] - stream[j][2] + 1) /\ d \in Nat /\ j \in Nat
        <5>1. stream'[j] = stream[j]
          BY <3>2, <2>1
        <5>2. d \in 0..(bodies[stream[j][1]] - stream[j][2] + 1)
          BY <5>1
        <5> QED  BY <5>2, <3>2, <2>1, <1>3
      <4>2. stream[j][1] = L /\ stream[j][2] + (S - j) = p
        <5>1. j + d > S
          BY <3>2, <4>1, <1>3
        <5> QED  BY <5>1, <3>2, <4>1, <1>2, BeyondTheLast
      <4>3. PICK k \in 1..n : j + d = S + k
        <5>1. j + d \in 1..(S + n)
          BY <4>1, <3>2, <2>5, <1>3
        <5>2. ~(j + d \in 1..S)
          BY <3>2, <1>3
        <5> QED  BY <5>1, <5>2, <2>3
      <4>4. stream'[j + d] = <<L, p + k>>
        BY <4>3, <1>6
      <4>5. d = (S - j) + k
        BY <4>1, <4>3, <1>3
      <4>6. stream[j][2] + d = p + k
        <5>1. stream[j][2] \in Nat /\ S - j \in Int /\ k \in Int
          BY <3>2, <2>1, <4>1, <1>3
        <5>2. stream[j][2] + ((S - j) + k) = (stream[j][2] + (S - j)) + k
          BY <5>1
        <5> QED  BY <5>2, <4>2, <4>5
      <4>7. bodies'[stream'[j][1]] = bodies[L] /\ stream'[j] = stream[j]
        BY <3>2, <4>2, <2>1, <1>7
      <4> QED  BY <4>2, <4>4, <4>6, <4>7, <2>2 DEF After
    <3>3. CASE ~(j \in 1..S)
      <4>1. PICK k \in 1..n : j = S + k
        BY <3>3, <2>3
      <4>2. stream'[j] = <<L, p + k>> /\ k \in Nat /\ p + k \in Nat
        BY <4>1, <1>6, <2>2
      <4>3. d \in Nat
        BY <4>2, <1>3
      <4>4. k + d \in 1..n /\ j + d = S + (k + d)
        BY <4>1, <4>2, <4>3, <2>5, <1>3
      <4>5. stream'[j + d] = <<L, p + (k + d)>> /\ p + (k + d) <= bodies[L]
        BY <4>4, <1>6, <2>2
      <4>6. p + (k + d) = (p + k) + d
        BY <4>2, <4>3, <1>4
      <4> QED  BY <4>2, <4>5, <4>6, <1>7 DEF After
    <3> QED  BY <3>1, <3>2, <3>3
  <2> QED  BY <2>4, <2>5, <1>6, <1>7 DEF StreamInv
<1>11. EndsInv'
  <2>1. Expected' = Expected
    BY <1>2 DEF Expected
  <2>2. S + n \in 1..(S + n) /\ S + n > 0 /\ 1 \in 1..n /\ n \in 1..n
    BY <1>3, <1>4
  <2>3. stream' # << >>
    BY <2>2, <1>6, EmptySeq
  <2>4. ASSUME state' \notin Stopped
        PROVE  stream'[1] = Expected
    <3>1. CASE stream = << >>
      <4>1. Expected = <<L, p + 1>> /\ S = 0
        BY <3>1, <1>2 DEF DeliveryInv, EndsInv, NextWritten
      <4>2. stream'[S + 1] = <<L, p + 1>>
        BY <1>6, <2>2
      <4> QED  BY <4>1, <4>2
    <3>2. CASE stream # << >>
      <4>1. 1 \in 1..S
        BY <3>2, <1>3, Types, EmptySeq
      <4> QED  BY <4>1, <3>2, <2>4, <1>2, <1>6 DEF DeliveryInv, EndsInv
    <3> QED  BY <3>1, <3>2
  <2>5. stream'[S + n] = <<L, p + n>> /\ p + n = bodies[L] - left'
    BY <2>2, <1>3, <1>6, <1>7
  <2> QED  BY <2>1, <2>3, <2>4, <2>5, <1>6, <1>7 DEF EndsInv
<1> QED  BY <1>8, <1>9, <1>10, <1>11 DEF DeliveryInv

\* Closing loses the units under way or leaves them.
LEMMA CloseKeeps ==
  ASSUME DeliveryInv, Close
  PROVE  DeliveryInv'
<1>1. closed' = TRUE /\ UNCHANGED <<reader, bodies, left, state, some, done>>
      /\ (stream' = stream \/ stream' = << >>)
  BY DEF Close
<1>2. Expected' = Expected
  BY <1>1 DEF Expected
<1>3. BodiesInv'
  <2>1. \A i \in 1..Len(done) : Body(i)' = Body(i)
    BY <1>1 DEF Body
  <2> QED  BY <1>1, <2>1 DEF DeliveryInv, BodiesInv, Stopped
<1>4. StreamInv' /\ EndsInv' /\ (stream \in Seq((1..MaxMessages) \X (0..MaxBody)))'
  <2>1. CASE stream' = stream
    <3>1. StreamInv'
      BY <1>1, <2>1 DEF DeliveryInv, StreamInv, After
    <3>2. EndsInv'
      BY <1>1, <1>2, <2>1 DEF DeliveryInv, EndsInv, Stopped
    <3> QED  BY <3>1, <3>2, <2>1, Types DEF Units
  <2>2. CASE stream' = << >>
    <3>1. StreamInv'
      BY <2>2 DEF StreamInv
    <3>2. EndsInv'
      BY <1>1, <2>2 DEF EndsInv
    <3>3. << >> \in Seq((1..MaxMessages) \X (0..MaxBody))
      BY EmptySeq
    <3> QED  BY <3>1, <3>2, <3>3, <2>2
  <2> QED  BY <1>1, <2>1, <2>2
<1>5. TypeOK' /\ (done \in Seq(Seq((1..MaxMessages) \X (0..MaxBody))))'
  BY <1>1, <1>4 DEF DeliveryInv, TypeOK
<1>6. CountersInv' /\ StopsOnlyIfClosed'
  BY <1>1 DEF DeliveryInv, CountersInv, StopsOnlyIfClosed
<1> QED  BY <1>3, <1>4, <1>5, <1>6 DEF DeliveryInv

-----------------------------------------------------------------------------
(* Reading.                                                                *)

\* A step that moves the reader to another state, within no body and with the writer
\* gone when it stops, keeps the invariant.
LEMMA QuietKeeps ==
  ASSUME DeliveryInv, UNCHANGED <<reader, writer, stream, some, done>>,
         \/ state = "idle" /\ state' = "header"
         \/ closed /\ state' \in Stopped
  PROVE  DeliveryInv'
<1>1. UNCHANGED <<reader, bodies, left, closed, stream, some, done>>
  BY DEF writer
<1>2. state' \notin Stopped => Expected' = Expected /\ state \notin Stopped
  BY <1>1 DEF Expected, Stopped
<1>3. BodiesInv'
  <2>1. \A i \in 1..Len(done) : Body(i)' = Body(i)
    BY <1>1 DEF Body
  <2>2. state' # "body" /\ (state' \notin Stopped => state \notin Stopped \cup {"body"})
    BY DEF Stopped
  <2> QED  BY <1>1, <2>1, <2>2 DEF DeliveryInv, BodiesInv, Stopped
<1>4. StreamInv'
  BY <1>1 DEF DeliveryInv, StreamInv, After
<1>5. EndsInv'
  <2>1. closed \/ state' \notin Stopped
    BY DEF Stopped
  <2>2. NextWritten' = NextWritten
    BY <1>1 DEF NextWritten
  <2> QED  BY <1>1, <1>2, <2>1, <2>2 DEF DeliveryInv, EndsInv
<1>6. TypeOK' /\ (done \in Seq(Seq((1..MaxMessages) \X (0..MaxBody))))'
  BY <1>1 DEF DeliveryInv, TypeOK, Stopped
<1>7. CountersInv' /\ StopsOnlyIfClosed'
  BY <1>1 DEF DeliveryInv, CountersInv, StopsOnlyIfClosed, Stopped
<1> QED  BY <1>3, <1>4, <1>5, <1>6, <1>7 DEF DeliveryInv

\* Units taken away from the front leave the rest as it was.
LEMMA FrontTaken ==
  ASSUME DeliveryInv, NEW n \in 0..Len(stream), stream' = SubSeq(stream, n + 1, Len(stream)), bodies' = bodies
  PROVE  /\ stream' \in Seq(Units) /\ Len(stream') = Len(stream) - n
         /\ \A j \in 1..Len(stream') : stream'[j] = stream[n + j]
         /\ StreamInv'
<1> DEFINE N == Len(stream)
<1>1. stream \in Seq(Units) /\ N \in Nat /\ n \in Nat /\ n <= N
  BY Types
<1>2. /\ stream' \in Seq(Units) /\ Len(stream') = N - n
      /\ \A j \in 1..(N - n) : stream'[j] = stream[n + j]
  <2>1. \A i \in (n + 1)..N : stream[i] \in Units
    BY <1>1, ElementOfSeq
  <2>2. /\ SubSeq(stream, n + 1, N) \in Seq(Units)
        /\ Len(SubSeq(stream, n + 1, N)) = IF n + 1 <= N THEN N - (n + 1) + 1 ELSE 0
        /\ \A i \in 1..(N - (n + 1) + 1) : SubSeq(stream, n + 1, N)[i] = stream[(n + 1) + i - 1]
    BY <1>1, <2>1, SubSeqProperties
  <2>3. N - (n + 1) + 1 = N - n /\ (~(n + 1 <= N) => N - n = 0)
    BY <1>1
  <2>4. \A j \in 1..(N - n) : (n + 1) + j - 1 = n + j
    BY <1>1
  <2> QED  BY <2>2, <2>3, <2>4
<1>3. ASSUME NEW j \in 1..(N - n)
      PROVE  n + j \in 1..N /\ j \in Nat /\ n + j \in Nat /\ stream'[j] = stream[n + j]
  BY <1>1, <1>2
<1>4. ASSUME NEW j \in 1..(N - n)
      PROVE  stream'[j][1] <= Len(bodies) /\ stream'[j][2] <= bodies[stream'[j][1]]
  BY <1>3 DEF DeliveryInv, StreamInv
<1>5. ASSUME NEW j \in 1..(N - n), NEW d \in 0..(bodies[stream'[j][1]] - stream'[j][2] + 1), j + d <= N - n
      PROVE  stream'[j + d] = After(stream[j], d)'
  <2>1. d \in Nat
    <3>1. stream[n + j][2] \in 0..bodies[stream[n + j][1]] /\ stream[n + j][1] \in 1..Len(bodies)
      BY <1>3, Types
    <3>2. bodies[stream[n + j][1]] \in 1..MaxBody
      BY <3>1, Types
    <3> QED  BY <3>1, <3>2, <1>3, Types
  <2>2. j + d \in 1..(N - n) /\ n + (j + d) = (n + j) + d /\ (n + j) + d <= N
    BY <2>1, <1>1, <1>3, <1>5
  <2>3. stream[(n + j) + d] = After(stream[n + j], d)
    BY <2>2, <1>3 DEF DeliveryInv, StreamInv
  <2>4. stream'[j + d] = stream[n + (j + d)]
    BY <2>2, <1>3
  <2> QED  BY <2>2, <2>3, <2>4, <1>3 DEF After
<1> QED  BY <1>2, <1>4, <1>5 DEF StreamInv

\* The header comes first, and it is the one of the message the reader waits for.
LEMMA ReadHeaderKeeps ==
  ASSUME DeliveryInv, ReadHeader
  PROVE  DeliveryInv' /\ state' = "body"
<1> DEFINE m == Len(done) + 1
<1>1. state = "header" /\ stream # << >> /\ stream' = Tail(stream) /\ some' = << >>
      /\ UNCHANGED <<reader, bodies, left, closed, done>>
  BY DEF ReadHeader, writer
<1>2. /\ stream \in Seq(Units) /\ Len(stream) \in Nat /\ 1 \in 1..Len(stream)
      /\ Len(done) \in Nat /\ Len(done) <= Len(bodies) /\ Len(bodies) \in Nat
  BY <1>1, Types, EmptySeq
<1>3. stream[1] = <<m, 0>>
  BY <1>1 DEF DeliveryInv, EndsInv, Expected, Stopped
<1>4. m \in 1..Len(bodies) /\ bodies[m] \in 1..MaxBody
  <2>1. m \in 1..Len(bodies)
    BY <1>2, <1>3 DEF DeliveryInv, StreamInv
  <2> QED  BY <2>1, Types
<1>5. state' = "body"
  <2>1. Head(stream) = <<m, 0>>
    BY <1>1, <1>2, <1>3
  <2> QED  BY <2>1 DEF ReadHeader
<1>6. /\ stream' \in Seq(Units) /\ Len(stream') = Len(stream) - 1
      /\ \A j \in 1..Len(stream') : stream'[j] = stream[1 + j]
      /\ StreamInv'
  <2>1. stream' = SubSeq(stream, 1 + 1, Len(stream))
    BY <1>1, <1>2, TailIsSubSeq
  <2>2. 1 \in 0..Len(stream)
    BY <1>2
  <2> QED  BY <2>1, <2>2, <1>1, FrontTaken
<1>7. TypeOK' /\ (done \in Seq(Seq((1..MaxMessages) \X (0..MaxBody))))' /\ CountersInv' /\ StopsOnlyIfClosed'
  <2>1. some' \in Seq((1..MaxMessages) \X (0..MaxBody))
    BY <1>1, EmptySeq
  <2>2. CountersInv' /\ StopsOnlyIfClosed'
    BY <1>1, <1>5 DEF DeliveryInv, CountersInv, StopsOnlyIfClosed
  <2> QED  BY <2>1, <2>2, <1>1, <1>5, <1>6 DEF DeliveryInv, TypeOK, Units
<1>8. BodiesInv'
  <2>1. \A i \in 1..Len(done) : Body(i)' = Body(i)
    BY <1>1 DEF Body
  <2>2. Len(some') = 0 /\ Len(done') < Len(bodies') /\ 0 < bodies'[Len(done') + 1]
    BY <1>1, <1>2, <1>4, Types
  <2>3. \A i \in 1..Len(done') : done'[i] = Body(i)'
    BY <2>1, <1>1 DEF DeliveryInv, BodiesInv
  <2> QED  BY <2>2, <2>3, <1>1, <1>5 DEF BodiesInv, Stopped
<1>9. EndsInv'
  <2>1. Expected' = <<m, 1>> /\ NextWritten' = NextWritten
    BY <1>1, <1>5 DEF Expected, NextWritten
  <2>2. ASSUME stream' # << >>
        PROVE  stream'[1] = <<m, 1>> /\ stream'[Len(stream')] = stream[Len(stream)]
    <3>1. Len(stream') >= 1 /\ 1 + 1 <= Len(stream)
      BY <2>2, <1>2, <1>6, EmptySeq
    <3>2. stream'[1] = stream[1 + 1] /\ stream'[Len(stream')] = stream[Len(stream)]
      BY <3>1, <1>2, <1>6
    <3>3. stream[1 + 1] = After(stream[1], 1)
      <4>1. 1 \in 0..(bodies[stream[1][1]] - stream[1][2] + 1)
        BY <1>3, <1>4, Types
      <4> QED  BY <4>1, <3>1, <1>2 DEF DeliveryInv, StreamInv
    <3>4. After(stream[1], 1) = <<m, 1>>
      BY <1>3, <1>4, Types DEF After
    <3> QED  BY <3>2, <3>3, <3>4
  <2>3. ASSUME ~closed, stream' = << >>
        PROVE  NextWritten = <<m, 1>>
    <3>1. Len(stream) = 1
      BY <2>3, <1>2, <1>6
    <3>2. <<m, 0>> = <<Len(bodies), bodies[Len(bodies)] - left>>
      BY <2>3, <3>1, <1>1, <1>3 DEF DeliveryInv, EndsInv
    <3>3. Len(bodies) = m /\ left = bodies[m] /\ left > 0 /\ bodies[m] - left = 0
      BY <3>2, <1>4, Types
    <3> QED  BY <3>3, Types DEF NextWritten
  <2> QED  BY <2>1, <2>2, <2>3, <1>1 DEF DeliveryInv, EndsInv
<1> QED  BY <1>5, <1>6, <1>7, <1>8, <1>9 DEF DeliveryInv

\* What the reader of a body finds: the rest of it, and behind it the next header.
LEMMA Arriving ==
  ASSUME DeliveryInv, state = "body"
  PROVE  /\ Len(done) + 1 \in 1..Len(bodies) /\ BodySize \in 1..MaxBody
         /\ Remain \in 1..BodySize /\ Len(some) = BodySize - Remain
         /\ \A k \in 1..Len(stream) : k <= Remain => stream[k] = <<Len(done) + 1, Len(some) + k>>
         /\ Len(stream) > Remain =>
              stream[Remain + 1] = <<Len(done) + 2, 0>> /\ Len(done) + 2 <= Len(bodies)
<1> DEFINE m == Len(done) + 1
<1>1. Len(done) \in Nat /\ Len(bodies) \in Nat /\ Len(some) \in Nat /\ Len(stream) \in Nat
  BY Types
<1>2. Len(done) < Len(bodies) /\ Len(some) < bodies[m]
  BY DEF DeliveryInv, BodiesInv
<1>3. m \in 1..Len(bodies)
  BY <1>1, <1>2
<1>4. bodies[m] \in 1..MaxBody /\ bodies[m] \in Nat
  <2>1. bodies[m] \in 1..MaxBody
    BY <1>3, Types
  <2> QED  BY <2>1, Types
<1>5. BodySize = bodies[m] /\ Remain = bodies[m] - Len(some)
  BY DEF BodySize, Remain
<1>6. Remain \in 1..BodySize /\ Len(some) = BodySize - Remain /\ Remain \in Nat
  BY <1>1, <1>2, <1>4, <1>5
<1>7. ASSUME NEW d \in 0..Remain, d + 1 <= Len(stream)
      PROVE  stream[d + 1] = IF d < Remain THEN <<m, Len(some) + (d + 1)>> ELSE <<m + 1, 0>>
  <2>1. stream # << >> /\ 1 \in 1..Len(stream) /\ d \in Nat
    BY <1>1, <1>6, <1>7, EmptySeq
  <2>2. stream[1] = <<m, Len(some) + 1>>
    BY <2>1 DEF DeliveryInv, EndsInv, Expected, Stopped
  <2>3. d \in 0..(bodies[stream[1][1]] - stream[1][2] + 1) /\ 1 + d <= Len(stream) /\ 1 + d = d + 1
    BY <2>1, <2>2, <1>1, <1>4, <1>5, <1>7
  <2>4. stream[1 + d] = After(stream[1], d)
    BY <2>1, <2>3 DEF DeliveryInv, StreamInv
  <2>5. /\ d < Remain <=> (Len(some) + 1) + d <= bodies[m]
        /\ (Len(some) + 1) + d = Len(some) + (d + 1)
    BY <2>1, <1>1, <1>4, <1>5
  <2> QED  BY <2>2, <2>3, <2>4, <2>5 DEF After
<1>8. ASSUME NEW k \in 1..Len(stream), k <= Remain
      PROVE  stream[k] = <<m, Len(some) + k>>
  <2>1. k - 1 \in 0..Remain /\ (k - 1) + 1 = k /\ k - 1 < Remain /\ k <= Len(stream)
    BY <1>1, <1>6, <1>8
  <2> QED  BY <2>1, <1>7
<1>9. ASSUME Len(stream) > Remain
      PROVE  stream[Remain + 1] = <<Len(done) + 2, 0>> /\ Len(done) + 2 <= Len(bodies)
  <2>1. Remain \in 0..Remain /\ Remain + 1 <= Len(stream) /\ Remain + 1 \in 1..Len(stream) /\ ~(Remain < Remain)
    BY <1>1, <1>6, <1>9
  <2>2. stream[Remain + 1] = <<m + 1, 0>> /\ m + 1 = Len(done) + 2
    <3>1. stream[Remain + 1] = IF Remain < Remain THEN <<m, Len(some) + (Remain + 1)>> ELSE <<m + 1, 0>>
      BY <2>1, <1>7
    <3> QED  BY <3>1, <2>1, <1>1
  <2> QED  BY <2>1, <2>2 DEF DeliveryInv, StreamInv
<1> QED  BY <1>3, <1>4, <1>5, <1>6, <1>8, <1>9

\* No reader takes more than what remains of its body. The client asks for up to a whole
\* body, but the next message does not come before this one was read.
LEMMA ToReadBound ==
  ASSUME DeliveryInv, state = "body", NEW avail \in 0..Len(stream), ToRead(avail) \in 1..Len(stream)
  PROVE  ToRead(avail) \in 1..Remain
<1>1. /\ Remain \in Nat /\ Remain >= 1 /\ BodySize \in Nat /\ Len(stream) \in Nat /\ avail \in Nat
      /\ Len(done) \in Nat /\ Len(bodies) \in Nat
  <2>1. BodySize \in Nat
    BY Arriving, Types
  <2> QED  BY <2>1, Arriving, Types
<1>2. CASE reader = "daemon"
  BY <1>1, <1>2 DEF ToRead
<1>3. CASE reader = "client"
  <2>1. Len(bodies) <= Len(done) + 1
    BY <1>3 DEF DeliveryInv, CountersInv
  <2>2. ~(Len(stream) > Remain)
    BY <2>1, <1>1, Arriving
  <2> QED  BY <2>2, <1>1
<1>4. CASE reader = "receiver"
  BY <1>1, <1>4 DEF ToRead
<1>5. reader \in {"daemon", "client", "receiver"}
  BY StreamAssumption DEF DeliveryInv, TypeOK
<1> QED  BY <1>2, <1>3, <1>4, <1>5

\* Bytes read continue the body; with the last of them it is the one that was written.
LEMMA ReadSomeKeeps ==
  ASSUME DeliveryInv, ReadSome
  PROVE  /\ DeliveryInv'
         /\ \/ state' = "body" /\ UNCHANGED done
            \/ state' = "idle" /\ done' = Append(done, Body(Len(done) + 1)) /\ Len(done) < Len(bodies)
<1> DEFINE m == Len(done) + 1
<1> DEFINE N == Len(stream)
<1> DEFINE s == Len(some)
<1>1. PICK avail \in 0..N :
        /\ ToRead(avail) \in 1..N
        /\ Finished(some \o SubSeq(stream, 1, ToRead(avail)))
        /\ stream' = SubSeq(stream, ToRead(avail) + 1, N)
  BY DEF ReadSome
<1> DEFINE n == ToRead(avail)
<1>2. state = "body" /\ UNCHANGED <<reader, bodies, left, closed>>
  BY DEF ReadSome, writer
<1>3. n \in 1..Remain /\ n \in 1..N /\ n \in 0..N
  <2>1. n \in 1..Remain
    BY <1>1, <1>2, ToReadBound
  <2>2. N \in Nat
    BY Types
  <2> QED  BY <2>1, <2>2, <1>1
<1> HIDE DEF n
<1>4. /\ m \in 1..Len(bodies) /\ BodySize \in 1..MaxBody /\ Remain \in 1..BodySize
      /\ s = BodySize - Remain /\ Len(done) < Len(bodies)
      /\ N \in Nat /\ s \in Nat /\ MaxBody \in Nat /\ BodySize \in Nat /\ Remain \in Nat /\ n \in Nat
      /\ Len(done) \in Nat /\ Len(bodies) \in Nat
  <2>1. BodySize \in Nat
    BY <1>2, Arriving, Types
  <2>2. Remain \in Nat
    BY <2>1, <1>2, Arriving
  <2>3. n \in Nat /\ Len(done) < Len(bodies)
    BY <2>2, <1>2, <1>3 DEF DeliveryInv, BodiesInv
  <2> QED  BY <2>1, <2>2, <2>3, <1>2, Arriving, Types
<1>5. BodySize = bodies[m]
  BY DEF BodySize
<1> DEFINE units == some \o SubSeq(stream, 1, n)
<1>6. units \in Seq(Units) /\ Len(units) = s + n /\ \A k \in 1..(s + n) : units[k] = <<m, k>>
  <2>1. /\ SubSeq(stream, 1, n) \in Seq(Units) /\ Len(SubSeq(stream, 1, n)) = n
        /\ \A k \in 1..n : SubSeq(stream, 1, n)[k] = stream[k]
    <3>1. \A i \in 1..n : stream[i] \in Units
      BY <1>3, <1>4, Types
    <3>2. /\ SubSeq(stream, 1, n) \in Seq(Units)
          /\ Len(SubSeq(stream, 1, n)) = IF 1 <= n THEN n - 1 + 1 ELSE 0
          /\ \A i \in 1..(n - 1 + 1) : SubSeq(stream, 1, n)[i] = stream[1 + i - 1]
      BY <3>1, <1>4, SubSeqProperties
    <3>3. n - 1 + 1 = n /\ 1 <= n /\ \A i \in 1..n : 1 + i - 1 = i
      BY <1>3, <1>4
    <3> QED  BY <3>2, <3>3
  <2>2. some \in Seq(Units)
    BY Types
  <2>3. /\ units \in Seq(Units) /\ Len(units) = s + n
        /\ \A k \in 1..(s + n) : units[k] = IF k <= s THEN some[k] ELSE SubSeq(stream, 1, n)[k - s]
    BY <2>1, <2>2, ConcatProperties
  <2>4. ASSUME NEW k \in 1..(s + n)
        PROVE  units[k] = <<m, k>>
    <3>1. CASE k <= s
      <4>1. k \in 1..s
        BY <3>1, <1>4
      <4>2. some[k] = <<m, k>>
        BY <4>1, <1>2 DEF DeliveryInv, BodiesInv
      <4> QED  BY <4>2, <3>1, <2>3
    <3>2. CASE ~(k <= s)
      <4>1. k - s \in 1..n /\ k - s \in 1..N /\ k - s <= Remain /\ s + (k - s) = k
        BY <3>2, <1>3, <1>4
      <4>2. stream[k - s] = <<m, s + (k - s)>>
        BY <4>1, <1>2, Arriving
      <4>3. SubSeq(stream, 1, n)[k - s] = stream[k - s]
        BY <4>1, <2>1
      <4>4. units[k] = SubSeq(stream, 1, n)[k - s]
        BY <3>2, <2>3
      <4> QED  BY <4>1, <4>2, <4>3, <4>4
    <3> QED  BY <3>1, <3>2
  <2> QED  BY <2>3, <2>4
<1> HIDE DEF units
<1>7. s + n \in 1..BodySize /\ (s + n = BodySize <=> n = Remain)
  BY <1>3, <1>4
<1>8. /\ stream' \in Seq(Units) /\ Len(stream') = N - n
      /\ \A j \in 1..(N - n) : stream'[j] = stream[n + j]
      /\ StreamInv'
  <2>1. stream' = SubSeq(stream, n + 1, Len(stream)) /\ bodies' = bodies
    BY <1>1, <1>2 DEF n
  <2> QED  BY <2>1, <1>3, FrontTaken
<1>9. Finished(units)
  BY <1>1 DEF units, n
<1>10. CASE n = Remain
  <2>1. state' = "idle" /\ some' = << >> /\ done' = Append(done, units)
    BY <1>6, <1>7, <1>9, <1>10 DEF Finished
  <2>2. units = Body(m)
    <3>1. Body(m) = [k \in 1..BodySize |-> <<m, k>>]
      BY <1>5 DEF Body
    <3>2. units \in [1..BodySize -> Units]
      BY <1>6, <1>7, <1>10, LenProperties
    <3>3. \A k \in 1..BodySize : units[k] = <<m, k>>
      BY <1>6, <1>7, <1>10
    <3> QED  BY <3>1, <3>2, <3>3
  <2>3. /\ done' \in Seq(Seq(Units)) /\ Len(done') = m
        /\ \A i \in 1..Len(done) : done'[i] = done[i]
        /\ done'[m] = units
    <3>1. done \in Seq(Seq(Units))
      BY Types
    <3> QED  BY <3>1, <2>1, <1>6, AppendProperties
  <2>4. TypeOK' /\ (done \in Seq(Seq((1..MaxMessages) \X (0..MaxBody))))'
    <3>1. some' \in Seq((1..MaxMessages) \X (0..MaxBody))
      BY <2>1, EmptySeq
    <3> QED  BY <3>1, <2>1, <2>3, <1>2, <1>4, <1>8 DEF DeliveryInv, TypeOK, Units
  <2>5. CountersInv' /\ StopsOnlyIfClosed'
    <3>1. reader = "client" => Len(bodies) <= Len(done) + 1
      BY DEF DeliveryInv, CountersInv
    <3>2. reader = "client" => Len(bodies) <= m + 1
      BY <3>1, <1>4
    <3> QED  BY <2>1, <2>3, <3>2, <1>2 DEF DeliveryInv, CountersInv, StopsOnlyIfClosed
  <2>6. BodiesInv'
    <3>1. \A i \in 1..m : Body(i)' = Body(i)
      BY <1>2 DEF Body
    <3>2. \A i \in 1..Len(done) : done[i] = Body(i)
      BY DEF DeliveryInv, BodiesInv
    <3>3. \A i \in 1..m : i = m \/ i \in 1..Len(done)
      BY <1>4
    <3>4. \A i \in 1..Len(done') : done'[i] = Body(i)'
      BY <3>1, <3>2, <3>3, <2>2, <2>3
    <3> QED  BY <3>4, <2>1 DEF BodiesInv
  <2>7. EndsInv'
    <3>1. Expected' = <<m + 1, 0>> /\ NextWritten' = NextWritten
      BY <2>1, <2>3, <1>2 DEF Expected, NextWritten
    <3>2. ASSUME stream' # << >>
          PROVE  stream'[1] = <<m + 1, 0>> /\ stream'[Len(stream')] = stream[N]
      <4>1. N - n >= 1 /\ N - n \in 1..(N - n) /\ 1 \in 1..(N - n) /\ n + (N - n) = N /\ N > n
        BY <3>2, <1>3, <1>4, <1>8, EmptySeq
      <4>2. stream'[1] = stream[Remain + 1] /\ stream'[Len(stream')] = stream[N]
        BY <4>1, <1>8, <1>10
      <4>3. stream[Remain + 1] = <<Len(done) + 2, 0>> /\ Len(done) + 2 = m + 1
        BY <4>1, <1>2, <1>4, <1>10, Arriving
      <4> QED  BY <4>2, <4>3
    <3>3. ASSUME ~closed, stream' = << >>
          PROVE  NextWritten = <<m + 1, 0>>
      <4>1. N = n /\ stream # << >>
        BY <3>3, <1>3, <1>4, <1>8, EmptySeq
      <4>2. stream[N] = <<m, s + n>>
        BY <4>1, <1>2, <1>3, Arriving
      <4>3. stream[N] = <<Len(bodies), bodies[Len(bodies)] - left>>
        BY <3>3, <4>1 DEF DeliveryInv, EndsInv
      <4>4. Len(bodies) = m /\ bodies[m] - left = bodies[m] /\ left \in Nat /\ bodies[m] \in Nat
        BY <4>2, <4>3, <1>4, <1>5, <1>7, <1>10, Types
      <4>5. left = 0
        BY <4>4
      <4> QED  BY <4>4, <4>5 DEF NextWritten
    <3>4. stream' # << >> => stream # << >>
      BY <1>3, <1>4, EmptySeq
    <3> QED  BY <3>1, <3>2, <3>3, <3>4, <1>2 DEF DeliveryInv, EndsInv
  <2> QED  BY <2>1, <2>2, <2>4, <2>5, <2>6, <2>7, <1>4, <1>8 DEF DeliveryInv
<1>11. CASE n # Remain
  <2>1. state' = "body" /\ some' = units /\ UNCHANGED done
    <3>1. Len(units) # BodySize /\ Len(units) < BodySize
      BY <1>4, <1>6, <1>7, <1>11
    <3> QED  BY <3>1, <1>9 DEF Finished
  <2>2. TypeOK' /\ (done \in Seq(Seq((1..MaxMessages) \X (0..MaxBody))))' /\ CountersInv' /\ StopsOnlyIfClosed'
    <3>1. CountersInv' /\ StopsOnlyIfClosed'
      BY <2>1, <1>2 DEF DeliveryInv, CountersInv, StopsOnlyIfClosed
    <3> QED  BY <3>1, <2>1, <1>2, <1>6, <1>8 DEF DeliveryInv, TypeOK, Units
  <2>3. BodiesInv'
    <3>1. \A i \in 1..Len(done) : Body(i)' = Body(i)
      BY <1>2 DEF Body
    <3>2. \A i \in 1..Len(done') : done'[i] = Body(i)'
      BY <3>1, <2>1 DEF DeliveryInv, BodiesInv
    <3>3. Len(done') < Len(bodies') /\ Len(some') < bodies'[Len(done') + 1]
      BY SMTT(60), <2>1, <1>2, <1>4, <1>5, <1>6, <1>7, <1>11
    <3>4. \A k \in 1..Len(some') : some'[k] = <<Len(done') + 1, k>>
      BY <2>1, <1>6
    <3> QED  BY <3>2, <3>3, <3>4, <2>1 DEF BodiesInv, Stopped
  <2>4. EndsInv'
    <3>1. Expected' = <<m, s + n + 1>> /\ NextWritten' = NextWritten
      BY <2>1, <1>2, <1>6 DEF Expected, NextWritten
    <3>2. ASSUME stream' # << >>
          PROVE  stream'[1] = <<m, s + n + 1>> /\ stream'[Len(stream')] = stream[N]
      <4>1. N - n >= 1 /\ N - n \in 1..(N - n) /\ 1 \in 1..(N - n) /\ n + (N - n) = N
            /\ n + 1 \in 1..N /\ n + 1 <= Remain /\ s + (n + 1) = s + n + 1
        BY <3>2, <1>3, <1>4, <1>8, <1>11, EmptySeq
      <4>2. stream'[1] = stream[n + 1] /\ stream'[Len(stream')] = stream[N]
        BY <4>1, <1>8
      <4>3. stream[n + 1] = <<m, s + (n + 1)>>
        BY <4>1, <1>2, Arriving
      <4> QED  BY <4>1, <4>2, <4>3
    <3>3. ASSUME ~closed, stream' = << >>
          PROVE  NextWritten = <<m, s + n + 1>>
      <4>1. N = n /\ stream # << >>
        BY <3>3, <1>3, <1>4, <1>8, EmptySeq
      <4>2. stream[N] = <<m, s + n>>
        BY <4>1, <1>2, <1>3, Arriving
      <4>3. stream[N] = <<Len(bodies), bodies[Len(bodies)] - left>>
        BY <3>3, <4>1 DEF DeliveryInv, EndsInv
      <4>4. Len(bodies) = m /\ bodies[m] - left = s + n /\ left \in Nat /\ bodies[m] \in Nat
        BY <4>2, <4>3, <1>4, <1>5, Types
      <4>5. left > 0
        BY <4>4, <1>4, <1>5, <1>7, <1>11
      <4> QED  BY <4>4, <4>5 DEF NextWritten
    <3>4. stream' # << >> => stream # << >>
      BY <1>3, <1>4, EmptySeq
    <3> QED  BY <3>1, <3>2, <3>3, <3>4, <1>2 DEF DeliveryInv, EndsInv
  <2> QED  BY <2>1, <2>2, <2>3, <2>4, <1>8 DEF DeliveryInv
<1> QED  BY <1>10, <1>11

-----------------------------------------------------------------------------
(* The theorems.                                                           *)

LEMMA InitDelivery == Init => DeliveryInv
<1> SUFFICES ASSUME Init PROVE DeliveryInv
  OBVIOUS
<1>1. /\ << >> \in Seq(1..MaxBody) /\ << >> \in Seq((1..MaxMessages) \X (0..MaxBody))
      /\ << >> \in Seq(Seq((1..MaxMessages) \X (0..MaxBody))) /\ Len(<< >>) = 0
  BY EmptySeq
<1>2. TypeOK
  <2>1. /\ reader \in Readers /\ closed = FALSE /\ bodies = << >> /\ left = 0 /\ done = << >>
        /\ stream = << >> /\ some = << >> /\ state = "idle"
    BY DEF Init
  <2>2. 0 \in 0..MaxBody /\ 0 <= MaxMessages
    BY StreamAssumption
  <2>3. \A s \in {stream, some} : s \in Seq((1..MaxMessages) \X (0..MaxBody))
    BY <2>1, <1>1
  <2>4. bodies \in Seq(1..MaxBody) /\ Len(bodies) <= MaxMessages /\ Len(done) <= Len(bodies)
    BY <2>1, <2>2, <1>1
  <2> QED  BY <2>1, <2>2, <2>3, <2>4 DEF TypeOK
<1>3. CountersInv /\ BodiesInv /\ StreamInv /\ StopsOnlyIfClosed
  BY <1>1 DEF Init, CountersInv, BodiesInv, StreamInv, StopsOnlyIfClosed, Stopped
<1>4. EndsInv
  BY <1>1 DEF Init, EndsInv, Expected, NextWritten
<1> QED  BY <1>1, <1>2, <1>3, <1>4 DEF Init, DeliveryInv

\* A step that leaves everything as it is keeps the invariant.
LEMMA StutterKeeps ==
  ASSUME DeliveryInv, UNCHANGED vars
  PROVE  DeliveryInv'
<1>1. UNCHANGED <<reader, bodies, left, stream, closed, state, some, done>>
  BY DEF vars, writer
<1>2. TypeOK' /\ (done \in Seq(Seq((1..MaxMessages) \X (0..MaxBody))))' /\ CountersInv' /\ StopsOnlyIfClosed'
  BY <1>1 DEF DeliveryInv, TypeOK, CountersInv, StopsOnlyIfClosed
<1>3. BodiesInv' /\ StreamInv'
  BY <1>1 DEF DeliveryInv, BodiesInv, StreamInv, Body, After, Stopped
<1>4. EndsInv'
  BY <1>1 DEF DeliveryInv, EndsInv, Expected, NextWritten, Stopped
<1> QED  BY <1>2, <1>3, <1>4 DEF DeliveryInv

\* What each step of the reader's that ends in a stop is.
LEMMA StopKeeps ==
  ASSUME DeliveryInv, EndBeforeHeader \/ EndWithinBody
  PROVE  DeliveryInv' /\ state' \in Stopped /\ UNCHANGED <<bodies, done>>
<1>1. /\ UNCHANGED <<reader, writer, stream, some, done>> /\ closed
      /\ reader \in {"daemon", "client", "receiver"}
  BY StreamAssumption DEF EndBeforeHeader, EndWithinBody, DeliveryInv, TypeOK
<1>2. state' \in Stopped
  BY <1>1 DEF EndBeforeHeader, EndWithinBody, Stopped
<1> QED  BY <1>1, <1>2, QuietKeeps DEF writer

\* Every step keeps the invariant.
LEMMA NextKeeps ==
  ASSUME DeliveryInv, [Next]_vars
  PROVE  DeliveryInv'
<1>1. CASE UNCHANGED vars
  BY <1>1, StutterKeeps
<1>2. CASE \E size \in 1..MaxBody : WriteHeader(size)
  BY <1>2, HeaderKeeps
<1>3. CASE StartRead
  <2>1. state = "idle" /\ state' = "header" /\ UNCHANGED <<reader, writer, stream, some, done>>
    BY <1>3 DEF StartRead
  <2> QED  BY <2>1, QuietKeeps
<1>4. CASE WriteSome \/ Close \/ ReadHeader \/ EndBeforeHeader \/ ReadSome \/ EndWithinBody
  BY <1>4, PieceKeeps, CloseKeeps, ReadHeaderKeeps, StopKeeps, ReadSomeKeeps
<1> QED  BY <1>1, <1>2, <1>3, <1>4 DEF Next

\* In every reachable state the reader, the units under way and the writer are at
\* places of the written messages that fit together.
THEOREM DeliveryInvariant == Spec => []DeliveryInv
<1>1. DeliveryInv /\ [Next]_vars => DeliveryInv'
  BY NextKeeps
<1> QED  BY <1>1, InitDelivery, PTL DEF Spec

\* A reader fails an assert or loops for ever only when the writer went away: no cut of
\* a body into pieces and no message behind it leads the three loops astray.
THEOREM ReadersDoNotStop == Spec => []StopsOnlyIfClosed
<1>1. DeliveryInv => StopsOnlyIfClosed
  BY DEF DeliveryInv
<1> QED  BY <1>1, DeliveryInvariant, PTL

\* The numbers of the messages written and not yet read, and of those read.
Between(a, b) == [i \in 1..(b - a) |-> a + i]
UpTo(a) == [i \in 1..a |-> i]

LEMMA BetweenIsQueue ==
  ASSUME NEW a \in Nat, NEW b \in Nat, a <= b
  PROVE  /\ Append(Between(a, b), b + 1) = Between(a, b + 1)
         /\ a < b => /\ Between(a, b) # << >> /\ Head(Between(a, b)) = a + 1
                     /\ Tail(Between(a, b)) = Between(a + 1, b)
         /\ Append(UpTo(a), a + 1) = UpTo(a + 1)
<1>1. /\ Between(a, b) \in Seq(Nat) /\ Len(Between(a, b)) = b - a
      /\ Between(a, b + 1) \in Seq(Nat) /\ Len(Between(a, b + 1)) = b + 1 - a
      /\ UpTo(a) \in Seq(Nat) /\ Len(UpTo(a)) = a
      /\ UpTo(a + 1) \in Seq(Nat) /\ Len(UpTo(a + 1)) = a + 1
  BY DEF Between, UpTo
<1>2. Append(Between(a, b), b + 1) = Between(a, b + 1)
  <2>1. /\ Append(Between(a, b), b + 1) \in Seq(Nat)
        /\ Len(Append(Between(a, b), b + 1)) = b - a + 1
        /\ \A i \in 1..(b - a) : Append(Between(a, b), b + 1)[i] = Between(a, b)[i]
        /\ Append(Between(a, b), b + 1)[b - a + 1] = b + 1
    BY <1>1, AppendProperties
  <2>2. \A i \in 1..(b - a + 1) : Append(Between(a, b), b + 1)[i] = Between(a, b + 1)[i]
    BY <2>1 DEF Between
  <2>3. b - a + 1 = b + 1 - a
    OBVIOUS
  <2> QED  BY <1>1, <2>1, <2>2, <2>3, SeqEqual
<1>3. Append(UpTo(a), a + 1) = UpTo(a + 1)
  <2>1. /\ Append(UpTo(a), a + 1) \in Seq(Nat)
        /\ Len(Append(UpTo(a), a + 1)) = a + 1
        /\ \A i \in 1..a : Append(UpTo(a), a + 1)[i] = UpTo(a)[i]
        /\ Append(UpTo(a), a + 1)[a + 1] = a + 1
    <3>1. UpTo(a) \in Seq(Nat) /\ Len(UpTo(a)) = a /\ a + 1 \in Nat
      BY <1>1
    <3> QED  BY SMTT(60), <3>1, AppendProperties
  <2>2. \A i \in 1..(a + 1) : Append(UpTo(a), a + 1)[i] = UpTo(a + 1)[i]
    BY <2>1 DEF UpTo
  <2> QED  BY <1>1, <2>1, <2>2, SeqEqual
<1>4. ASSUME a < b
      PROVE  /\ Between(a, b) # << >> /\ Head(Between(a, b)) = a + 1
             /\ Tail(Between(a, b)) = Between(a + 1, b)
  <2>1. Between(a, b) # << >> /\ Between(a, b)[1] = a + 1
    BY <1>4, <1>1, EmptySeq DEF Between
  <2>2. Between(a + 1, b) \in Seq(Nat) /\ Len(Between(a + 1, b)) = b - a - 1
    BY <1>4 DEF Between
  <2>3. /\ Tail(Between(a, b)) \in Seq(Nat) /\ Len(Tail(Between(a, b))) = b - a - 1
        /\ \A i \in 1..(b - a - 1) : Tail(Between(a, b))[i] = Between(a, b)[i + 1]
    BY <2>1, <1>1, HeadTailProperties
  <2>4. \A i \in 1..(b - a - 1) : Tail(Between(a, b))[i] = Between(a + 1, b)[i]
    BY <2>3 DEF Between
  <2>5. Head(Between(a, b)) = a + 1
    BY <2>1, <1>1
  <2> QED  BY <2>1, <2>2, <2>3, <2>4, <2>5, SeqEqual
<1> QED  BY <1>2, <1>3, <1>4

\* Bodies that are those written are the messages 1, 2, ... of the channel.
LEMMA WholeBodies ==
  ASSUME NEW d, NEW b, DOMAIN d = 1..Len(d),
         \A i \in 1..Len(d) : d[i] = [k \in 1..b[i] |-> <<i, k>>]
  PROVE  [i \in DOMAIN d |-> IF d[i] = [k \in 1..b[i] |-> <<i, k>>] THEN i ELSE 0] = UpTo(Len(d))
BY DEF UpTo

\* What the abstract channel's variables are here.
LEMMA ChannelView ==
  ASSUME DeliveryInv
  PROVE  [i \in DOMAIN done |-> IF done[i] = Body(i) THEN i ELSE 0] = UpTo(Len(done))
<1>1. DOMAIN done = 1..Len(done) /\ \A i \in 1..Len(done) : done[i] = Body(i)
  BY Types, LenProperties DEF DeliveryInv, BodiesInv
<1> QED  BY ZenonT(60), <1>1, WholeBodies DEF Body

LEMMA ChannelViewNext ==
  ASSUME DeliveryInv'
  PROVE  [i \in DOMAIN done' |-> IF done'[i] = Body(i)' THEN i ELSE 0] = UpTo(Len(done'))
<1>1. done' \in Seq(Seq((1..MaxMessages) \X (0..MaxBody))) /\ \A i \in 1..Len(done') : done'[i] = Body(i)'
  BY DEF DeliveryInv, BodiesInv
<1>2. DOMAIN done' = 1..Len(done')
  BY <1>1, LenProperties
<1> QED  BY ZenonT(60), <1>1, <1>2, WholeBodies DEF Body

\* Each step is a step of the channel, or none.
LEMMA StepOfChannel ==
  ASSUME DeliveryInv, DeliveryInv', [Next]_vars
  PROVE  [Chan!Next]_Chan!vars
<1> DEFINE B == Len(bodies)
<1> DEFINE D == Len(done)
<1> DEFINE stopped == state \in {"failed", "abort", "spin"}
<1>1. B \in Nat /\ D \in Nat /\ D <= B
  BY Types
<1>2. CASE \E size \in 1..MaxBody : WriteHeader(size)
  <2>1. PICK size \in 1..MaxBody : WriteHeader(size)
    BY <1>2
  <2>2. ~closed /\ B < MaxMessages /\ Len(bodies') = B + 1 /\ UNCHANGED <<state, done>>
    BY <2>1, Types, AppendProperties DEF WriteHeader
  <2>3. ~stopped /\ ~stopped'
    BY <2>2 DEF DeliveryInv, StopsOnlyIfClosed
  <2>4. B + 1 \in 1..MaxMessages
    BY <2>2, <1>1, Types
  <2>5. Between(Len(done'), Len(bodies')) = Append(Between(D, B), B + 1)
    <3>1. Append(Between(D, B), B + 1) = Between(D, B + 1)
      BY <1>1, BetweenIsQueue
    <3>2. Len(done') = D /\ Len(bodies') = B + 1
      BY <2>2
    <3> QED  BY <3>1, <3>2
  <2>6. Chan!Write
    BY <2>2, <2>3, <2>4, <2>5, ChannelView, ChannelViewNext DEF Chan!Write, Between
  <2> QED  BY <2>6 DEF Chan!Next
<1>3. CASE UNCHANGED <<bodies, done, state>>
  BY <1>3 DEF Chan!vars, Body
<1>4. CASE UNCHANGED <<bodies, done>> /\ ~stopped /\ ~stopped'
  BY <1>4 DEF Chan!vars, Body
<1>5. CASE UNCHANGED <<bodies, done>> /\ state' \in Stopped
  <2>1. Chan!GiveUp
    BY <1>5 DEF Chan!GiveUp, Stopped, Body
  <2> QED  BY <2>1 DEF Chan!Next
<1>6. CASE StartRead
  BY <1>4, <1>6 DEF StartRead, writer
<1>7. CASE WriteSome \/ Close \/ UNCHANGED vars
  BY <1>3, <1>7 DEF WriteSome, Close, vars, writer
<1>8. CASE ReadHeader
  <2>1. state = "header" /\ state' = "body" /\ UNCHANGED <<bodies, done>>
    BY <1>8, ReadHeaderKeeps DEF ReadHeader, writer
  <2> QED  BY <1>4, <2>1
<1>9. CASE EndBeforeHeader \/ EndWithinBody
  BY <1>5, <1>9, StopKeeps
<1>10. CASE ReadSome
  <2>1. state = "body" /\ bodies' = bodies
    BY <1>10 DEF ReadSome, writer
  <2>2. CASE state' = "body" /\ UNCHANGED done
    BY <1>4, <2>1, <2>2
  <2>3. CASE state' = "idle" /\ done' = Append(done, Body(D + 1)) /\ D < B
    <3>1. Len(done') = D + 1
      <4>1. Body(D + 1) \in Seq(Units)
        <5>1. /\ D + 1 \in 1..MaxMessages /\ bodies[D + 1] \in 1..MaxBody
              /\ MaxBody \in Nat /\ MaxMessages \in Nat
          BY <2>3, <1>1, Types
        <5>2. \A k \in 1..bodies[D + 1] : <<D + 1, k>> \in Units
          BY <5>1 DEF Units
        <5>3. bodies[D + 1] \in Nat
          BY <5>1
        <5> QED  BY <5>2, <5>3 DEF Body
      <4> QED  BY <4>1, <2>3, Types, AppendProperties
    <3>2. Between(D, B) # << >> /\ Head(Between(D, B)) = D + 1 /\ Tail(Between(D, B)) = Between(D + 1, B)
          /\ Append(UpTo(D), D + 1) = UpTo(D + 1)
      BY <2>3, <1>1, BetweenIsQueue
    <3>3. ~stopped /\ ~stopped'
      BY <2>1, <2>3
    <3>4. Chan!Read
      <4>1. Between(Len(done'), Len(bodies')) = Tail(Between(D, B)) /\ Between(D, B) # << >>
        BY <2>1, <3>1, <3>2
      <4>2. UpTo(Len(done')) = Append(UpTo(D), Head(Between(D, B)))
        BY <3>1, <3>2
      <4>3. /\ [i \in 1..(Len(bodies) - Len(done)) |-> Len(done) + i]'
               = Tail([i \in 1..(Len(bodies) - Len(done)) |-> Len(done) + i])
            /\ [i \in 1..(Len(bodies) - Len(done)) |-> Len(done) + i] # << >>
        BY <4>1 DEF Between
      <4>4. [i \in DOMAIN done |-> IF done[i] = Body(i) THEN i ELSE 0]'
            = Append([i \in DOMAIN done |-> IF done[i] = Body(i) THEN i ELSE 0],
                     Head([i \in 1..(Len(bodies) - Len(done)) |-> Len(done) + i]))
        BY <4>2, ChannelView, ChannelViewNext DEF Between
      <4>5. UNCHANGED (state \in {"failed", "abort", "spin"}) /\ ~(state \in {"failed", "abort", "spin"})
        BY <3>3
      <4> QED  BY <4>3, <4>4, <4>5, Zenon DEF Chan!Read
    <3> QED  BY <3>4 DEF Chan!Next
  <2> QED  BY <1>10, <2>2, <2>3, ReadSomeKeeps
<1> QED  BY <1>2, <1>6, <1>7, <1>8, <1>9, <1>10 DEF Next

LEMMA InitOfChannel ==
  ASSUME Init
  PROVE  Chan!Init
<1>1. Len(bodies) = 0 /\ Len(done) = 0 /\ done = << >> /\ state = "idle"
  BY DEF Init
<1>2. [i \in 1..(Len(bodies) - Len(done)) |-> Len(done) + i] = << >>
  BY <1>1
<1>3. [i \in DOMAIN done |-> IF done[i] = Body(i) THEN i ELSE 0] = << >>
  BY <1>1
<1> QED  BY <1>1, <1>2, <1>3 DEF Chan!Init

\* The bodies that a reader returns are those written, whole, in order and each once,
\* until one side gives up: the stream with its pieces implements the channel of messages.
THEOREM StreamImplementsChannel == Spec => ImplementsChannel
<1>1. DeliveryInv /\ DeliveryInv' /\ [Next]_vars => [Chan!Next]_Chan!vars
  BY StepOfChannel
<1>2. Init => Chan!Init
  BY InitOfChannel
<1> QED  BY <1>1, <1>2, DeliveryInvariant, PTL DEF Spec, ImplementsChannel, Chan!Spec

-----------------------------------------------------------------------------
(* Sequences: those that are written and read are functions from 1 on.       *)

\* A set that holds 0 and the successor of all it holds has every natural number: else
\* "plus 1" would map its members below one that is missing into themselves, one to one
\* but not onto.
LEMMA NaturalsAreReached ==
  ASSUME NEW Q, 0 \in Q, \A n \in Nat : n \in Q => n + 1 \in Q
  PROVE  Nat \subseteq Q
<1> SUFFICES ASSUME NEW n \in Nat, n \notin Q PROVE FALSE
  OBVIOUS
<1> DEFINE S == {x \in 0..n : x \in Q}
<1> DEFINE f == [x \in S |-> x + 1]
<1>1. IsFiniteSet(S)
  <2>1. IsFiniteSet(0..n)
    BY FS_Interval
  <2>2. S \in SUBSET (0..n)
    OBVIOUS
  <2> HIDE DEF S
  <2> QED  BY <2>1, <2>2, FS_Subset
<1>2. f \in [S -> S] /\ \A a, b \in S : f[a] = f[b] => a = b
  <2>1. \A x \in S : x + 1 \in S
    OBVIOUS
  <2> QED  BY <2>1
<1>3. f \in Injection(S, S)
  BY <1>2 DEF Injection, IsInjective
<1>4. f \in Surjection(S, S)
  <2> HIDE DEF f, S
  <2> QED  BY <1>1, <1>3, FS_Injection
<1>5. PICK x \in S : f[x] = 0
  <2>1. 0 \in S
    OBVIOUS
  <2> QED  BY <1>4, <2>1 DEF Surjection
<1> QED  BY <1>5

-----------------------------------------------------------------------------
(* Sequences of elements of any kind.                                       *)

\* A sequence over a set is one.
LEMMA SeqIs ==
  ASSUME NEW S, NEW s \in Seq(S)
  PROVE  IsSeq(s) /\ Len(s) \in Nat /\ DOMAIN s = 1..Len(s)
<1>1. Len(s) \in Nat /\ DOMAIN s = 1..Len(s) /\ s = [i \in 1..Len(s) |-> s[i]]
  BY LenProperties
<1>2. s \in Seq({s[i] : i \in DOMAIN s})
  <2> DEFINE R == {s[i] : i \in DOMAIN s}
  <2>1. \A i \in 1..Len(s) : s[i] \in R
    BY <1>1
  <2> HIDE DEF R
  <2>2. [i \in 1..Len(s) |-> s[i]] \in Seq(R)
    BY <1>1, <2>1, IsASeq
  <2>3. s \in Seq(R)
    BY <1>1, <2>2
  <2> QED  BY <2>3 DEF R
<1> QED  BY <1>1, <1>2 DEF IsSeq

\* Its length and its indices.
LEMMA SeqHas ==
  ASSUME NEW s, IsSeq(s)
  PROVE  Len(s) \in Nat /\ DOMAIN s = 1..Len(s) /\ (s = << >> <=> Len(s) = 0)
<1> DEFINE R == {s[i] : i \in DOMAIN s}
<1>1. s \in Seq(R)
  BY DEF IsSeq
<1> HIDE DEF R
<1> QED  BY <1>1, LenProperties, EmptySeq

\* One sequence behind another.
LEMMA CatIs ==
  ASSUME NEW s, NEW t, IsSeq(s), IsSeq(t)
  PROVE  /\ IsSeq(s \o t) /\ Len(s \o t) = Len(s) + Len(t)
         /\ \A i \in 1..Len(s) : (s \o t)[i] = s[i]
         /\ \A i \in 1..Len(t) : (s \o t)[Len(s) + i] = t[i]
<1> DEFINE R == {s[i] : i \in DOMAIN s} \cup {t[i] : i \in DOMAIN t}
<1>1. s \in Seq(R) /\ t \in Seq(R)
  <2>1. s \in Seq({s[i] : i \in DOMAIN s}) /\ t \in Seq({t[i] : i \in DOMAIN t})
    BY DEF IsSeq
  <2>2. {s[i] : i \in DOMAIN s} \subseteq R /\ {t[i] : i \in DOMAIN t} \subseteq R
    OBVIOUS
  <2> HIDE DEF R
  <2> QED  BY <2>1, <2>2, SeqMonotonic
<1> HIDE DEF R
<1>2. /\ s \o t \in Seq(R) /\ Len(s \o t) = Len(s) + Len(t)
      /\ \A i \in 1..(Len(s) + Len(t)) : (s \o t)[i] = IF i <= Len(s) THEN s[i] ELSE t[i - Len(s)]
  BY <1>1, ConcatProperties
<1>3. Len(s) \in Nat /\ Len(t) \in Nat
  BY <1>1, LenProperties
<1>4. \A i \in 1..Len(s) : (s \o t)[i] = s[i]
  BY <1>2, <1>3
<1>5. ASSUME NEW i \in 1..Len(t) PROVE (s \o t)[Len(s) + i] = t[i]
  <2>1. Len(s) + i \in 1..(Len(s) + Len(t)) /\ ~(Len(s) + i <= Len(s)) /\ Len(s) + i - Len(s) = i
    BY <1>3
  <2> QED  BY <1>2, <2>1
<1>6. IsSeq(s \o t)
  BY <1>2, SeqIs
<1> QED  BY <1>2, <1>4, <1>5, <1>6

\* One element behind a sequence.
LEMMA OneIs ==
  ASSUME NEW e
  PROVE  IsSeq(<<e>>) /\ Len(<<e>>) = 1 /\ << e >>[1] = e
<1>1. << e >> \in Seq({e})
  OBVIOUS
<1>2. IsSeq(<<e>>)
  BY <1>1, SeqIs
<1> QED  BY <1>2

\* Append is a concatenation.
LEMMA AppendIs ==
  ASSUME NEW s, NEW e, IsSeq(s)
  PROVE  Append(s, e) = s \o <<e>>
<1> DEFINE R == {s[i] : i \in DOMAIN s} \cup {e}
<1>1. s \in Seq(R) /\ e \in R
  <2>1. s \in Seq({s[i] : i \in DOMAIN s})
    BY DEF IsSeq
  <2>2. {s[i] : i \in DOMAIN s} \subseteq R
    OBVIOUS
  <2> HIDE DEF R
  <2>3. s \in Seq(R)
    BY <2>1, <2>2, SeqMonotonic
  <2> QED  BY <2>3 DEF R
<1> HIDE DEF R
<1> QED  BY <1>1, AppendIsConcat

\* Without its head.
LEMMA TailIs ==
  ASSUME NEW s, IsSeq(s), s # << >>
  PROVE  /\ IsSeq(Tail(s)) /\ Len(Tail(s)) = Len(s) - 1 /\ Head(s) = s[1]
         /\ \A i \in 1..(Len(s) - 1) : Tail(s)[i] = s[i + 1]
<1> DEFINE R == {s[i] : i \in DOMAIN s}
<1>1. s \in Seq(R)
  BY DEF IsSeq
<1> HIDE DEF R
<1>2. Tail(s) \in Seq(R) /\ Len(Tail(s)) = Len(s) - 1 /\ Head(s) = s[1]
      /\ \A i \in 1..(Len(s) - 1) : Tail(s)[i] = s[i + 1]
  BY <1>1, HeadTailProperties
<1>3. IsSeq(Tail(s))
  BY <1>2, SeqIs
<1> QED  BY <1>2, <1>3

\* A function on 1..n is a list.
LEMMA FunIs ==
  ASSUME NEW n \in Nat, NEW f, f = [i \in 1..n |-> f[i]]
  PROVE  IsSeq(f) /\ Len(f) = n /\ DOMAIN f = 1..n
<1> DEFINE R == {f[i] : i \in 1..n}
<1>1. \A i \in 1..n : f[i] \in R
  OBVIOUS
<1> HIDE DEF R
<1>2. [i \in 1..n |-> f[i]] \in Seq(R)
  BY <1>1, IsASeq
<1>3. f \in Seq(R) /\ DOMAIN f = 1..n
  BY <1>2, Zenon
<1>4. IsSeq(f) /\ Len(f) \in Nat /\ DOMAIN f = 1..Len(f)
  BY <1>3, SeqIs
<1> QED  BY <1>3, <1>4, LenProperties

-----------------------------------------------------------------------------
(* Lists put one behind the other.                                          *)

\* The lists up to each one, joined.
Joined(seqs, n, f) == f = [i \in 1..n |-> IF i = 1 THEN seqs[i] ELSE f[i - 1] \o seqs[i]]

\* There is such a function for every number of lists.
LEMMA JoinedExists ==
  ASSUME NEW seqs
  PROVE  \A n \in Nat : \E f : Joined(seqs, n, f)
<1> DEFINE Q == {n \in Nat : \E f : Joined(seqs, n, f)}
<1>1. 0 \in Q
  <2> DEFINE f == [i \in 1..0 |-> seqs[i]]
  <2>1. \A i \in 1..0 : FALSE
    OBVIOUS
  <2>2. f = [i \in 1..0 |-> IF i = 1 THEN seqs[i] ELSE f[i - 1] \o seqs[i]]
    BY Zenon, <2>1
  <2>3. Joined(seqs, 0, f)
    BY Zenon, <2>2 DEF Joined
  <2> QED  BY <2>3
<1>2. ASSUME NEW n \in Nat, n \in Q PROVE n + 1 \in Q
  <2>1. PICK f : Joined(seqs, n, f)
    BY <1>2
  <2> DEFINE g == [i \in 1..(n + 1) |-> IF i \in 1..n THEN f[i]
                                       ELSE IF i = 1 THEN seqs[i] ELSE f[i - 1] \o seqs[i]]
  <2>2. ASSUME NEW i \in 1..(n + 1)
        PROVE  g[i] = IF i = 1 THEN seqs[i] ELSE g[i - 1] \o seqs[i]
    <3>1. CASE i \in 1..n
      <4>1. f[i] = IF i = 1 THEN seqs[i] ELSE f[i - 1] \o seqs[i]
        BY Zenon, <2>1, <3>1 DEF Joined
      <4>2. CASE i = 1
        BY Zenon, <3>1, <4>1, <4>2
      <4>3. CASE i # 1
        <5>1. i - 1 \in 1..n /\ i - 1 \in 1..(n + 1)
          BY <3>1, <4>3
        <5>2. g[i - 1] = f[i - 1] /\ g[i] = f[i]
          BY Zenon, <3>1, <5>1
        <5> HIDE DEF g
        <5> QED  BY Zenon, <4>1, <4>3, <5>2
      <4> QED  BY <4>2, <4>3
    <3>2. CASE i \notin 1..n
      <4>1. CASE i = 1
        BY Zenon, <3>2, <4>1
      <4>2. CASE i # 1
        <5>1. i - 1 \in 1..n /\ i - 1 \in 1..(n + 1)
          BY <3>2, <4>2
        <5>2. g[i - 1] = f[i - 1] /\ g[i] = f[i - 1] \o seqs[i]
          BY Zenon, <3>2, <4>2, <5>1
        <5> HIDE DEF g
        <5> QED  BY Zenon, <4>2, <5>2
      <4> QED  BY <4>1, <4>2
    <3> QED  BY <3>1, <3>2
  <2>3. g = [i \in 1..(n + 1) |-> g[i]]
    BY Zenon
  <2> HIDE DEF g
  <2>4. g = [i \in 1..(n + 1) |-> IF i = 1 THEN seqs[i] ELSE g[i - 1] \o seqs[i]]
    BY Zenon, <2>2, <2>3
  <2>5. Joined(seqs, n + 1, g)
    BY Zenon, <2>4 DEF Joined
  <2> QED  BY <2>5
<1> HIDE DEF Q
<1>3. Nat \subseteq Q
  BY <1>1, <1>2, NaturalsAreReached
<1> QED  BY <1>3 DEF Q

\* FlattenSeq() is the last of them.
LEMMA FlattenIs ==
  ASSUME NEW seqs, NEW n \in Nat, n # 0, Len(seqs) = n
  PROVE  \E f : /\ FlattenSeq(seqs) = f[n] /\ f[1] = seqs[1]
                /\ \A i \in 1..(n - 1) : f[i + 1] = f[i] \o seqs[i + 1]
<1> DEFINE g == CHOOSE f : Joined(seqs, n, f)
<1>1. Joined(seqs, n, g)
  BY JoinedExists
<1>2. FlattenSeq(seqs) = g[n]
  <2>1. Len(seqs) # 0
    OBVIOUS
  <2>2. FlattenSeq(seqs) = (CHOOSE f : f = [i \in 1..Len(seqs) |->
                              IF i = 1 THEN seqs[i] ELSE f[i - 1] \o seqs[i]])[Len(seqs)]
    BY Zenon, <2>1 DEF FlattenSeq
  <2> QED  BY Zenon, <2>2 DEF Joined
<1> HIDE DEF g
<1>3. g = [i \in 1..n |-> IF i = 1 THEN seqs[i] ELSE g[i - 1] \o seqs[i]]
  BY Zenon, <1>1 DEF Joined
<1>4. \A i \in 1..n : g[i] = IF i = 1 THEN seqs[i] ELSE g[i - 1] \o seqs[i]
  BY Zenon, <1>3
<1>5. g[1] = seqs[1]
  <2>1. 1 \in 1..n
    OBVIOUS
  <2> QED  BY <1>4, <2>1
<1>6. ASSUME NEW i \in 1..(n - 1) PROVE g[i + 1] = g[i] \o seqs[i + 1]
  <2>1. i + 1 \in 1..n /\ i + 1 # 1 /\ (i + 1) - 1 = i
    OBVIOUS
  <2> QED  BY <1>4, <2>1
<1> QED  BY Zenon, <1>2, <1>5, <1>6


\* Two sequences of the same elements.
LEMMA SameSeq ==
  ASSUME NEW s, NEW t, IsSeq(s), IsSeq(t), Len(s) = Len(t), \A i \in 1..Len(s) : s[i] = t[i]
  PROVE  s = t
<1> DEFINE R == {s[i] : i \in DOMAIN s} \cup {t[i] : i \in DOMAIN t}
<1>1. s \in Seq(R) /\ t \in Seq(R)
  <2>1. s \in Seq({s[i] : i \in DOMAIN s}) /\ t \in Seq({t[i] : i \in DOMAIN t})
    BY DEF IsSeq
  <2>2. {s[i] : i \in DOMAIN s} \subseteq R /\ {t[i] : i \in DOMAIN t} \subseteq R
    OBVIOUS
  <2> HIDE DEF R
  <2> QED  BY <2>1, <2>2, SeqMonotonic
<1> HIDE DEF R
<1> QED  BY <1>1, SeqEqual
\* Three sequences in a row.
LEMMA CatAssoc ==
  ASSUME NEW s, NEW t, NEW u, IsSeq(s), IsSeq(t), IsSeq(u)
  PROVE  (s \o t) \o u = s \o (t \o u)
<1> DEFINE R == {s[i] : i \in DOMAIN s} \cup {t[i] : i \in DOMAIN t} \cup {u[i] : i \in DOMAIN u}
<1>1. s \in Seq(R) /\ t \in Seq(R) /\ u \in Seq(R)
  <2>1. /\ s \in Seq({s[i] : i \in DOMAIN s}) /\ t \in Seq({t[i] : i \in DOMAIN t})
        /\ u \in Seq({u[i] : i \in DOMAIN u})
    BY DEF IsSeq
  <2>2. /\ {s[i] : i \in DOMAIN s} \subseteq R /\ {t[i] : i \in DOMAIN t} \subseteq R
        /\ {u[i] : i \in DOMAIN u} \subseteq R
    OBVIOUS
  <2> HIDE DEF R
  <2> QED  BY <2>1, <2>2, SeqMonotonic
<1> HIDE DEF R
<1> QED  BY <1>1, ConcatAssociative

\* The empty sequence in a row.
LEMMA CatNone ==
  ASSUME NEW s, IsSeq(s)
  PROVE  << >> \o s = s /\ s \o << >> = s /\ IsSeq(<< >>)
<1>1. s \in Seq({s[i] : i \in DOMAIN s})
  BY DEF IsSeq
<1>2. << >> \in Seq({})
  OBVIOUS
<1>3. IsSeq(<< >>)
  BY <1>2, SeqIs
<1> QED  BY <1>1, <1>3, ConcatEmptySeq

\* The head and what is behind it.
LEMMA HeadOf ==
  ASSUME NEW e, NEW s, IsSeq(s)
  PROVE  /\ IsSeq(<< e >> \o s) /\ << e >> \o s # << >>
         /\ Head(<< e >> \o s) = e /\ Tail(<< e >> \o s) = s
<1> DEFINE R == {s[i] : i \in DOMAIN s} \cup {e}
<1>1. s \in Seq(R) /\ e \in R
  <2>1. s \in Seq({s[i] : i \in DOMAIN s})
    BY DEF IsSeq
  <2>2. {s[i] : i \in DOMAIN s} \subseteq R
    OBVIOUS
  <2> HIDE DEF R
  <2>3. s \in Seq(R)
    BY <2>1, <2>2, SeqMonotonic
  <2> QED  BY <2>3 DEF R
<1> HIDE DEF R
<1> DEFINE t == << e >> \o s
<1>2. IsSeq(t) /\ Len(t) = 1 + Len(s) /\ t[1] = e /\ \A i \in 1..Len(s) : t[1 + i] = s[i]
  <2>1. IsSeq(<< e >>) /\ Len(<< e >>) = 1 /\ << e >>[1] = e
    BY OneIs
  <2>2. 1 \in 1..1
    OBVIOUS
  <2> QED  BY <2>1, <2>2, CatIs
<1>3. Len(s) \in Nat
  BY SeqHas
<1> HIDE DEF t
<1>4. t # << >>
  BY <1>2, <1>3, SeqHas
<1>5. IsSeq(Tail(t)) /\ Len(Tail(t)) = Len(s) /\ Head(t) = e /\ \A i \in 1..Len(s) : Tail(t)[i] = t[i + 1]
  <2>1. /\ IsSeq(Tail(t)) /\ Len(Tail(t)) = Len(t) - 1 /\ Head(t) = t[1]
        /\ \A i \in 1..(Len(t) - 1) : Tail(t)[i] = t[i + 1]
    BY <1>2, <1>4, TailIs
  <2>2. Len(t) - 1 = Len(s)
    BY <1>2, <1>3
  <2> QED  BY <1>2, <2>1, <2>2
<1>6. Tail(t) = s
  <2>1. \A i \in 1..Len(s) : Tail(t)[i] = s[i]
    <3>1. \A i \in 1..Len(s) : 1 + i = i + 1
      BY <1>3
    <3> QED  BY Zenon, <1>2, <1>5, <3>1
  <2> QED  BY <1>5, <2>1, SameSeq
<1> QED  BY <1>2, <1>4, <1>5, <1>6 DEF t

\* FlattenSeq() grows by one list at a time.
LEMMA FlattenBy ==
  ASSUME NEW seqs, IsSeq(seqs), \A i \in 1..Len(seqs) : IsSeq(seqs[i])
  PROVE  \E f : /\ f[0] = << >> /\ f[Len(seqs)] = FlattenSeq(seqs)
                /\ \A i \in 0..(Len(seqs) - 1) : f[i + 1] = f[i] \o seqs[i + 1]
<1> DEFINE n == Len(seqs)
<1>1. n \in Nat /\ DOMAIN seqs = 1..n /\ (seqs = << >> <=> n = 0)
  BY SeqHas
<1> HIDE DEF n
<1>2. CASE n = 0
  <2>1. FlattenSeq(seqs) = << >>
    BY Zenon, <1>1, <1>2 DEF FlattenSeq, n
  <2> DEFINE f == [i \in 0..n |-> << >>]
  <2>2. f[0] = << >> /\ f[n] = << >> /\ \A i \in 0..(n - 1) : FALSE
    BY <1>2
  <2> HIDE DEF f
  <2> QED  BY <2>1, <2>2 DEF n
<1>3. CASE n # 0
  <2>1. PICK g : /\ FlattenSeq(seqs) = g[n] /\ g[1] = seqs[1]
                 /\ \A i \in 1..(n - 1) : g[i + 1] = g[i] \o seqs[i + 1]
    BY <1>1, <1>3, FlattenIs DEF n
  <2> DEFINE f == [i \in 0..n |-> IF i = 0 THEN << >> ELSE g[i]]
  <2>2. f[0] = << >> /\ \A i \in 1..n : f[i] = g[i]
    BY <1>1
  <2> HIDE DEF f
  <2>3. ASSUME NEW i \in 0..(n - 1) PROVE f[i + 1] = f[i] \o seqs[i + 1]
    <3>1. i + 1 \in 1..n
      BY <1>1
    <3>2. CASE i = 0
      <4>1. f[i + 1] = seqs[i + 1] /\ f[i] = << >> /\ IsSeq(seqs[i + 1])
        BY <2>1, <2>2, <3>1, <3>2 DEF n
      <4> QED  BY <4>1, CatNone
    <3>3. CASE i # 0
      <4>1. i \in 1..(n - 1) /\ i \in 1..n
        BY <1>1, <3>3
      <4> QED  BY <2>1, <2>2, <3>1, <4>1
    <3> QED  BY <3>2, <3>3
  <2>4. f[n] = FlattenSeq(seqs)
    BY <1>1, <1>3, <2>1, <2>2
  <2> QED  BY <2>2, <2>3, <2>4 DEF n
<1> QED  BY <1>2, <1>3

\* What is behind the first k parts of a stream.
Behind(parts, n, rest, suf) ==
  /\ suf[n] = rest
  /\ \A i \in 0..n : IsSeq(suf[i])
  /\ \A i \in 1..n : suf[i - 1] = parts[i] \o suf[i]

\* A stream grown part by part can be taken apart from its start.
LEMMA SuffixesOf ==
  ASSUME NEW parts, IsSeq(parts), \A i \in 1..Len(parts) : IsSeq(parts[i]),
         NEW f, f[0] = << >>, \A i \in 0..(Len(parts) - 1) : f[i + 1] = f[i] \o parts[i + 1],
         NEW rest, IsSeq(rest)
  PROVE  /\ IsSeq(f[Len(parts)])
         /\ \E suf : Behind(parts, Len(parts), rest, suf) /\ suf[0] = f[Len(parts)] \o rest
<1> DEFINE n == Len(parts)
<1>1. n \in Nat /\ DOMAIN parts = 1..n
  BY SeqHas
<1> DEFINE Q == {k \in Nat : k \in 0..n =>
                   IsSeq(f[k]) /\ \A r : IsSeq(r) => \E suf : Behind(parts, k, r, suf) /\ suf[0] = f[k] \o r}
<1>3. 0 \in Q
  <2> SUFFICES IsSeq(f[0]) /\ \A r : IsSeq(r) => \E suf : Behind(parts, 0, r, suf) /\ suf[0] = f[0] \o r
    OBVIOUS
  <2>1. IsSeq(f[0])
    BY CatNone
  <2>2. ASSUME NEW r, IsSeq(r) PROVE \E suf : Behind(parts, 0, r, suf) /\ suf[0] = f[0] \o r
    <3> DEFINE suf == [i \in 0..0 |-> r]
    <3>1. suf[0] = r /\ \A i \in 0..0 : IsSeq(suf[i])
      BY <2>2
    <3>2. \A i \in 1..0 : FALSE
      OBVIOUS
    <3> HIDE DEF suf
    <3>3. f[0] \o r = r
      BY <2>2, CatNone
    <3>4. Behind(parts, 0, r, suf)
      BY <3>1, <3>2 DEF Behind
    <3> QED  BY <3>1, <3>3, <3>4
  <2> QED  BY <2>1, <2>2
<1>4. ASSUME NEW k \in Nat, k \in Q PROVE k + 1 \in Q
  <2>0. k + 1 \in Nat
    OBVIOUS
  <2> SUFFICES ASSUME k + 1 \in 0..n
               PROVE  /\ IsSeq(f[k + 1])
                      /\ \A r : IsSeq(r) => \E suf : Behind(parts, k + 1, r, suf) /\ suf[0] = f[k + 1] \o r
    BY Zenon, <2>0
  <2>1. k \in 0..n /\ k \in 0..(n - 1) /\ k + 1 \in 1..n
    BY <1>1
  <2>2. IsSeq(f[k]) /\ \A r : IsSeq(r) => \E suf : Behind(parts, k, r, suf) /\ suf[0] = f[k] \o r
    BY <1>4, <2>1
  <2> DEFINE p == parts[k + 1]
  <2>3. IsSeq(p) /\ f[k + 1] = f[k] \o p
    BY <2>1
  <2> HIDE DEF p
  <2>4. IsSeq(f[k + 1])
    BY <2>2, <2>3, CatIs
  <2>6. IsSeq(f[k])
    BY <2>2
  <2>5. ASSUME NEW r, IsSeq(r) PROVE \E suf : Behind(parts, k + 1, r, suf) /\ suf[0] = f[k + 1] \o r
    <3>1. IsSeq(p \o r)
      BY <2>3, <2>5, CatIs
    <3>2. PICK s : Behind(parts, k, p \o r, s) /\ s[0] = f[k] \o (p \o r)
      BY <2>2, <3>1
    <3> DEFINE suf == [i \in 0..(k + 1) |-> IF i = k + 1 THEN r ELSE s[i]]
    <3>3. suf[k + 1] = r /\ \A i \in 0..k : suf[i] = s[i]
      OBVIOUS
    <3> HIDE DEF suf
    <3>4. ASSUME NEW i \in 0..(k + 1) PROVE IsSeq(suf[i])
      <4>1. i = k + 1 \/ i \in 0..k
        OBVIOUS
      <4> QED  BY <2>5, <3>2, <3>3, <4>1 DEF Behind
    <3>5. ASSUME NEW i \in 1..(k + 1) PROVE suf[i - 1] = parts[i] \o suf[i]
      <4>1. CASE i = k + 1
        <5>1. i - 1 = k /\ k \in 0..k
          BY <4>1
        <5>2. suf[i - 1] = p \o r
          BY <3>2, <3>3, <5>1 DEF Behind
        <5> QED  BY <3>3, <4>1, <5>2 DEF p
      <4>2. CASE i # k + 1
        <5>1. i \in 1..k /\ i \in 0..k /\ i - 1 \in 0..k
          BY <4>2
        <5> QED  BY <3>2, <3>3, <5>1 DEF Behind
      <4> QED  BY <4>1, <4>2
    <3>6. suf[0] = f[k + 1] \o r
      <4>1. f[k] \o (p \o r) = f[k + 1] \o r
        <5> DEFINE g == f[k]
        <5>1. IsSeq(g) /\ IsSeq(p) /\ IsSeq(r)
          BY <2>3, <2>5, <2>6
        <5> HIDE DEF g
        <5>2. (g \o p) \o r = g \o (p \o r)
          BY SMTT(120), <5>1, CatAssoc
        <5> QED  BY <2>3, <5>2 DEF g
      <4>2. 0 \in 0..k
        OBVIOUS
      <4> QED  BY <3>2, <3>3, <4>1, <4>2
    <3>7. Behind(parts, k + 1, r, suf)
      BY <3>3, <3>4, <3>5 DEF Behind
    <3> QED  BY <3>6, <3>7
  <2> QED  BY <2>4, <2>5
<1> HIDE DEF Q, n
<1>5. Nat \subseteq Q
  BY <1>3, <1>4, NaturalsAreReached
<1>6. n \in 0..n
  BY <1>1
<1>7. n \in Q
  BY <1>1, <1>5
<1>8. IsSeq(f[n]) /\ \A r : IsSeq(r) => \E suf : Behind(parts, n, r, suf) /\ suf[0] = f[n] \o r
  BY <1>6, <1>7 DEF Q
<1> QED  BY <1>8 DEF n

\* So can what FlattenSeq() makes.
LEMMA FlatSuffixes ==
  ASSUME NEW parts, IsSeq(parts), \A i \in 1..Len(parts) : IsSeq(parts[i]), NEW rest, IsSeq(rest)
  PROVE  /\ IsSeq(FlattenSeq(parts))
         /\ \E suf : Behind(parts, Len(parts), rest, suf) /\ suf[0] = FlattenSeq(parts) \o rest
<1>1. \E f : /\ f[0] = << >> /\ f[Len(parts)] = FlattenSeq(parts)
             /\ \A i \in 0..(Len(parts) - 1) : f[i + 1] = f[i] \o parts[i + 1]
  BY FlattenBy
<1>2. PICK f : /\ f[0] = << >> /\ f[Len(parts)] = FlattenSeq(parts)
               /\ \A i \in 0..(Len(parts) - 1) : f[i + 1] = f[i] \o parts[i + 1]
  BY <1>1
<1>3. /\ IsSeq(f[Len(parts)])
      /\ \E suf : Behind(parts, Len(parts), rest, suf) /\ suf[0] = f[Len(parts)] \o rest
  BY <1>2, SuffixesOf
<1> QED  BY <1>2, <1>3

-----------------------------------------------------------------------------
(* Reading what was written, an element at a time.                          *)

\* The first k elements.
FirstOf(x, k) == [i \in 1..k |-> x[i]]
LEMMA FirstAre ==
  ASSUME NEW x, IsSeq(x)
  PROVE  /\ FirstOf(x, 0) = << >> /\ FirstOf(x, Len(x)) = x
         /\ \A k \in 0..Len(x) : IsSeq(FirstOf(x, k)) /\ Len(FirstOf(x, k)) = k
         /\ \A k \in 0..(Len(x) - 1) : FirstOf(x, k + 1) = FirstOf(x, k) \o << x[k + 1] >>
<1> DEFINE n == Len(x)
<1>1. n \in Nat /\ DOMAIN x = 1..n
  BY SeqHas
<1> HIDE DEF n
<1>2. ASSUME NEW k \in 0..n
      PROVE  /\ IsSeq(FirstOf(x, k)) /\ Len(FirstOf(x, k)) = k
             /\ \A i \in 1..k : FirstOf(x, k)[i] = x[i]
  <2> DEFINE f == [i \in 1..k |-> x[i]]
  <2>1. \A i \in 1..k : f[i] = x[i]
    OBVIOUS
  <2>2. f = [i \in 1..k |-> f[i]]
    BY Zenon
  <2> HIDE DEF f
  <2>3. k \in Nat
    BY <1>1
  <2>4. IsSeq(f) /\ Len(f) = k
    BY <2>2, <2>3, FunIs
  <2> QED  BY <2>1, <2>4 DEF f, FirstOf
<1>3. FirstOf(x, 0) = << >>
  <2>1. 0 \in 0..n
    BY <1>1
  <2> DEFINE f == FirstOf(x, 0)
  <2>2. IsSeq(f) /\ Len(f) = 0
    BY <1>2, <2>1
  <2> HIDE DEF f
  <2>3. f = << >>
    BY <2>2, SeqHas
  <2> QED  BY <2>3 DEF f
<1>4. FirstOf(x, n) = x
  <2>1. n \in 0..n
    BY <1>1
  <2> DEFINE f == FirstOf(x, n)
  <2>2. IsSeq(f) /\ Len(f) = n /\ \A i \in 1..n : f[i] = x[i]
    BY <1>2, <2>1
  <2> HIDE DEF f
  <2>3. f = x
    BY <2>2, SameSeq DEF n
  <2> QED  BY <2>3 DEF f
<1>5. ASSUME NEW k \in 0..(n - 1) PROVE FirstOf(x, k + 1) = FirstOf(x, k) \o << x[k + 1] >>
  <2> DEFINE f == FirstOf(x, k)
  <2> DEFINE g == FirstOf(x, k + 1)
  <2> DEFINE e == x[k + 1]
  <2>1. k \in 0..n /\ k + 1 \in 0..n /\ k \in Nat
    BY <1>1
  <2>2. IsSeq(f) /\ Len(f) = k /\ \A i \in 1..k : f[i] = x[i]
    BY <1>2, <2>1
  <2>3. IsSeq(g) /\ Len(g) = k + 1 /\ \A i \in 1..(k + 1) : g[i] = x[i]
    BY <1>2, <2>1
  <2>4. IsSeq(<<e>>) /\ Len(<<e>>) = 1 /\ << e >>[1] = e
    BY OneIs
  <2>5. e = x[k + 1]
    OBVIOUS
  <2> HIDE DEF f, g, e
  <2>6. /\ IsSeq(f \o <<e>>) /\ Len(f \o <<e>>) = k + 1
        /\ \A i \in 1..k : (f \o <<e>>)[i] = f[i]
        /\ (f \o <<e>>)[k + 1] = e
    <3>1. 1 \in 1..1
      OBVIOUS
    <3>2. /\ IsSeq(f \o <<e>>) /\ Len(f \o <<e>>) = Len(f) + Len(<<e>>)
          /\ \A i \in 1..Len(f) : (f \o <<e>>)[i] = f[i]
          /\ \A i \in 1..Len(<<e>>) : (f \o <<e>>)[Len(f) + i] = << e >>[i]
      BY <2>2, <2>4, CatIs
    <3> QED  BY <2>2, <2>4, <3>1, <3>2
  <2>7. \A i \in 1..(k + 1) : g[i] = (f \o <<e>>)[i]
    <3> SUFFICES ASSUME NEW i \in 1..(k + 1) PROVE g[i] = (f \o <<e>>)[i]
      OBVIOUS
    <3>1. CASE i \in 1..k
      BY <2>2, <2>3, <2>6, <3>1
    <3>2. CASE i = k + 1
      BY <2>3, <2>5, <2>6, <3>2
    <3>3. i \in 1..k \/ i = k + 1
      BY <2>1
    <3> QED  BY <3>1, <3>2, <3>3
  <2>8. g = f \o <<e>>
    BY <2>3, <2>6, <2>7, SameSeq
  <2> QED  BY <2>8 DEF f, g, e
<1> QED  BY <1>2, <1>3, <1>4, <1>5 DEF n

\* A pair is one element behind the other.
LEMMA PairIs ==
  ASSUME NEW a, NEW b
  PROVE  <<a>> \o <<b>> = <<a, b>>
<1> DEFINE s == <<a>>
<1> DEFINE t == <<b>>
<1> DEFINE p == <<a, b>>
<1>1. /\ IsSeq(s) /\ Len(s) = 1 /\ s[1] = a
      /\ IsSeq(t) /\ Len(t) = 1 /\ t[1] = b
  BY OneIs
<1>2. p = [i \in 1..2 |-> p[i]] /\ p[1] = a /\ p[2] = b
  OBVIOUS
<1> HIDE DEF s, t, p
<1>3. IsSeq(p) /\ Len(p) = 2
  BY <1>2, FunIs
<1>4. /\ IsSeq(s \o t) /\ Len(s \o t) = Len(s) + Len(t)
      /\ \A i \in 1..Len(s) : (s \o t)[i] = s[i]
      /\ \A i \in 1..Len(t) : (s \o t)[Len(s) + i] = t[i]
  <2>1. IsSeq(s) /\ IsSeq(t)
    BY <1>1
  <2> QED  BY <2>1, CatIs
<1>5. (s \o t)[1] = a /\ (s \o t)[2] = b
  <2>1. 1 \in 1..1 /\ 1 + 1 = 2
    OBVIOUS
  <2> QED  BY <1>1, <1>4, <2>1
<1>6. \A i \in 1..2 : (s \o t)[i] = p[i]
  <2>1. \A i \in 1..2 : i = 1 \/ i = 2
    OBVIOUS
  <2> QED  BY <1>2, <1>5, <2>1
<1> DEFINE st == s \o t
<1>7. IsSeq(st) /\ Len(st) = 2 /\ \A i \in 1..2 : st[i] = p[i]
  BY <1>1, <1>4, <1>6
<1> HIDE DEF st
<1>8. st = p
  BY <1>3, <1>7, SameSeq
<1> QED  BY <1>8 DEF s, t, p, st

\* A sequence is the parts of one element each.
ElementsBehind(c, rest, suf) ==
  /\ suf[Len(c)] = rest /\ suf[0] = c \o rest
  /\ \A i \in 0..Len(c) : IsSeq(suf[i])
  /\ \A i \in 1..Len(c) : suf[i - 1] = << c[i] >> \o suf[i]
LEMMA ElementSuffixes ==
  ASSUME NEW c, IsSeq(c), NEW rest, IsSeq(rest)
  PROVE  \E suf : ElementsBehind(c, rest, suf)
<1> DEFINE n == Len(c)
<1>1. n \in Nat
  BY SeqHas
<1> HIDE DEF n
<1> DEFINE parts == [i \in 1..n |-> << c[i] >>]
<1> DEFINE f == [k \in 0..n |-> FirstOf(c, k)]
<1>2. IsSeq(parts) /\ Len(parts) = n
  <2>1. parts = [i \in 1..n |-> parts[i]]
    BY Zenon
  <2> HIDE DEF parts
  <2> QED  BY <1>1, <2>1, FunIs
<1>3. \A i \in 1..n : parts[i] = << c[i] >>
  OBVIOUS
<1>4. \A k \in 0..n : f[k] = FirstOf(c, k)
  OBVIOUS
<1> HIDE DEF parts, f
<1>5. \A i \in 1..n : IsSeq(parts[i])
  BY <1>3, OneIs
<1>6. /\ FirstOf(c, 0) = << >> /\ FirstOf(c, n) = c
      /\ \A k \in 0..(n - 1) : FirstOf(c, k + 1) = FirstOf(c, k) \o << c[k + 1] >>
  BY FirstAre DEF n
<1>7. f[0] = << >> /\ f[n] = c
  BY <1>1, <1>4, <1>6
<1>8. \A i \in 0..(n - 1) : f[i + 1] = f[i] \o parts[i + 1]
  <2> SUFFICES ASSUME NEW i \in 0..(n - 1) PROVE f[i + 1] = f[i] \o parts[i + 1]
    OBVIOUS
  <2>1. i \in 0..n /\ i + 1 \in 0..n /\ i + 1 \in 1..n
    BY <1>1
  <2>2. parts[i + 1] = << c[i + 1] >>
    BY Zenon, <1>3, <2>1
  <2>3. f[i] = FirstOf(c, i) /\ f[i + 1] = FirstOf(c, i + 1)
    BY Zenon, <1>4, <2>1
  <2>4. FirstOf(c, i + 1) = FirstOf(c, i) \o << c[i + 1] >>
    BY Zenon, <1>6
  <2> QED  BY Zenon, <2>2, <2>3, <2>4
<1>9. \E suf : Behind(parts, Len(parts), rest, suf) /\ suf[0] = f[Len(parts)] \o rest
  <2>1. \A i \in 1..Len(parts) : IsSeq(parts[i])
    BY <1>2, <1>5
  <2>2. \A i \in 0..(Len(parts) - 1) : f[i + 1] = f[i] \o parts[i + 1]
    BY <1>2, <1>8
  <2> QED  BY ZenonT(60), <1>2, <1>7, <2>1, <2>2, SuffixesOf
<1>10. PICK suf : Behind(parts, n, rest, suf) /\ suf[0] = c \o rest
  BY <1>2, <1>7, <1>9
<1>11. \A i \in 1..n : suf[i - 1] = << c[i] >> \o suf[i]
  BY Zenon, <1>3, <1>10 DEF Behind
<1>12. suf[n] = rest /\ \A i \in 0..n : IsSeq(suf[i])
  BY Zenon, <1>10 DEF Behind
<1>13. ElementsBehind(c, rest, suf)
  BY <1>10, <1>11, <1>12 DEF n, ElementsBehind
<1> QED  BY <1>13

\* Two functions that go on alike.
LEMMA ReadsThrough ==
  ASSUME NEW n \in Nat, NEW read, NEW at, read[0] = at[0],
         \A k \in 1..n : read[k - 1] = at[k - 1] => read[k] = at[k]
  PROVE  read[n] = at[n]
<1> DEFINE Q == {k \in Nat : k \in 0..n => read[k] = at[k]}
<1>1. 0 \in Q
  OBVIOUS
<1>2. ASSUME NEW k \in Nat, k \in Q PROVE k + 1 \in Q
  <2> SUFFICES ASSUME k + 1 \in 0..n PROVE read[k + 1] = at[k + 1]
    OBVIOUS
  <2>1. k \in 0..n /\ k + 1 \in 1..n /\ (k + 1) - 1 = k
    OBVIOUS
  <2>2. read[k] = at[k]
    BY <1>2, <2>1
  <2> QED  BY <2>1, <2>2
<1> HIDE DEF Q
<1>3. n \in Q
  BY <1>1, <1>2, NaturalsAreReached
<1>4. n \in 0..n
  OBVIOUS
<1> QED  BY <1>3, <1>4 DEF Q

\* An item of the width that is asked for.
LEMMA TakeCell ==
  ASSUME NEW k, NEW v, NEW rest, IsSeq(rest)
  PROVE  Take(k, << Cell(k, v) >> \o rest) = [v |-> v, in |-> rest]
<1> DEFINE c == Cell(k, v)
<1>1. c.w = k /\ c.v = v
  BY DEF Cell
<1> HIDE DEF c
<1> DEFINE s == << c >> \o rest
<1>2. s # << >> /\ Head(s) = c /\ Tail(s) = rest
  BY HeadOf
<1> HIDE DEF s
<1>3. Take(k, s) = [v |-> v, in |-> rest]
  BY <1>1, <1>2 DEF Take
<1> QED  BY <1>3 DEF s, c

\* What is taken into a list, element by element.
LEMMA ElementsTaken ==
  ASSUME NEW x, IsSeq(x), NEW suf, NEW k \in 1..Len(x)
  PROVE  AndElement([v |-> FirstOf(x, k - 1), in |-> suf[k - 1]], [v |-> x[k], in |-> suf[k]])
           = [v |-> FirstOf(x, k), in |-> suf[k]]
<1>1. Len(x) \in Nat
  BY SeqHas
<1> DEFINE j == k - 1
<1>2. j \in 0..(Len(x) - 1) /\ j \in 0..Len(x) /\ j + 1 = k
  BY <1>1
<1> DEFINE f == FirstOf(x, j)
<1>3. IsSeq(f) /\ FirstOf(x, k) = f \o << x[k] >>
  BY <1>2, FirstAre
<1> HIDE DEF f
<1>4. Append(f, x[k]) = FirstOf(x, k)
  BY <1>3, AppendIs
<1> QED  BY <1>4 DEF AndElement, f

\* The strings of a StringList.
StringsRead(n, in, f) ==
  f = [k \in 0..n |->
         IF k = 0 THEN Nothing(in)
         ELSE LET prev == f[k - 1] IN AndElement(prev, Take(Str, prev.in))]
LEMMA StringsReadIs ==
  ASSUME NEW n \in Nat, NEW in
  PROVE  TakeStrings(n, in) = (CHOOSE f : StringsRead(n, in, f))[n]
BY Zenon DEF TakeStrings, StringsRead

LEMMA StringsTaken ==
  ASSUME NEW x, IsSeq(x), NEW rest, IsSeq(rest)
  PROVE  TakeStrings(Len(x), [i \in DOMAIN x |-> Cell(Str, x[i])] \o rest) = [v |-> x, in |-> rest]
<1> DEFINE n == Len(x)
<1> DEFINE c == [i \in DOMAIN x |-> Cell(Str, x[i])]
<1> DEFINE in == c \o rest
<1>1. n \in Nat /\ DOMAIN x = 1..n
  BY SeqHas
<1>2. IsSeq(c) /\ Len(c) = n /\ \A i \in 1..n : c[i] = Cell(Str, x[i])
  <2>1. c = [i \in 1..n |-> c[i]] /\ \A i \in 1..n : c[i] = Cell(Str, x[i])
    BY Zenon, <1>1
  <2> HIDE DEF c
  <2> QED  BY <1>1, <2>1, FunIs
<1> HIDE DEF n, c
<1>3. PICK suf : /\ suf[n] = rest /\ suf[0] = in /\ \A i \in 0..n : IsSeq(suf[i])
                 /\ \A i \in 1..n : suf[i - 1] = << c[i] >> \o suf[i]
  <2>1. \E suf : ElementsBehind(c, rest, suf)
    BY <1>2, ElementSuffixes
  <2> QED  BY <1>2, <2>1 DEF ElementsBehind
<1> HIDE DEF in
<1>4. ASSUME NEW k \in 1..n
      PROVE  AndElement([v |-> FirstOf(x, k - 1), in |-> suf[k - 1]], Take(Str, suf[k - 1]))
               = [v |-> FirstOf(x, k), in |-> suf[k]]
  <2>1. IsSeq(suf[k])
    BY <1>1, <1>3
  <2> DEFINE s == suf[k]
  <2> DEFINE e == x[k]
  <2>2. suf[k - 1] = << Cell(Str, e) >> \o s
    BY <1>2, <1>3
  <2>3. Take(Str, << Cell(Str, e) >> \o s) = [v |-> e, in |-> s]
    <3> HIDE DEF s, e
    <3>1. IsSeq(s)
      BY <2>1 DEF s
    <3> QED  BY <3>1, TakeCell
  <2>4. Take(Str, suf[k - 1]) = [v |-> x[k], in |-> suf[k]]
    BY Zenon, <2>2, <2>3
  <2>5. AndElement([v |-> FirstOf(x, k - 1), in |-> suf[k - 1]], [v |-> x[k], in |-> suf[k]])
           = [v |-> FirstOf(x, k), in |-> suf[k]]
    BY <1>1, ElementsTaken DEF n
  <2> QED  BY Zenon, <2>4, <2>5
<1> DEFINE at == [k \in 0..n |-> [v |-> FirstOf(x, k), in |-> suf[k]]]
<1>5. at[0] = Nothing(in)
  <2>1. 0 \in 0..n /\ FirstOf(x, 0) = << >>
    BY <1>1, FirstAre
  <2> QED  BY <1>3, <2>1 DEF Nothing
<1>6. at[n] = [v |-> x, in |-> rest]
  <2>1. n \in 0..n /\ FirstOf(x, n) = x
    BY <1>1, FirstAre DEF n
  <2> QED  BY <1>3, <2>1
<1>7. ASSUME NEW k \in 1..n PROVE at[k] = AndElement(at[k - 1], Take(Str, at[k - 1].in))
  <2>1. k \in 0..n /\ k - 1 \in 0..n
    BY <1>1
  <2>2. /\ at[k] = [v |-> FirstOf(x, k), in |-> suf[k]]
        /\ at[k - 1] = [v |-> FirstOf(x, k - 1), in |-> suf[k - 1]]
    BY Zenon, <2>1
  <2> HIDE DEF at
  <2>3. at[k - 1].in = suf[k - 1]
    BY <2>2
  <2> QED  BY Zenon, <1>4, <2>2, <2>3
<1>8. at = [k \in 0..n |-> at[k]]
  BY Zenon
<1> HIDE DEF at
<1>9. StringsRead(n, in, at)
  <2>1. \A k \in 0..n : at[k] = IF k = 0 THEN Nothing(in)
                                ELSE LET prev == at[k - 1] IN AndElement(prev, Take(Str, prev.in))
    <3> SUFFICES ASSUME NEW k \in 0..n, k # 0
                 PROVE  at[k] = AndElement(at[k - 1], Take(Str, at[k - 1].in))
      BY <1>5
    <3>1. k \in 1..n
      OBVIOUS
    <3> QED  BY Zenon, <1>7, <3>1
  <2> QED  BY Zenon, <1>8, <2>1 DEF StringsRead
<1> DEFINE read == CHOOSE f : StringsRead(n, in, f)
<1>10. StringsRead(n, in, read)
  BY Zenon, <1>9
<1>11. TakeStrings(n, in) = read[n]
  BY <1>1, StringsReadIs
<1> HIDE DEF read
<1>12. \A k \in 0..n : read[k] = IF k = 0 THEN Nothing(in)
                                 ELSE LET prev == read[k - 1] IN AndElement(prev, Take(Str, prev.in))
  BY Zenon, <1>10 DEF StringsRead
<1>13. read[0] = at[0]
  <2>1. 0 \in 0..n
    BY <1>1
  <2>2. read[0] = Nothing(in)
    BY Zenon, <1>12, <2>1
  <2> QED  BY Zenon, <1>5, <2>2
<1>14. ASSUME NEW k \in 1..n, read[k - 1] = at[k - 1] PROVE read[k] = at[k]
  <2>1. k \in 0..n /\ k # 0
    BY <1>1
  <2>2. read[k] = AndElement(read[k - 1], Take(Str, read[k - 1].in))
    BY Zenon, <1>12, <2>1
  <2> QED  BY Zenon, <1>7, <1>14, <2>2
<1>15. read[n] = at[n]
  BY <1>1, <1>13, <1>14, ReadsThrough
<1> QED  BY <1>6, <1>11, <1>15 DEF n, in, c

-----------------------------------------------------------------------------
(* The items, the flat records, the lists and the parts of a message.       *)

\* An item is read as it was put.
LEMMA ItemTaken ==
  ASSUME NEW k, NEW x, k = Strings => IsSeq(x), NEW rest, IsSeq(rest)
  PROVE  IsSeq(PutItem(k, x)) /\ TakeItem(k, PutItem(k, x) \o rest) = [v |-> x, in |-> rest]
<1>1. CASE k # Strings
  <2>1. PutItem(k, x) = << Cell(k, x) >>
    BY <1>1 DEF PutItem
  <2>2. Take(k, << Cell(k, x) >> \o rest) = [v |-> x, in |-> rest]
    BY TakeCell
  <2>3. IsSeq(<< Cell(k, x) >>)
    BY OneIs
  <2> QED  BY Zenon, <1>1, <2>1, <2>2, <2>3 DEF TakeItem
<1>2. CASE k = Strings
  <2> DEFINE c == [i \in DOMAIN x |-> Cell(Str, x[i])]
  <2> DEFINE e == Cell(U32, Len(x))
  <2>1. IsSeq(c)
    <3>1. Len(x) \in Nat /\ DOMAIN x = 1..Len(x)
      BY <1>2, SeqHas
    <3>2. c = [i \in 1..Len(x) |-> c[i]]
      BY Zenon, <3>1
    <3> HIDE DEF c
    <3> QED  BY <3>1, <3>2, FunIs
  <2>2. TakeStrings(Len(x), c \o rest) = [v |-> x, in |-> rest]
    BY <1>2, StringsTaken
  <2>3. PutItem(k, x) = << e >> \o c
    BY <1>2 DEF PutItem
  <2>4. \A s : IsSeq(s) => Take(U32, << e >> \o s) = [v |-> Len(x), in |-> s]
    BY TakeCell
  <2> HIDE DEF c, e
  <2>5. IsSeq(<< e >>)
    BY OneIs
  <2>6. IsSeq(<< e >> \o c) /\ IsSeq(c \o rest)
    BY <2>1, <2>5, CatIs
  <2>7. (<< e >> \o c) \o rest = << e >> \o (c \o rest)
    <3> DEFINE g == << e >>
    <3>1. IsSeq(g)
      BY <2>5
    <3> HIDE DEF g
    <3>2. (g \o c) \o rest = g \o (c \o rest)
      BY SMTT(30), <2>1, <3>1, CatAssoc
    <3> QED  BY <3>2 DEF g
  <2>8. Take(U32, << e >> \o (c \o rest)) = [v |-> Len(x), in |-> c \o rest]
    BY Zenon, <2>4, <2>6
  <2>9. TakeItem(Strings, << e >> \o (c \o rest)) = TakeStrings(Len(x), c \o rest)
    <3> DEFINE s == << e >> \o (c \o rest)
    <3>1. Take(U32, s).v = Len(x) /\ Take(U32, s).in = c \o rest
      BY <2>8
    <3> HIDE DEF s
    <3>2. TakeItem(Strings, s) = TakeStrings(Len(x), c \o rest)
      BY Zenon, <3>1 DEF TakeItem
    <3> QED  BY <3>2 DEF s
  <2> QED  BY Zenon, <1>2, <2>2, <2>3, <2>6, <2>7, <2>9
<1> QED  BY <1>1, <1>2

\* The record of the first k fields.
NamesTo(schema, k) == {schema[i].f : i \in 1..k}
FieldsTo(schema, r, k) == [f \in NamesTo(schema, k) |-> r[f]]

\* Another field.
LEMMA FieldAdded ==
  ASSUME NEW schema, NEW r, NEW k \in Nat, k > 0, NEW a, NEW b
  PROVE  AndField(schema[k].f, [v |-> FieldsTo(schema, r, k - 1), in |-> a],
                  [v |-> r[schema[k].f], in |-> b])
           = [v |-> FieldsTo(schema, r, k), in |-> b]
<1> DEFINE f == schema[k].f
<1> DEFINE g == FieldsTo(schema, r, k - 1)
<1> DEFINE h == FieldsTo(schema, r, k)
<1> DEFINE N == NamesTo(schema, k - 1)
<1>1. NamesTo(schema, k) = N \cup {f}
  <2>1. 1..k = (1..(k - 1)) \cup {k}
    OBVIOUS
  <2> QED  BY Zenon, <2>1 DEF NamesTo
<1>2. g = [n \in N |-> r[n]] /\ h = [n \in N \cup {f} |-> r[n]]
  BY Zenon, <1>1 DEF FieldsTo
<1> HIDE DEF f, g, h, N
<1>3. With(g, f, r[f]) = h
  <2>1. DOMAIN g = N
    BY <1>2
  <2>2. \A n \in N \cup {f} : (IF n = f THEN r[f] ELSE g[n]) = r[n]
    BY <1>2
  <2>3. With(g, f, r[f]) = [n \in N \cup {f} |-> r[n]]
    BY Zenon, <2>1, <2>2 DEF With
  <2> QED  BY <1>2, <2>3
<1> QED  BY <1>3 DEF AndField, f, g, h

\* No field, and all of them.
LEMMA FieldsAre ==
  ASSUME NEW schema, NEW r, IsSeq(schema)
  PROVE  /\ FieldsTo(schema, r, 0) = << >>
         /\ FieldsTo(schema, r, Len(schema)) = [f \in Names(schema) |-> r[f]]
<1>1. NamesTo(schema, 0) = {}
  <2>1. 1..0 = {}
    OBVIOUS
  <2> QED  BY <2>1 DEF NamesTo
<1>2. NamesTo(schema, Len(schema)) = Names(schema)
  <2>1. DOMAIN schema = 1..Len(schema)
    BY SeqHas
  <2> QED  BY <2>1 DEF NamesTo, Names
<1>3. FieldsTo(schema, r, 0) = << >>
  BY <1>1 DEF FieldsTo
<1> QED  BY <1>2, <1>3 DEF FieldsTo

\* The fields of a flat record.
FlatRead(schema, in, f) ==
  f = [k \in 0..Len(schema) |->
         IF k = 0 THEN Nothing(in)
         ELSE LET prev == f[k - 1] IN AndField(schema[k].f, prev, TakeItem(schema[k].k, prev.in))]
LEMMA FlatReadIs ==
  ASSUME NEW schema, NEW in
  PROVE  TakeFlat(schema, in) = (CHOOSE f : FlatRead(schema, in, f))[Len(schema)]
BY Zenon DEF TakeFlat, FlatRead

LEMMA FlatTaken ==
  ASSUME NEW schema, IsSeq(schema), NEW r,
         \A i \in DOMAIN schema : schema[i].k = Strings => IsSeq(r[schema[i].f]),
         NEW rest, IsSeq(rest)
  PROVE  /\ IsSeq(PutFlat(schema, r))
         /\ TakeFlat(schema, PutFlat(schema, r) \o rest)
              = [v |-> [f \in Names(schema) |-> r[f]], in |-> rest]
<1> DEFINE n == Len(schema)
<1> DEFINE parts == [i \in DOMAIN schema |-> PutItem(schema[i].k, r[schema[i].f])]
<1> DEFINE in == PutFlat(schema, r) \o rest
<1>1. n \in Nat /\ DOMAIN schema = 1..n
  BY SeqHas
<1>2. /\ IsSeq(parts) /\ Len(parts) = n /\ FlattenSeq(parts) = PutFlat(schema, r)
      /\ \A i \in 1..n : parts[i] = PutItem(schema[i].k, r[schema[i].f])
  <2>1. parts = [i \in 1..n |-> parts[i]]
    BY Zenon, <1>1
  <2>2. \A i \in 1..n : parts[i] = PutItem(schema[i].k, r[schema[i].f])
    BY Zenon, <1>1
  <2>3. FlattenSeq(parts) = PutFlat(schema, r)
    BY Zenon DEF PutFlat
  <2> HIDE DEF parts, n
  <2> QED  BY <1>1, <2>1, <2>2, <2>3, FunIs
<1> HIDE DEF n, parts, in
<1>3. ASSUME NEW i \in 1..n, NEW s, IsSeq(s)
      PROVE  /\ IsSeq(parts[i])
             /\ TakeItem(schema[i].k, parts[i] \o s) = [v |-> r[schema[i].f], in |-> s]
  <2> DEFINE k == schema[i].k
  <2> DEFINE x == r[schema[i].f]
  <2>1. k = Strings => IsSeq(x)
    BY <1>1
  <2>2. parts[i] = PutItem(k, x)
    BY <1>2
  <2> HIDE DEF k, x
  <2>3. IsSeq(PutItem(k, x)) /\ TakeItem(k, PutItem(k, x) \o s) = [v |-> x, in |-> s]
    BY <1>3, <2>1, ItemTaken
  <2> QED  BY <2>2, <2>3 DEF k, x
<1>4. /\ IsSeq(PutFlat(schema, r))
      /\ \E suf : Behind(parts, n, rest, suf) /\ suf[0] = in
  <2>1. \A i \in 1..Len(parts) : IsSeq(parts[i])
    BY <1>2, <1>3
  <2>2. /\ IsSeq(FlattenSeq(parts))
        /\ \E suf : Behind(parts, Len(parts), rest, suf) /\ suf[0] = FlattenSeq(parts) \o rest
    BY <1>2, <2>1, FlatSuffixes
  <2> QED  BY <1>2, <2>2 DEF in
<1>5. PICK suf : Behind(parts, n, rest, suf) /\ suf[0] = in
  BY <1>4
<1> DEFINE at == [k \in 0..n |-> [v |-> FieldsTo(schema, r, k), in |-> suf[k]]]
<1>6. at[0] = Nothing(in)
  <2>1. 0 \in 0..n /\ FieldsTo(schema, r, 0) = << >>
    BY <1>1, FieldsAre
  <2> QED  BY <1>5, <2>1 DEF Nothing
<1>7. at[n] = [v |-> [f \in Names(schema) |-> r[f]], in |-> rest]
  <2>1. n \in 0..n /\ FieldsTo(schema, r, n) = [f \in Names(schema) |-> r[f]]
    BY <1>1, FieldsAre DEF n
  <2>2. suf[n] = rest
    BY <1>5 DEF Behind
  <2> QED  BY <2>1, <2>2
<1>8. ASSUME NEW k \in 1..n
      PROVE  at[k] = AndField(schema[k].f, at[k - 1], TakeItem(schema[k].k, at[k - 1].in))
  <2>1. k \in 0..n /\ k - 1 \in 0..n /\ k \in Nat /\ k > 0
    BY <1>1
  <2>2. /\ at[k] = [v |-> FieldsTo(schema, r, k), in |-> suf[k]]
        /\ at[k - 1] = [v |-> FieldsTo(schema, r, k - 1), in |-> suf[k - 1]]
    BY Zenon, <2>1
  <2> HIDE DEF at
  <2>3. at[k - 1].in = parts[k] \o suf[k] /\ IsSeq(suf[k])
    <3>1. suf[k - 1] = parts[k] \o suf[k] /\ IsSeq(suf[k])
      BY Zenon, <1>5, <2>1 DEF Behind
    <3>2. at[k - 1].in = suf[k - 1]
      BY <2>2
    <3> QED  BY Zenon, <3>1, <3>2
  <2>4. TakeItem(schema[k].k, parts[k] \o suf[k]) = [v |-> r[schema[k].f], in |-> suf[k]]
    BY Zenon, <1>3, <2>3
  <2>5. AndField(schema[k].f, [v |-> FieldsTo(schema, r, k - 1), in |-> suf[k - 1]],
                 [v |-> r[schema[k].f], in |-> suf[k]])
           = [v |-> FieldsTo(schema, r, k), in |-> suf[k]]
    BY <2>1, FieldAdded
  <2> QED  BY Zenon, <2>2, <2>3, <2>4, <2>5
<1>9. at = [k \in 0..n |-> at[k]]
  BY Zenon
<1> HIDE DEF at
<1>10. FlatRead(schema, in, at)
  <2>1. \A k \in 0..n : at[k] = IF k = 0 THEN Nothing(in)
                                ELSE LET prev == at[k - 1]
                                     IN AndField(schema[k].f, prev, TakeItem(schema[k].k, prev.in))
    <3> SUFFICES ASSUME NEW k \in 0..n, k # 0
                 PROVE  at[k] = AndField(schema[k].f, at[k - 1], TakeItem(schema[k].k, at[k - 1].in))
      BY <1>6
    <3>1. k \in 1..n
      OBVIOUS
    <3> QED  BY Zenon, <1>8, <3>1
  <2> QED  BY Zenon, <1>9, <2>1 DEF FlatRead, n
<1> DEFINE read == CHOOSE f : FlatRead(schema, in, f)
<1>11. FlatRead(schema, in, read)
  BY Zenon, <1>10
<1>12. TakeFlat(schema, in) = read[n]
  BY Zenon, FlatReadIs DEF n
<1> HIDE DEF read
<1>13. \A k \in 0..n : read[k] = IF k = 0 THEN Nothing(in)
                                 ELSE LET prev == read[k - 1]
                                      IN AndField(schema[k].f, prev, TakeItem(schema[k].k, prev.in))
  BY Zenon, <1>11 DEF FlatRead, n
<1>14. read[0] = at[0]
  BY <1>1, <1>6, <1>13
<1>15. ASSUME NEW k \in 1..n, read[k - 1] = at[k - 1] PROVE read[k] = at[k]
  <2>1. k \in 0..n /\ k # 0
    BY <1>1
  <2>2. read[k] = AndField(schema[k].f, read[k - 1], TakeItem(schema[k].k, read[k - 1].in))
    BY Zenon, <1>13, <2>1
  <2> QED  BY Zenon, <1>8, <1>15, <2>2
<1>16. read[n] = at[n]
  BY <1>1, <1>14, <1>15, ReadsThrough
<1> QED  BY <1>4, <1>7, <1>12, <1>16 DEF in

\* The records of a list.
ListRead(n, of, in, f) ==
  f = [k \in 0..n |->
         IF k = 0 THEN Nothing(in)
         ELSE LET prev == f[k - 1] IN AndElement(prev, TakeFlat(of, prev.in))]
LEMMA ListReadIs ==
  ASSUME NEW n \in Nat, NEW of, NEW in
  PROVE  TakeList(n, of, in) = (CHOOSE f : ListRead(n, of, in, f))[n]
BY Zenon DEF TakeList, ListRead

LEMMA ListTaken ==
  ASSUME NEW of, IsSeq(of), NEW x, AllFormed(of, x), NEW rest, IsSeq(rest)
  PROVE  /\ IsSeq(PutList(of, x))
         /\ TakeList(Len(x), of, PutList(of, x) \o rest) = [v |-> x, in |-> rest]
<1> DEFINE n == Len(x)
<1> DEFINE parts == [i \in DOMAIN x |-> PutFlat(of, x[i])]
<1> DEFINE in == PutList(of, x) \o rest
<1>1. IsSeq(x) /\ n \in Nat /\ DOMAIN x = 1..n
  BY SeqHas DEF AllFormed
<1>2. /\ IsSeq(parts) /\ Len(parts) = n /\ FlattenSeq(parts) = PutList(of, x)
      /\ \A i \in 1..n : parts[i] = PutFlat(of, x[i])
  <2>1. parts = [i \in 1..n |-> parts[i]]
    BY Zenon, <1>1
  <2>2. \A i \in 1..n : parts[i] = PutFlat(of, x[i])
    BY Zenon, <1>1
  <2>3. FlattenSeq(parts) = PutList(of, x)
    BY Zenon DEF PutList
  <2> HIDE DEF parts, n
  <2> QED  BY <1>1, <2>1, <2>2, <2>3, FunIs
<1> HIDE DEF n, parts, in
<1>3. ASSUME NEW i \in 1..n, NEW s, IsSeq(s)
      PROVE  IsSeq(parts[i]) /\ TakeFlat(of, parts[i] \o s) = [v |-> x[i], in |-> s]
  <2> DEFINE r == x[i]
  <2>1. Formed(of, r)
    BY <1>1 DEF AllFormed
  <2>2. parts[i] = PutFlat(of, r)
    BY <1>2
  <2> HIDE DEF r
  <2>3. \A j \in DOMAIN of : of[j].k = Strings => IsSeq(r[of[j].f])
    BY Zenon, <2>1 DEF Formed
  <2>4. /\ IsSeq(PutFlat(of, r))
        /\ TakeFlat(of, PutFlat(of, r) \o s) = [v |-> [f \in Names(of) |-> r[f]], in |-> s]
    BY <1>3, <2>3, FlatTaken
  <2>5. [f \in Names(of) |-> r[f]] = r
    BY Zenon, <2>1 DEF Formed
  <2> QED  BY Zenon, <2>2, <2>4, <2>5 DEF r
<1>4. /\ IsSeq(PutList(of, x))
      /\ \E suf : Behind(parts, n, rest, suf) /\ suf[0] = in
  <2>1. \A i \in 1..Len(parts) : IsSeq(parts[i])
    BY <1>2, <1>3
  <2>2. /\ IsSeq(FlattenSeq(parts))
        /\ \E suf : Behind(parts, Len(parts), rest, suf) /\ suf[0] = FlattenSeq(parts) \o rest
    BY <1>2, <2>1, FlatSuffixes
  <2> QED  BY <1>2, <2>2 DEF in
<1>5. PICK suf : Behind(parts, n, rest, suf) /\ suf[0] = in
  BY <1>4
<1> DEFINE at == [k \in 0..n |-> [v |-> FirstOf(x, k), in |-> suf[k]]]
<1>6. at[0] = Nothing(in)
  <2>1. 0 \in 0..n /\ FirstOf(x, 0) = << >>
    BY <1>1, FirstAre
  <2> QED  BY <1>5, <2>1 DEF Nothing
<1>7. at[n] = [v |-> x, in |-> rest]
  <2>1. n \in 0..n /\ FirstOf(x, n) = x
    BY <1>1, FirstAre DEF n
  <2>2. suf[n] = rest
    BY <1>5 DEF Behind
  <2> QED  BY <2>1, <2>2
<1>8. ASSUME NEW k \in 1..n PROVE at[k] = AndElement(at[k - 1], TakeFlat(of, at[k - 1].in))
  <2>1. k \in 0..n /\ k - 1 \in 0..n
    BY <1>1
  <2>2. /\ at[k] = [v |-> FirstOf(x, k), in |-> suf[k]]
        /\ at[k - 1] = [v |-> FirstOf(x, k - 1), in |-> suf[k - 1]]
    BY Zenon, <2>1
  <2> HIDE DEF at
  <2>3. at[k - 1].in = parts[k] \o suf[k] /\ IsSeq(suf[k])
    <3>1. suf[k - 1] = parts[k] \o suf[k] /\ IsSeq(suf[k])
      BY Zenon, <1>5, <2>1 DEF Behind
    <3>2. at[k - 1].in = suf[k - 1]
      BY <2>2
    <3> QED  BY Zenon, <3>1, <3>2
  <2>4. TakeFlat(of, parts[k] \o suf[k]) = [v |-> x[k], in |-> suf[k]]
    BY Zenon, <1>3, <2>3
  <2>5. AndElement([v |-> FirstOf(x, k - 1), in |-> suf[k - 1]], [v |-> x[k], in |-> suf[k]])
           = [v |-> FirstOf(x, k), in |-> suf[k]]
    BY <1>1, ElementsTaken DEF n
  <2> QED  BY Zenon, <2>2, <2>3, <2>4, <2>5
<1>9. at = [k \in 0..n |-> at[k]]
  BY Zenon
<1> HIDE DEF at
<1>10. ListRead(n, of, in, at)
  <2>1. \A k \in 0..n : at[k] = IF k = 0 THEN Nothing(in)
                                ELSE LET prev == at[k - 1] IN AndElement(prev, TakeFlat(of, prev.in))
    <3> SUFFICES ASSUME NEW k \in 0..n, k # 0
                 PROVE  at[k] = AndElement(at[k - 1], TakeFlat(of, at[k - 1].in))
      BY <1>6
    <3>1. k \in 1..n
      OBVIOUS
    <3> QED  BY Zenon, <1>8, <3>1
  <2> QED  BY Zenon, <1>9, <2>1 DEF ListRead
<1> DEFINE read == CHOOSE f : ListRead(n, of, in, f)
<1>11. ListRead(n, of, in, read)
  BY Zenon, <1>10
<1>12. TakeList(n, of, in) = read[n]
  BY <1>1, ListReadIs
<1> HIDE DEF read
<1>13. \A k \in 0..n : read[k] = IF k = 0 THEN Nothing(in)
                                 ELSE LET prev == read[k - 1] IN AndElement(prev, TakeFlat(of, prev.in))
  BY Zenon, <1>11 DEF ListRead
<1>14. read[0] = at[0]
  BY <1>1, <1>6, <1>13
<1>15. ASSUME NEW k \in 1..n, read[k - 1] = at[k - 1] PROVE read[k] = at[k]
  <2>1. k \in 0..n /\ k # 0
    BY <1>1
  <2>2. read[k] = AndElement(read[k - 1], TakeFlat(of, read[k - 1].in))
    BY Zenon, <1>13, <2>1
  <2> QED  BY Zenon, <1>8, <1>15, <2>2
<1>16. read[n] = at[n]
  BY <1>1, <1>14, <1>15, ReadsThrough
<1> QED  BY <1>4, <1>7, <1>12, <1>16 DEF in, n

\* A part of a message.
PartFormed(fd, x) ==
  IF fd.k \in {"list", "files"} THEN IsSeq(fd.of) /\ AllFormed(fd.of, x) ELSE fd.k = Strings => IsSeq(x)

LEMMA PartTaken ==
  ASSUME NEW fd, NEW x, PartFormed(fd, x), NEW rest, IsSeq(rest), NEW v,
         fd.k = "files" => v["m_NumSourceFiles"] = Len(x)
  PROVE  /\ IsSeq(PutPart(fd, x))
         /\ TakePart(fd, [v |-> v, in |-> PutPart(fd, x) \o rest]) = [v |-> x, in |-> rest]
<1>1. CASE fd.k = "list"
  <2> DEFINE e == Cell(U32, Len(x))
  <2> DEFINE c == PutList(fd.of, x)
  <2>1. IsSeq(fd.of) /\ AllFormed(fd.of, x)
    BY <1>1 DEF PartFormed
  <2>2. IsSeq(c) /\ TakeList(Len(x), fd.of, c \o rest) = [v |-> x, in |-> rest]
    BY <2>1, ListTaken
  <2>3. \A s : IsSeq(s) => Take(U32, << e >> \o s) = [v |-> Len(x), in |-> s]
    BY TakeCell
  <2>4. PutPart(fd, x) = << e >> \o c
    BY <1>1 DEF PutPart
  <2> DEFINE g == << e >>
  <2>5. IsSeq(g)
    BY OneIs
  <2> HIDE DEF c, e, g
  <2>6. IsSeq(g \o c) /\ IsSeq(c \o rest)
    BY <2>2, <2>5, CatIs
  <2>7. (g \o c) \o rest = g \o (c \o rest)
    BY SMTT(30), <2>2, <2>5, CatAssoc
  <2>8. Take(U32, g \o (c \o rest)) = [v |-> Len(x), in |-> c \o rest]
    BY Zenon, <2>3, <2>6 DEF g
  <2> DEFINE s == g \o (c \o rest)
  <2>9. Take(U32, s).v = Len(x) /\ Take(U32, s).in = c \o rest
    BY <2>8
  <2> HIDE DEF s
  <2>10. TakePart(fd, [v |-> v, in |-> s]) = TakeList(Len(x), fd.of, c \o rest)
    BY <1>1, <2>9 DEF TakePart
  <2>11. PutPart(fd, x) = g \o c
    BY Zenon, <2>4 DEF g
  <2> QED  BY Zenon, <2>2, <2>6, <2>7, <2>10, <2>11 DEF s
<1>2. CASE fd.k = "files"
  <2> DEFINE c == PutList(fd.of, x)
  <2>1. IsSeq(fd.of) /\ AllFormed(fd.of, x)
    BY <1>2 DEF PartFormed
  <2>2. IsSeq(c) /\ TakeList(Len(x), fd.of, c \o rest) = [v |-> x, in |-> rest]
    BY <2>1, ListTaken
  <2>3. PutPart(fd, x) = c
    BY <1>2 DEF PutPart
  <2> HIDE DEF c
  <2>4. TakePart(fd, [v |-> v, in |-> c \o rest]) = TakeList(Len(x), fd.of, c \o rest)
    BY <1>2 DEF TakePart
  <2> QED  BY Zenon, <2>2, <2>3, <2>4
<1>3. CASE fd.k # "list" /\ fd.k # "files"
  <2> DEFINE k == fd.k
  <2>1. k = Strings => IsSeq(x)
    BY <1>3 DEF PartFormed
  <2> HIDE DEF k
  <2>2. IsSeq(PutItem(k, x)) /\ TakeItem(k, PutItem(k, x) \o rest) = [v |-> x, in |-> rest]
    BY <2>1, ItemTaken
  <2>3. PutPart(fd, x) = PutItem(k, x)
    BY <1>3 DEF PutPart, k
  <2>4. \A s : TakePart(fd, [v |-> v, in |-> s]) = TakeItem(k, s)
    BY <1>3 DEF TakePart, k
  <2> QED  BY Zenon, <2>2, <2>3, <2>4
<1> QED  BY <1>1, <1>2, <1>3

\* The parts of a message.
FieldsRead(schema, in, f) ==
  f = [k \in 0..Len(schema) |->
         IF k = 0 THEN Nothing(in)
         ELSE LET prev == f[k - 1] IN AndField(schema[k].f, prev, TakePart(schema[k], prev))]
LEMMA FieldsReadIs ==
  ASSUME NEW schema, NEW in
  PROVE  TakeFields(schema, in) = (CHOOSE f : FieldsRead(schema, in, f))[Len(schema)]
BY Zenon DEF TakeFields, FieldsRead

\* The number of the files is read before them.
BodyFormed(schema, r) ==
  /\ IsSeq(schema) /\ \A i \in DOMAIN schema : PartFormed(schema[i], r[schema[i].f])
  /\ \A i \in DOMAIN schema : schema[i].k = "files" =>
       /\ "m_NumSourceFiles" \in NamesTo(schema, i - 1)
       /\ r["m_NumSourceFiles"] = Len(r[schema[i].f])

LEMMA BodyTaken ==
  ASSUME NEW schema, NEW r, BodyFormed(schema, r)
  PROVE  /\ IsSeq(Put(schema, r))
         /\ TakeFields(schema, Put(schema, r)) = [v |-> [f \in Names(schema) |-> r[f]], in |-> << >>]
<1> DEFINE n == Len(schema)
<1> DEFINE parts == [i \in DOMAIN schema |-> PutPart(schema[i], r[schema[i].f])]
<1> DEFINE in == Put(schema, r)
<1>1. IsSeq(schema) /\ n \in Nat /\ DOMAIN schema = 1..n
  BY SeqHas DEF BodyFormed
<1>2. /\ IsSeq(parts) /\ Len(parts) = n /\ FlattenSeq(parts) = in
      /\ \A i \in 1..n : parts[i] = PutPart(schema[i], r[schema[i].f])
  <2>1. parts = [i \in 1..n |-> parts[i]]
    BY Zenon, <1>1
  <2>2. \A i \in 1..n : parts[i] = PutPart(schema[i], r[schema[i].f])
    BY Zenon, <1>1
  <2>3. FlattenSeq(parts) = in
    BY Zenon DEF Put
  <2> HIDE DEF parts, n, in
  <2> QED  BY <1>1, <2>1, <2>2, <2>3, FunIs
<1> HIDE DEF n, parts, in
<1>3. ASSUME NEW i \in 1..n, NEW s, IsSeq(s)
      PROVE  /\ IsSeq(parts[i])
             /\ TakePart(schema[i], [v |-> FieldsTo(schema, r, i - 1), in |-> parts[i] \o s])
                  = [v |-> r[schema[i].f], in |-> s]
  <2> DEFINE fd == schema[i]
  <2> DEFINE x == r[fd.f]
  <2> DEFINE v == FieldsTo(schema, r, i - 1)
  <2>1. PartFormed(fd, x)
    BY <1>1 DEF BodyFormed
  <2>2. parts[i] = PutPart(fd, x)
    BY <1>2
  <2>3. fd.k = "files" => v["m_NumSourceFiles"] = Len(x)
    BY <1>1 DEF BodyFormed, FieldsTo
  <2> HIDE DEF fd, x, v
  <2>4. /\ IsSeq(PutPart(fd, x))
        /\ TakePart(fd, [v |-> v, in |-> PutPart(fd, x) \o s]) = [v |-> x, in |-> s]
    BY <1>3, <2>1, <2>3, PartTaken
  <2> QED  BY Zenon, <2>2, <2>4 DEF fd, x, v
<1>4. IsSeq(in) /\ \E suf : Behind(parts, n, << >>, suf) /\ suf[0] = in
  <2>1. \A i \in 1..Len(parts) : IsSeq(parts[i])
    BY <1>2, <1>3, CatNone
  <2>2. IsSeq(<< >>)
    BY <1>1, CatNone
  <2> DEFINE none == << >>
  <2> HIDE DEF none
  <2>3. /\ IsSeq(FlattenSeq(parts))
        /\ \E suf : Behind(parts, Len(parts), none, suf) /\ suf[0] = FlattenSeq(parts) \o none
    <3>1. IsSeq(none)
      BY <2>2 DEF none
    <3> QED  BY <1>2, <2>1, <3>1, FlatSuffixes
  <2>4. in \o << >> = in
    BY <1>2, <2>3, CatNone
  <2> QED  BY <1>2, <2>3, <2>4 DEF none
<1>5. PICK suf : Behind(parts, n, << >>, suf) /\ suf[0] = in
  BY <1>4
<1> DEFINE at == [k \in 0..n |-> [v |-> FieldsTo(schema, r, k), in |-> suf[k]]]
<1>6. at[0] = Nothing(in)
  <2>1. 0 \in 0..n /\ FieldsTo(schema, r, 0) = << >>
    BY <1>1, FieldsAre
  <2> QED  BY <1>5, <2>1 DEF Nothing
<1>7. at[n] = [v |-> [f \in Names(schema) |-> r[f]], in |-> << >>]
  <2>1. n \in 0..n /\ FieldsTo(schema, r, n) = [f \in Names(schema) |-> r[f]]
    BY <1>1, FieldsAre DEF n
  <2>2. suf[n] = << >>
    BY <1>5 DEF Behind
  <2> QED  BY <2>1, <2>2
<1>8. ASSUME NEW k \in 1..n
      PROVE  at[k] = AndField(schema[k].f, at[k - 1], TakePart(schema[k], at[k - 1]))
  <2>1. k \in 0..n /\ k - 1 \in 0..n /\ k \in Nat /\ k > 0
    BY <1>1
  <2>2. /\ at[k] = [v |-> FieldsTo(schema, r, k), in |-> suf[k]]
        /\ at[k - 1] = [v |-> FieldsTo(schema, r, k - 1), in |-> suf[k - 1]]
    BY Zenon, <2>1
  <2> HIDE DEF at
  <2>3. suf[k - 1] = parts[k] \o suf[k] /\ IsSeq(suf[k])
    BY Zenon, <1>5, <2>1 DEF Behind
  <2>4. TakePart(schema[k], at[k - 1]) = [v |-> r[schema[k].f], in |-> suf[k]]
    BY Zenon, <1>3, <2>2, <2>3
  <2>5. AndField(schema[k].f, [v |-> FieldsTo(schema, r, k - 1), in |-> suf[k - 1]],
                 [v |-> r[schema[k].f], in |-> suf[k]])
           = [v |-> FieldsTo(schema, r, k), in |-> suf[k]]
    BY <2>1, FieldAdded
  <2> QED  BY Zenon, <2>2, <2>4, <2>5
<1>9. at = [k \in 0..n |-> at[k]]
  BY Zenon
<1> HIDE DEF at
<1>10. FieldsRead(schema, in, at)
  <2>1. \A k \in 0..n : at[k] = IF k = 0 THEN Nothing(in)
                                ELSE LET prev == at[k - 1]
                                     IN AndField(schema[k].f, prev, TakePart(schema[k], prev))
    <3> SUFFICES ASSUME NEW k \in 0..n, k # 0
                 PROVE  at[k] = AndField(schema[k].f, at[k - 1], TakePart(schema[k], at[k - 1]))
      BY <1>6
    <3>1. k \in 1..n
      OBVIOUS
    <3> QED  BY Zenon, <1>8, <3>1
  <2> QED  BY Zenon, <1>9, <2>1 DEF FieldsRead, n
<1> DEFINE read == CHOOSE f : FieldsRead(schema, in, f)
<1>11. FieldsRead(schema, in, read)
  BY Zenon, <1>10
<1>12. TakeFields(schema, in) = read[n]
  BY Zenon, FieldsReadIs DEF n
<1> HIDE DEF read
<1>13. \A k \in 0..n : read[k] = IF k = 0 THEN Nothing(in)
                                 ELSE LET prev == read[k - 1]
                                      IN AndField(schema[k].f, prev, TakePart(schema[k], prev))
  BY Zenon, <1>11 DEF FieldsRead, n
<1>14. read[0] = at[0]
  BY <1>1, <1>6, <1>13
<1>15. ASSUME NEW k \in 1..n, read[k - 1] = at[k - 1] PROVE read[k] = at[k]
  <2>1. k \in 0..n /\ k # 0
    BY <1>1
  <2>2. read[k] = AndField(schema[k].f, read[k - 1], TakePart(schema[k], read[k - 1]))
    BY Zenon, <1>13, <2>1
  <2> QED  BY Zenon, <1>8, <1>15, <2>2
<1>16. read[n] = at[n]
  BY <1>1, <1>14, <1>15, ReadsThrough
<1> QED  BY <1>4, <1>7, <1>12, <1>16 DEF in

-----------------------------------------------------------------------------
(* Whole messages.                                                          *)

\* A message of these fields and its type.
MessageFormed(schema, m) ==
  "t" \notin Names(schema) /\ m = [f \in {"t"} \cup Names(schema) |-> m[f]] /\ BodyFormed(schema, m)

LEMMA Typed ==
  ASSUME NEW schema, NEW m, MessageFormed(schema, m)
  PROVE  With([f \in Names(schema) |-> m[f]], "t", m.t) = m
<1> DEFINE N == Names(schema)
<1> DEFINE g == [f \in N |-> m[f]]
<1>1. DOMAIN g = N /\ \A f \in N : g[f] = m[f]
  OBVIOUS
<1>2. m = [f \in N \cup {"t"} |-> m[f]]
  <2>1. {"t"} \cup N = N \cup {"t"}
    OBVIOUS
  <2> QED  BY Zenon, <2>1 DEF MessageFormed
<1>3. m.t = m["t"]
  OBVIOUS
<1> HIDE DEF N, g
<1>4. \A f \in N \cup {"t"} : (IF f = "t" THEN m.t ELSE g[f]) = m[f]
  BY <1>1, <1>3
<1>5. With(g, "t", m.t) = m
  BY Zenon, <1>1, <1>2, <1>4 DEF With
<1> QED  BY Zenon, <1>5 DEF g, N

LEMMA DaemonDecodes ==
  ASSUME NEW m, NEW schema, DaemonReads(m.t) = schema, MessageFormed(schema, m)
  PROVE  ReadByDaemon(<<Cell(U32, m.t)>> \o Put(schema, m)) = [m |-> m, left |-> << >>]
<1> DEFINE in == <<Cell(U32, m.t)>> \o Put(schema, m)
<1> DEFINE body == [f \in Names(schema) |-> m[f]]
<1>1. /\ IsSeq(Put(schema, m))
      /\ TakeFields(schema, Put(schema, m)) = [v |-> body, in |-> << >>]
  BY BodyTaken DEF MessageFormed
<1>2. Take(U32, in) = [v |-> m.t, in |-> Put(schema, m)]
  BY <1>1, TakeCell
<1>3. Take(U32, in).v = m.t /\ Take(U32, in).in = Put(schema, m)
  <2> HIDE DEF in
  <2> QED  BY <1>2
<1>4. With(body, "t", m.t) = m
  BY Typed
<1> HIDE DEF in, body
<1>5. ReadByDaemon(in) = [m |-> With(TakeFields(schema, Put(schema, m)).v, "t", m.t),
                          left |-> TakeFields(schema, Put(schema, m)).in]
  BY Zenon, <1>3 DEF ReadByDaemon, Decode
<1>6. ReadByDaemon(in) = [m |-> m, left |-> << >>]
  BY <1>1, <1>4, <1>5
<1> QED  BY <1>6 DEF in

LEMMA ClientDecodes ==
  ASSUME NEW m, NEW schema, ClientReads(m.t) = schema, MessageFormed(schema, m)
  PROVE  ReadByClient(<<Cell(U32, m.t)>> \o Put(schema, m)) = [m |-> m, left |-> << >>]
<1> DEFINE in == <<Cell(U32, m.t)>> \o Put(schema, m)
<1> DEFINE body == [f \in Names(schema) |-> m[f]]
<1>1. /\ IsSeq(Put(schema, m))
      /\ TakeFields(schema, Put(schema, m)) = [v |-> body, in |-> << >>]
  BY BodyTaken DEF MessageFormed
<1>2. Take(U32, in) = [v |-> m.t, in |-> Put(schema, m)]
  BY <1>1, TakeCell
<1>3. Take(U32, in).v = m.t /\ Take(U32, in).in = Put(schema, m)
  <2> HIDE DEF in
  <2> QED  BY <1>2
<1>4. With(body, "t", m.t) = m
  BY Typed
<1> HIDE DEF in, body
<1>5. ReadByClient(in) = [m |-> With(TakeFields(schema, Put(schema, m)).v, "t", m.t),
                          left |-> TakeFields(schema, Put(schema, m)).in]
  BY Zenon, <1>3 DEF ReadByClient, Decode
<1>6. ReadByClient(in) = [m |-> m, left |-> << >>]
  BY <1>1, <1>4, <1>5
<1> QED  BY <1>6 DEF in

\* Each end lists the fields the other does, of the same widths and in the same order.
ClientTypes == {"REQUEST_PLATFORM", "REQUEST_STACK", "REQUEST_SYNC_N_START_LUA", "NOTIFY_BREAKPOINTS",
                "REQUEST_VM_RESUME", "REQUEST_ECHO_DATA"} \cup Variables
DaemonTypes == {"REPLY_PLATFORM", "REPLY_STACK", "NOTIFY_SCRIPT_LOADED", "NOTIFY_VM_SUSPENDED",
                "NOTIFY_SESSION_ENDED", "NOTIFY_SYNC_FAILED", "REPLY_ECHO_DATA"}
               \cup {ReplyTo[v] : v \in Variables}

LEMMA SchemasAgree ==
  /\ \A t \in ClientTypes : DaemonReads(t) = ClientWrites(t)
  /\ \A t : ClientReads(t) = DaemonWrites(t)
<1>1. /\ PlatformIn = PlatformOut /\ SuspendIn = SuspendOut /\ LevelIn = LevelOut
      /\ StartupIn = StartupOut /\ RequestIn = RequestOut
  BY Zenon DEF PlatformIn, PlatformOut, SuspendIn, SuspendOut, LevelIn, LevelOut, StartupIn, StartupOut,
               RequestIn, RequestOut
<1>2. U32 = S32
  BY DEF U32, S32
<1>3. CollectedIn = CollectedOut
  BY Zenon, <1>2 DEF CollectedIn, CollectedOut
<1>4. FileIn = FileOut
  BY Zenon, <1>2 DEF FileIn, FileOut
<1>5. \A t : ClientReads(t) = DaemonWrites(t)
  BY Zenon, <1>1, <1>3 DEF ClientReads, DaemonWrites
<1>6. ASSUME NEW t \in ClientTypes PROVE DaemonReads(t) = ClientWrites(t)
  <2>1. CASE t = "REQUEST_SYNC_N_START_LUA"
    BY <1>1, <1>4, <2>1 DEF DaemonReads, ClientWrites
  <2>2. CASE t \in Variables
    BY <1>1, <2>2 DEF DaemonReads, ClientWrites, Variables
  <2>3. CASE t \in {"REQUEST_PLATFORM", "REQUEST_STACK", "NOTIFY_BREAKPOINTS", "REQUEST_VM_RESUME",
                    "REQUEST_ECHO_DATA"}
    BY <2>3 DEF DaemonReads, ClientWrites, Variables
  <2> QED  BY <2>1, <2>2, <2>3 DEF ClientTypes
<1> QED  BY <1>5, <1>6

\* These are the fields of a schema without lists, and these of them string lists.
HasFields(schema, names, strings) ==
  /\ IsSeq(schema) /\ Names(schema) = names
  /\ \A i \in DOMAIN schema : schema[i].k \notin {"list", "files"}
  /\ \A i \in DOMAIN schema : schema[i].k = Strings => schema[i].f \in strings

LEMMA PlatformSchema ==
  HasFields(PlatformOut,
            {"m_OS", "m_Architecture", "m_Hostname", "m_Lua", "m_LuaNum", "m_LuaJIT", "m_LuaJITNum"},
            {})
<1> DEFINE s == PlatformOut
<1>1. s = [i \in 1..7 |-> s[i]] /\ DOMAIN s = 1..7
  BY DEF PlatformOut
<1>2. /\ s[1].f = "m_OS" /\ s[2].f = "m_Architecture" /\ s[3].f = "m_Hostname" /\ s[4].f = "m_Lua"
      /\ s[5].f = "m_LuaNum" /\ s[6].f = "m_LuaJIT" /\ s[7].f = "m_LuaJITNum"
  BY DEF PlatformOut, Field
<1>3. /\ s[1].k # Strings /\ s[2].k # Strings /\ s[3].k # Strings /\ s[4].k # Strings
      /\ s[5].k # Strings /\ s[6].k # Strings /\ s[7].k # Strings
  BY DEF PlatformOut, Field, Strings, Str, U32
<1>4. /\ s[1].k \notin {"list", "files"} /\ s[2].k \notin {"list", "files"}
      /\ s[3].k \notin {"list", "files"} /\ s[4].k \notin {"list", "files"}
      /\ s[5].k \notin {"list", "files"} /\ s[6].k \notin {"list", "files"}
      /\ s[7].k \notin {"list", "files"}
  BY DEF PlatformOut, Field, Str, U32
<1> HIDE DEF s
<1>5. IsSeq(s)
  BY <1>1, FunIs
<1> QED  BY <1>1, <1>2, <1>3, <1>4, <1>5 DEF s, Names, HasFields

LEMMA SuspendSchema ==
  HasFields(SuspendOut,
            {"m_Source", "m_Line", "m_ErrorString"},
            {})
<1> DEFINE s == SuspendOut
<1>1. s = [i \in 1..3 |-> s[i]] /\ DOMAIN s = 1..3
  BY DEF SuspendOut
<1>2. /\ s[1].f = "m_Source" /\ s[2].f = "m_Line" /\ s[3].f = "m_ErrorString"
  BY DEF SuspendOut, Field
<1>3. /\ s[1].k # Strings /\ s[2].k # Strings /\ s[3].k # Strings
  BY DEF SuspendOut, Field, Strings, S32, Str
<1>4. /\ s[1].k \notin {"list", "files"} /\ s[2].k \notin {"list", "files"}
      /\ s[3].k \notin {"list", "files"}
  BY DEF SuspendOut, Field, S32, Str
<1> HIDE DEF s
<1>5. IsSeq(s)
  BY <1>1, FunIs
<1> QED  BY <1>1, <1>2, <1>3, <1>4, <1>5 DEF s, Names, HasFields

LEMMA LevelSchema ==
  HasFields(LevelOut,
            {"m_CFlag", "m_SourceFileName", "m_FunctionName", "m_Line", "m_nFixedArguments",
            "m_nUpValues", "m_FunctionArguments", "m_AltFunctionName"},
            {"m_FunctionArguments"})
<1> DEFINE s == LevelOut
<1>1. s = [i \in 1..8 |-> s[i]] /\ DOMAIN s = 1..8
  BY DEF LevelOut
<1>2. /\ s[1].f = "m_CFlag" /\ s[2].f = "m_SourceFileName" /\ s[3].f = "m_FunctionName"
      /\ s[4].f = "m_Line" /\ s[5].f = "m_nFixedArguments" /\ s[6].f = "m_nUpValues"
      /\ s[7].f = "m_FunctionArguments" /\ s[8].f = "m_AltFunctionName"
  BY DEF LevelOut, Field
<1>3. /\ s[1].k # Strings /\ s[2].k # Strings /\ s[3].k # Strings /\ s[4].k # Strings
      /\ s[5].k # Strings /\ s[6].k # Strings /\ s[7].k = Strings /\ s[8].k # Strings
  BY DEF LevelOut, Field, Strings, Bool, S32, Str
<1>4. /\ s[1].k \notin {"list", "files"} /\ s[2].k \notin {"list", "files"}
      /\ s[3].k \notin {"list", "files"} /\ s[4].k \notin {"list", "files"}
      /\ s[5].k \notin {"list", "files"} /\ s[6].k \notin {"list", "files"}
      /\ s[7].k \notin {"list", "files"} /\ s[8].k \notin {"list", "files"}
  BY DEF LevelOut, Field, Bool, S32, Str, Strings
<1> HIDE DEF s
<1>5. IsSeq(s)
  BY <1>1, FunIs
<1> QED  BY <1>1, <1>2, <1>3, <1>4, <1>5 DEF s, Names, HasFields

LEMMA CollectedSchema ==
  HasFields(CollectedOut,
            {"m_RootOffset", "m_KeyS", "m_Type", "m_ExpandedFlag", "m_HasMetaTableFlag",
            "m_TemporaryFlag", "m_ValS", "m_Indent", "m_Path", "m_Scope", "m_LineStart", "m_LineEnd"},
            {})
<1> DEFINE s == CollectedOut
<1>1. s = [i \in 1..12 |-> s[i]] /\ DOMAIN s = 1..12
  BY DEF CollectedOut
<1>2. /\ s[1].f = "m_RootOffset" /\ s[2].f = "m_KeyS" /\ s[3].f = "m_Type"
      /\ s[4].f = "m_ExpandedFlag" /\ s[5].f = "m_HasMetaTableFlag" /\ s[6].f = "m_TemporaryFlag"
      /\ s[7].f = "m_ValS" /\ s[8].f = "m_Indent" /\ s[9].f = "m_Path" /\ s[10].f = "m_Scope"
      /\ s[11].f = "m_LineStart" /\ s[12].f = "m_LineEnd"
  BY DEF CollectedOut, Field
<1>3. /\ s[1].k # Strings /\ s[2].k # Strings /\ s[3].k # Strings /\ s[4].k # Strings
      /\ s[5].k # Strings /\ s[6].k # Strings /\ s[7].k # Strings /\ s[8].k # Strings
      /\ s[9].k # Strings /\ s[10].k # Strings /\ s[11].k # Strings /\ s[12].k # Strings
  BY DEF CollectedOut, Field, Strings, Bool, I16, S32, Str, U32
<1>4. /\ s[1].k \notin {"list", "files"} /\ s[2].k \notin {"list", "files"}
      /\ s[3].k \notin {"list", "files"} /\ s[4].k \notin {"list", "files"}
      /\ s[5].k \notin {"list", "files"} /\ s[6].k \notin {"list", "files"}
      /\ s[7].k \notin {"list", "files"} /\ s[8].k \notin {"list", "files"}
      /\ s[9].k \notin {"list", "files"} /\ s[10].k \notin {"list", "files"}
      /\ s[11].k \notin {"list", "files"} /\ s[12].k \notin {"list", "files"}
  BY DEF CollectedOut, Field, Bool, I16, S32, Str, U32
<1> HIDE DEF s
<1>5. IsSeq(s)
  BY <1>1, FunIs
<1> QED  BY <1>1, <1>2, <1>3, <1>4, <1>5 DEF s, Names, HasFields

LEMMA FileSchema ==
  HasFields(FileOut,
            {"m_Name", "m_Ext", "m_NumLines", "m_BinData"},
            {})
<1> DEFINE s == FileOut
<1>1. s = [i \in 1..4 |-> s[i]] /\ DOMAIN s = 1..4
  BY DEF FileOut
<1>2. /\ s[1].f = "m_Name" /\ s[2].f = "m_Ext" /\ s[3].f = "m_NumLines" /\ s[4].f = "m_BinData"
  BY DEF FileOut, Field
<1>3. /\ s[1].k # Strings /\ s[2].k # Strings /\ s[3].k # Strings /\ s[4].k # Strings
  BY DEF FileOut, Field, Strings, S32, Str
<1>4. /\ s[1].k \notin {"list", "files"} /\ s[2].k \notin {"list", "files"}
      /\ s[3].k \notin {"list", "files"} /\ s[4].k \notin {"list", "files"}
  BY DEF FileOut, Field, S32, Str
<1> HIDE DEF s
<1>5. IsSeq(s)
  BY <1>1, FunIs
<1> QED  BY <1>1, <1>2, <1>3, <1>4, <1>5 DEF s, Names, HasFields

LEMMA StartupSchema ==
  HasFields(StartupOut,
            {"m_Source", "m_Function", "m_JITFlag", "m_LoadBreakFlag", "m_NumSourceFiles"},
            {})
<1> DEFINE s == StartupOut
<1>1. s = [i \in 1..5 |-> s[i]] /\ DOMAIN s = 1..5
  BY DEF StartupOut
<1>2. /\ s[1].f = "m_Source" /\ s[2].f = "m_Function" /\ s[3].f = "m_JITFlag"
      /\ s[4].f = "m_LoadBreakFlag" /\ s[5].f = "m_NumSourceFiles"
  BY DEF StartupOut, Field
<1>3. /\ s[1].k # Strings /\ s[2].k # Strings /\ s[3].k # Strings /\ s[4].k # Strings
      /\ s[5].k # Strings
  BY DEF StartupOut, Field, Strings, Bool, Str, U32
<1>4. /\ s[1].k \notin {"list", "files"} /\ s[2].k \notin {"list", "files"}
      /\ s[3].k \notin {"list", "files"} /\ s[4].k \notin {"list", "files"}
      /\ s[5].k \notin {"list", "files"}
  BY DEF StartupOut, Field, Bool, Str, U32
<1> HIDE DEF s
<1>5. IsSeq(s)
  BY <1>1, FunIs
<1> QED  BY <1>1, <1>2, <1>3, <1>4, <1>5 DEF s, Names, HasFields

LEMMA RequestSchema ==
  HasFields(RequestOut,
            {"m_RequesterID", "m_StackLevel", "m_ExpandedTables", "m_VarFlags", "m_WatchNameList"},
            {"m_ExpandedTables", "m_WatchNameList"})
<1> DEFINE s == RequestOut
<1>1. s = [i \in 1..5 |-> s[i]] /\ DOMAIN s = 1..5
  BY DEF RequestOut
<1>2. /\ s[1].f = "m_RequesterID" /\ s[2].f = "m_StackLevel" /\ s[3].f = "m_ExpandedTables"
      /\ s[4].f = "m_VarFlags" /\ s[5].f = "m_WatchNameList"
  BY DEF RequestOut, Field
<1>3. /\ s[1].k # Strings /\ s[2].k # Strings /\ s[3].k = Strings /\ s[4].k # Strings
      /\ s[5].k = Strings
  BY DEF RequestOut, Field, Strings, S32, U32
<1>4. /\ s[1].k \notin {"list", "files"} /\ s[2].k \notin {"list", "files"}
      /\ s[3].k \notin {"list", "files"} /\ s[4].k \notin {"list", "files"}
      /\ s[5].k \notin {"list", "files"}
  BY DEF RequestOut, Field, S32, Strings, U32
<1> HIDE DEF s
<1>5. IsSeq(s)
  BY <1>1, FunIs
<1> QED  BY <1>1, <1>2, <1>3, <1>4, <1>5 DEF s, Names, HasFields

LEMMA OneField ==
  ASSUME NEW f, NEW k, k \notin {"list", "files"}, NEW strings, k = Strings => f \in strings
  PROVE  HasFields(<<Field(f, k)>>, {f}, strings)
<1> DEFINE e == Field(f, k)
<1> DEFINE s == << e >>
<1>1. e.f = f /\ e.k = k
  BY DEF Field
<1> HIDE DEF e
<1>2. IsSeq(s) /\ DOMAIN s = 1..1 /\ s[1] = e
  BY OneIs
<1> HIDE DEF s
<1>3. \A i \in 1..1 : i = 1
  OBVIOUS
<1>4. Names(s) = {f}
  BY <1>1, <1>2, <1>3 DEF Names
<1>5. HasFields(s, {f}, strings)
  BY <1>1, <1>2, <1>3, <1>4 DEF HasFields
<1> QED  BY <1>5 DEF s, e

LEMMA EchoSchema == HasFields(<<Field("sz", U32), Field("data", Str)>>, {"sz", "data"}, {})
<1> DEFINE s == <<Field("sz", U32), Field("data", Str)>>
<1>1. s = [i \in 1..2 |-> s[i]] /\ DOMAIN s = 1..2
  OBVIOUS
<1>2. s[1].f = "sz" /\ s[2].f = "data"
  BY DEF Field
<1>3. /\ s[1].k # Strings /\ s[2].k # Strings
      /\ s[1].k \notin {"list", "files"} /\ s[2].k \notin {"list", "files"}
  BY DEF Field, U32, Str, Strings
<1> HIDE DEF s
<1>4. IsSeq(s)
  BY <1>1, FunIs
<1>5. HasFields(s, {"sz", "data"}, {})
  BY <1>1, <1>2, <1>3, <1>4 DEF Names, HasFields
<1> QED  BY <1>5 DEF s

LEMMA NoField == HasFields(<< >>, {}, {})
<1> DEFINE s == << >>
<1>1. s \in Seq({}) /\ DOMAIN s = {}
  OBVIOUS
<1> HIDE DEF s
<1>2. IsSeq(s)
  BY <1>1, SeqIs
<1>3. HasFields(s, {}, {})
  BY <1>1, <1>2 DEF Names, HasFields
<1> QED  BY <1>3 DEF s

\* A message, and a record of a list, of such fields.
LEMMA FlatMessage ==
  ASSUME NEW schema, NEW names, NEW strings, HasFields(schema, names, strings),
         "t" \notin names, NEW m, m = [f \in {"t"} \cup names |-> m[f]], \A f \in strings : IsSeq(m[f])
  PROVE  MessageFormed(schema, m)
<1>1. IsSeq(schema) /\ Names(schema) = names
  BY DEF HasFields
<1>2. m = [f \in {"t"} \cup Names(schema) |-> m[f]] /\ "t" \notin Names(schema)
  BY Zenon, <1>1
<1>3. ASSUME NEW i \in DOMAIN schema
      PROVE  /\ PartFormed(schema[i], m[schema[i].f])
             /\ schema[i].k # "files"
  <2>1. schema[i].k \notin {"list", "files"} /\ (schema[i].k = Strings => schema[i].f \in strings)
    BY <1>3 DEF HasFields
  <2>2. schema[i].k = Strings => IsSeq(m[schema[i].f])
    BY Zenon, <2>1
  <2>3. schema[i].k # "files"
    BY <2>1
  <2> QED  BY Zenon, <2>1, <2>2, <2>3 DEF PartFormed
<1>4. BodyFormed(schema, m)
  BY Zenon, <1>1, <1>3 DEF BodyFormed
<1> QED  BY Zenon, <1>2, <1>4 DEF MessageFormed

LEMMA PlainFields ==
  ASSUME NEW schema, NEW names, HasFields(schema, names, {}),
         "t" \notin names, NEW m, m = [f \in {"t"} \cup names |-> m[f]]
  PROVE  MessageFormed(schema, m)
<1> DEFINE none == {}
<1>1. HasFields(schema, names, none) /\ \A f \in none : IsSeq(m[f])
  OBVIOUS
<1> HIDE DEF none
<1> QED  BY <1>1, FlatMessage

LEMMA RecordFormed ==
  ASSUME NEW schema, NEW names, NEW strings, HasFields(schema, names, strings),
         NEW r, r = [f \in names |-> r[f]], \A f \in strings : IsSeq(r[f])
  PROVE  Formed(schema, r)
<1>1. Names(schema) = names
  BY DEF HasFields
<1>2. r = [f \in Names(schema) |-> r[f]]
  BY Zenon, <1>1
<1>3. \A i \in DOMAIN schema : schema[i].k = Strings => IsSeq(r[schema[i].f])
  BY Zenon DEF HasFields
<1> QED  BY Zenon, <1>2, <1>3 DEF Formed

\* A message with a list behind other fields.
Counted(fd, names, m) ==
  fd.k = "files" => "m_NumSourceFiles" \in names /\ m["m_NumSourceFiles"] = Len(m[fd.f])
LEMMA ListMessage ==
  ASSUME NEW schema, NEW names, HasFields(schema, names, {}), NEW fd, fd.k \in {"list", "files"},
         "t" \notin names \cup {fd.f}, IsSeq(fd.of), NEW m, m = [f \in {"t"} \cup names \cup {fd.f} |-> m[f]],
         AllFormed(fd.of, m[fd.f]),
         Counted(fd, names, m)
  PROVE  /\ MessageFormed(schema \o <<fd>>, m)
         /\ Names(schema \o <<fd>>) = names \cup {fd.f}
<1> DEFINE s == schema \o <<fd>>
<1> DEFINE n == Len(schema)
<1>1. IsSeq(schema) /\ Names(schema) = names /\ n \in Nat /\ DOMAIN schema = 1..n
  BY SeqHas DEF HasFields
<1>2. /\ IsSeq(s) /\ Len(s) = n + 1
      /\ \A i \in 1..n : s[i] = schema[i]
      /\ s[n + 1] = fd
  <2>1. IsSeq(<<fd>>) /\ Len(<<fd>>) = 1 /\ << fd >>[1] = fd /\ 1 \in 1..1
    BY OneIs
  <2> DEFINE o == <<fd>>
  <2>2. /\ IsSeq(schema \o o) /\ Len(schema \o o) = Len(schema) + Len(o)
        /\ \A i \in 1..Len(schema) : (schema \o o)[i] = schema[i]
        /\ \A i \in 1..Len(o) : (schema \o o)[Len(schema) + i] = o[i]
    <3>1. IsSeq(o)
      BY <2>1
    <3> HIDE DEF o
    <3> QED  BY <1>1, <3>1, CatIs
  <2>3. s[n + 1] = fd
    BY <2>1, <2>2
  <2> QED  BY <2>1, <2>2, <2>3
<1> HIDE DEF s, n
<1>3. DOMAIN s = 1..(n + 1)
  BY <1>1, <1>2, SeqHas
<1>4. Names(s) = names \cup {fd.f}
  <2>1. \A i \in 1..(n + 1) : i \in 1..n \/ i = n + 1
    BY <1>1
  <2>2. \A i \in 1..n : i \in 1..(n + 1)
    BY <1>1
  <2>3. n + 1 \in 1..(n + 1)
    BY <1>1
  <2> QED  BY <1>1, <1>2, <1>3, <2>1, <2>2, <2>3 DEF Names
<1>5. m = [f \in {"t"} \cup Names(s) |-> m[f]] /\ "t" \notin Names(s)
  <2>1. {"t"} \cup Names(s) = {"t"} \cup names \cup {fd.f}
    BY <1>4
  <2> QED  BY Zenon, <1>4, <2>1
<1>6. PartFormed(fd, m[fd.f])
  BY DEF PartFormed
<1>7. ASSUME NEW i \in 1..n PROVE PartFormed(schema[i], m[schema[i].f]) /\ schema[i].k # "files"
  <2>1. schema[i].k \notin {"list", "files"} /\ (schema[i].k = Strings => schema[i].f \in {})
    BY <1>1 DEF HasFields
  <2>2. schema[i].k # Strings /\ schema[i].k # "files"
    BY <2>1
  <2> QED  BY Zenon, <2>1, <2>2 DEF PartFormed
<1>8. ASSUME NEW i \in DOMAIN s PROVE PartFormed(s[i], m[s[i].f])
  <2>1. i \in 1..n \/ i = n + 1
    BY <1>1, <1>3
  <2> QED  BY Zenon, <1>2, <1>6, <1>7, <2>1
<1>9. ASSUME NEW i \in DOMAIN s, s[i].k = "files"
      PROVE  "m_NumSourceFiles" \in NamesTo(s, i - 1) /\ m["m_NumSourceFiles"] = Len(m[s[i].f])
  <2>1. i \in 1..n \/ i = n + 1
    BY <1>1, <1>3
  <2>2. i = n + 1 /\ s[i] = fd
    BY Zenon, <1>2, <1>7, <1>9, <2>1
  <2>3. (n + 1) - 1 = n
    BY <1>1
  <2>4. NamesTo(s, n) = names
    <3>1. NamesTo(s, n) = {schema[j].f : j \in 1..n}
      BY <1>2 DEF NamesTo
    <3> QED  BY Zenon, <1>1, <3>1 DEF Names
  <2> QED  BY <1>9, <2>2, <2>3, <2>4 DEF Counted
<1>10. BodyFormed(s, m)
  BY Zenon, <1>2, <1>8, <1>9 DEF BodyFormed
<1> QED  BY Zenon, <1>4, <1>5, <1>10 DEF MessageFormed, s

-----------------------------------------------------------------------------
(* The messages that are sent.                                              *)

ClientMessage(m) == m.t \in ClientTypes /\ MessageFormed(ClientWrites(m.t), m)
DaemonMessage(m) == m.t \in DaemonTypes /\ MessageFormed(DaemonWrites(m.t), m)

\* Such a message is read as it was written.
LEMMA DaemonReadsIt ==
  ASSUME NEW m, ClientMessage(m)
  PROVE  ReadByDaemon(ClientBytes(m)) = [m |-> m, left |-> << >>]
<1> DEFINE schema == ClientWrites(m.t)
<1>1. DaemonReads(m.t) = schema /\ MessageFormed(schema, m)
  BY SchemasAgree DEF ClientMessage
<1>2. ClientBytes(m) = <<Cell(U32, m.t)>> \o Put(schema, m)
  BY Zenon DEF ClientBytes
<1> HIDE DEF schema
<1> QED  BY <1>1, <1>2, DaemonDecodes

LEMMA ClientReadsIt ==
  ASSUME NEW m, DaemonMessage(m)
  PROVE  ReadByClient(DaemonBytes(m)) = [m |-> m, left |-> << >>]
<1> DEFINE schema == DaemonWrites(m.t)
<1>1. ClientReads(m.t) = schema /\ MessageFormed(schema, m)
  BY SchemasAgree DEF DaemonMessage
<1>2. DaemonBytes(m) = <<Cell(U32, m.t)>> \o Put(schema, m)
  BY Zenon DEF DaemonBytes
<1> HIDE DEF schema
<1> QED  BY <1>1, <1>2, ClientDecodes

\* What each is written with.
FilesField == [ListOf("files", FileOut) EXCEPT !.k = "files"]
LEMMA ClientWritesAre ==
  /\ \A t \in {"REQUEST_PLATFORM", "REQUEST_STACK"} : ClientWrites(t) = << >>
  /\ ClientWrites("REQUEST_SYNC_N_START_LUA") = Append(StartupOut, FilesField)
  /\ \A t \in Variables : ClientWrites(t) = RequestOut
  /\ ClientWrites("NOTIFY_BREAKPOINTS") = <<Field("m_BreakpointList", Strings)>>
  /\ ClientWrites("REQUEST_VM_RESUME") = <<Field("m_ClientCmd", S32)>>
  /\ ClientWrites("REQUEST_ECHO_DATA") = <<Field("sz", U32), Field("data", Str)>>
<1>1. \A t \in {"REQUEST_PLATFORM", "REQUEST_STACK"} : ClientWrites(t) = << >>
  BY DEF ClientWrites, Variables
<1>2. ClientWrites("REQUEST_SYNC_N_START_LUA") = Append(StartupOut, FilesField)
  BY DEF ClientWrites, Variables, FilesField
<1>3. \A t \in Variables : ClientWrites(t) = RequestOut
  BY DEF ClientWrites, Variables
<1>4. ClientWrites("NOTIFY_BREAKPOINTS") = <<Field("m_BreakpointList", Strings)>>
  BY DEF ClientWrites, Variables
<1>5. ClientWrites("REQUEST_VM_RESUME") = <<Field("m_ClientCmd", S32)>>
  BY DEF ClientWrites, Variables
<1>6. ClientWrites("REQUEST_ECHO_DATA") = <<Field("sz", U32), Field("data", Str)>>
  BY DEF ClientWrites, Variables
<1> QED  BY <1>1, <1>2, <1>3, <1>4, <1>5, <1>6

Replies == {ReplyTo[v] : v \in Variables}
LEMMA RepliesAre ==
  Replies = {"REPLY_LOCALS", "REPLY_GLOBALS", "REPLY_WATCHES", "REPLY_SOLVED_VARIABLE"}
BY DEF Replies, ReplyTo, Variables
LEMMA DaemonWritesAre ==
  /\ DaemonWrites("REPLY_PLATFORM") = PlatformOut
  /\ DaemonWrites("REPLY_STACK") = <<ListOf("m_Levels", LevelOut)>>
  /\ DaemonWrites("NOTIFY_SCRIPT_LOADED") = <<Field("names", Strings)>>
  /\ DaemonWrites("NOTIFY_VM_SUSPENDED") = SuspendOut
  /\ DaemonWrites("NOTIFY_SESSION_ENDED") = <<Field("res", U32)>>
  /\ DaemonWrites("NOTIFY_SYNC_FAILED") = <<Field("err", Str)>>
  /\ DaemonWrites("REPLY_ECHO_DATA") = <<Field("sz", U32), Field("data", Str)>>
  /\ \A t \in Replies : DaemonWrites(t) = <<Field("requester_id", U32), ListOf("collected", CollectedOut)>>
<1>1. DaemonWrites("REPLY_PLATFORM") = PlatformOut
  BY DEF DaemonWrites
<1>2. DaemonWrites("REPLY_STACK") = <<ListOf("m_Levels", LevelOut)>>
  BY DEF DaemonWrites
<1>3. DaemonWrites("NOTIFY_SCRIPT_LOADED") = <<Field("names", Strings)>>
  BY DEF DaemonWrites
<1>4. DaemonWrites("NOTIFY_VM_SUSPENDED") = SuspendOut
  BY DEF DaemonWrites
<1>5. DaemonWrites("NOTIFY_SESSION_ENDED") = <<Field("res", U32)>>
  BY DEF DaemonWrites
<1>6. DaemonWrites("NOTIFY_SYNC_FAILED") = <<Field("err", Str)>>
  BY DEF DaemonWrites
<1>7. DaemonWrites("REPLY_ECHO_DATA") = <<Field("sz", U32), Field("data", Str)>>
  BY DEF DaemonWrites
<1>8. \A t \in Replies : DaemonWrites(t) = <<Field("requester_id", U32), ListOf("collected", CollectedOut)>>
  BY RepliesAre DEF DaemonWrites
<1> QED  BY <1>1, <1>2, <1>3, <1>4, <1>5, <1>6, <1>7, <1>8

\* The client's.
LEMMA PlainMessage ==
  ASSUME NEW t \in {"REQUEST_PLATFORM", "REQUEST_STACK"}
  PROVE  ClientMessage([t |-> t])
<1> DEFINE m == [t |-> t]
<1> DEFINE names == {}
<1> DEFINE schema == << >>
<1>1. m.t = t /\ m = [f \in {"t"} \cup names |-> m[f]] /\ "t" \notin names
  OBVIOUS
<1> HIDE DEF m
<1>2. MessageFormed(schema, m)
  <2>1. HasFields(schema, names, {})
    BY NoField
  <2> HIDE DEF schema, names
  <2> QED  BY <1>1, <2>1, PlainFields
<1>3. ClientMessage(m)
  BY <1>1, <1>2, ClientWritesAre DEF ClientMessage, ClientTypes
<1> QED  BY <1>3 DEF m

LEMMA ResumeMessage ==
  ASSUME NEW cmd
  PROVE  ClientMessage([t |-> "REQUEST_VM_RESUME", m_ClientCmd |-> cmd])
<1> DEFINE m == [t |-> "REQUEST_VM_RESUME", m_ClientCmd |-> cmd]
<1> DEFINE names == {"m_ClientCmd"}
<1>1. m.t = "REQUEST_VM_RESUME" /\ m = [f \in {"t"} \cup names |-> m[f]] /\ "t" \notin names
  OBVIOUS
<1>2. S32 \notin {"list", "files"} /\ S32 # Strings
  BY DEF S32, Strings
<1> HIDE DEF m
<1> DEFINE schema == <<Field("m_ClientCmd", S32)>>
<1>3. HasFields(schema, names, {})
  BY <1>2, OneField
<1>5. MessageFormed(schema, m)
  <2> HIDE DEF schema, names
  <2> QED  BY <1>1, <1>3, PlainFields
<1>6. ClientMessage(m)
  BY <1>1, <1>5, ClientWritesAre DEF ClientMessage, ClientTypes
<1> QED  BY <1>6 DEF m

LEMMA BreakpointMessage ==
  ASSUME NEW b, IsSeq(b)
  PROVE  ClientMessage([t |-> "NOTIFY_BREAKPOINTS", m_BreakpointList |-> b])
<1> DEFINE m == [t |-> "NOTIFY_BREAKPOINTS", m_BreakpointList |-> b]
<1> DEFINE names == {"m_BreakpointList"}
<1>1. /\ m.t = "NOTIFY_BREAKPOINTS" /\ m = [f \in {"t"} \cup names |-> m[f]] /\ "t" \notin names
      /\ m["m_BreakpointList"] = b
  OBVIOUS
<1>2. Strings \notin {"list", "files"}
  BY DEF Strings
<1> HIDE DEF m
<1> DEFINE schema == <<Field("m_BreakpointList", Strings)>>
<1> DEFINE strings == {"m_BreakpointList"}
<1>3. HasFields(schema, names, strings)
  BY <1>2, OneField
<1>4. \A f \in strings : IsSeq(m[f])
  BY <1>1
<1>5. MessageFormed(schema, m)
  <2> HIDE DEF schema, names, strings
  <2> QED  BY <1>1, <1>3, <1>4, FlatMessage
<1>6. ClientMessage(m)
  BY <1>1, <1>5, ClientWritesAre DEF ClientMessage, ClientTypes
<1> QED  BY <1>6 DEF m

LEMMA EchoMessage ==
  ASSUME NEW sz, NEW data
  PROVE  /\ ClientMessage([t |-> "REQUEST_ECHO_DATA", sz |-> sz, data |-> data])
         /\ DaemonMessage([t |-> "REPLY_ECHO_DATA", sz |-> sz, data |-> data])
<1> DEFINE names == {"sz", "data"}
<1> DEFINE schema == <<Field("sz", U32), Field("data", Str)>>
<1>1. ASSUME NEW m, m = [f \in {"t"} \cup names |-> m[f]] PROVE MessageFormed(schema, m)
  <2>1. HasFields(schema, names, {}) /\ "t" \notin names
    BY EchoSchema
  <2> HIDE DEF schema, names
  <2> QED  BY <1>1, <2>1, PlainFields
<1> DEFINE m == [t |-> "REQUEST_ECHO_DATA", sz |-> sz, data |-> data]
<1> DEFINE r == [t |-> "REPLY_ECHO_DATA", sz |-> sz, data |-> data]
<1>2. m.t = "REQUEST_ECHO_DATA" /\ m = [f \in {"t"} \cup names |-> m[f]]
  OBVIOUS
<1>3. r.t = "REPLY_ECHO_DATA" /\ r = [f \in {"t"} \cup names |-> r[f]]
  OBVIOUS
<1> HIDE DEF m, r
<1>4. MessageFormed(schema, m) /\ MessageFormed(schema, r)
  BY Zenon, <1>1, <1>2, <1>3
<1>5. ClientMessage(m)
  BY <1>2, <1>4, ClientWritesAre DEF ClientMessage, ClientTypes
<1>6. DaemonMessage(r)
  BY <1>3, <1>4, DaemonWritesAre DEF DaemonMessage, DaemonTypes
<1> QED  BY <1>5, <1>6 DEF m, r

LEMMA RequestMessage ==
  ASSUME NEW t \in Variables, NEW requester, NEW level0, NEW tables, NEW flags, NEW watches,
         IsSeq(tables), IsSeq(watches)
  PROVE  ClientMessage([t |-> t, m_RequesterID |-> requester, m_StackLevel |-> level0,
                        m_ExpandedTables |-> tables, m_VarFlags |-> flags, m_WatchNameList |-> watches])
<1> DEFINE m == [t |-> t, m_RequesterID |-> requester, m_StackLevel |-> level0,
                 m_ExpandedTables |-> tables, m_VarFlags |-> flags, m_WatchNameList |-> watches]
<1> DEFINE names == {"m_RequesterID", "m_StackLevel", "m_ExpandedTables", "m_VarFlags", "m_WatchNameList"}
<1> DEFINE strings == {"m_ExpandedTables", "m_WatchNameList"}
<1>1. m.t = t /\ m = [f \in {"t"} \cup names |-> m[f]] /\ "t" \notin names
  OBVIOUS
<1>2. \A f \in strings : IsSeq(m[f])
  OBVIOUS
<1>3. HasFields(RequestOut, names, strings)
  BY RequestSchema
<1> HIDE DEF m, names, strings
<1>4. MessageFormed(RequestOut, m)
  BY <1>1, <1>2, <1>3, FlatMessage
<1>5. ClientMessage(m)
  BY <1>1, <1>4, ClientWritesAre DEF ClientMessage, ClientTypes
<1> QED  BY <1>5 DEF m

\* NetFile() of a file of the project, and the message that sends them all.
LEMMA NetFileFormed ==
  ASSUME NEW f
  PROVE  Formed(FileOut, NetFile(f))
<1> DEFINE r == NetFile(f)
<1> DEFINE names == {"m_Name", "m_Ext", "m_NumLines", "m_BinData"}
<1> DEFINE strings == {}
<1>1. r = [g \in names |-> r[g]]
  BY DEF NetFile
<1>2. HasFields(FileOut, names, strings) /\ \A g \in strings : IsSeq(r[g])
  BY FileSchema
<1> HIDE DEF r, names, strings
<1>3. Formed(FileOut, r)
  BY <1>1, <1>2, RecordFormed
<1> QED  BY <1>3 DEF r

LEMMA StartMessage ==
  ASSUME IsSeq(project)
  PROVE  ClientMessage(SendSyncAndStartLua)
<1> DEFINE files == [i \in DOMAIN project |-> NetFile(project[i])]
<1> DEFINE names == {"m_Source", "m_Function", "m_JITFlag", "m_LoadBreakFlag", "m_NumSourceFiles"}
<1> DEFINE m == SendSyncAndStartLua
<1> DEFINE n == Len(project)
<1>1. n \in Nat /\ DOMAIN project = 1..n
  BY SeqHas
<1>2. IsSeq(files) /\ Len(files) = n /\ DOMAIN files = 1..n /\ AllFormed(FileOut, files)
  <2>1. files = [i \in 1..n |-> files[i]] /\ \A i \in 1..n : Formed(FileOut, files[i])
    BY <1>1, NetFileFormed
  <2> HIDE DEF files
  <2>2. IsSeq(files) /\ Len(files) = n /\ DOMAIN files = 1..n
    BY <1>1, <2>1, FunIs
  <2> QED  BY <2>1, <2>2 DEF AllFormed
<1>3. /\ FilesField.k = "files" /\ FilesField.f = "files" /\ FilesField.of = FileOut
  BY DEF FilesField, ListOf
<1>4. /\ m.t = "REQUEST_SYNC_N_START_LUA" /\ m["m_NumSourceFiles"] = n /\ m["files"] = files
      /\ m = [f \in {"t"} \cup names \cup {"files"} |-> m[f]]
  <2> DEFINE s == StartupLua
  <2>1. DOMAIN s = names /\ s["m_NumSourceFiles"] = n
    BY DEF StartupLua
  <2> DEFINE w == With(s, "files", files)
  <2> HIDE DEF s
  <2>2. DOMAIN w = names \cup {"files"} /\ w["files"] = files /\ w["m_NumSourceFiles"] = n
    <3> HIDE DEF files, n
    <3> QED  BY <2>1 DEF With
  <2>3. m = With(w, "t", "REQUEST_SYNC_N_START_LUA")
    BY Zenon DEF SendSyncAndStartLua, s
  <2> HIDE DEF w, m, files, n
  <2>4. m = [f \in {"t"} \cup names \cup {"files"} |->
              IF f = "t" THEN "REQUEST_SYNC_N_START_LUA" ELSE w[f]]
    <3>1. DOMAIN w \cup {"t"} = {"t"} \cup names \cup {"files"}
      BY <2>2
    <3> QED  BY Zenon, <2>3, <3>1 DEF With
  <2> QED  BY <2>2, <2>4
<1>5. HasFields(StartupOut, names, {}) /\ "t" \notin names \cup {"files"} /\ "m_NumSourceFiles" \in names
  BY StartupSchema
<1> HIDE DEF files, names, m, n
<1>6. MessageFormed(StartupOut \o <<FilesField>>, m)
  <2> DEFINE fd == FilesField
  <2>1. /\ fd.k \in {"list", "files"} /\ "t" \notin names \cup {fd.f} /\ IsSeq(fd.of)
        /\ m = [f \in {"t"} \cup names \cup {fd.f} |-> m[f]] /\ AllFormed(fd.of, m[fd.f])
        /\ Counted(fd, names, m)
    <3>1. IsSeq(FileOut)
      BY FileSchema DEF HasFields
    <3> QED  BY <1>2, <1>3, <1>4, <1>5, <3>1 DEF Counted
  <2> HIDE DEF fd
  <2> DEFINE schema == StartupOut
  <2>2. HasFields(schema, names, {})
    BY <1>5
  <2> HIDE DEF schema
  <2>3. MessageFormed(schema \o <<fd>>, m)
    BY <2>1, <2>2, ListMessage
  <2> QED  BY <2>3 DEF fd, schema
<1>7. Append(StartupOut, FilesField) = StartupOut \o <<FilesField>>
  <2>1. IsSeq(StartupOut)
    BY StartupSchema DEF HasFields
  <2> QED  BY <2>1, AppendIs
<1>8. ClientMessage(m)
  <2>1. ClientWrites(m.t) = StartupOut \o <<FilesField>>
    BY Zenon, <1>4, <1>7, ClientWritesAre
  <2>2. m.t \in ClientTypes
    BY <1>4 DEF ClientTypes
  <2> QED  BY Zenon, <1>6, <2>1, <2>2 DEF ClientMessage
<1> QED  BY <1>8 DEF m

\* The daemon's.
LEMMA PlatformMessage ==
  ASSUME NEW os, NEW arch, NEW host, NEW lua, NEW luaNum, NEW jit, NEW jitNum
  PROVE  DaemonMessage([t |-> "REPLY_PLATFORM", m_OS |-> os, m_Architecture |-> arch,
                        m_Hostname |-> host, m_Lua |-> lua, m_LuaNum |-> luaNum,
                        m_LuaJIT |-> jit, m_LuaJITNum |-> jitNum])
<1> DEFINE m == [t |-> "REPLY_PLATFORM", m_OS |-> os, m_Architecture |-> arch,
                 m_Hostname |-> host, m_Lua |-> lua, m_LuaNum |-> luaNum,
                 m_LuaJIT |-> jit, m_LuaJITNum |-> jitNum]
<1> DEFINE names == {"m_OS", "m_Architecture", "m_Hostname", "m_Lua", "m_LuaNum", "m_LuaJIT", "m_LuaJITNum"}
<1>1. m.t = "REPLY_PLATFORM" /\ m = [f \in {"t"} \cup names |-> m[f]] /\ "t" \notin names
  OBVIOUS
<1>2. HasFields(PlatformOut, names, {})
  BY PlatformSchema
<1> HIDE DEF m, names
<1>3. MessageFormed(PlatformOut, m)
  BY <1>1, <1>2, PlainFields
<1>4. DaemonMessage(m)
  BY <1>1, <1>3, DaemonWritesAre DEF DaemonMessage, DaemonTypes
<1> QED  BY <1>4 DEF m

LEMMA SuspendMessage ==
  ASSUME NEW source, NEW line, NEW err
  PROVE  DaemonMessage([t |-> "NOTIFY_VM_SUSPENDED", m_Source |-> source, m_Line |-> line,
                        m_ErrorString |-> err])
<1> DEFINE m == [t |-> "NOTIFY_VM_SUSPENDED", m_Source |-> source, m_Line |-> line, m_ErrorString |-> err]
<1> DEFINE names == {"m_Source", "m_Line", "m_ErrorString"}
<1>1. m.t = "NOTIFY_VM_SUSPENDED" /\ m = [f \in {"t"} \cup names |-> m[f]] /\ "t" \notin names
  OBVIOUS
<1>2. HasFields(SuspendOut, names, {})
  BY SuspendSchema
<1> HIDE DEF m, names
<1>3. MessageFormed(SuspendOut, m)
  BY <1>1, <1>2, PlainFields
<1>4. DaemonMessage(m)
  BY <1>1, <1>3, DaemonWritesAre DEF DaemonMessage, DaemonTypes
<1> QED  BY <1>4 DEF m

LEMMA LoadedMessage ==
  ASSUME NEW q, IsSeq(q)
  PROVE  DaemonMessage([t |-> "NOTIFY_SCRIPT_LOADED", names |-> q])
<1> DEFINE m == [t |-> "NOTIFY_SCRIPT_LOADED", names |-> q]
<1> DEFINE fields == {"names"}
<1>1. /\ m.t = "NOTIFY_SCRIPT_LOADED" /\ m = [f \in {"t"} \cup fields |-> m[f]] /\ "t" \notin fields
      /\ m["names"] = q
  OBVIOUS
<1>2. Strings \notin {"list", "files"}
  BY DEF Strings
<1> HIDE DEF m
<1> DEFINE schema == <<Field("names", Strings)>>
<1>3. HasFields(schema, fields, fields)
  BY <1>2, OneField
<1>4. \A f \in fields : IsSeq(m[f])
  BY <1>1
<1>5. MessageFormed(schema, m)
  <2> HIDE DEF schema, fields
  <2> QED  BY <1>1, <1>3, <1>4, FlatMessage
<1>6. DaemonMessage(m)
  BY <1>1, <1>5, DaemonWritesAre DEF DaemonMessage, DaemonTypes
<1> QED  BY <1>6 DEF m

LEMMA EndedMessage ==
  ASSUME NEW res
  PROVE  DaemonMessage([t |-> "NOTIFY_SESSION_ENDED", res |-> res])
<1> DEFINE m == [t |-> "NOTIFY_SESSION_ENDED", res |-> res]
<1> DEFINE fields == {"res"}
<1>1. m.t = "NOTIFY_SESSION_ENDED" /\ m = [f \in {"t"} \cup fields |-> m[f]] /\ "t" \notin fields
  OBVIOUS
<1>2. U32 \notin {"list", "files"} /\ U32 # Strings
  BY DEF Strings, U32
<1> HIDE DEF m
<1> DEFINE schema == <<Field("res", U32)>>
<1>3. HasFields(schema, fields, {})
  BY <1>2, OneField
<1>5. MessageFormed(schema, m)
  <2> HIDE DEF schema, fields
  <2> QED  BY <1>1, <1>3, PlainFields
<1>6. DaemonMessage(m)
  BY <1>1, <1>5, DaemonWritesAre DEF DaemonMessage, DaemonTypes
<1> QED  BY <1>6 DEF m

LEMMA SyncFailedMessage ==
  ASSUME NEW err
  PROVE  DaemonMessage([t |-> "NOTIFY_SYNC_FAILED", err |-> err])
<1> DEFINE m == [t |-> "NOTIFY_SYNC_FAILED", err |-> err]
<1> DEFINE fields == {"err"}
<1>1. m.t = "NOTIFY_SYNC_FAILED" /\ m = [f \in {"t"} \cup fields |-> m[f]] /\ "t" \notin fields
  OBVIOUS
<1>2. Str \notin {"list", "files"} /\ Str # Strings
  BY DEF Strings, Str
<1> HIDE DEF m
<1> DEFINE schema == <<Field("err", Str)>>
<1>3. HasFields(schema, fields, {})
  BY <1>2, OneField
<1>5. MessageFormed(schema, m)
  <2> HIDE DEF schema, fields
  <2> QED  BY <1>1, <1>3, PlainFields
<1>6. DaemonMessage(m)
  BY <1>1, <1>5, DaemonWritesAre DEF DaemonMessage, DaemonTypes
<1> QED  BY <1>6 DEF m

LEMMA StackMessage ==
  ASSUME NEW levels, AllFormed(LevelOut, levels)
  PROVE  DaemonMessage([t |-> "REPLY_STACK", m_Levels |-> levels])
<1> DEFINE m == [t |-> "REPLY_STACK", m_Levels |-> levels]
<1> DEFINE fd == ListOf("m_Levels", LevelOut)
<1> DEFINE names == {}
<1> DEFINE schema == << >>
<1>1. /\ m.t = "REPLY_STACK" /\ m["m_Levels"] = levels
      /\ m = [f \in {"t"} \cup names \cup {"m_Levels"} |-> m[f]] /\ "t" \notin names \cup {"m_Levels"}
  OBVIOUS
<1>2. fd.k = "list" /\ fd.f = "m_Levels" /\ fd.of = LevelOut /\ IsSeq(LevelOut)
  BY LevelSchema DEF ListOf, HasFields
<1>3. HasFields(schema, names, {})
  BY NoField
<1> HIDE DEF fd, m
<1>4. MessageFormed(schema \o <<fd>>, m)
  <2> HIDE DEF names, schema
  <2>1. /\ fd.k \in {"list", "files"} /\ "t" \notin names \cup {fd.f} /\ IsSeq(fd.of)
        /\ m = [f \in {"t"} \cup names \cup {fd.f} |-> m[f]] /\ AllFormed(fd.of, m[fd.f])
        /\ Counted(fd, names, m)
    BY <1>1, <1>2 DEF Counted
  <2> QED  BY SMTT(30), <1>3, <2>1, ListMessage
<1>5. schema \o <<fd>> = <<fd>>
  <2> DEFINE o == <<fd>>
  <2>1. IsSeq(o)
    BY OneIs
  <2> HIDE DEF o
  <2>2. << >> \o o = o
    BY <2>1, CatNone
  <2> QED  BY <2>2 DEF o
<1>6. DaemonMessage(m)
  BY <1>1, <1>4, <1>5, DaemonWritesAre DEF DaemonMessage, DaemonTypes, fd
<1> QED  BY <1>6 DEF m

LEMMA ReplyMessage ==
  ASSUME NEW t \in Replies, NEW requester, NEW rows, AllFormed(CollectedOut, rows)
  PROVE  DaemonMessage([t |-> t, requester_id |-> requester, collected |-> rows])
<1> DEFINE m == [t |-> t, requester_id |-> requester, collected |-> rows]
<1> DEFINE fd == ListOf("collected", CollectedOut)
<1> DEFINE e == Field("requester_id", U32)
<1> DEFINE names == {"requester_id"}
<1> DEFINE schema == << e >>
<1>1. /\ m.t = t /\ m["collected"] = rows
      /\ m = [f \in {"t"} \cup names \cup {"collected"} |-> m[f]] /\ "t" \notin names \cup {"collected"}
  OBVIOUS
<1>2. fd.k = "list" /\ fd.f = "collected" /\ fd.of = CollectedOut /\ IsSeq(CollectedOut)
  BY CollectedSchema DEF ListOf, HasFields
<1>3. HasFields(schema, names, {})
  <2>1. U32 \notin {"list", "files"} /\ U32 # Strings
    BY DEF Strings, U32
  <2> QED  BY <2>1, OneField
<1> HIDE DEF fd, m, e
<1>4. MessageFormed(schema \o <<fd>>, m)
  <2> HIDE DEF names, schema
  <2>1. /\ fd.k \in {"list", "files"} /\ "t" \notin names \cup {fd.f} /\ IsSeq(fd.of)
        /\ m = [f \in {"t"} \cup names \cup {fd.f} |-> m[f]] /\ AllFormed(fd.of, m[fd.f])
        /\ Counted(fd, names, m)
    BY <1>1, <1>2 DEF Counted
  <2> QED  BY SMTT(30), <1>3, <2>1, ListMessage
<1>5. schema \o <<fd>> = <<e, fd>>
  BY PairIs
<1>6. DaemonMessage(m)
  <2>1. DaemonWrites(t) = <<e, fd>>
    BY Zenon, DaemonWritesAre DEF e, fd
  <2>2. t \in DaemonTypes
    BY DEF DaemonTypes, Replies
  <2> QED  BY Zenon, <1>1, <1>4, <1>5, <2>1, <2>2 DEF DaemonMessage
<1> QED  BY <1>6 DEF m

-----------------------------------------------------------------------------
(* What is in flight is what was sent, and a message of its type: the        *)
(* invariant behind ReadAsWritten.                                           *)

UpWritten ==
  /\ IsSeq(up) /\ IsSeq(upSent) /\ Len(up) = Len(upSent)
  /\ \A i \in 1..Len(upSent) : ClientMessage(upSent[i]) /\ up[i] = ClientBytes(upSent[i])
DownWritten ==
  /\ IsSeq(down) /\ IsSeq(downSent) /\ Len(down) = Len(downSent)
  /\ \A i \in 1..Len(downSent) : DaemonMessage(downSent[i]) /\ down[i] = DaemonBytes(downSent[i])
Written ==
  /\ UpWritten /\ DownWritten
  /\ project \in Projects /\ started \in Projects \cup {<< >>} /\ marked \in Breakpoints
  /\ IsSeq(queue) /\ AllFormed(LevelOut, daemonStack)

\* What is sent goes behind what was.
LEMMA UpAppends ==
  ASSUME UpWritten, NEW ms, IsSeq(ms), \A i \in 1..Len(ms) : ClientMessage(ms[i]),
         up' = up \o [i \in DOMAIN ms |-> ClientBytes(ms[i])], upSent' = upSent \o ms
  PROVE  UpWritten'
<1> DEFINE bs == [i \in DOMAIN ms |-> ClientBytes(ms[i])]
<1> DEFINE n == Len(ms)
<1> DEFINE k == Len(upSent)
<1>1. n \in Nat /\ DOMAIN ms = 1..n
  BY SeqHas
<1>2. IsSeq(bs) /\ Len(bs) = n /\ \A i \in 1..n : bs[i] = ClientBytes(ms[i])
  <2>1. bs = [i \in 1..n |-> bs[i]] /\ \A i \in 1..n : bs[i] = ClientBytes(ms[i])
    BY Zenon, <1>1
  <2> HIDE DEF bs
  <2> QED  BY <1>1, <2>1, FunIs
<1>3. IsSeq(up) /\ IsSeq(upSent) /\ Len(up) = k /\ k \in Nat
  BY SeqHas DEF UpWritten
<1>4. up' = up \o bs
  OBVIOUS
<1> HIDE DEF bs
<1>5. /\ IsSeq(up \o bs) /\ Len(up \o bs) = k + n
      /\ \A i \in 1..k : (up \o bs)[i] = up[i]
      /\ \A i \in 1..n : (up \o bs)[k + i] = bs[i]
  <2>1. /\ IsSeq(up \o bs) /\ Len(up \o bs) = Len(up) + Len(bs)
        /\ \A i \in 1..Len(up) : (up \o bs)[i] = up[i]
        /\ \A i \in 1..Len(bs) : (up \o bs)[Len(up) + i] = bs[i]
    <3>1. IsSeq(up) /\ IsSeq(bs)
      BY <1>2, <1>3
    <3> QED  BY <3>1, CatIs
  <2> QED  BY <1>2, <1>3, <2>1
<1>6. /\ IsSeq(upSent \o ms) /\ Len(upSent \o ms) = k + n
      /\ \A i \in 1..k : (upSent \o ms)[i] = upSent[i]
      /\ \A i \in 1..n : (upSent \o ms)[k + i] = ms[i]
  BY <1>3, CatIs
<1>7. ASSUME NEW i \in 1..(k + n) PROVE ClientMessage(upSent'[i]) /\ up'[i] = ClientBytes(upSent'[i])
  <2>1. CASE i \in 1..k
    BY Zenon, <1>4, <1>5, <1>6, <2>1 DEF UpWritten
  <2>2. CASE i \notin 1..k
    <3> DEFINE j == i - k
    <3>1. j \in 1..n /\ i = k + j
      BY <1>1, <1>3, <2>2
    <3> HIDE DEF j
    <3> QED  BY ZenonT(60), <1>2, <1>4, <1>5, <1>6, <3>1
  <2> QED  BY <2>1, <2>2
<1> HIDE DEF k, n
<1> QED  BY <1>4, <1>5, <1>6, <1>7 DEF UpWritten

LEMMA DownAppends ==
  ASSUME DownWritten, NEW ms, IsSeq(ms), \A i \in 1..Len(ms) : DaemonMessage(ms[i]),
         DaemonSends(ms)
  PROVE  DownWritten'
<1> DEFINE bs == [i \in DOMAIN ms |-> DaemonBytes(ms[i])]
<1> DEFINE n == Len(ms)
<1> DEFINE k == Len(downSent)
<1>1. n \in Nat /\ DOMAIN ms = 1..n
  BY SeqHas
<1>2. IsSeq(bs) /\ Len(bs) = n /\ \A i \in 1..n : bs[i] = DaemonBytes(ms[i])
  <2>1. bs = [i \in 1..n |-> bs[i]] /\ \A i \in 1..n : bs[i] = DaemonBytes(ms[i])
    BY Zenon, <1>1
  <2> HIDE DEF bs
  <2> QED  BY <1>1, <2>1, FunIs
<1>3. IsSeq(down) /\ IsSeq(downSent) /\ Len(down) = k /\ k \in Nat
  BY SeqHas DEF DownWritten
<1>4. down' = down \o bs /\ downSent' = downSent \o ms
  BY DEF DaemonSends
<1> HIDE DEF bs
<1>5. /\ IsSeq(down \o bs) /\ Len(down \o bs) = k + n
      /\ \A i \in 1..k : (down \o bs)[i] = down[i]
      /\ \A i \in 1..n : (down \o bs)[k + i] = bs[i]
  <2>1. /\ IsSeq(down \o bs) /\ Len(down \o bs) = Len(down) + Len(bs)
        /\ \A i \in 1..Len(down) : (down \o bs)[i] = down[i]
        /\ \A i \in 1..Len(bs) : (down \o bs)[Len(down) + i] = bs[i]
    <3>1. IsSeq(down) /\ IsSeq(bs)
      BY <1>2, <1>3
    <3> QED  BY <3>1, CatIs
  <2> QED  BY <1>2, <1>3, <2>1
<1>6. /\ IsSeq(downSent \o ms) /\ Len(downSent \o ms) = k + n
      /\ \A i \in 1..k : (downSent \o ms)[i] = downSent[i]
      /\ \A i \in 1..n : (downSent \o ms)[k + i] = ms[i]
  BY <1>3, CatIs
<1>7. ASSUME NEW i \in 1..(k + n)
      PROVE  DaemonMessage(downSent'[i]) /\ down'[i] = DaemonBytes(downSent'[i])
  <2>1. CASE i \in 1..k
    BY Zenon, <1>4, <1>5, <1>6, <2>1 DEF DownWritten
  <2>2. CASE i \notin 1..k
    <3> DEFINE j == i - k
    <3>1. j \in 1..n /\ i = k + j
      BY <1>1, <1>3, <2>2
    <3> HIDE DEF j
    <3> QED  BY Zenon, <1>2, <1>4, <1>5, <1>6, <3>1
  <2> QED  BY <2>1, <2>2
<1> HIDE DEF k, n
<1> QED  BY <1>4, <1>5, <1>6, <1>7 DEF DownWritten

\* What is read is the first message that was sent.
LEMMA UpRead ==
  ASSUME UpWritten, up # << >>
  PROVE  /\ ReadByDaemon(Head(up)).m = upSent[1] /\ ClientMessage(upSent[1])
         /\ upSent # << >> /\ Head(upSent) = upSent[1]
         /\ up' = Tail(up) /\ upSent' = Tail(upSent) => UpWritten'
<1> DEFINE n == Len(upSent)
<1>1. IsSeq(up) /\ IsSeq(upSent) /\ Len(up) = n /\ n \in Nat /\ n # 0 /\ upSent # << >>
  BY SeqHas DEF UpWritten
<1>2. /\ IsSeq(Tail(up)) /\ Len(Tail(up)) = n - 1 /\ Head(up) = up[1]
      /\ \A i \in 1..(n - 1) : Tail(up)[i] = up[i + 1]
  <2>1. /\ IsSeq(Tail(up)) /\ Len(Tail(up)) = Len(up) - 1 /\ Head(up) = up[1]
        /\ \A i \in 1..(Len(up) - 1) : Tail(up)[i] = up[i + 1]
    BY <1>1, TailIs
  <2> QED  BY <1>1, <2>1
<1>3. /\ IsSeq(Tail(upSent)) /\ Len(Tail(upSent)) = n - 1 /\ Head(upSent) = upSent[1]
      /\ \A i \in 1..(n - 1) : Tail(upSent)[i] = upSent[i + 1]
  BY <1>1, TailIs
<1>4. 1 \in 1..n
  BY <1>1
<1>5. ClientMessage(upSent[1]) /\ up[1] = ClientBytes(upSent[1])
  BY <1>4 DEF UpWritten
<1>6. ReadByDaemon(Head(up)).m = upSent[1]
  <2>1. ReadByDaemon(Head(up)) = [m |-> upSent[1], left |-> << >>]
    BY Zenon, <1>2, <1>5, DaemonReadsIt
  <2> QED  BY <2>1
<1>7. ASSUME up' = Tail(up), upSent' = Tail(upSent) PROVE UpWritten'
  <2>1. ASSUME NEW i \in 1..(n - 1)
        PROVE  ClientMessage(upSent'[i]) /\ up'[i] = ClientBytes(upSent'[i])
    <3>1. i + 1 \in 1..n
      BY <1>1
    <3>2. ClientMessage(upSent[i + 1]) /\ up[i + 1] = ClientBytes(upSent[i + 1])
      BY <3>1 DEF UpWritten
    <3> QED  BY Zenon, <1>2, <1>3, <1>7, <3>2
  <2> HIDE DEF n
  <2> QED  BY <1>2, <1>3, <1>7, <2>1 DEF UpWritten
<1> QED  BY <1>1, <1>3, <1>5, <1>6, <1>7

LEMMA DownRead ==
  ASSUME DownWritten, down # << >>
  PROVE  /\ ReadByClient(Head(down)).m = downSent[1] /\ DaemonMessage(downSent[1])
         /\ downSent # << >> /\ Head(downSent) = downSent[1]
         /\ down' = Tail(down) /\ downSent' = Tail(downSent) => DownWritten'
<1> DEFINE n == Len(downSent)
<1>1. IsSeq(down) /\ IsSeq(downSent) /\ Len(down) = n /\ n \in Nat /\ n # 0 /\ downSent # << >>
  BY SeqHas DEF DownWritten
<1>2. /\ IsSeq(Tail(down)) /\ Len(Tail(down)) = n - 1 /\ Head(down) = down[1]
      /\ \A i \in 1..(n - 1) : Tail(down)[i] = down[i + 1]
  <2>1. /\ IsSeq(Tail(down)) /\ Len(Tail(down)) = Len(down) - 1 /\ Head(down) = down[1]
        /\ \A i \in 1..(Len(down) - 1) : Tail(down)[i] = down[i + 1]
    BY <1>1, TailIs
  <2> QED  BY <1>1, <2>1
<1>3. /\ IsSeq(Tail(downSent)) /\ Len(Tail(downSent)) = n - 1 /\ Head(downSent) = downSent[1]
      /\ \A i \in 1..(n - 1) : Tail(downSent)[i] = downSent[i + 1]
  BY <1>1, TailIs
<1>4. 1 \in 1..n
  BY <1>1
<1>5. DaemonMessage(downSent[1]) /\ down[1] = DaemonBytes(downSent[1])
  BY <1>4 DEF DownWritten
<1>6. ReadByClient(Head(down)).m = downSent[1]
  <2>1. ReadByClient(Head(down)) = [m |-> downSent[1], left |-> << >>]
    BY Zenon, <1>2, <1>5, ClientReadsIt
  <2> QED  BY <2>1
<1>7. ASSUME down' = Tail(down), downSent' = Tail(downSent) PROVE DownWritten'
  <2>1. ASSUME NEW i \in 1..(n - 1)
        PROVE  DaemonMessage(downSent'[i]) /\ down'[i] = DaemonBytes(downSent'[i])
    <3>1. i + 1 \in 1..n
      BY <1>1
    <3>2. DaemonMessage(downSent[i + 1]) /\ down[i + 1] = DaemonBytes(downSent[i + 1])
      BY <3>1 DEF DownWritten
    <3> QED  BY Zenon, <1>2, <1>3, <1>7, <3>2
  <2> HIDE DEF n
  <2> QED  BY <1>2, <1>3, <1>7, <2>1 DEF DownWritten
<1> QED  BY <1>1, <1>3, <1>5, <1>6, <1>7

\* Then each end reads it as the other wrote it.
LEMMA WrittenIsRead == Written => ReadAsWritten
<1> SUFFICES ASSUME Written PROVE ReadAsWritten
  OBVIOUS
<1>1. DOMAIN up = 1..Len(upSent) /\ DOMAIN down = 1..Len(downSent)
  BY SeqHas DEF Written, UpWritten, DownWritten
<1>2. \A i \in 1..Len(upSent) : ReadByDaemon(up[i]) = [m |-> upSent[i], left |-> << >>]
  BY Zenon, DaemonReadsIt DEF Written, UpWritten
<1>3. \A i \in 1..Len(downSent) : ReadByClient(down[i]) = [m |-> downSent[i], left |-> << >>]
  BY Zenon, ClientReadsIt DEF Written, DownWritten
<1> QED  BY Zenon, <1>1, <1>2, <1>3 DEF ReadAsWritten

-----------------------------------------------------------------------------
(* Every step sends such messages.                                          *)

LEMMA WrittenInit == ExchangeInit => Written
<1> SUFFICES ASSUME ExchangeInit PROVE Written
  OBVIOUS
<1>1. IsSeq(<< >>) /\ Len(<< >>) = 0
  <2>1. << >> \in Seq({})
    OBVIOUS
  <2> QED  BY <2>1, SeqIs
<1>2. AllFormed(LevelOut, << >>)
  BY <1>1 DEF AllFormed
<1> QED  BY <1>1, <1>2 DEF ExchangeInit, Written, UpWritten, DownWritten

\* The client's messages.
LEMMA ClientSendsKeeps ==
  ASSUME Written, NEW ms, IsSeq(ms), \A i \in 1..Len(ms) : ClientMessage(ms[i]), ClientSends(ms),
         started' \in {started, project}
  PROVE  Written'
<1>1. UpWritten'
  BY UpAppends DEF ClientSends, Written
<1>2. DownWritten'
  BY DEF Written, DownWritten, ClientSends
<1>3. project' = project /\ marked' = marked /\ queue' = queue /\ daemonStack' = daemonStack
  BY DEF ClientSends, daemon
<1> QED  BY <1>1, <1>2, <1>3 DEF Written

\* One message, or two.
LEMMA OneMessage ==
  ASSUME NEW m, ClientMessage(m)
  PROVE  IsSeq(<<m>>) /\ \A i \in 1..Len(<<m>>) : ClientMessage(<< m >>[i])
<1> DEFINE s == <<m>>
<1>1. IsSeq(s) /\ Len(s) = 1 /\ s[1] = m
  BY OneIs
<1> HIDE DEF s
<1>2. \A i \in 1..1 : i = 1
  OBVIOUS
<1>3. \A i \in 1..Len(s) : ClientMessage(s[i])
  BY <1>1, <1>2
<1> QED  BY <1>1, <1>3 DEF s

LEMMA TwoMessages ==
  ASSUME NEW m, NEW r, ClientMessage(m), ClientMessage(r)
  PROVE  IsSeq(<<m, r>>) /\ \A i \in 1..Len(<<m, r>>) : ClientMessage(<< m, r >>[i])
<1> DEFINE s == <<m, r>>
<1>1. s = [i \in 1..2 |-> s[i]] /\ s[1] = m /\ s[2] = r /\ Len(s) = 2
  OBVIOUS
<1> HIDE DEF s
<1>2. \A i \in 1..2 : i = 1 \/ i = 2
  OBVIOUS
<1>3. IsSeq(s)
  BY <1>1, FunIs
<1>4. \A i \in 1..Len(s) : ClientMessage(s[i])
  BY <1>1, <1>2
<1> QED  BY <1>3, <1>4 DEF s

LEMMA BreakpointListIs ==
  ASSUME Written, NEW enable
  PROVE  ClientMessage(BreakpointList(enable))
<1> DEFINE b == IF enable THEN marked ELSE << >>
<1>1. IsSeq(marked)
  BY BreakpointsAssumption DEF Written
<1>2. IsSeq(b)
  BY <1>1, CatNone
<1> HIDE DEF b
<1>3. ClientMessage([t |-> "NOTIFY_BREAKPOINTS", m_BreakpointList |-> b])
  BY <1>2, BreakpointMessage
<1> QED  BY <1>3 DEF BreakpointList, b

LEMMA ToolConnectWritten == Written /\ ToolConnect => Written'
<1> SUFFICES ASSUME Written, ToolConnect PROVE Written'
  OBVIOUS
<1> DEFINE m == [t |-> "REQUEST_PLATFORM"]
<1>1. ClientMessage(m)
  BY PlainMessage
<1>2. ClientSends(<<m>>) /\ started' \in {started, project}
  BY DEF ToolConnect
<1> HIDE DEF m
<1> DEFINE ms == <<m>>
<1>3. IsSeq(ms) /\ \A i \in 1..Len(ms) : ClientMessage(ms[i])
  BY <1>1, OneMessage
<1>4. ClientSends(ms)
  BY <1>2
<1> HIDE DEF ms
<1> QED  BY <1>2, <1>3, <1>4, ClientSendsKeeps

LEMMA ToolStartRunWritten == Written /\ ToolStartRun => Written'
<1> SUFFICES ASSUME Written, ToolStartRun PROVE Written'
  OBVIOUS
<1> DEFINE m == BreakpointList(TRUE)
<1> DEFINE r == SendSyncAndStartLua
<1>1. ClientMessage(m) /\ ClientMessage(r)
  <2>1. IsSeq(project)
    BY ProjectsAssumption DEF Written
  <2> QED  BY <2>1, BreakpointListIs, StartMessage
<1>2. ClientSends(<<m, r>>) /\ started' \in {started, project}
  BY DEF ToolStartRun
<1> HIDE DEF m, r
<1> DEFINE ms == <<m, r>>
<1>3. IsSeq(ms) /\ \A i \in 1..Len(ms) : ClientMessage(ms[i])
  BY <1>1, TwoMessages
<1>4. ClientSends(ms)
  BY <1>2
<1> HIDE DEF ms
<1> QED  BY <1>2, <1>3, <1>4, ClientSendsKeeps

LEMMA ResumeExecutionWritten ==
  ASSUME Written, NEW cmd, ResumeExecution(cmd)
  PROVE  Written'
<1> DEFINE m == BreakpointList(cmd # "END_SESSION")
<1> DEFINE r == [t |-> "REQUEST_VM_RESUME", m_ClientCmd |-> cmd]
<1>1. ClientMessage(m) /\ ClientMessage(r)
  BY BreakpointListIs, ResumeMessage
<1>2. ClientSends(<<m, r>>) /\ started' \in {started, project}
  BY DEF ResumeExecution
<1> HIDE DEF m, r
<1> DEFINE ms == <<m, r>>
<1>3. IsSeq(ms) /\ \A i \in 1..Len(ms) : ClientMessage(ms[i])
  BY <1>1, TwoMessages
<1>4. ClientSends(ms)
  BY <1>2
<1> HIDE DEF ms
<1> QED  BY <1>2, <1>3, <1>4, ClientSendsKeeps

LEMMA RequestVariablesWritten ==
  ASSUME Written, NEW q \in Requests, RequestVariables(q[1], q[2], q[3], q[4])
  PROVE  Written'
<1> DEFINE tables == IF q[1] = "REQUEST_SOLVE_VARIABLE" THEN << >> ELSE q[3]
<1> DEFINE m == [t |-> q[1], m_RequesterID |-> q[2], m_StackLevel |-> 0,
                 m_ExpandedTables |-> tables, m_VarFlags |-> "all", m_WatchNameList |-> q[4]]
<1>1. IsSeq(<< >>) /\ IsSeq(<<"t">>) /\ IsSeq(<<"x">>) /\ IsSeq(<<"x", "t">>)
  <2>1. << >> \in Seq({}) /\ <<"x", "t">> \in Seq({"x", "t"})
    OBVIOUS
  <2> QED  BY <2>1, SeqIs, OneIs
<1>2. q[1] \in Variables /\ IsSeq(q[3]) /\ IsSeq(q[4])
  BY <1>1 DEF Requests, Variables
<1>3. IsSeq(tables)
  BY <1>1, <1>2
<1>4. ClientSends(<<m>>) /\ started' \in {started, project}
  BY DEF RequestVariables
<1>5. ClientMessage(m)
  <2> HIDE DEF tables
  <2> QED  BY <1>2, <1>3, RequestMessage
<1> HIDE DEF m
<1> DEFINE ms == <<m>>
<1>6. IsSeq(ms) /\ \A i \in 1..Len(ms) : ClientMessage(ms[i])
  BY <1>5, OneMessage
<1>7. ClientSends(ms)
  BY <1>4
<1> HIDE DEF ms
<1> QED  BY <1>4, <1>6, <1>7, ClientSendsKeeps

LEMMA RequestStackWritten == Written /\ RequestStack => Written'
<1> SUFFICES ASSUME Written, RequestStack PROVE Written'
  OBVIOUS
<1> DEFINE m == [t |-> "REQUEST_STACK"]
<1>1. ClientMessage(m)
  BY PlainMessage
<1>2. ClientSends(<<m>>) /\ started' \in {started, project}
  BY DEF RequestStack
<1> HIDE DEF m
<1> DEFINE ms == <<m>>
<1>3. IsSeq(ms) /\ \A i \in 1..Len(ms) : ClientMessage(ms[i])
  BY <1>1, OneMessage
<1>4. ClientSends(ms)
  BY <1>2
<1> HIDE DEF ms
<1> QED  BY <1>2, <1>3, <1>4, ClientSendsKeeps

LEMMA NetStressTestWritten == Written /\ NetStressTest => Written'
<1> SUFFICES ASSUME Written, NetStressTest PROVE Written'
  OBVIOUS
<1> DEFINE m == [t |-> "REQUEST_ECHO_DATA", sz |-> 4, data |-> "data"]
<1>1. ClientMessage(m)
  BY EchoMessage
<1>2. ClientSends(<<m>>) /\ started' \in {started, project}
  BY DEF NetStressTest
<1> HIDE DEF m
<1> DEFINE ms == <<m>>
<1>3. IsSeq(ms) /\ \A i \in 1..Len(ms) : ClientMessage(ms[i])
  BY <1>1, OneMessage
<1>4. ClientSends(ms)
  BY <1>2
<1> HIDE DEF ms
<1> QED  BY <1>2, <1>3, <1>4, ClientSendsKeeps

\* The user's edits, and what is read, send nothing.
LEMMA EditsWritten == Written /\ (EditProject \/ ToggleBreakpoint) => Written'
BY DEF Written, UpWritten, DownWritten, EditProject, ToggleBreakpoint, daemon, wires

LEMMA DispatchMessageWritten == Written /\ DispatchMessage => Written'
<1> SUFFICES ASSUME Written, DispatchMessage PROVE Written'
  OBVIOUS
<1>1. down # << >> /\ down' = Tail(down) /\ downSent' = Tail(downSent)
  BY DEF DispatchMessage
<1>2. /\ project' = project /\ started' = started /\ marked' = marked /\ queue' = queue /\ daemonStack' = daemonStack
      /\ up' = up /\ upSent' = upSent
  BY DEF DispatchMessage, daemon
<1>3. DownWritten'
  BY <1>1, DownRead DEF Written
<1> QED  BY <1>2, <1>3 DEF Written, UpWritten

\* The daemon's messages.
LEMMA OneReply ==
  ASSUME NEW m, DaemonMessage(m)
  PROVE  IsSeq(<<m>>) /\ \A i \in 1..Len(<<m>>) : DaemonMessage(<< m >>[i])
<1> DEFINE s == <<m>>
<1>1. IsSeq(s) /\ Len(s) = 1 /\ s[1] = m
  BY OneIs
<1> HIDE DEF s
<1>2. \A i \in 1..1 : i = 1
  OBVIOUS
<1>3. \A i \in 1..Len(s) : DaemonMessage(s[i])
  BY <1>1, <1>2
<1> QED  BY <1>1, <1>3 DEF s

LEMMA ReplySent ==
  ASSUME DownWritten, NEW m, DaemonMessage(m), DaemonSends(<<m>>)
  PROVE  DownWritten'
<1> DEFINE ms == <<m>>
<1>1. IsSeq(ms) /\ \A i \in 1..Len(ms) : DaemonMessage(ms[i])
  BY OneReply
<1>2. DaemonSends(ms)
  OBVIOUS
<1> HIDE DEF ms
<1> QED  BY <1>1, <1>2, DownAppends

LEMMA SetupReadsWritten == Written /\ SetupReads => Written'
<1> SUFFICES ASSUME Written, SetupReads PROVE Written'
  OBVIOUS
<1> DEFINE m == ReadByDaemon(Head(up)).m
<1> DEFINE start == m.t = "REQUEST_SYNC_N_START_LUA" /\ IsOk(m)
<1>1. up # << >> /\ up' = Tail(up) /\ upSent' = Tail(upSent)
  BY DEF SetupReads
<1>2. project' = project /\ started' = started /\ marked' = marked /\ queue' = queue /\ daemonStack' = daemonStack
  BY DEF SetupReads, client
<1>3. UpWritten'
  BY <1>1, UpRead DEF Written
<1>4. \/ DaemonSends(<<[t |-> "REPLY_PLATFORM", m_OS |-> "Linux", m_Architecture |-> 64,
                        m_Hostname |-> "host", m_Lua |-> "Lua 5.2", m_LuaNum |-> 502,
                        m_LuaJIT |-> "no jit", m_LuaJITNum |-> 0]>>)
      \/ DaemonSends(<<[t |-> "REPLY_ECHO_DATA", sz |-> m.sz, data |-> m.data]>>)
      \/ DaemonSends(<<[t |-> "NOTIFY_SYNC_FAILED", err |-> "bad startup struct"]>>)
      \/ UNCHANGED <<down, downSent>>
  <2>1. (CASE m.t = "REQUEST_PLATFORM" ->
                  DaemonSends(<<[t |-> "REPLY_PLATFORM", m_OS |-> "Linux", m_Architecture |-> 64,
                                 m_Hostname |-> "host", m_Lua |-> "Lua 5.2", m_LuaNum |-> 502,
                                 m_LuaJIT |-> "no jit", m_LuaJITNum |-> 0]>>)
           [] m.t = "REQUEST_ECHO_DATA" ->
                DaemonSends(<<[t |-> "REPLY_ECHO_DATA", sz |-> m.sz, data |-> m.data]>>)
           [] m.t = "REQUEST_SYNC_N_START_LUA" /\ ~start ->
                DaemonSends(<<[t |-> "NOTIFY_SYNC_FAILED", err |-> "bad startup struct"]>>)
           [] OTHER -> UNCHANGED <<down, downSent>>)
    BY Zenon DEF SetupReads
  <2> HIDE DEF m
  <2> QED  BY <2>1
<1> HIDE DEF m, start
<1>5. DownWritten'
  <2>1. CASE DaemonSends(<<[t |-> "REPLY_PLATFORM", m_OS |-> "Linux", m_Architecture |-> 64,
                            m_Hostname |-> "host", m_Lua |-> "Lua 5.2", m_LuaNum |-> 502,
                            m_LuaJIT |-> "no jit", m_LuaJITNum |-> 0]>>)
    <3> DEFINE r == [t |-> "REPLY_PLATFORM", m_OS |-> "Linux", m_Architecture |-> 64,
                     m_Hostname |-> "host", m_Lua |-> "Lua 5.2", m_LuaNum |-> 502,
                     m_LuaJIT |-> "no jit", m_LuaJITNum |-> 0]
    <3>1. DaemonMessage(r)
      <4> DEFINE os == "Linux"
      <4> DEFINE arch == 64
      <4> DEFINE host == "host"
      <4> DEFINE lua == "Lua 5.2"
      <4> DEFINE luaNum == 502
      <4> DEFINE jit == "no jit"
      <4> DEFINE jitNum == 0
      <4> HIDE DEF os, arch, host, lua, luaNum, jit, jitNum
      <4>1. DaemonMessage([t |-> "REPLY_PLATFORM", m_OS |-> os, m_Architecture |-> arch,
                           m_Hostname |-> host, m_Lua |-> lua, m_LuaNum |-> luaNum,
                           m_LuaJIT |-> jit, m_LuaJITNum |-> jitNum])
        BY PlatformMessage
      <4> QED  BY <4>1 DEF os, arch, host, lua, luaNum, jit, jitNum
    <3>2. DaemonSends(<<r>>)
      BY <2>1
    <3> HIDE DEF r
    <3> QED  BY <3>1, <3>2, ReplySent DEF Written
  <2>2. CASE DaemonSends(<<[t |-> "REPLY_ECHO_DATA", sz |-> m.sz, data |-> m.data]>>)
    <3> DEFINE r == [t |-> "REPLY_ECHO_DATA", sz |-> m.sz, data |-> m.data]
    <3>1. DaemonMessage(r)
      BY EchoMessage
    <3>2. DaemonSends(<<r>>)
      BY <2>2
    <3> HIDE DEF r
    <3> QED  BY <3>1, <3>2, ReplySent DEF Written
  <2>3. CASE DaemonSends(<<[t |-> "NOTIFY_SYNC_FAILED", err |-> "bad startup struct"]>>)
    <3> DEFINE r == [t |-> "NOTIFY_SYNC_FAILED", err |-> "bad startup struct"]
    <3>1. DaemonMessage(r)
      BY SyncFailedMessage
    <3>2. DaemonSends(<<r>>)
      BY <2>3
    <3> HIDE DEF r
    <3> QED  BY <3>1, <3>2, ReplySent DEF Written
  <2>4. CASE UNCHANGED <<down, downSent>>
    BY <2>4 DEF Written, DownWritten
  <2> QED  BY <1>4, <2>1, <2>2, <2>3, <2>4
<1> QED  BY <1>2, <1>3, <1>5 DEF Written

LEMMA LoadsWritten ==
  ASSUME Written, NEW nf, Loads(nf)
  PROVE  Written'
<1>1. IsSeq(queue')
  BY OneIs DEF Loads
<1> QED  BY <1>1 DEF Written, UpWritten, DownWritten, Loads, client, wires

\* The stacks that are sent.
LEMMA ClientStackFormed ==
  ASSUME NEW levels, AllFormed(LevelOut, levels)
  PROVE  AllFormed(LevelOut, ToClientStack(levels))
<1> DEFINE s == ToClientStack(levels)
<1> DEFINE n == Len(levels)
<1>1. IsSeq(levels) /\ n \in Nat /\ DOMAIN levels = 1..n
  BY SeqHas DEF AllFormed
<1>2. ASSUME NEW u
      PROVE  Formed(LevelOut, [m_CFlag |-> TRUE, m_SourceFileName |-> "C location", m_FunctionName |-> "",
                               m_AltFunctionName |-> "", m_Line |-> -1, m_nFixedArguments |-> 0,
                               m_FunctionArguments |-> << >>, m_nUpValues |-> u])
  <2> DEFINE r == [m_CFlag |-> TRUE, m_SourceFileName |-> "C location", m_FunctionName |-> "",
                   m_AltFunctionName |-> "", m_Line |-> -1, m_nFixedArguments |-> 0,
                   m_FunctionArguments |-> << >>, m_nUpValues |-> u]
  <2> DEFINE names == {"m_CFlag", "m_SourceFileName", "m_FunctionName", "m_Line", "m_nFixedArguments",
                       "m_nUpValues", "m_FunctionArguments", "m_AltFunctionName"}
  <2> DEFINE strings == {"m_FunctionArguments"}
  <2>1. r = [f \in names |-> r[f]]
    OBVIOUS
  <2>2. \A f \in strings : IsSeq(r[f])
    <3>1. r["m_FunctionArguments"] = << >> /\ \A f \in strings : f = "m_FunctionArguments"
      OBVIOUS
    <3>2. IsSeq(<< >>)
      BY <1>1, CatNone
    <3> HIDE DEF r, strings
    <3> QED  BY <3>1, <3>2
  <2>3. HasFields(LevelOut, names, strings)
    BY LevelSchema
  <2> HIDE DEF r, names, strings
  <2>4. Formed(LevelOut, r)
    BY <2>1, <2>2, <2>3, RecordFormed
  <2> QED  BY <2>4 DEF r
<1>3. s = [i \in 1..n |-> s[i]] /\ \A i \in 1..n : Formed(LevelOut, s[i])
  <2>1. s = [i \in 1..n |-> s[i]]
    BY Zenon, <1>1 DEF ToClientStack
  <2>2. ASSUME NEW i \in 1..n PROVE Formed(LevelOut, s[i])
    <3>1. CASE levels[i].m_CFlag
      BY Zenon, <1>1, <1>2, <3>1 DEF ToClientStack
    <3>2. CASE ~levels[i].m_CFlag
      BY Zenon, <1>1, <3>2 DEF ToClientStack, AllFormed
    <3> QED  BY <3>1, <3>2
  <2> QED  BY <2>1, <2>2
<1> HIDE DEF s, n
<1>4. IsSeq(s) /\ DOMAIN s = 1..n
  BY <1>1, <1>3, FunIs
<1>5. AllFormed(LevelOut, s)
  BY <1>3, <1>4 DEF AllFormed
<1> QED  BY <1>5 DEF s

LEMMA FakeStackFormed ==
  ASSUME NEW file
  PROVE  AllFormed(LevelOut, FakeStack(file))
<1> DEFINE r == [m_CFlag |-> FALSE, m_SourceFileName |-> file, m_FunctionName |-> "<LOAD FILE> (fake level)",
                 m_AltFunctionName |-> "", m_Line |-> 1, m_nFixedArguments |-> 0,
                 m_FunctionArguments |-> << >>, m_nUpValues |-> 0]
<1> DEFINE names == {"m_CFlag", "m_SourceFileName", "m_FunctionName", "m_Line", "m_nFixedArguments",
                     "m_nUpValues", "m_FunctionArguments", "m_AltFunctionName"}
<1> DEFINE strings == {"m_FunctionArguments"}
<1>1. r = [f \in names |-> r[f]]
  OBVIOUS
<1>2. \A f \in strings : IsSeq(r[f])
  <2>1. r["m_FunctionArguments"] = << >> /\ \A f \in strings : f = "m_FunctionArguments"
    OBVIOUS
  <2>2. IsSeq(<< >>)
    <3>1. << >> \in Seq({})
      OBVIOUS
    <3> QED  BY <3>1, SeqIs
  <2> HIDE DEF r, strings
  <2> QED  BY <2>1, <2>2
<1>3. HasFields(LevelOut, names, strings)
  BY LevelSchema
<1>4. FakeStack(file) = <<r>>
  BY DEF FakeStack
<1> HIDE DEF r, names, strings
<1>5. Formed(LevelOut, r)
  BY <1>1, <1>2, <1>3, RecordFormed
<1> DEFINE s == <<r>>
<1>6. IsSeq(s) /\ Len(s) = 1 /\ s[1] = r
  BY OneIs
<1> HIDE DEF s
<1>7. DOMAIN s = 1..1 /\ \A i \in 1..1 : i = 1
  BY <1>6, SeqHas
<1>8. AllFormed(LevelOut, s)
  BY <1>5, <1>6, <1>7 DEF AllFormed
<1> QED  BY <1>4, <1>8 DEF s

LEMMA BothAreMessages ==
  ASSUME NEW s, NEW r, IsSeq(s), IsSeq(r), \A i \in 1..Len(s) : DaemonMessage(s[i]),
         \A i \in 1..Len(r) : DaemonMessage(r[i])
  PROVE  IsSeq(s \o r) /\ \A i \in 1..Len(s \o r) : DaemonMessage((s \o r)[i])
<1>1. /\ IsSeq(s \o r) /\ Len(s \o r) = Len(s) + Len(r)
      /\ \A i \in 1..Len(s) : (s \o r)[i] = s[i]
      /\ \A i \in 1..Len(r) : (s \o r)[Len(s) + i] = r[i]
  BY CatIs
<1>2. Len(s) \in Nat /\ Len(r) \in Nat
  BY SeqHas
<1>3. ASSUME NEW i \in 1..Len(s \o r) PROVE DaemonMessage((s \o r)[i])
  <2>1. CASE i \in 1..Len(s)
    BY Zenon, <1>1, <2>1
  <2>2. CASE i \notin 1..Len(s)
    <3> DEFINE j == i - Len(s)
    <3>1. j \in 1..Len(r) /\ i = Len(s) + j
      BY <1>1, <1>2, <2>2
    <3> HIDE DEF j
    <3> QED  BY Zenon, <1>1, <3>1
  <2> QED  BY <2>1, <2>2
<1> QED  BY <1>1, <1>3

LEMMA StopsWritten ==
  ASSUME Written, NEW why, NEW levels, NEW err, AllFormed(LevelOut, levels), Stops(why, levels, err)
  PROVE  Written'
<1> DEFINE at == levels[FirstLua(levels)]
<1> DEFINE a == [t |-> "REPLY_STACK", m_Levels |-> ToClientStack(levels)]
<1> DEFINE b == IF queue # << >> THEN <<[t |-> "NOTIFY_SCRIPT_LOADED", names |-> queue]>> ELSE << >>
<1> DEFINE c == [t |-> "NOTIFY_VM_SUSPENDED", m_Source |-> at.m_SourceFileName,
                 m_Line |-> at.m_Line, m_ErrorString |-> err]
<1>1. DaemonSends(<<a>> \o b \o <<c>>)
  BY Zenon DEF Stops
<1>2. project' = project /\ started' = started /\ marked' = marked /\ queue' = << >> /\ daemonStack' = levels
      /\ up' = up /\ upSent' = upSent
  BY DEF Stops, client
<1>3. DaemonMessage(a)
  <2> DEFINE s == ToClientStack(levels)
  <2>1. AllFormed(LevelOut, s)
    BY ClientStackFormed
  <2> HIDE DEF s
  <2>2. DaemonMessage([t |-> "REPLY_STACK", m_Levels |-> s])
    BY <2>1, StackMessage
  <2> QED  BY <2>2 DEF s
<1>4. DaemonMessage(c)
  <2> HIDE DEF at
  <2> QED  BY SuspendMessage
<1>5. IsSeq(b) /\ \A i \in 1..Len(b) : DaemonMessage(b[i])
  <2>1. CASE queue # << >>
    <3> DEFINE r == [t |-> "NOTIFY_SCRIPT_LOADED", names |-> queue]
    <3>1. DaemonMessage(r)
      BY LoadedMessage DEF Written
    <3>2. b = <<r>>
      BY <2>1
    <3> HIDE DEF r
    <3> QED  BY <3>1, <3>2, OneReply
  <2>2. CASE queue = << >>
    <3>1. b = << >> /\ IsSeq(b) /\ Len(b) = 0
      BY <2>2, CatNone DEF Written
    <3> QED  BY <3>1
  <2> QED  BY <2>1, <2>2
<1> HIDE DEF a, b, c
<1> DEFINE ab == <<a>> \o b
<1> DEFINE ms == ab \o <<c>>
<1>6. IsSeq(ab) /\ \A i \in 1..Len(ab) : DaemonMessage(ab[i])
  <2> DEFINE s == <<a>>
  <2>1. IsSeq(s) /\ \A i \in 1..Len(s) : DaemonMessage(s[i])
    BY <1>3, OneReply
  <2> HIDE DEF s
  <2>2. IsSeq(s \o b) /\ \A i \in 1..Len(s \o b) : DaemonMessage((s \o b)[i])
    BY <1>5, <2>1, BothAreMessages
  <2> QED  BY <2>2 DEF s
<1> HIDE DEF ab
<1>7. IsSeq(ms) /\ \A i \in 1..Len(ms) : DaemonMessage(ms[i])
  <2> DEFINE s == <<c>>
  <2>1. IsSeq(s) /\ \A i \in 1..Len(s) : DaemonMessage(s[i])
    BY <1>4, OneReply
  <2> HIDE DEF s
  <2>2. IsSeq(ab \o s) /\ \A i \in 1..Len(ab \o s) : DaemonMessage((ab \o s)[i])
    BY <1>6, <2>1, BothAreMessages
  <2> QED  BY <2>2 DEF s
<1>8. DaemonSends(ms)
  BY <1>1 DEF ab
<1> HIDE DEF ms
<1>9. DownWritten'
  BY <1>7, <1>8, DownAppends DEF Written
<1>10. IsSeq(queue')
  BY <1>2, <1>7, CatNone
<1> QED  BY <1>2, <1>9, <1>10 DEF Written, UpWritten


\* What is answered to a request for variables.
LEMMA UnsolvedFormed ==
  ASSUME NEW names, IsSeq(names)
  PROVE  AllFormed(CollectedOut, NOPWatches(names))
<1> DEFINE s == NOPWatches(names)
<1> DEFINE n == Len(names)
<1>1. n \in Nat /\ DOMAIN names = 1..n
  BY SeqHas
<1>2. ASSUME NEW name PROVE Formed(CollectedOut, GetUnsolved(name))
  <2> DEFINE r == GetUnsolved(name)
  <2> DEFINE fields == {"m_RootOffset", "m_KeyS", "m_Type", "m_ExpandedFlag", "m_HasMetaTableFlag",
                        "m_TemporaryFlag", "m_ValS", "m_Indent", "m_Path", "m_Scope",
                        "m_LineStart", "m_LineEnd"}
  <2> DEFINE strings == {}
  <2>1. r = [f \in fields |-> r[f]] /\ \A f \in strings : IsSeq(r[f])
    BY DEF GetUnsolved
  <2>2. HasFields(CollectedOut, fields, strings)
    BY CollectedSchema
  <2> HIDE DEF r, fields, strings
  <2>3. Formed(CollectedOut, r)
    BY <2>1, <2>2, RecordFormed
  <2> QED  BY <2>3 DEF r
<1>3. s = [i \in 1..n |-> s[i]] /\ \A i \in 1..n : Formed(CollectedOut, s[i])
  BY Zenon, <1>1, <1>2 DEF NOPWatches
<1> HIDE DEF s, n
<1>4. IsSeq(s) /\ DOMAIN s = 1..n
  BY <1>1, <1>3, FunIs
<1>5. AllFormed(CollectedOut, s)
  BY <1>3, <1>4 DEF AllFormed
<1> QED  BY <1>5 DEF s

\* The names a request carries.
LEMMA NamesOfRequest ==
  ASSUME NEW m, ClientMessage(m), m.t \in Variables
  PROVE  IsSeq(m.m_WatchNameList)
<1> DEFINE fd == RequestOut[5]
<1>1. MessageFormed(RequestOut, m)
  BY ClientWritesAre DEF ClientMessage
<1>2. 5 \in DOMAIN RequestOut /\ fd.f = "m_WatchNameList" /\ fd.k = Strings
  BY DEF RequestOut, Field
<1>3. Strings \notin {"list", "files"}
  BY DEF Strings
<1>4. PartFormed(fd, m[fd.f])
  BY <1>1, <1>2 DEF MessageFormed, BodyFormed
<1> HIDE DEF fd
<1> QED  BY <1>2, <1>3, <1>4 DEF PartFormed

LEMMA AnswerWritten ==
  ASSUME DownWritten, NEW m, ClientMessage(m), m.t \in Variables, Answer(m)
  PROVE  DownWritten'
<1> DEFINE names == IF m.t = "REQUEST_SOLVE_VARIABLE" THEN <<Head(m.m_WatchNameList)>> ELSE m.m_WatchNameList
<1> DEFINE watched == m.t \in {"REQUEST_WATCHES", "REQUEST_SOLVE_VARIABLE"}
<1> DEFINE choices == IF lastError = "LOAD_FILE_ERROR" THEN {IF watched THEN NOPWatches(names) ELSE << >>}
                      ELSE IF watched THEN {NOPWatches(names)} \cup {r \in Rows : r # << >>} ELSE Rows
<1>1. IsSeq(names)
  BY NamesOfRequest, OneIs
<1>2. \E rows \in choices :
        DaemonSends(<<[t |-> ReplyTo[m.t], requester_id |-> m.m_RequesterID, collected |-> rows]>>)
  BY Zenon DEF Answer
<1>3. AllFormed(CollectedOut, << >>)
  <2>1. IsSeq(<< >>)
    BY <1>1, CatNone
  <2> QED  BY <2>1 DEF AllFormed
<1>4. AllFormed(CollectedOut, NOPWatches(names))
  <2> HIDE DEF names
  <2> QED  BY <1>1, UnsolvedFormed
<1>5. ASSUME NEW rows \in choices PROVE AllFormed(CollectedOut, rows)
  <2> HIDE DEF names, watched
  <2> QED  BY <1>3, <1>4, RowsAssumption
<1>6. ReplyTo[m.t] \in Replies
  BY Zenon DEF Replies
<1> HIDE DEF names, watched, choices
<1>7. PICK rows \in choices :
        DaemonSends(<<[t |-> ReplyTo[m.t], requester_id |-> m.m_RequesterID, collected |-> rows]>>)
  BY <1>2
<1> DEFINE t == ReplyTo[m.t]
<1> DEFINE requester == m.m_RequesterID
<1> DEFINE r == [t |-> t, requester_id |-> requester, collected |-> rows]
<1>8. DaemonSends(<<r>>)
  BY <1>7
<1>9. DaemonMessage(r)
  <2>1. t \in Replies /\ AllFormed(CollectedOut, rows)
    BY <1>5, <1>6
  <2> HIDE DEF t, requester
  <2> QED  BY <2>1, ReplyMessage
<1> HIDE DEF r
<1> QED  BY <1>8, <1>9, ReplySent

LEMMA PausedReadsWritten == Written /\ PausedReads => Written'
<1> SUFFICES ASSUME Written, PausedReads PROVE Written'
  OBVIOUS
<1> DEFINE m == ReadByDaemon(Head(up)).m
<1>1. up # << >> /\ up' = Tail(up) /\ upSent' = Tail(upSent)
  BY DEF PausedReads
<1>2. project' = project /\ started' = started /\ marked' = marked /\ queue' = queue /\ daemonStack' = daemonStack
  BY DEF PausedReads, client
<1>3. UpWritten' /\ ClientMessage(m)
  BY <1>1, UpRead DEF Written
<1>4. (CASE m.t \in Variables       -> Answer(m)
         [] m.t = "REQUEST_STACK"   ->
              DaemonSends(<<[t |-> "REPLY_STACK", m_Levels |-> ToClientStack(daemonStack)]>>)
         [] OTHER                   -> UNCHANGED <<down, downSent>>)
  BY Zenon DEF PausedReads
<1> HIDE DEF m
<1>5. \/ m.t \in Variables /\ Answer(m)
      \/ DaemonSends(<<[t |-> "REPLY_STACK", m_Levels |-> ToClientStack(daemonStack)]>>)
      \/ UNCHANGED <<down, downSent>>
  BY <1>4
<1>6. DownWritten'
  <2>1. CASE m.t \in Variables /\ Answer(m)
    BY <1>3, <2>1, AnswerWritten DEF Written
  <2>2. CASE DaemonSends(<<[t |-> "REPLY_STACK", m_Levels |-> ToClientStack(daemonStack)]>>)
    <3> DEFINE s == ToClientStack(daemonStack)
    <3> DEFINE r == [t |-> "REPLY_STACK", m_Levels |-> s]
    <3>1. DaemonSends(<<r>>)
      BY <2>2
    <3>2. AllFormed(LevelOut, s)
      BY ClientStackFormed DEF Written
    <3> HIDE DEF s
    <3>3. DaemonMessage(r)
      BY <3>2, StackMessage
    <3> HIDE DEF r
    <3> QED  BY <3>1, <3>3, ReplySent DEF Written
  <2>3. CASE UNCHANGED <<down, downSent>>
    BY <2>3 DEF Written, DownWritten
  <2> QED  BY <1>5, <2>1, <2>2, <2>3
<1> QED  BY <1>2, <1>3, <1>6 DEF Written

LEMMA EndsWritten == Written /\ Ends => Written'
<1> SUFFICES ASSUME Written, Ends PROVE Written'
  OBVIOUS
<1> DEFINE zero == 0
<1> DEFINE r == [t |-> "NOTIFY_SESSION_ENDED", res |-> zero]
<1>1. DaemonSends(<<r>>)
  BY DEF Ends
<1>2. /\ project' = project /\ started' = started /\ marked' = marked /\ queue' = << >> /\ daemonStack' = << >>
      /\ up' = up /\ upSent' = upSent
  BY DEF Ends, client
<1>3. IsSeq(<< >>)
  BY CatNone DEF Written
<1>4. AllFormed(LevelOut, << >>)
  BY <1>3 DEF AllFormed
<1>5. DaemonMessage(r)
  <2> HIDE DEF zero
  <2> QED  BY EndedMessage
<1> HIDE DEF r
<1>6. DownWritten'
  BY <1>1, <1>5, ReplySent DEF Written
<1> QED  BY <1>2, <1>3, <1>4, <1>6 DEF Written, UpWritten

LEMMA EveryStopWritten == Written /\ (Breaks \/ RunsWrong \/ CannotLoad) => Written'
<1> SUFFICES ASSUME Written, Breaks \/ RunsWrong \/ CannotLoad PROVE Written'
  OBVIOUS
<1>1. PICK why, levels, err : AllFormed(LevelOut, levels) /\ Stops(why, levels, err)
  BY FakeStackFormed, StacksAssumption DEF Breaks, RunsWrong, CannotLoad
<1> QED  BY <1>1, StopsWritten

LEMMA WrittenNext == Written /\ [ExchangeNext]_exchangeVars => Written'
<1> SUFFICES ASSUME Written, [ExchangeNext]_exchangeVars PROVE Written'
  OBVIOUS
<1>1. CASE ToolConnect
  BY <1>1, ToolConnectWritten
<1>2. CASE ToolStartRun
  BY <1>2, ToolStartRunWritten
<1>3. CASE NetStressTest
  BY <1>3, NetStressTestWritten
<1>4. CASE EditProject \/ ToggleBreakpoint
  BY <1>4, EditsWritten
<1>5. CASE \E cmd \in {"RUN", "STEP_OVER", "END_SESSION"} : ResumeExecution(cmd)
  BY <1>5, ResumeExecutionWritten
<1>6. CASE \E r \in Requests : RequestVariables(r[1], r[2], r[3], r[4])
  BY <1>6, RequestVariablesWritten
<1>7. CASE RequestStack
  BY <1>7, RequestStackWritten
<1>8. CASE DispatchMessage
  BY <1>8, DispatchMessageWritten
<1>9. CASE SetupReads
  BY <1>9, SetupReadsWritten
<1>10. CASE Breaks \/ RunsWrong \/ CannotLoad
  BY <1>10, EveryStopWritten
<1>11. CASE PausedReads
  BY <1>11, PausedReadsWritten
<1>12. CASE Ends
  BY <1>12, EndsWritten
<1>13. CASE \E i \in DOMAIN netFiles : Loads(netFiles[i])
  BY <1>13, LoadsWritten
<1>14. CASE UNCHANGED exchangeVars
  BY <1>14 DEF Written, UpWritten, DownWritten, exchangeVars, client, daemon, wires
<1> QED  BY <1>1, <1>2, <1>3, <1>4, <1>5, <1>6, <1>7, <1>8, <1>9, <1>10, <1>11, <1>12, <1>13, <1>14
         DEF ExchangeNext

\* The streams in flight are the messages that were sent, each of its type.
THEOREM WrittenAlways == ExchangeSpec => []Written
<1>1. ExchangeInit => Written
  BY WrittenInit
<1>2. Written /\ [ExchangeNext]_exchangeVars => Written'
  BY WrittenNext
<1> QED  BY <1>1, <1>2, PTL DEF ExchangeSpec

\* Whatever the two ends send each other in a session - source files, breakpoints, stacks,
\* lists of variables of any length - the other end's list of fields (CommonClient.cpp,
\* CommonDaemon.cpp, Collected.cpp) reads it back whole, and leaves nothing of it unread.
THEOREM ReadAsWrittenAlways == ExchangeSpec => []ReadAsWritten
<1>1. ExchangeSpec => []Written
  BY WrittenAlways
<1>2. Written => ReadAsWritten
  BY WrittenIsRead
<1> QED  BY <1>1, <1>2, PTL

-----------------------------------------------------------------------------
(* The two take turns: the daemon runs only while the client waits for it,   *)
(* and a start reaches it only while it has no files. The user may edit them *)
(* all the while: what the daemon has is what they were at the start.        *)

SourceFiles == [i \in DOMAIN started |-> NetFile(started[i])]
Start == "REQUEST_SYNC_N_START_LUA"
ModeIs == mode \in {"setup", "running", "paused", "ending", "dead"}
InTurn == (down # << >> \/ ~waiting) => up = << >>
Waited == mode \in {"running", "ending", "dead"} => waiting /\ up = << >> /\ down = << >>
Unpausing == {"REPLY_PLATFORM", "NOTIFY_SYNC_FAILED", "NOTIFY_SESSION_ENDED"}
Tells(s, t) == \E i \in 1..Len(s) : s[i].t = t
PauseIsTold ==
  mode = "paused" =>
    /\ \A i \in 1..Len(downSent) : downSent[i].t \notin Unpausing
    /\ level \in {"LUA_PAUSED", "LUA_FATAL_ERROR"} \/ Tells(downSent, "NOTIFY_VM_SUSPENDED")
BreakpointsFirst == \A i \in 1..Len(upSent) : upSent[i].t = "NOTIFY_BREAKPOINTS" <=> i < Len(upSent)
StartsCarrySources == \A i \in 1..Len(upSent) : upSent[i].t = Start => upSent[i].files = SourceFiles
LoadedAreSources == mode # "setup" => netFiles = SourceFiles
Turns ==
  /\ ModeIs /\ InTurn /\ Waited /\ PauseIsTold
  /\ BreakpointsFirst /\ StartsCarrySources /\ LoadedAreSources

LEMMA TurnsInit == ExchangeInit => Turns
<1> SUFFICES ASSUME ExchangeInit PROVE Turns
  OBVIOUS
<1>1. Len(<< >>) = 0 /\ 1..0 = {}
  OBVIOUS
<1> QED
  BY <1>1 DEF ExchangeInit, Turns, ModeIs, InTurn, Waited, PauseIsTold, BreakpointsFirst,
              StartsCarrySources, LoadedAreSources

\* Nothing is in flight where no message is.
LEMMA NoneSent ==
  ASSUME Written
  PROVE  (up = << >> <=> upSent = << >>) /\ (down = << >> <=> downSent = << >>)
BY SeqHas DEF Written, UpWritten, DownWritten

\* The client sends to a daemon that has answered.
Sends(ms, files) ==
  \A i \in 1..Len(ms) :
    /\ ms[i].t = "NOTIFY_BREAKPOINTS" <=> i < Len(ms)
    /\ ms[i].t = Start => ms[i].files = files

LEMMA ClientSendsInTurn ==
  ASSUME Written, Turns, NEW ms, IsSeq(ms), Sends(ms, SourceFiles'), ClientSends(ms), Idle, level' = level,
         started' = started \/ level = "CONNECTED"
  PROVE  Turns'
<1>1. up = << >> /\ upSent = << >> /\ down = << >> /\ ~waiting
  BY NoneSent DEF Idle, Turns, InTurn
<1>2. upSent' = ms
  <2>1. << >> \o ms = ms
    BY CatNone
  <2> QED  BY <1>1, <2>1 DEF ClientSends
<1>3. /\ down' = << >> /\ downSent' = downSent /\ waiting' = TRUE /\ mode' = mode
      /\ netFiles' = netFiles
  BY <1>1 DEF ClientSends, daemon
<1>4. mode \in {"setup", "paused"}
  BY <1>1 DEF Turns, ModeIs, Waited
<1>5. ModeIs' /\ InTurn' /\ Waited'
  BY <1>3, <1>4 DEF ModeIs, InTurn, Waited
<1>6. PauseIsTold'
  BY <1>3 DEF Turns, PauseIsTold, Tells
<1>7. LoadedAreSources'
  <2>1. CASE started' = started
    BY <1>3, <2>1 DEF Turns, LoadedAreSources, SourceFiles
  <2>2. CASE level = "CONNECTED"
    <3>1. downSent = << >>
      BY <1>1, NoneSent
    <3>2. Len(downSent) = 0 /\ 1..0 = {}
      BY <3>1
    <3>3. mode # "paused"
      BY <2>2, <3>2 DEF Turns, PauseIsTold, Tells
    <3> QED  BY <1>3, <1>4, <3>3 DEF LoadedAreSources
  <2> QED  BY <2>1, <2>2
<1>8. BreakpointsFirst' /\ StartsCarrySources'
  BY <1>2 DEF BreakpointsFirst, StartsCarrySources, Sends
<1> QED  BY <1>5, <1>6, <1>7, <1>8 DEF Turns

LEMMA OneInTurn ==
  ASSUME NEW m, NEW files, m.t \notin {"NOTIFY_BREAKPOINTS", Start}
  PROVE  IsSeq(<<m>>) /\ Sends(<<m>>, files)
<1> DEFINE s == <<m>>
<1>1. IsSeq(s) /\ Len(s) = 1 /\ s[1] = m
  BY OneIs
<1> HIDE DEF s
<1>2. \A i \in 1..1 : i = 1 /\ ~(i < 1)
  OBVIOUS
<1>3. Sends(s, files)
  BY <1>1, <1>2 DEF Sends
<1> QED  BY <1>1, <1>3 DEF s

LEMMA TwoInTurn ==
  ASSUME NEW m, NEW r, NEW files, m.t = "NOTIFY_BREAKPOINTS", r.t # "NOTIFY_BREAKPOINTS",
         r.t = Start => r.files = files
  PROVE  IsSeq(<<m, r>>) /\ Sends(<<m, r>>, files)
<1> DEFINE s == <<m, r>>
<1>1. s = [i \in 1..2 |-> s[i]] /\ s[1] = m /\ s[2] = r /\ Len(s) = 2
  OBVIOUS
<1> HIDE DEF s
<1>2. \A i \in 1..2 : (i = 1 /\ i < 2) \/ (i = 2 /\ ~(i < 2))
  OBVIOUS
<1>3. IsSeq(s)
  BY <1>1, FunIs
<1>4. "NOTIFY_BREAKPOINTS" # Start
  BY DEF Start
<1>5. Sends(s, files)
  BY <1>1, <1>2, <1>4 DEF Sends
<1> QED  BY <1>3, <1>5 DEF s

LEMMA OneSentInTurn ==
  ASSUME Written, Turns, NEW m, m.t \notin {"NOTIFY_BREAKPOINTS", Start},
         ClientSends(<<m>>), Idle, level' = level, started' = started
  PROVE  Turns'
<1> DEFINE ms == <<m>>
<1>1. IsSeq(ms) /\ Sends(ms, SourceFiles')
  BY OneInTurn
<1>2. ClientSends(ms)
  OBVIOUS
<1> HIDE DEF ms
<1> QED  BY <1>1, <1>2, ClientSendsInTurn

LEMMA TwoSentInTurn ==
  ASSUME Written, Turns, NEW m, NEW r, m.t = "NOTIFY_BREAKPOINTS", r.t # "NOTIFY_BREAKPOINTS",
         r.t = Start => r.files = SourceFiles', ClientSends(<<m, r>>), Idle, level' = level,
         started' = started \/ level = "CONNECTED"
  PROVE  Turns'
<1> DEFINE ms == <<m, r>>
<1>1. IsSeq(ms) /\ Sends(ms, SourceFiles')
  BY TwoInTurn
<1>2. ClientSends(ms)
  OBVIOUS
<1> HIDE DEF ms
<1> QED  BY <1>1, <1>2, ClientSendsInTurn

LEMMA StartCarries ==
  ASSUME started' = project
  PROVE  SendSyncAndStartLua.t = Start /\ SendSyncAndStartLua.files = SourceFiles'
<1> DEFINE s == StartupLua
<1> DEFINE files == [i \in DOMAIN project |-> NetFile(project[i])]
<1> HIDE DEF s, files
<1> DEFINE w == With(s, "files", files)
<1>1. "files" \in DOMAIN w /\ w["files"] = files
  BY DEF With
<1> HIDE DEF w
<1>2. With(w, "t", Start)["t"] = Start /\ With(w, "t", Start)["files"] = w["files"]
  <2>1. "files" # "t"
    OBVIOUS
  <2> QED  BY <1>1, <2>1 DEF With
<1>3. SendSyncAndStartLua = With(w, "t", Start)
  BY Zenon DEF SendSyncAndStartLua, w, s, files, Start
<1>4. files = SourceFiles'
  BY DEF files, SourceFiles
<1> QED  BY <1>1, <1>2, <1>3, <1>4

LEMMA ClientInTurn ==
  ASSUME Written, Turns,
         \/ ToolConnect \/ ToolStartRun \/ NetStressTest \/ RequestStack
         \/ \E cmd \in {"RUN", "STEP_OVER", "END_SESSION"} : ResumeExecution(cmd)
         \/ \E r \in Requests : RequestVariables(r[1], r[2], r[3], r[4])
  PROVE  Turns'
<1>1. CASE ToolConnect
  <2> DEFINE m == [t |-> "REQUEST_PLATFORM"]
  <2>1. ClientSends(<<m>>) /\ Idle /\ level' = level /\ started' = started /\ m.t \notin {"NOTIFY_BREAKPOINTS", Start}
    BY <1>1 DEF ToolConnect, Start
  <2> HIDE DEF m
  <2> QED  BY <2>1, OneSentInTurn
<1>2. CASE ToolStartRun
  <2> DEFINE m == BreakpointList(TRUE)
  <2> DEFINE r == SendSyncAndStartLua
  <2>1. ClientSends(<<m, r>>) /\ Idle /\ level' = level /\ level = "CONNECTED" /\ started' = project
    BY <1>2 DEF ToolStartRun
  <2>2. m.t = "NOTIFY_BREAKPOINTS"
    BY DEF BreakpointList
  <2>3. r.t # "NOTIFY_BREAKPOINTS" /\ r.files = SourceFiles'
    BY <2>1, StartCarries DEF Start
  <2> HIDE DEF m, r
  <2> QED  BY <2>1, <2>2, <2>3, TwoSentInTurn
<1>3. CASE NetStressTest
  <2> DEFINE m == [t |-> "REQUEST_ECHO_DATA", sz |-> 4, data |-> "data"]
  <2>1. ClientSends(<<m>>) /\ Idle /\ level' = level /\ started' = started /\ m.t \notin {"NOTIFY_BREAKPOINTS", Start}
    BY <1>3 DEF NetStressTest, Start
  <2> HIDE DEF m
  <2> QED  BY <2>1, OneSentInTurn
<1>4. CASE RequestStack
  <2> DEFINE m == [t |-> "REQUEST_STACK"]
  <2>1. ClientSends(<<m>>) /\ Idle /\ level' = level /\ started' = started /\ m.t \notin {"NOTIFY_BREAKPOINTS", Start}
    BY <1>4 DEF RequestStack, Listening, Start
  <2> HIDE DEF m
  <2> QED  BY <2>1, OneSentInTurn
<1>5. ASSUME NEW cmd, ResumeExecution(cmd) PROVE Turns'
  <2> DEFINE m == BreakpointList(cmd # "END_SESSION")
  <2> DEFINE r == [t |-> "REQUEST_VM_RESUME", m_ClientCmd |-> cmd]
  <2>1. ClientSends(<<m, r>>) /\ Idle /\ level' = level /\ started' = started
    BY <1>5 DEF ResumeExecution, Listening
  <2>2. m.t = "NOTIFY_BREAKPOINTS"
    BY DEF BreakpointList
  <2>3. r.t # "NOTIFY_BREAKPOINTS" /\ r.t # Start
    BY DEF Start
  <2> HIDE DEF m, r
  <2> QED  BY <2>1, <2>2, <2>3, TwoSentInTurn
<1>6. ASSUME NEW q \in Requests, RequestVariables(q[1], q[2], q[3], q[4]) PROVE Turns'
  <2> DEFINE tables == IF q[1] = "REQUEST_SOLVE_VARIABLE" THEN << >> ELSE q[3]
  <2> DEFINE m == [t |-> q[1], m_RequesterID |-> q[2], m_StackLevel |-> 0,
                   m_ExpandedTables |-> tables, m_VarFlags |-> "all", m_WatchNameList |-> q[4]]
  <2>1. ClientSends(<<m>>) /\ Idle /\ level' = level /\ started' = started
    BY <1>6 DEF RequestVariables, Listening
  <2>2. q[1] \notin {"NOTIFY_BREAKPOINTS", Start}
    BY DEF Requests, Start
  <2>3. m.t = q[1]
    OBVIOUS
  <2> HIDE DEF m
  <2> QED  BY <2>1, <2>2, <2>3, OneSentInTurn
<1> QED  BY <1>1, <1>2, <1>3, <1>4, <1>5, <1>6

\* What the user edits is not what was sent.
LEMMA EditsInTurn == Turns /\ (EditProject \/ ToggleBreakpoint) => Turns'
BY DEF EditProject, ToggleBreakpoint, daemon, wires, Turns, ModeIs, InTurn, Waited, PauseIsTold, Tells,
       LoadedAreSources, SourceFiles, BreakpointsFirst, StartsCarrySources

\* What the client is told of the daemon.
LEMMA DispatchInTurn == Written /\ Turns /\ DispatchMessage => Turns'
<1> SUFFICES ASSUME Written, Turns, DispatchMessage PROVE Turns'
  OBVIOUS
<1> DEFINE m == downSent[1]
<1> DEFINE n == Len(downSent)
<1>1. down # << >> /\ down' = Tail(down) /\ downSent' = Tail(downSent) /\ waiting' = FALSE
      /\ level' = LevelAfter(ReadByClient(Head(down)).m)
  BY DEF DispatchMessage
<1>2. ReadByClient(Head(down)).m = m
  BY <1>1, DownRead DEF Written
<1>3. up = << >> /\ upSent = << >> /\ mode \in {"setup", "paused"}
  BY <1>1, NoneSent DEF Turns, InTurn, Waited, ModeIs
<1>4. up' = up /\ upSent' = upSent /\ mode' = mode /\ netFiles' = netFiles /\ project' = project /\ started' = started
  BY DEF DispatchMessage, daemon
<1>5. /\ Len(downSent') = n - 1 /\ n \in Nat /\ n # 0
      /\ \A i \in 1..(n - 1) : downSent'[i] = downSent[i + 1]
  <2>1. IsSeq(downSent) /\ downSent # << >>
    BY <1>1, NoneSent DEF Written, DownWritten
  <2>2. /\ Len(Tail(downSent)) = Len(downSent) - 1
        /\ \A i \in 1..(Len(downSent) - 1) : Tail(downSent)[i] = downSent[i + 1]
    BY <2>1, TailIs
  <2>3. n \in Nat /\ n # 0
    BY <2>1, SeqHas
  <2> QED  BY <1>1, <2>2, <2>3
<1>6. PauseIsTold'
  <2> SUFFICES ASSUME mode = "paused" PROVE PauseIsTold'
    BY <1>4 DEF PauseIsTold
  <2>1. /\ \A i \in 1..n : downSent[i].t \notin Unpausing
        /\ level \in {"LUA_PAUSED", "LUA_FATAL_ERROR"} \/ Tells(downSent, "NOTIFY_VM_SUSPENDED")
    BY DEF Turns, PauseIsTold
  <2>2. \A i \in 1..(n - 1) : i + 1 \in 1..n
    BY <1>5
  <2>3. m.t \notin Unpausing
    BY <1>5, <2>1
  <2>4. \A i \in 1..Len(downSent') : downSent'[i].t \notin Unpausing
    BY <1>5, <2>1, <2>2
  <2>5. level' \in {"LUA_PAUSED", "LUA_FATAL_ERROR"} \/ Tells(downSent', "NOTIFY_VM_SUSPENDED")
    <3>1. level' = LevelAfter(m)
      BY <1>1, <1>2
    <3> HIDE DEF m
    <3>2. CASE m.t = "NOTIFY_VM_SUSPENDED"
      BY <3>1, <3>2 DEF LevelAfter
    <3>3. CASE m.t # "NOTIFY_VM_SUSPENDED"
      <4>1. level' = level
        BY <2>3, <3>1, <3>3 DEF LevelAfter, Unpausing
      <4>2. ASSUME NEW i \in 1..n, downSent[i].t = "NOTIFY_VM_SUSPENDED"
            PROVE  Tells(downSent', "NOTIFY_VM_SUSPENDED")
        <5>1. i # 1
          BY <3>3, <4>2 DEF m
        <5> DEFINE j == i - 1
        <5>2. j \in 1..(n - 1) /\ j + 1 = i
          BY <1>5, <5>1
        <5> HIDE DEF j
        <5>3. downSent'[j].t = "NOTIFY_VM_SUSPENDED" /\ j \in 1..Len(downSent')
          BY <1>5, <4>2, <5>2
        <5> QED  BY <5>3 DEF Tells
      <4> QED  BY <2>1, <4>1, <4>2 DEF Tells
    <3> QED  BY <3>2, <3>3
  <2> QED  BY <2>4, <2>5 DEF PauseIsTold
<1>7. ModeIs' /\ InTurn' /\ Waited' /\ LoadedAreSources'
  BY <1>3, <1>4 DEF Turns, ModeIs, InTurn, Waited, LoadedAreSources, SourceFiles
<1>8. BreakpointsFirst' /\ StartsCarrySources'
  BY <1>4 DEF Turns, BreakpointsFirst, StartsCarrySources, SourceFiles
<1> QED  BY <1>6, <1>7, <1>8 DEF Turns

\* The daemon reads while the client waits, and its answer is to the last of what was sent.
LEMMA ReadInTurn ==
  ASSUME Written, Turns, up # << >>, up' = Tail(up), upSent' = Tail(upSent), project' = project /\ started' = started
  PROVE  /\ waiting /\ down = << >> /\ downSent = << >> /\ mode \in {"setup", "paused"}
         /\ upSent[1].t # "NOTIFY_BREAKPOINTS" => up' = << >>
         /\ upSent[1].t = Start => upSent[1].files = SourceFiles
         /\ BreakpointsFirst' /\ StartsCarrySources'
<1> DEFINE n == Len(upSent)
<1>1. waiting /\ down = << >> /\ downSent = << >>
  BY NoneSent DEF Turns, InTurn
<1>2. mode \in {"setup", "paused"}
  BY DEF Turns, Waited, ModeIs
<1>3. /\ Len(upSent') = n - 1 /\ n \in Nat /\ n # 0
      /\ \A i \in 1..(n - 1) : upSent'[i] = upSent[i + 1]
  <2>1. IsSeq(upSent) /\ upSent # << >>
    BY NoneSent DEF Written, UpWritten
  <2>2. /\ Len(Tail(upSent)) = Len(upSent) - 1
        /\ \A i \in 1..(Len(upSent) - 1) : Tail(upSent)[i] = upSent[i + 1]
    BY <2>1, TailIs
  <2>3. n \in Nat /\ n # 0
    BY <2>1, SeqHas
  <2> QED  BY <2>2, <2>3
<1>4. BreakpointsFirst /\ StartsCarrySources /\ 1 \in 1..n
  BY <1>3 DEF Turns
<1>5. upSent[1].t # "NOTIFY_BREAKPOINTS" => up' = << >>
  <2> SUFFICES ASSUME upSent[1].t # "NOTIFY_BREAKPOINTS" PROVE up' = << >>
    OBVIOUS
  <2>1. n = 1
    BY <1>3, <1>4 DEF BreakpointsFirst
  <2>2. IsSeq(up) /\ Len(up) = 1
    BY <2>1 DEF Written, UpWritten
  <2>3. IsSeq(Tail(up)) /\ Len(Tail(up)) = Len(up) - 1
    BY <2>2, TailIs
  <2>4. IsSeq(up') /\ Len(up') = 0
    BY <2>2, <2>3
  <2> QED  BY <2>4, SeqHas
<1>6. upSent[1].t = Start => upSent[1].files = SourceFiles
  BY <1>4 DEF StartsCarrySources
<1>7. BreakpointsFirst' /\ StartsCarrySources'
  <2>1. \A i \in 1..(n - 1) : i + 1 \in 1..n /\ (i < n - 1 <=> i + 1 < n)
    BY <1>3
  <2>2. SourceFiles' = SourceFiles
    BY DEF SourceFiles
  <2>3. BreakpointsFirst'
    BY <1>3, <1>4, <2>1 DEF BreakpointsFirst
  <2>4. StartsCarrySources'
    BY <1>3, <1>4, <2>1, <2>2 DEF StartsCarrySources
  <2> QED  BY <2>3, <2>4
<1> QED  BY <1>1, <1>2, <1>5, <1>6, <1>7

LEMMA SetupReadsInTurn == Written /\ Turns /\ SetupReads => Turns'
<1> SUFFICES ASSUME Written, Turns, SetupReads PROVE Turns'
  OBVIOUS
<1> DEFINE m == ReadByDaemon(Head(up)).m
<1> DEFINE start == m.t = Start /\ IsOk(m)
<1>1. /\ up # << >> /\ up' = Tail(up) /\ upSent' = Tail(upSent) /\ project' = project /\ started' = started
      /\ mode = "setup" /\ waiting' = waiting
  BY DEF SetupReads, client
<1>2. /\ mode' = IF start THEN PreloadFiles(m.files) ELSE mode
      /\ netFiles' = IF start THEN m.files ELSE netFiles
  BY DEF SetupReads, Start
<1>3. m.t \in {"NOTIFY_BREAKPOINTS", Start} => start \/ m.t = "NOTIFY_BREAKPOINTS" \/ ~IsOk(m)
  OBVIOUS
<1>4. (CASE m.t = "REQUEST_PLATFORM" ->
                  DaemonSends(<<[t |-> "REPLY_PLATFORM", m_OS |-> "Linux", m_Architecture |-> 64,
                                 m_Hostname |-> "host", m_Lua |-> "Lua 5.2", m_LuaNum |-> 502,
                                 m_LuaJIT |-> "no jit", m_LuaJITNum |-> 0]>>)
         [] m.t = "REQUEST_ECHO_DATA" ->
              DaemonSends(<<[t |-> "REPLY_ECHO_DATA", sz |-> m.sz, data |-> m.data]>>)
         [] m.t = "REQUEST_SYNC_N_START_LUA" /\ ~start ->
              DaemonSends(<<[t |-> "NOTIFY_SYNC_FAILED", err |-> "bad startup struct"]>>)
         [] OTHER -> UNCHANGED <<down, downSent>>)
  BY Zenon DEF SetupReads, Start
<1>5. m = upSent[1]
  BY <1>1, UpRead DEF Written
<1>6. /\ waiting /\ down = << >> /\ downSent = << >>
      /\ m.t # "NOTIFY_BREAKPOINTS" => up' = << >>
      /\ m.t = Start => m.files = SourceFiles
      /\ BreakpointsFirst' /\ StartsCarrySources'
  BY <1>1, <1>5, ReadInTurn
<1> HIDE DEF m
<1>7. (m.t = "NOTIFY_BREAKPOINTS" \/ start) => down' = << >>
  BY <1>4, <1>6 DEF Start
<1>8. start => mode' \in {"dead", "running"} /\ up' = << >> /\ netFiles' = SourceFiles
  BY <1>2, <1>6 DEF PreloadFiles, Start
<1>9. ~start => mode' = "setup"
  BY <1>1, <1>2
<1> HIDE DEF start
<1>10. ModeIs' /\ InTurn' /\ Waited' /\ PauseIsTold'
  BY <1>1, <1>6, <1>7, <1>8, <1>9 DEF ModeIs, InTurn, Waited, PauseIsTold
<1>11. LoadedAreSources'
  <2>1. SourceFiles' = SourceFiles
    BY <1>1 DEF SourceFiles
  <2> QED  BY <1>8, <1>9, <2>1 DEF LoadedAreSources
<1> QED  BY <1>6, <1>10, <1>11 DEF Turns

\* A reply to a request is one message, and none of these.
LEMMA OneTold ==
  ASSUME Written, downSent = << >>, NEW r, DaemonSends(<<r>>), r.t \notin Unpausing
  PROVE  \A i \in 1..Len(downSent') : downSent'[i].t \notin Unpausing
<1> DEFINE s == <<r>>
<1>1. IsSeq(s) /\ Len(s) = 1 /\ s[1] = r
  BY OneIs
<1>2. downSent' = << >> \o s
  BY DEF DaemonSends
<1> HIDE DEF s
<1>3. downSent' = s
  BY <1>1, <1>2, CatNone
<1>4. \A i \in 1..1 : i = 1
  OBVIOUS
<1> QED  BY <1>1, <1>3, <1>4

LEMMA PausedReadsInTurn == Written /\ Turns /\ PausedReads => Turns'
<1> SUFFICES ASSUME Written, Turns, PausedReads PROVE Turns'
  OBVIOUS
<1> DEFINE m == ReadByDaemon(Head(up)).m
<1>1. /\ up # << >> /\ up' = Tail(up) /\ upSent' = Tail(upSent) /\ project' = project /\ started' = started
      /\ mode = "paused" /\ waiting' = waiting /\ level' = level /\ netFiles' = netFiles
  BY DEF PausedReads, client
<1>2. mode' = IF m.t # "REQUEST_VM_RESUME" THEN mode
              ELSE IF m.m_ClientCmd = "END_SESSION" \/ entry = "LOAD_FILE_ERROR" THEN "ending" ELSE "running"
  BY Zenon DEF PausedReads
<1>3. (CASE m.t \in Variables       -> Answer(m)
         [] m.t = "REQUEST_STACK"   ->
              DaemonSends(<<[t |-> "REPLY_STACK", m_Levels |-> ToClientStack(daemonStack)]>>)
         [] OTHER                   -> UNCHANGED <<down, downSent>>)
  BY Zenon DEF PausedReads
<1>4. m = upSent[1]
  BY <1>1, UpRead DEF Written
<1>5. /\ waiting /\ down = << >> /\ downSent = << >>
      /\ m.t # "NOTIFY_BREAKPOINTS" => up' = << >>
      /\ BreakpointsFirst' /\ StartsCarrySources'
  BY <1>1, <1>4, ReadInTurn
<1> HIDE DEF m
<1>6. level \in {"LUA_PAUSED", "LUA_FATAL_ERROR"}
  <2>1. Len(downSent) = 0 /\ 1..0 = {}
    BY <1>5
  <2> QED  BY <1>1, <2>1 DEF Turns, PauseIsTold, Tells
<1>7. CASE m.t \in Variables \cup {"REQUEST_STACK"}
  <2>1. m.t # "NOTIFY_BREAKPOINTS" /\ m.t # "REQUEST_VM_RESUME"
    BY <1>7 DEF Variables
  <2>2. mode' = "paused" /\ up' = << >>
    BY <1>1, <1>2, <1>5, <2>1
  <2>3. PICK r : DaemonSends(<<r>>) /\ r.t \notin Unpausing
    <3>1. CASE m.t \in Variables
      <4>1. Answer(m)
        BY <1>3, <3>1 DEF Variables
      <4>2. PICK requester, rows :
              DaemonSends(<<[t |-> ReplyTo[m.t], requester_id |-> requester, collected |-> rows]>>)
        BY Zenon, <4>1 DEF Answer
      <4>3. ReplyTo[m.t] \notin Unpausing
        BY <3>1 DEF ReplyTo, Variables, Unpausing
      <4> DEFINE r == [t |-> ReplyTo[m.t], requester_id |-> requester, collected |-> rows]
      <4>4. r.t \notin Unpausing
        BY <4>3
      <4> QED  BY <4>2, <4>4
    <3>2. CASE m.t = "REQUEST_STACK"
      <4> DEFINE r == [t |-> "REPLY_STACK", m_Levels |-> ToClientStack(daemonStack)]
      <4>1. DaemonSends(<<r>>)
        BY <1>3, <3>2 DEF Variables
      <4>2. r.t \notin Unpausing
        BY DEF Unpausing
      <4> QED  BY <4>1, <4>2
    <3> QED  BY <1>7, <3>1, <3>2
  <2>4. \A i \in 1..Len(downSent') : downSent'[i].t \notin Unpausing
    BY <1>5, <2>3, OneTold
  <2>5. ModeIs' /\ InTurn' /\ Waited' /\ PauseIsTold'
    BY <1>1, <1>6, <2>2, <2>4 DEF ModeIs, InTurn, Waited, PauseIsTold
  <2>6. LoadedAreSources'
    BY <1>1 DEF Turns, LoadedAreSources, SourceFiles
  <2> QED  BY <1>5, <2>5, <2>6 DEF Turns
<1>8. CASE m.t \notin Variables \cup {"REQUEST_STACK"}
  <2>1. down' = << >> /\ downSent' = << >>
    BY <1>3, <1>5, <1>8
  <2>2. mode' \in {"ending", "running"} => up' = << >>
    BY <1>1, <1>2, <1>5
  <2>3. mode' \in {"paused", "ending", "running"}
    BY <1>1, <1>2
  <2>4. Len(downSent') = 0 /\ 1..0 = {}
    BY <2>1
  <2>5. ModeIs' /\ InTurn' /\ Waited' /\ PauseIsTold'
    BY <1>1, <1>5, <1>6, <2>1, <2>2, <2>3, <2>4 DEF ModeIs, InTurn, Waited, PauseIsTold
  <2>6. LoadedAreSources'
    BY <1>1 DEF Turns, LoadedAreSources, SourceFiles
  <2> QED  BY <1>5, <2>5, <2>6 DEF Turns
<1> QED  BY <1>7, <1>8

\* A stop tells of the pause last.
LEMMA StopTells ==
  ASSUME Written, downSent = << >>, NEW a, NEW b, NEW c, a.t \notin Unpausing,
         b = << >> \/ \E x : b = << x >> /\ x.t \notin Unpausing,
         c.t = "NOTIFY_VM_SUSPENDED", DaemonSends(<<a>> \o b \o <<c>>)
  PROVE  /\ \A i \in 1..Len(downSent') : downSent'[i].t \notin Unpausing
         /\ Tells(downSent', "NOTIFY_VM_SUSPENDED")
<1> DEFINE sa == <<a>>
<1> DEFINE sc == <<c>>
<1>1. IsSeq(sa) /\ Len(sa) = 1 /\ sa[1] = a /\ IsSeq(sc) /\ Len(sc) = 1 /\ sc[1] = c
  BY OneIs
<1>2. downSent' = << >> \o (sa \o b \o sc)
  BY DEF DaemonSends
<1> HIDE DEF sa, sc
<1>3. IsSeq(b) /\ Len(b) \in Nat /\ \A i \in 1..Len(b) : b[i].t \notin Unpausing
  <2>1. CASE b = << >>
    <3>1. IsSeq(b) /\ Len(b) = 0
      BY <1>1, <2>1, CatNone
    <3> QED  BY <3>1
  <2>2. ASSUME NEW x, b = << x >>, x.t \notin Unpausing PROVE IsSeq(b) /\ Len(b) \in Nat /\ \A i \in 1..Len(b) : b[i].t \notin Unpausing
    <3>1. IsSeq(b) /\ Len(b) = 1 /\ b[1] = x
      BY <2>2, OneIs
    <3>2. \A i \in 1..1 : i = 1
      OBVIOUS
    <3> QED  BY <2>2, <3>1, <3>2
  <2> QED  BY <2>1, <2>2
<1> DEFINE n == Len(b)
<1> DEFINE ab == sa \o b
<1>4. /\ IsSeq(ab) /\ Len(ab) = 1 + n /\ \A i \in 1..1 : ab[i] = sa[i]
      /\ \A i \in 1..n : ab[1 + i] = b[i]
  <2>1. /\ IsSeq(sa \o b) /\ Len(sa \o b) = Len(sa) + Len(b)
        /\ \A i \in 1..Len(sa) : (sa \o b)[i] = sa[i]
        /\ \A i \in 1..Len(b) : (sa \o b)[Len(sa) + i] = b[i]
    <3>1. IsSeq(sa) /\ IsSeq(b)
      BY <1>1, <1>3
    <3> QED  BY <3>1, CatIs
  <2> QED  BY <1>1, <2>1
<1> HIDE DEF ab
<1> DEFINE ms == ab \o sc
<1>5. /\ IsSeq(ms) /\ Len(ms) = 2 + n /\ \A i \in 1..(1 + n) : ms[i] = ab[i]
      /\ ms[2 + n] = c
  <2>1. /\ IsSeq(ab \o sc) /\ Len(ab \o sc) = Len(ab) + Len(sc)
        /\ \A i \in 1..Len(ab) : (ab \o sc)[i] = ab[i]
        /\ \A i \in 1..Len(sc) : (ab \o sc)[Len(ab) + i] = sc[i]
    <3>1. IsSeq(ab) /\ IsSeq(sc)
      BY <1>1, <1>4
    <3> QED  BY <3>1, CatIs
  <2>2. 1 \in 1..Len(sc) /\ Len(ab) + 1 = 2 + n
    BY <1>1, <1>3, <1>4
  <2>3. (ab \o sc)[Len(ab) + 1] = sc[1]
    BY <2>1, <2>2
  <2>4. Len(ab) + Len(sc) = 2 + n
    BY <1>1, <1>3, <1>4
  <2> QED  BY <1>1, <1>4, <2>1, <2>2, <2>3, <2>4
<1>6. downSent' = ms
  <2>1. downSent' = << >> \o ms
    BY <1>2 DEF ab
  <2> HIDE DEF ms
  <2> QED  BY <1>5, <2>1, CatNone
<1> HIDE DEF ms
<1>7. ASSUME NEW i \in 1..(2 + n) PROVE ms[i].t \notin Unpausing
  <2>1. CASE i = 1
    BY <1>1, <1>3, <1>4, <1>5, <2>1
  <2>2. CASE i = 2 + n
    BY <1>5, <2>2 DEF Unpausing
  <2>3. CASE i # 1 /\ i # 2 + n
    <3> DEFINE j == i - 1
    <3>1. j \in 1..n /\ i = 1 + j /\ i \in 1..(1 + n)
      BY <1>3, <2>3
    <3> HIDE DEF j
    <3>2. ms[i] = b[j]
      BY <1>4, <1>5, <3>1
    <3> QED  BY <1>3, <3>1, <3>2
  <2> QED  BY <2>1, <2>2, <2>3
<1>8. 2 + n \in 1..(2 + n)
  BY <1>3
<1> HIDE DEF n
<1> QED  BY <1>5, <1>6, <1>7, <1>8 DEF Tells

LEMMA StopsInTurn ==
  ASSUME Written, Turns, NEW why, NEW levels, NEW err, Stops(why, levels, err)
  PROVE  Turns'
<1> DEFINE at == levels[FirstLua(levels)]
<1> DEFINE a == [t |-> "REPLY_STACK", m_Levels |-> ToClientStack(levels)]
<1> DEFINE x == [t |-> "NOTIFY_SCRIPT_LOADED", names |-> queue]
<1> DEFINE b == IF queue # << >> THEN << x >> ELSE << >>
<1> DEFINE c == [t |-> "NOTIFY_VM_SUSPENDED", m_Source |-> at.m_SourceFileName,
                 m_Line |-> at.m_Line, m_ErrorString |-> err]
<1>1. DaemonSends(<<a>> \o b \o <<c>>)
  BY Zenon DEF Stops
<1>2. /\ mode = "running" /\ mode' = "paused" /\ project' = project /\ started' = started /\ netFiles' = netFiles
      /\ up' = up /\ upSent' = upSent
  BY DEF Stops, client
<1>3. up = << >> /\ down = << >> /\ downSent = << >>
  BY <1>2, NoneSent DEF Turns, Waited
<1>4. a.t \notin Unpausing /\ c.t = "NOTIFY_VM_SUSPENDED"
  BY DEF Unpausing
<1>5. b = << >> \/ \E y : b = << y >> /\ y.t \notin Unpausing
  <2>1. x.t \notin Unpausing
    BY DEF Unpausing
  <2> HIDE DEF x
  <2> QED  BY <2>1
<1> HIDE DEF a, b, c
<1>6. /\ \A i \in 1..Len(downSent') : downSent'[i].t \notin Unpausing
      /\ Tells(downSent', "NOTIFY_VM_SUSPENDED")
  BY <1>1, <1>3, <1>4, <1>5, StopTells
<1>7. ModeIs' /\ InTurn' /\ Waited' /\ PauseIsTold'
  BY <1>2, <1>3, <1>6 DEF ModeIs, InTurn, Waited, PauseIsTold
<1>8. LoadedAreSources' /\ BreakpointsFirst' /\ StartsCarrySources'
  BY <1>2 DEF Turns, LoadedAreSources, SourceFiles, BreakpointsFirst, StartsCarrySources
<1> QED  BY <1>7, <1>8 DEF Turns

LEMMA EndsInTurn == Turns /\ Ends => Turns'
<1> SUFFICES ASSUME Turns, Ends PROVE Turns'
  OBVIOUS
<1>1. /\ mode \in {"running", "ending"} /\ mode' = "setup" /\ up' = up /\ upSent' = upSent
      /\ project' = project /\ started' = started /\ waiting' = waiting
  BY DEF Ends, client
<1>2. waiting /\ up = << >>
  BY <1>1 DEF Turns, Waited
<1> QED
  BY <1>1, <1>2 DEF Turns, ModeIs, InTurn, Waited, PauseIsTold, LoadedAreSources, SourceFiles,
                    BreakpointsFirst, StartsCarrySources

LEMMA LoadsInTurn ==
  ASSUME Turns, UNCHANGED exchangeVars \/ \E nf : Loads(nf)
  PROVE  Turns'
BY DEF Loads, exchangeVars, client, daemon, wires, Turns, ModeIs, InTurn, Waited, PauseIsTold, Tells,
       LoadedAreSources, SourceFiles, BreakpointsFirst, StartsCarrySources

LEMMA TurnsNext == Written /\ Turns /\ [ExchangeNext]_exchangeVars => Turns'
<1> SUFFICES ASSUME Written, Turns, [ExchangeNext]_exchangeVars PROVE Turns'
  OBVIOUS
<1>1. CASE \/ ToolConnect \/ ToolStartRun \/ NetStressTest \/ RequestStack
           \/ \E cmd \in {"RUN", "STEP_OVER", "END_SESSION"} : ResumeExecution(cmd)
           \/ \E r \in Requests : RequestVariables(r[1], r[2], r[3], r[4])
  BY <1>1, ClientInTurn
<1>2. CASE EditProject \/ ToggleBreakpoint
  BY <1>2, EditsInTurn
<1>3. CASE DispatchMessage
  BY <1>3, DispatchInTurn
<1>4. CASE SetupReads
  BY <1>4, SetupReadsInTurn
<1>5. CASE Breaks \/ RunsWrong \/ CannotLoad
  BY <1>5, StopsInTurn DEF Breaks, RunsWrong, CannotLoad
<1>6. CASE PausedReads
  BY <1>6, PausedReadsInTurn
<1>7. CASE Ends
  BY <1>7, EndsInTurn
<1>8. CASE UNCHANGED exchangeVars \/ \E i \in DOMAIN netFiles : Loads(netFiles[i])
  BY <1>8, LoadsInTurn
<1> QED  BY <1>1, <1>2, <1>3, <1>4, <1>5, <1>6, <1>7, <1>8 DEF ExchangeNext

-----------------------------------------------------------------------------
(* The lines of a text that is sent.                                         *)

\* A text with a line end has a first one.
LEMMA FirstLineEnd ==
  ASSUME NEW text, IsSeq(text), NEW k \in DOMAIN text, text[k] = "nl"
  PROVE  \E i \in DOMAIN text : text[i] = "nl" /\ \A j \in 1..(i - 1) : text[j] # "nl"
<1> SUFFICES ASSUME \A i \in DOMAIN text : text[i] = "nl" => \E j \in 1..(i - 1) : text[j] = "nl"
             PROVE  FALSE
  OBVIOUS
<1>1. Len(text) \in Nat /\ DOMAIN text = 1..Len(text)
  BY SeqHas
<1> DEFINE Q == {n \in Nat : \A i \in DOMAIN text : i <= n => text[i] # "nl"}
<1>2. 0 \in Q
  BY <1>1
<1>3. ASSUME NEW n \in Nat, n \in Q PROVE n + 1 \in Q
  <2>1. ASSUME NEW i \in DOMAIN text, i <= n + 1, text[i] = "nl" PROVE FALSE
    <3>1. PICK j \in 1..(i - 1) : text[j] = "nl"
      BY <2>1
    <3>2. j \in DOMAIN text /\ j <= n
      BY <1>1, <2>1, <3>1
    <3> QED  BY <1>3, <3>1, <3>2
  <2> QED  BY <2>1
<1>4. Nat \subseteq Q
  <2> HIDE DEF Q
  <2> QED  BY <1>2, <1>3, NaturalsAreReached
<1>5. k \in Nat /\ k \in Q
  BY <1>1, <1>4
<1> QED  BY <1>5

\* Serialized() keeps every line end, and blanks nothing but a first line.
LEMMA SerializedKeepsLines ==
  ASSUME NEW text, IsSeq(Unmarked(text))
  PROVE  /\ DOMAIN Serialized(text) = DOMAIN Unmarked(text)
         /\ \A j \in DOMAIN Unmarked(text) :
              \/ Serialized(text)[j] = Unmarked(text)[j]
              \/ Serialized(text)[j] = " " /\ Unmarked(text)[j] # "nl"
         /\ \A j \in DOMAIN Unmarked(text) : (\E k \in 1..(j - 1) : Unmarked(text)[k] = "nl") =>
              Serialized(text)[j] = Unmarked(text)[j]
<1> DEFINE t == Unmarked(text)
<1> DEFINE lua == Serialized(text)
<1>1. Len(t) \in Nat /\ DOMAIN t = 1..Len(t)
  BY SeqHas
<1>2. lua = IF NumLines(t) > 0 /\ t[1] = "#" THEN [i \in DOMAIN t |-> IF i < LineEnd(t) THEN " " ELSE t[i]] ELSE t
  BY Zenon DEF Serialized
<1> HIDE DEF t, lua
<1>3. CASE NumLines(t) > 0
  <2> DEFINE ends == {i \in DOMAIN t : t[i] = "nl"}
  <2>1. \E i \in DOMAIN t : t[i] = "nl"
    <3> SUFFICES ASSUME \A i \in DOMAIN t : t[i] # "nl" PROVE FALSE
      OBVIOUS
    <3>1. ends = {}
      OBVIOUS
    <3>2. NumLines(t) = Cardinality(ends)
      BY Zenon DEF NumLines
    <3>3. Cardinality({}) = 0
      BY FS_EmptySet
    <3> HIDE DEF ends
    <3> QED  BY <1>3, <3>1, <3>2, <3>3
  <2>2. IsSeq(t)
    BY DEF t
  <2>3. \E i \in DOMAIN t : t[i] = "nl" /\ \A j \in 1..(i - 1) : t[j] # "nl"
    BY <2>1, <2>2, FirstLineEnd
  <2> DEFINE e == LineEnd(t)
  <2>4. e \in DOMAIN t /\ t[e] = "nl" /\ \A j \in 1..(e - 1) : t[j] # "nl"
    BY <2>3 DEF LineEnd
  <2> HIDE DEF e
  <2>5. CASE t[1] = "#"
    <3>1. lua = [i \in DOMAIN t |-> IF i < e THEN " " ELSE t[i]]
      BY <1>2, <1>3, <2>5 DEF e
    <3>2. ASSUME NEW j \in DOMAIN t PROVE lua[j] = t[j] \/ (lua[j] = " " /\ t[j] # "nl")
      <4>1. j < e => j \in 1..(e - 1)
        BY <1>1, <2>4
      <4> QED  BY <2>4, <3>1, <4>1
    <3>3. ASSUME NEW j \in DOMAIN t, NEW k \in 1..(j - 1), t[k] = "nl" PROVE lua[j] = t[j]
      <4>1. ~(j < e)
        BY <1>1, <2>4, <3>3
      <4> QED  BY <3>1, <4>1
    <3> QED  BY <3>1, <3>2, <3>3 DEF t, lua
  <2>6. CASE t[1] # "#"
    <3>1. lua = t
      BY <1>2, <2>6
    <3> QED  BY <3>1 DEF t, lua
  <2> QED  BY <2>5, <2>6
<1>4. CASE ~(NumLines(t) > 0)
  <2>1. lua = t
    BY <1>2, <1>4
  <2> QED  BY <2>1 DEF t, lua
<1> QED  BY <1>3, <1>4

LEMMA UnmarkedIs ==
  ASSUME NEW text, IsSeq(text)
  PROVE  IsSeq(Unmarked(text))
BY TailIs DEF Unmarked

LEMMA TurnsKeepLines ==
  ASSUME Written, Turns
  PROVE  LinesAgree
<1> SUFFICES ASSUME mode # "setup" PROVE LinesAgree
  BY DEF LinesAgree
<1> DEFINE n == Len(started)
<1>1. IsSeq(started) /\ \A i \in DOMAIN started : IsSeq(started[i].text)
  <2>1. IsSeq(<< >>)
    <3>1. << >> \in Seq({})
      OBVIOUS
    <3> QED  BY <3>1, SeqIs
  <2>2. \A i \in DOMAIN << >> : FALSE
    OBVIOUS
  <2> QED  BY <2>1, <2>2, ProjectsAssumption DEF Written
<1>2. n \in Nat /\ DOMAIN started = 1..n
  BY <1>1, SeqHas
<1>3. netFiles = [i \in 1..n |-> NetFile(started[i])]
  BY <1>2 DEF Turns, LoadedAreSources, SourceFiles
<1>4. Len(netFiles) = n
  <2>1. netFiles = [i \in 1..n |-> netFiles[i]]
    BY <1>3
  <2> QED  BY <1>2, <2>1, FunIs
<1>5. ASSUME NEW i \in DOMAIN started
      PROVE  LET lua == netFiles[i].m_BinData  text == Unmarked(started[i].text)
             IN /\ netFiles[i].m_NumLines = NumLines(lua)
                /\ DOMAIN lua = DOMAIN text
                /\ \A j \in DOMAIN lua : lua[j] = text[j] \/ (lua[j] = " " /\ text[j] # "nl")
                /\ \A j \in DOMAIN lua : (\E k \in 1..(j - 1) : text[k] = "nl") => lua[j] = text[j]
  <2> DEFINE s == started[i].text
  <2> DEFINE text == Unmarked(s)
  <2> DEFINE lua == Serialized(s)
  <2>1. netFiles[i] = NetFile(started[i])
    BY <1>2, <1>3
  <2>2. netFiles[i].m_BinData = lua /\ netFiles[i].m_NumLines = NumLines(text)
    BY <2>1 DEF NetFile
  <2>3. IsSeq(text)
    BY <1>1, UnmarkedIs
  <2>4. /\ DOMAIN lua = DOMAIN text
        /\ \A j \in DOMAIN text : lua[j] = text[j] \/ (lua[j] = " " /\ text[j] # "nl")
        /\ \A j \in DOMAIN text : (\E k \in 1..(j - 1) : text[k] = "nl") => lua[j] = text[j]
    BY <2>3, SerializedKeepsLines
  <2> HIDE DEF text, lua
  <2>5. NumLines(lua) = NumLines(text)
    <3>1. {j \in DOMAIN lua : lua[j] = "nl"} = {j \in DOMAIN text : text[j] = "nl"}
      BY <2>4
    <3> QED  BY <3>1 DEF NumLines
  <2> QED  BY <2>2, <2>4, <2>5 DEF text
<1> QED  BY <1>4, <1>5 DEF LinesAgree

\* The daemon has the client's files for as long as it has a program to run.
THEOREM TurnsAlways == ExchangeSpec => []Turns
<1>1. ExchangeInit => Turns
  BY TurnsInit
<1>2. ExchangeSpec => []Written
  BY WrittenAlways
<1>3. Written /\ Turns /\ [ExchangeNext]_exchangeVars => Turns'
  BY TurnsNext
<1> QED  BY <1>1, <1>2, <1>3, PTL DEF ExchangeSpec

\* What Lua is given of a project of any files and texts has the lines the editor had when the
\* session was started, whatever is edited meanwhile: a breakpoint or a stop at a line is at
\* that line of what was started (GetSerializedSources()).
THEOREM LinesAgreeAlways == ExchangeSpec => []LinesAgree
<1>1. ExchangeSpec => []Written
  BY WrittenAlways
<1>2. ExchangeSpec => []Turns
  BY TurnsAlways
<1>3. Written /\ Turns => LinesAgree
  BY TurnsKeepLines
<1> QED  BY <1>1, <1>2, <1>3, PTL
=============================================================================
