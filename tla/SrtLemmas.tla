---- MODULE SrtLemmas ----
(***************************************************************************)
(* Lemmas about queues, the ring of segments and the send buffer, for the  *)
(* proofs that the steps of Srt preserve Ind.                              *)
(***************************************************************************)
EXTENDS SrtInvariants, TLAPS

----
(* Queues *)

\* What Enqueue adds comes after what was there, and the bound holds.
LEMMA EnqueueFacts ==
    ASSUME NEW S, NEW q \in Seq(S), NEW s \in Seq(S)
    PROVE  /\ Enqueue(q, s) \in Seq(S)
           /\ Len(Enqueue(q, s)) <= MaxInFlight
           /\ \A i \in Indices(Enqueue(q, s)) :
                \/ i \in Indices(q) /\ Enqueue(q, s)[i] = q[i]
                \/ /\ i > Len(q) /\ i - Len(q) \in Indices(s)
                   /\ Enqueue(q, s)[i] = s[i - Len(q)]
<1> DEFINE all == q \o s
           m == IF Len(all) < MaxInFlight THEN Len(all) ELSE MaxInFlight
<1>1. all \in Seq(S) /\ Len(all) = Len(q) + Len(s)
  OBVIOUS
<1>2. \A i \in 1..Len(all) : all[i] = IF i <= Len(q) THEN q[i] ELSE s[i - Len(q)]
  OBVIOUS
<1>3. m \in 0..Len(all) /\ m <= MaxInFlight
  BY <1>1, MaxInFlightAssumption
<1>4. /\ SubSeq(all, 1, m) \in Seq(S)
      /\ Len(SubSeq(all, 1, m)) = m
      /\ \A i \in 1..m : SubSeq(all, 1, m)[i] = all[i]
  BY <1>1, <1>3
<1> QED
  BY <1>1, <1>2, <1>3, <1>4 DEF Enqueue, Indices

\* Enqueue of a single segment.
LEMMA EnqueueOne ==
    ASSUME NEW S, NEW q \in Seq(S), NEW x \in S
    PROVE  /\ Enqueue(q, <<x>>) \in Seq(S)
           /\ Len(Enqueue(q, <<x>>)) <= MaxInFlight
           /\ \A i \in Indices(Enqueue(q, <<x>>)) :
                \/ i \in Indices(q) /\ Enqueue(q, <<x>>)[i] = q[i]
                \/ i > Len(q) /\ Enqueue(q, <<x>>)[i] = x
<1> DEFINE one == <<x>>
<1>1. one \in Seq(S) /\ (\A i \in Indices(one) : one[i] = x)
  BY DEF Indices
<1> HIDE DEF one
<1>2. /\ Enqueue(q, one) \in Seq(S)
      /\ Len(Enqueue(q, one)) <= MaxInFlight
      /\ \A i \in Indices(Enqueue(q, one)) :
           \/ i \in Indices(q) /\ Enqueue(q, one)[i] = q[i]
           \/ /\ i > Len(q) /\ i - Len(q) \in Indices(one)
              /\ Enqueue(q, one)[i] = one[i - Len(q)]
  BY <1>1, EnqueueFacts
<1>3. \A i \in Indices(Enqueue(q, one)) :
           \/ i \in Indices(q) /\ Enqueue(q, one)[i] = q[i]
           \/ i > Len(q) /\ Enqueue(q, one)[i] = x
  BY <1>1, <1>2
<1> QED
  BY <1>2, <1>3 DEF one

\* Taking the head of a queue leaves the others in order.
LEMMA TailFacts ==
    ASSUME NEW S, NEW q \in Seq(S), q /= << >>
    PROVE  /\ Head(q) = q[1] /\ q[1] \in S /\ 1 \in Indices(q)
           /\ Tail(q) \in Seq(S)
           /\ Len(Tail(q)) <= Len(q)
           /\ \A i \in Indices(Tail(q)) :
                i > 0 /\ i + 1 \in Indices(q) /\ Tail(q)[i] = q[i + 1]
<1>1. /\ Head(q) = q[1] /\ q[1] \in S
      /\ Len(q) \in Nat \ {0} /\ Tail(q) \in Seq(S)
      /\ Len(Tail(q)) = Len(q) - 1
      /\ \A i \in 1..Len(Tail(q)) : Tail(q)[i] = q[i + 1]
  OBVIOUS
<1> QED
  BY <1>1 DEF Indices

\* The segments the constructors make.
LEMMA SegmentFacts ==
    ASSUME NEW c \in Nat, NEW n \in Nat, NEW m \in Nat
    PROVE  /\ \A type \in SegTypes :
                /\ Control(type, c) \in Segments
                /\ Control(type, c).type = type
                /\ Control(type, c).seq_num = 0
                /\ Control(type, c).conn = c
           /\ Data(n, m, c) \in Segments
           /\ Data(n, m, c).type = "DATA"
           /\ Data(n, m, c).seq_num = n
           /\ Data(n, m, c).length = m
           /\ Data(n, m, c).conn = c
           /\ DataAck(n, c) \in Segments
           /\ DataAck(n, c).type = "DATAACK"
           /\ DataAck(n, c).ack_num = n
           /\ DataAck(n, c).conn = c
  BY DEF Control, Data, DataAck, Segments, SegTypes
----
(* The ring *)

LEMMA AgeFacts ==
    ASSUME NEW seg \in Segments
    PROVE  Age(seg) \in Int
  BY DEF Age, Segments

LEMMA IndexFacts ==
    ASSUME NEW q \in Seq(Segments)
    PROVE  \A i \in Indices(q) : i \in Int /\ i <= Len(q) /\ q[i] \in Segments
  BY DEF Indices

\* Segments no older than the ring that join at the client's end leave it in
\* order.
LEMMA SendKeepsOrder ==
    ASSUME RingOrdered,
           toServer \in Seq(Segments), toClient \in Seq(Segments),
           NEW segs \in Seq(Segments), NEW age \in Int,
           \A i \in Indices(segs) : Age(segs[i]) = age,
           \A i \in Indices(toServer) : Age(toServer[i]) <= age,
           \A i \in Indices(toClient) : Age(toClient[i]) <= age,
           toServer' = Enqueue(toServer, segs), toClient' = toClient
    PROVE  RingOrdered'
<1>1. \A i \in Indices(toServer') :
        \/ i \in Indices(toServer) /\ toServer'[i] = toServer[i]
        \/ i > Len(toServer) /\ Age(toServer'[i]) = age
  BY EnqueueFacts
<1>2. ASSUME NEW i \in Indices(toServer'), NEW j \in Indices(toServer'), i < j
      PROVE  Age(toServer'[i]) <= Age(toServer'[j])
  <2>1. CASE j \in Indices(toServer) /\ toServer'[j] = toServer[j]
    <3>1. i \in Indices(toServer)
      BY <1>2, <2>1 DEF Indices
    <3>2. toServer'[i] = toServer[i]
      BY <1>1, <3>1, IndexFacts
    <3> QED
      BY <1>2, <2>1, <3>1, <3>2 DEF RingOrdered
  <2>2. CASE Age(toServer'[j]) = age
    BY <1>1, <2>2
  <2> QED
    BY <1>1, <2>1, <2>2
<1>3. ASSUME NEW i \in Indices(toClient), NEW j \in Indices(toServer')
      PROVE  Age(toClient[i]) <= Age(toServer'[j])
  BY <1>1, <1>3 DEF RingOrdered
<1>4. \A i, j \in Indices(toClient) :
        i < j => Age(toClient[i]) <= Age(toClient[j])
  BY DEF RingOrdered
<1> QED
  BY <1>2, <1>3, <1>4 DEF RingOrdered

\* An answer of the age of the segment it answers leaves the ring in order.
LEMMA AnswerKeepsOrder ==
    ASSUME RingOrdered,
           toServer \in Seq(Segments), toClient \in Seq(Segments),
           toServer /= << >>, NEW seg \in Segments,
           Age(seg) = Age(Head(toServer)),
           toServer' = Tail(toServer), toClient' = Enqueue(toClient, <<seg>>)
    PROVE  RingOrdered'
<1>1. \A i \in Indices(toClient') :
        \/ i \in Indices(toClient) /\ toClient'[i] = toClient[i]
        \/ i > Len(toClient) /\ toClient'[i] = seg
  BY EnqueueOne
<1>2. /\ Head(toServer) = toServer[1] /\ 1 \in Indices(toServer)
      /\ \A i \in Indices(toServer') :
           i > 0 /\ i + 1 \in Indices(toServer) /\ toServer'[i] = toServer[i + 1]
  BY TailFacts
<1>3. ASSUME NEW i \in Indices(toServer'), NEW j \in Indices(toServer'), i < j
      PROVE  Age(toServer'[i]) <= Age(toServer'[j])
  <2>1. i + 1 \in Indices(toServer) /\ j + 1 \in Indices(toServer) /\ i + 1 < j + 1
    BY <1>2, <1>3 DEF Indices
  <2> QED
    BY <1>2, <2>1 DEF RingOrdered
<1>4. \A j \in Indices(toServer') : Age(seg) <= Age(toServer'[j])
  <2>1. SUFFICES ASSUME NEW j \in Indices(toServer')
                 PROVE  Age(seg) <= Age(toServer'[j])
    OBVIOUS
  <2>2. j + 1 \in Indices(toServer) /\ 1 < j + 1 /\ toServer'[j] = toServer[j + 1]
    BY <1>2 DEF Indices
  <2> QED
    BY <1>2, <2>2 DEF RingOrdered
<1>5. \A i \in Indices(toClient) : Age(toClient[i]) <= Age(seg)
  BY <1>2 DEF RingOrdered
<1>6. ASSUME NEW i \in Indices(toClient'), NEW j \in Indices(toClient'), i < j
      PROVE  Age(toClient'[i]) <= Age(toClient'[j])
  <2>1. CASE j \in Indices(toClient) /\ toClient'[j] = toClient[j]
    <3>1. i \in Indices(toClient) /\ ~(i > Len(toClient))
      BY <1>6, <2>1 DEF Indices
    <3>2. toClient'[i] = toClient[i]
      BY <1>1, <3>1
    <3> QED
      BY <1>6, <2>1, <3>1, <3>2 DEF RingOrdered
  <2>2. CASE toClient'[j] = seg
    <3>1. Age(seg) <= Age(seg)
      BY AgeFacts
    <3> QED
      BY <1>1, <1>5, <2>2, <3>1
  <2> QED
    BY <1>1, <2>1, <2>2
<1>7. ASSUME NEW i \in Indices(toClient'), NEW j \in Indices(toServer')
      PROVE  Age(toClient'[i]) <= Age(toServer'[j])
  <2>1. j + 1 \in Indices(toServer) /\ toServer'[j] = toServer[j + 1]
    BY <1>2
  <2>2. CASE i \in Indices(toClient) /\ toClient'[i] = toClient[i]
    BY <2>1, <2>2 DEF RingOrdered
  <2>3. CASE toClient'[i] = seg
    BY <1>4, <2>3
  <2> QED
    BY <1>1, <2>2, <2>3
<1> QED
  BY <1>3, <1>6, <1>7 DEF RingOrdered

\* Taking a segment out of the ring at either reader leaves it in order.
LEMMA TakeFromServerKeepsOrder ==
    ASSUME RingOrdered,
           toServer \in Seq(Segments), toClient \in Seq(Segments),
           toServer /= << >>, toServer' = Tail(toServer), toClient' = toClient
    PROVE  RingOrdered'
<1>1. \A i \in Indices(toServer') :
        i > 0 /\ i + 1 \in Indices(toServer) /\ toServer'[i] = toServer[i + 1]
  BY TailFacts
<1>2. ASSUME NEW i \in Indices(toServer'), NEW j \in Indices(toServer'), i < j
      PROVE  Age(toServer'[i]) <= Age(toServer'[j])
  <2>1. i + 1 \in Indices(toServer) /\ j + 1 \in Indices(toServer) /\ i + 1 < j + 1
    BY <1>1, <1>2 DEF Indices
  <2> QED
    BY <1>1, <2>1 DEF RingOrdered
<1>3. ASSUME NEW i \in Indices(toClient), NEW j \in Indices(toServer')
      PROVE  Age(toClient[i]) <= Age(toServer'[j])
  <2>1. j + 1 \in Indices(toServer) /\ toServer'[j] = toServer[j + 1]
    BY <1>1
  <2> QED
    BY <2>1 DEF RingOrdered
<1>4. \A i, j \in Indices(toClient) :
        i < j => Age(toClient[i]) <= Age(toClient[j])
  BY DEF RingOrdered
<1> QED
  BY <1>2, <1>3, <1>4 DEF RingOrdered

LEMMA TakeFromClientKeepsOrder ==
    ASSUME RingOrdered,
           toServer \in Seq(Segments), toClient \in Seq(Segments),
           toClient /= << >>, toClient' = Tail(toClient), toServer' = toServer
    PROVE  RingOrdered'
<1>1. \A i \in Indices(toClient') :
        i > 0 /\ i + 1 \in Indices(toClient) /\ toClient'[i] = toClient[i + 1]
  BY TailFacts
<1>2. ASSUME NEW i \in Indices(toClient'), NEW j \in Indices(toClient'), i < j
      PROVE  Age(toClient'[i]) <= Age(toClient'[j])
  <2>1. i + 1 \in Indices(toClient) /\ j + 1 \in Indices(toClient) /\ i + 1 < j + 1
    BY <1>1, <1>2 DEF Indices
  <2> QED
    BY <1>1, <2>1 DEF RingOrdered
<1>3. ASSUME NEW i \in Indices(toClient'), NEW j \in Indices(toServer)
      PROVE  Age(toClient'[i]) <= Age(toServer[j])
  <2>1. i + 1 \in Indices(toClient) /\ toClient'[i] = toClient[i + 1]
    BY <1>1
  <2> QED
    BY <2>1 DEF RingOrdered
<1>4. \A i, j \in Indices(toServer) :
        i < j => Age(toServer[i]) <= Age(toServer[j])
  BY DEF RingOrdered
<1> QED
  BY <1>2, <1>3, <1>4 DEF RingOrdered
----
(* What a step does to the path *)

\* Ages on the path are integers between Oldest and Newest.
LEMMA PathAges ==
    ASSUME Ind
    PROVE  /\ toServer \in Seq(Segments) /\ toClient \in Seq(Segments)
           /\ Len(toServer) <= MaxInFlight /\ Len(toClient) <= MaxInFlight
           /\ Oldest \in Int /\ Newest \in Int
           /\ \A i \in Indices(toServer) : Age(toServer[i]) \in Int
           /\ \A i \in Indices(toClient) : Age(toClient[i]) \in Int
           /\ \A i \in Indices(toServer) :
                Oldest <= Age(toServer[i]) /\ Age(toServer[i]) <= Newest
           /\ \A i \in Indices(toClient) :
                Oldest <= Age(toClient[i]) /\ Age(toClient[i]) <= Newest
<1>1. /\ toServer \in Seq(Segments) /\ toClient \in Seq(Segments)
      /\ Len(toServer) <= MaxInFlight /\ Len(toClient) <= MaxInFlight
      /\ conn \in Nat
  BY DEF Ind, TypeOK, PathTypeOK, ClientTypeOK
<1>2. Oldest \in Int /\ Newest \in Int
  BY <1>1 DEF Oldest, Newest
<1>3. /\ \A i \in Indices(toServer) : Age(toServer[i]) \in Oldest..Newest
      /\ \A i \in Indices(toClient) : Age(toClient[i]) \in Oldest..Newest
  BY DEF Ind, AgesInRange
<1> QED
  BY <1>1, <1>2, <1>3

\* The connections of the segments on the path lie within the same bounds.
LEMMA PathConns ==
    ASSUME Ind
    PROVE  /\ \A i \in Indices(toServer) :
                /\ toServer[i].conn \in Nat
                /\ 2 * toServer[i].conn <= Newest
                /\ Oldest <= 2 * toServer[i].conn + 1
           /\ \A i \in Indices(toClient) :
                /\ toClient[i].conn \in Nat
                /\ 2 * toClient[i].conn <= Newest
                /\ Oldest <= 2 * toClient[i].conn + 1
<1>1. \A seg \in Segments :
        /\ seg.conn \in Nat
        /\ 2 * seg.conn <= Age(seg) /\ Age(seg) <= 2 * seg.conn + 1
  BY DEF Age, Segments
<1>2. /\ \A i \in Indices(toServer) : toServer[i] \in Segments
      /\ \A i \in Indices(toClient) : toClient[i] \in Segments
  BY PathAges, IndexFacts
<1>3. Oldest \in Int /\ Newest \in Int
  BY PathAges
<1>4. /\ \A i \in Indices(toServer) :
           Oldest <= Age(toServer[i]) /\ Age(toServer[i]) <= Newest
      /\ \A i \in Indices(toClient) :
           Oldest <= Age(toClient[i]) /\ Age(toClient[i]) <= Newest
      /\ \A i \in Indices(toServer) : Age(toServer[i]) \in Int
      /\ \A i \in Indices(toClient) : Age(toClient[i]) \in Int
  BY PathAges
<1> QED
  BY <1>1, <1>2, <1>3, <1>4

\* The client sends one segment that is as new as any.
LEMMA SendOne ==
    ASSUME Ind, NEW seg \in Segments, Newest <= Age(seg),
           toServer' = Enqueue(toServer, <<seg>>), toClient' = toClient
    PROVE  /\ toServer' \in Seq(Segments) /\ Len(toServer') <= MaxInFlight
           /\ \A i \in Indices(toServer') :
                \/ i \in Indices(toServer) /\ toServer'[i] = toServer[i]
                \/ toServer'[i] = seg
           /\ RingOrdered'
<1> DEFINE one == <<seg>>
<1>1. one \in Seq(Segments) /\ \A i \in Indices(one) : one[i] = seg
  BY DEF Indices
<1>2. /\ toServer \in Seq(Segments) /\ toClient \in Seq(Segments)
      /\ Age(seg) \in Int
      /\ \A i \in Indices(toServer) : Age(toServer[i]) <= Age(seg)
      /\ \A i \in Indices(toClient) : Age(toClient[i]) <= Age(seg)
  BY PathAges, AgeFacts
<1>3. RingOrdered
  BY DEF Ind
<1> HIDE DEF one
<1>4. RingOrdered'
  <2>1. \A i \in Indices(one) : Age(one[i]) = Age(seg)
    BY <1>1
  <2>2. toServer' = Enqueue(toServer, one)
    BY DEF one
  <2> QED
    BY <1>1, <1>2, <1>3, <2>1, <2>2, SendKeepsOrder
<1> QED
  BY <1>2, <1>4, EnqueueOne

\* The client sends segments of its send buffer, on the connection it is on.
LEMMA SendHeld ==
    ASSUME Ind, ~Opening, cPc /= "clear",
           NEW a \in Int, NEW b \in Int, a <= b => 1 <= a /\ b <= Len(sendBuf),
           toServer' = Enqueue(toServer, SubSeq(sendBuf, a, b)),
           toClient' = toClient
    PROVE  /\ toServer' \in Seq(Segments) /\ Len(toServer') <= MaxInFlight
           /\ \A i \in Indices(toServer') :
                \/ i \in Indices(toServer) /\ toServer'[i] = toServer[i]
                \/ \E k \in a..b : toServer'[i] = sendBuf[k]
           /\ RingOrdered'
<1> DEFINE segs == SubSeq(sendBuf, a, b)
<1>1. /\ sendBuf \in Seq(Segments) /\ conn \in Nat
      /\ toServer \in Seq(Segments) /\ toClient \in Seq(Segments)
  BY DEF Ind, TypeOK, PathTypeOK, ClientTypeOK
<1>2. /\ segs \in Seq(Segments)
      /\ \A i \in 1..Len(segs) : a + i - 1 \in a..b /\ segs[i] = sendBuf[a + i - 1]
  BY <1>1
<1>3. \A i \in Indices(segs) : \E k \in a..b : segs[i] = sendBuf[k]
  BY <1>2 DEF Indices
<1>4. \A k \in a..b : Age(sendBuf[k]) = 2 * conn + 1
  <2>1. \A k \in a..b : k \in 1..Len(sendBuf)
    BY <1>1
  <2>2. SendBufferSorted
    BY DEF Ind
  <2>3. \A k \in a..b : sendBuf[k].type = "DATA" /\ sendBuf[k].conn = conn
    BY <2>1, <2>2 DEF SendBufferSorted, Indices
  <2> QED
    BY <1>1, <2>3 DEF Age
<1>5. \A i \in Indices(segs) : Age(segs[i]) = 2 * conn + 1
  BY <1>3, <1>4
<1>6. /\ 2 * conn + 1 \in Int
      /\ \A i \in Indices(toServer) : Age(toServer[i]) <= 2 * conn + 1
      /\ \A i \in Indices(toClient) : Age(toClient[i]) <= 2 * conn + 1
  BY <1>1, PathAges DEF Newest
<1>7. RingOrdered
  BY DEF Ind
<1>8. \A i \in Indices(toServer') :
        \/ i \in Indices(toServer) /\ toServer'[i] = toServer[i]
        \/ i - Len(toServer) \in Indices(segs) /\ toServer'[i] = segs[i - Len(toServer)]
  <2>1. toServer' = Enqueue(toServer, segs)
    OBVIOUS
  <2> HIDE DEF segs
  <2> QED
    BY <1>1, <1>2, <2>1, EnqueueFacts
<1>9. toServer' \in Seq(Segments) /\ Len(toServer') <= MaxInFlight
  BY <1>1, <1>2, EnqueueFacts
<1>10. toServer' = Enqueue(toServer, segs)
  OBVIOUS
<1> HIDE DEF segs
<1>11. RingOrdered'
  BY <1>1, <1>2, <1>5, <1>6, <1>7, <1>10, SendKeepsOrder
<1> QED
  BY <1>3, <1>8, <1>9, <1>11

\* seghandler of the client, or the network, takes the first segment.
LEMMA ClientTakes ==
    ASSUME Ind, toClient /= << >>,
           toClient' = Tail(toClient), toServer' = toServer
    PROVE  /\ Head(toClient) = toClient[1]
           /\ 1 \in Indices(toClient) /\ toClient[1] \in Segments
           /\ toClient' \in Seq(Segments) /\ Len(toClient') <= MaxInFlight
           /\ \A i \in Indices(toClient') :
                i + 1 \in Indices(toClient) /\ toClient'[i] = toClient[i + 1]
           /\ \A i \in Indices(toClient') :
                Age(toClient[1]) <= Age(toClient'[i])
           /\ \A i \in Indices(toServer) : Age(toClient[1]) <= Age(toServer[i])
           /\ RingOrdered'
<1>1. /\ Head(toClient) = toClient[1]
      /\ 1 \in Indices(toClient) /\ toClient[1] \in Segments
      /\ toClient' \in Seq(Segments) /\ Len(toClient') <= Len(toClient)
      /\ \A i \in Indices(toClient') :
           i > 0 /\ i + 1 \in Indices(toClient) /\ toClient'[i] = toClient[i + 1]
  BY PathAges, TailFacts
<1>2. RingOrdered
  BY DEF Ind
<1>3. RingOrdered'
  BY <1>2, PathAges, TakeFromClientKeepsOrder
<1>4. \A i \in Indices(toClient') : i + 1 > 1
  BY <1>1 DEF Indices
<1>5. \A i \in Indices(toClient') : Age(toClient[1]) <= Age(toClient'[i])
  BY <1>1, <1>2, <1>4 DEF RingOrdered
<1>6. \A i \in Indices(toServer) : Age(toClient[1]) <= Age(toServer[i])
  BY <1>1, <1>2 DEF RingOrdered
<1>7. Len(toClient') <= MaxInFlight
  BY <1>1, PathAges, MaxInFlightAssumption
<1> QED
  BY <1>1, <1>3, <1>5, <1>6, <1>7

\* The network loses the first segment on its way to the server, or
\* seghandler of the server takes it and sends no answer.
LEMMA ServerTakes ==
    ASSUME Ind, toServer /= << >>,
           toServer' = Tail(toServer), toClient' = toClient
    PROVE  /\ Head(toServer) = toServer[1]
           /\ 1 \in Indices(toServer) /\ toServer[1] \in Segments
           /\ toServer' \in Seq(Segments) /\ Len(toServer') <= MaxInFlight
           /\ \A i \in Indices(toServer') :
                i + 1 \in Indices(toServer) /\ toServer'[i] = toServer[i + 1]
           /\ RingOrdered'
<1>1. /\ Head(toServer) = toServer[1]
      /\ 1 \in Indices(toServer) /\ toServer[1] \in Segments
      /\ toServer' \in Seq(Segments) /\ Len(toServer') <= Len(toServer)
      /\ \A i \in Indices(toServer') :
           i > 0 /\ i + 1 \in Indices(toServer) /\ toServer'[i] = toServer[i + 1]
  BY PathAges, TailFacts
<1>2. RingOrdered
  BY DEF Ind
<1>3. RingOrdered'
  BY <1>2, PathAges, TakeFromServerKeepsOrder
<1>4. Len(toServer') <= MaxInFlight
  BY <1>1, PathAges, MaxInFlightAssumption
<1> QED
  BY <1>1, <1>3, <1>4

\* seghandler of the server takes the first segment and answers it.
LEMMA ServerAnswers ==
    ASSUME Ind, toServer /= << >>, NEW seg \in Segments,
           Age(seg) = Age(Head(toServer)),
           toServer' = Tail(toServer), toClient' = Enqueue(toClient, <<seg>>)
    PROVE  /\ toServer' \in Seq(Segments) /\ Len(toServer') <= MaxInFlight
           /\ toClient' \in Seq(Segments) /\ Len(toClient') <= MaxInFlight
           /\ \A i \in Indices(toServer') :
                i + 1 \in Indices(toServer) /\ toServer'[i] = toServer[i + 1]
           /\ \A i \in Indices(toServer') : Age(seg) <= Age(toServer'[i])
           /\ \A i \in Indices(toClient') :
                \/ i \in Indices(toClient) /\ toClient'[i] = toClient[i]
                \/ toClient'[i] = seg
           /\ RingOrdered'
<1>1. /\ Head(toServer) = toServer[1]
      /\ 1 \in Indices(toServer) /\ toServer[1] \in Segments
      /\ toServer' \in Seq(Segments) /\ Len(toServer') <= Len(toServer)
      /\ \A i \in Indices(toServer') :
           i > 0 /\ i + 1 \in Indices(toServer) /\ toServer'[i] = toServer[i + 1]
  BY PathAges, TailFacts
<1>2. /\ toClient' \in Seq(Segments) /\ Len(toClient') <= MaxInFlight
      /\ \A i \in Indices(toClient') :
           \/ i \in Indices(toClient) /\ toClient'[i] = toClient[i]
           \/ i > Len(toClient) /\ toClient'[i] = seg
  BY PathAges, EnqueueOne
<1>3. RingOrdered
  BY DEF Ind
<1>4. RingOrdered'
  BY <1>3, PathAges, AnswerKeepsOrder
<1>5. \A i \in Indices(toServer') : i + 1 > 1
  BY <1>1 DEF Indices
<1>6. \A i \in Indices(toServer') : Age(seg) <= Age(toServer'[i])
  BY <1>1, <1>3, <1>5 DEF RingOrdered
<1>7. Len(toServer') <= MaxInFlight
  BY <1>1, PathAges, MaxInFlightAssumption
<1> QED
  BY <1>1, <1>2, <1>4, <1>6, <1>7
====
