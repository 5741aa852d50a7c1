---- MODULE SnpProofs ----
(***************************************************************************)
(* The routing invariants of the network layer, for every topology and any *)
(* number of packets, updates and failures; first as long as every process    *)
(* can open topology.dat, then what is left of them when some cannot.      *)
(***************************************************************************)
EXTENDS SnpInvariants, FiniteSetTheorems, WellFoundedInduction, TLAPS

Messages == MessagesWith(Vectors)

\* Typed(Vectors): no sum with INFINITE_COST is in a vector.
Bounded ==
    /\ status \in [Nodes -> {"new", "up", "down"}]
    /\ dv \in [Nodes -> Vectors]
    /\ DOMAIN rows = Nodes
    /\ \A n \in Nodes : rows[n] \in [Neighbours[n] -> Vectors]
    /\ routingtable \in [Nodes -> [Nodes -> Nodes \cup {NoNode}]]
    /\ pktRouteUpdt \in [Nodes -> Vectors \cup {NoVector}]
    /\ links \in [Nodes -> [Nodes -> Seq(Messages)]]
    /\ sent \in Nat /\ delivered \in Nat /\ failures \in Nat

IInv ==
    /\ Bounded
    /\ VectorsInOrder
    /\ VectorIsMinimum
    /\ RouteAttains
    /\ WithinBudget

----
(* Costs, neighbours and queues *)

LEMMA CostFacts ==
    /\ INFINITE_COST \in Nat
    /\ \A n, m \in Nodes : /\ LinkCost[n][m] \in Costs
                           /\ LinkCost[n][m] \in Nat
                           /\ LinkCost[n][m] = 0 <=> n = m
                           /\ LinkCost[n][m] = LinkCost[m][n]
    /\ \A c \in Costs : c \in Nat /\ c <= INFINITE_COST
  BY CostAssumption DEF Costs

LEMMA NeighbourFacts ==
    ASSUME NEW n \in Nodes
    PROVE  /\ Neighbours[n] \subseteq Nodes
           /\ \A m \in Nodes : m \in Neighbours[n]
                <=> m /= n /\ LinkCost[n][m] < INFINITE_COST
  BY DEF Neighbours

LEMMA TypeFacts ==
    ASSUME Bounded
    PROVE  /\ \A n, d \in Nodes : dv[n][d] \in Nat /\ dv[n][d] <= INFINITE_COST
           /\ \A n \in Nodes : dv[n] \in Vectors
           /\ \A n \in Nodes : \A m \in Neighbours[n] :
                rows[n][m] \in Vectors
           /\ \A n, d \in Nodes : \A m \in Neighbours[n] :
                rows[n][m][d] \in Nat /\ rows[n][m][d] <= INFINITE_COST
           /\ \A m, n \in Nodes : links[m][n] \in Seq(Messages)
  BY CostFacts DEF Bounded, Vectors, Costs

LEMMA MessageFacts ==
    /\ \A c \in Messages : IsUpdate(c) =>
         /\ c.entry \in Vectors
         /\ \A d \in Nodes : c.entry[d] \in Nat /\ c.entry[d] <= INFINITE_COST
    /\ \A c \in Messages : c.type = "SNP" => c.dest \in Nodes /\ c.left \in Int
    /\ \A c \in Messages : c.type \in {"ROUTE_UPDATE", "SNP"}
    /\ \A v \in Vectors : RouteUpdate(v) \in Messages
    /\ \A d \in Nodes, l \in Int : Packet(d, l) \in Messages
  BY CostFacts DEF Messages, MessagesWith, IsUpdate, RouteUpdate, Packet, Vectors, Costs

\* The updates of r are those of q in the same order, some of them gone from
\* the front or the back; its packets are all in q.
UpdatesOf(q, r) ==
    \E k \in Nat : \A i \in DOMAIN r :
        IsUpdate(r[i]) => i + k \in DOMAIN q /\ r[i] = q[i + k]

PacketsOf(q, r) ==
    \A i \in DOMAIN r :
        r[i].type = "SNP" => \E j \in DOMAIN q : r[i] = q[j]

LEMMA SameQueue ==
    ASSUME NEW q \in Seq(Messages)
    PROVE  UpdatesOf(q, q) /\ PacketsOf(q, q)
<1>1. \A i \in DOMAIN q : i \in Nat /\ i + 0 = i
  OBVIOUS
<1> QED
  BY <1>1 DEF UpdatesOf, PacketsOf

LEMMA TailQueue ==
    ASSUME NEW q \in Seq(Messages), q /= <<>>
    PROVE  /\ Tail(q) \in Seq(Messages)
           /\ \A i \in DOMAIN Tail(q) : i + 1 \in DOMAIN q
                                        /\ Tail(q)[i] = q[i + 1]
           /\ UpdatesOf(q, Tail(q)) /\ PacketsOf(q, Tail(q))
           /\ Head(q) \in Messages /\ 1 \in DOMAIN q /\ Head(q) = q[1]
<1>1. /\ Tail(q) \in Seq(Messages)
      /\ \A i \in DOMAIN Tail(q) : i + 1 \in DOMAIN q
                                   /\ Tail(q)[i] = q[i + 1]
  OBVIOUS
<1>2. Head(q) \in Messages /\ 1 \in DOMAIN q /\ Head(q) = q[1]
  OBVIOUS
<1> QED
  BY <1>1, <1>2 DEF UpdatesOf, PacketsOf

LEMMA FrontQueue ==
    ASSUME NEW q \in Seq(Messages), q /= <<>>
    PROVE  /\ SubSeq(q, 1, Len(q) - 1) \in Seq(Messages)
           /\ UpdatesOf(q, SubSeq(q, 1, Len(q) - 1))
           /\ PacketsOf(q, SubSeq(q, 1, Len(q) - 1))
<1> DEFINE r == SubSeq(q, 1, Len(q) - 1)
<1>1. r \in Seq(Messages)
      /\ \A i \in DOMAIN r : i \in DOMAIN q /\ i + 0 = i /\ r[i] = q[i]
  OBVIOUS
<1> QED
  BY <1>1 DEF UpdatesOf, PacketsOf

LEMMA EmptyQueue ==
    ASSUME NEW q
    PROVE  UpdatesOf(q, <<>>) /\ PacketsOf(q, <<>>) /\ <<>> \in Seq(Messages)
<1>1. DOMAIN <<>> = {}
  OBVIOUS
<1> QED
  BY <1>1 DEF UpdatesOf, PacketsOf

LEMMA AppendElements ==
    ASSUME NEW q \in Seq(Messages), NEW c \in Messages
    PROVE  /\ Queued(q, c) \in Seq(Messages)
           /\ \A i \in DOMAIN Queued(q, c) :
                \/ i \in DOMAIN q /\ i \in Nat /\ Queued(q, c)[i] = q[i]
                \/ i = Len(q) + 1 /\ Queued(q, c)[i] = c
<1>1. Queued(q, c) \in Seq(Messages)
  BY DEF Queued
<1>2. SUFFICES ASSUME NEW i \in DOMAIN Queued(q, c)
               PROVE  \/ i \in DOMAIN q /\ i \in Nat /\ Queued(q, c)[i] = q[i]
                      \/ i = Len(q) + 1 /\ Queued(q, c)[i] = c
  BY <1>1
<1>3. /\ DOMAIN q = 1..Len(q) /\ Len(q) \in Nat
      /\ DOMAIN Append(q, c) = 1..(Len(q) + 1)
  OBVIOUS
<1>4. i \in 1..(Len(q) + 1)
  BY <1>2, <1>3 DEF Queued
<1>5. CASE i \in 1..Len(q)
  BY <1>3, <1>5 DEF Queued
<1>6. CASE i = Len(q) + 1
  BY <1>3, <1>6 DEF Queued
<1> QED
  BY <1>3, <1>4, <1>5, <1>6
----
(* Steps that send no update and leave the tables alone *)

\* No update is sent, and the daemons copy none.
NoNewUpdate ==
    /\ dv' = dv /\ rows' = rows
    /\ \A m \in Nodes : pktRouteUpdt'[m] \in {pktRouteUpdt[m], NoVector}
    /\ \A m, n \in Nodes : UpdatesOf(links[m][n], links'[m][n])

LEMMA OrderKept ==
    ASSUME Bounded, Bounded', VectorsInOrder, NoNewUpdate
    PROVE  VectorsInOrder'
<1> USE NeighbourFacts DEF NoNewUpdate
<1>1. RowAboveLinks'
  BY DEF VectorsInOrder, RowAboveLinks, UpdatesOf, AtLeast
<1>2. LinksInOrder'
  <2>1. SUFFICES ASSUME NEW n \in Nodes, NEW m \in Neighbours[n],
                        NEW i \in DOMAIN links'[m][n],
                        NEW j \in DOMAIN links'[m][n], i < j,
                        IsUpdate(links'[m][n][i]), IsUpdate(links'[m][n][j])
                 PROVE  AtLeast(links'[m][n][i].entry, links'[m][n][j].entry)
    BY DEF LinksInOrder, AtLeast, IsUpdate
  <2>2. PICK k \in Nat : \A x \in DOMAIN links'[m][n] :
          IsUpdate(links'[m][n][x]) => /\ x + k \in DOMAIN links[m][n]
                                       /\ links'[m][n][x] = links[m][n][x + k]
    BY <2>1 DEF UpdatesOf
  <2>3. i \in Nat /\ j \in Nat /\ i + k < j + k
    <3>1. m \in Nodes /\ links'[m][n] \in Seq(Messages)
      BY <2>1 DEF Bounded
    <3>2. i \in Nat /\ j \in Nat
      BY <2>1, <3>1
    <3> QED
      BY <2>1, <2>2, <3>2
  <2> QED
    BY <2>1, <2>2, <2>3 DEF VectorsInOrder, LinksInOrder
<1>3. LinksAboveCopy'
  BY DEF VectorsInOrder, LinksAboveCopy, UpdatesOf, AtLeast
<1>4. CopyAboveVector'
  BY DEF VectorsInOrder, CopyAboveVector, AtLeast
<1> QED
  BY <1>1, <1>2, <1>3, <1>4 DEF VectorsInOrder

\* Every packet on the way was there, or is one that keeps to its budget.
BudgetedPackets ==
    \A m, n \in Nodes : \A i \in DOMAIN links'[m][n] :
        links'[m][n][i].type = "SNP" =>
            \/ \E j \in DOMAIN links[m][n] : links'[m][n][i] = links[m][n][j]
            \/ /\ links'[m][n][i].left >= dv[n][links'[m][n][i].dest]
               /\ links'[m][n][i].left < INFINITE_COST

LEMMA BudgetKept ==
    ASSUME WithinBudget, dv' = dv, BudgetedPackets
    PROVE  WithinBudget'
  BY DEF WithinBudget, BudgetedPackets

\* The rest of the invariant speaks of the tables only.
LEMMA TablesKept ==
    ASSUME VectorIsMinimum, RouteAttains, UNCHANGED tables
    PROVE  VectorIsMinimum' /\ RouteAttains'
  BY DEF VectorIsMinimum, RouteAttains, tables, Offer

LEMMA QuietStep ==
    ASSUME IInv, Bounded', UNCHANGED tables,
           \A m \in Nodes : pktRouteUpdt'[m] \in {pktRouteUpdt[m], NoVector},
           \A m, n \in Nodes : UpdatesOf(links[m][n], links'[m][n]),
           BudgetedPackets
    PROVE  IInv'
<1>1. VectorsInOrder'
  BY OrderKept DEF NoNewUpdate, IInv, tables
<1>2. VectorIsMinimum' /\ RouteAttains'
  BY TablesKept DEF IInv
<1>3. WithinBudget'
  BY BudgetKept DEF IInv, tables
<1> QED
  BY <1>1, <1>2, <1>3 DEF IInv

\* Taking a packet off a link.
LEMMA TakenQueues ==
    ASSUME Bounded, NEW n \in Nodes, NEW m \in Nodes, links[m][n] /= <<>>
    PROVE  /\ Taken(m, n) \in [Nodes -> [Nodes -> Seq(Messages)]]
           /\ \A a, b \in Nodes : Taken(m, n)[a][b] =
                IF a = m /\ b = n THEN Tail(links[m][n]) ELSE links[a][b]
           /\ \A a, b \in Nodes : /\ UpdatesOf(links[a][b], Taken(m, n)[a][b])
                                  /\ PacketsOf(links[a][b], Taken(m, n)[a][b])
           /\ Head(links[m][n]) \in Messages
           /\ 1 \in DOMAIN links[m][n] /\ Head(links[m][n]) = links[m][n][1]
<1>1. links \in [Nodes -> [Nodes -> Seq(Messages)]]
  BY DEF Bounded
<1>2. links[m][n] \in Seq(Messages)
  BY <1>1
<1>3. Tail(links[m][n]) \in Seq(Messages)
  BY <1>2, TailQueue
<1>4. /\ Taken(m, n) \in [Nodes -> [Nodes -> Seq(Messages)]]
      /\ \A a, b \in Nodes : Taken(m, n)[a][b] =
           IF a = m /\ b = n THEN Tail(links[m][n]) ELSE links[a][b]
  BY <1>1, <1>3 DEF Taken
<1>5. \A a, b \in Nodes : /\ UpdatesOf(links[a][b], Taken(m, n)[a][b])
                          /\ PacketsOf(links[a][b], Taken(m, n)[a][b])
  <2>1. SUFFICES ASSUME NEW a \in Nodes, NEW b \in Nodes
                 PROVE  /\ UpdatesOf(links[a][b], Taken(m, n)[a][b])
                        /\ PacketsOf(links[a][b], Taken(m, n)[a][b])
    OBVIOUS
  <2>2. CASE a = m /\ b = n
    BY <1>2, <1>4, <2>2, TailQueue
  <2>3. CASE ~(a = m /\ b = n)
    <3>1. Taken(m, n)[a][b] = links[a][b] /\ links[a][b] \in Seq(Messages)
      BY <1>1, <1>4, <2>1, <2>3
    <3> QED
      BY <3>1, SameQueue
  <2> QED
    BY <2>2, <2>3
<1> QED
  BY <1>2, <1>4, <1>5, TailQueue

LEMMA AppendPacket ==
    ASSUME NEW q \in Seq(Messages), NEW c \in Messages, ~IsUpdate(c)
    PROVE  UpdatesOf(q, Queued(q, c))
<1>1. \A i \in DOMAIN Queued(q, c) :
        IsUpdate(Queued(q, c)[i]) =>
          i + 0 \in DOMAIN q /\ Queued(q, c)[i] = q[i + 0]
  <2>1. SUFFICES ASSUME NEW i \in DOMAIN Queued(q, c),
                        IsUpdate(Queued(q, c)[i])
                 PROVE  i + 0 \in DOMAIN q /\ Queued(q, c)[i] = q[i + 0]
    OBVIOUS
  <2>2. i \in DOMAIN q /\ i \in Nat /\ Queued(q, c)[i] = q[i]
    BY <2>1, AppendElements
  <2>3. i + 0 = i
    BY <2>2
  <2> QED
    BY <2>2, <2>3
<1> QED
  BY <1>1 DEF UpdatesOf

\* Handing a packet to the overlay: the queue to the next hop may get it.
Handed(Q, n, next, c, R) ==
    /\ R \in [Nodes -> [Nodes -> Seq(Messages)]]
    /\ \A a, b \in Nodes : UpdatesOf(Q[a][b], R[a][b])
    /\ \A a, b \in Nodes : \A i \in DOMAIN R[a][b] :
         \/ \E j \in DOMAIN Q[a][b] : R[a][b][i] = Q[a][b][j]
         \/ /\ a = n /\ b = next /\ next \in Neighbours[n]
            /\ R[a][b][i] = c

LEMMA TransmitQueues ==
    ASSUME NEW Q \in [Nodes -> [Nodes -> Seq(Messages)]],
           NEW n \in Nodes, NEW next, NEW dest \in Nodes, NEW left \in Int
    PROVE  Handed(Q, n, next, Packet(dest, left - LinkCost[n][next]),
                  Transmit(Q, n, next, dest, left))
<1> DEFINE c == Packet(dest, left - LinkCost[n][next])
           R == Transmit(Q, n, next, dest, left)
           q == Queued(Q[n][next], c)
<1>1. CASE next \in Neighbours[n] /\ status[next] /= "down"
  <2>1. next \in Nodes /\ c \in Messages /\ ~IsUpdate(c)
        /\ Q[n][next] \in Seq(Messages)
    BY <1>1, NeighbourFacts, CostFacts, MessageFacts DEF IsUpdate, Packet
  <2>2. R = [Q EXCEPT ![n][next] = q]
    BY <1>1 DEF Transmit
  <2> HIDE DEF c, R
  <2>3. q \in Seq(Messages) /\ UpdatesOf(Q[n][next], q)
        /\ \A i \in DOMAIN q : \/ i \in DOMAIN Q[n][next]
                                  /\ q[i] = Q[n][next][i]
                               \/ q[i] = c
    BY <2>1, AppendElements, AppendPacket
  <2> HIDE DEF q
  <2>4. /\ R \in [Nodes -> [Nodes -> Seq(Messages)]]
        /\ \A a, b \in Nodes : R[a][b] =
             IF a = n /\ b = next THEN q ELSE Q[a][b]
    <3>1. R \in [Nodes -> [Nodes -> Seq(Messages)]]
      BY <2>1, <2>2, <2>3
    <3>2. \A a, b \in Nodes : R[a][b] =
             IF a = n /\ b = next THEN q ELSE Q[a][b]
      BY <2>1, <2>2, <2>3
    <3> QED
      BY <3>1, <3>2
  <2>5. \A a, b \in Nodes : UpdatesOf(Q[a][b], R[a][b])
    BY <2>3, <2>4, SameQueue
  <2>6. \A a, b \in Nodes : \A i \in DOMAIN R[a][b] :
          \/ \E j \in DOMAIN Q[a][b] : R[a][b][i] = Q[a][b][j]
          \/ a = n /\ b = next /\ next \in Neighbours[n] /\ R[a][b][i] = c
    BY <1>1, <2>3, <2>4
  <2> QED
    BY <2>4, <2>5, <2>6 DEF Handed, R, c
<1>2. CASE ~(next \in Neighbours[n] /\ status[next] /= "down")
  <2>1. R = Q
    BY <1>2 DEF Transmit
  <2> HIDE DEF R
  <2>2. \A a, b \in Nodes : UpdatesOf(Q[a][b], R[a][b])
    BY <2>1, SameQueue
  <2> QED
    BY <2>1, <2>2 DEF Handed, R
<1> QED
  BY <1>1, <1>2
----
(* The steps *)

LEMMA InitStep ==
    ASSUME Init PROVE IInv
<1> USE DEF Init, TablesCreated
<1>1. LinkCost \in [Nodes -> Vectors]
  BY CostAssumption DEF Vectors, Costs
<1>2. Bounded
  BY <1>1, CostFacts, NeighbourFacts DEF Bounded, Vectors, Costs,
     dvtable_create, routingtable_create
<1>3. VectorsInOrder
  <2>1. CopyAboveVector
    BY <1>1, CostFacts, NeighbourFacts DEF CopyAboveVector, AtLeast, Vectors,
       Costs, dvtable_create
  <2> QED
    <3>1. \A a, b \in Nodes : DOMAIN links[a][b] = {}
      OBVIOUS
    <3> QED
      BY <2>1, <3>1, NeighbourFacts DEF VectorsInOrder, RowAboveLinks,
         LinksInOrder, LinksAboveCopy
<1>4. VectorIsMinimum
  BY <1>1, CostFacts, NeighbourFacts DEF VectorIsMinimum, Offer, Vectors,
     Costs, dvtable_create
<1>5. RouteAttains
  BY <1>1, CostFacts, NeighbourFacts, NoValueAssumption DEF RouteAttains,
     Vectors, Costs, routingtable_create
<1>6. WithinBudget
  BY DEF WithinBudget
<1> QED
  BY <1>2, <1>3, <1>4, <1>5, <1>6 DEF IInv

LEMMA StartSnpStep ==
    ASSUME IInv, NEW n \in Nodes, StartSnp(n)
    PROVE  IInv'
<1>1. Bounded'
  BY DEF StartSnp, IInv, Bounded, tables, counts
<1>2. links' = links /\ pktRouteUpdt' = pktRouteUpdt /\ UNCHANGED tables
  BY DEF StartSnp
<1>3. \A a, b \in Nodes : UpdatesOf(links[a][b], links'[a][b])
  BY <1>2, SameQueue, TypeFacts DEF IInv
<1>4. BudgetedPackets
  BY <1>2 DEF BudgetedPackets
<1> QED
  BY <1>1, <1>2, <1>3, <1>4, QuietStep

LEMMA LoseAtOverlayStep ==
    ASSUME IInv, NEW n \in Nodes, NEW m \in Neighbours[n], LoseAtOverlay(n, m)
    PROVE  IInv'
<1>1. /\ m \in Nodes /\ Bounded /\ links[m][n] /= <<>>
      /\ links' = Taken(m, n) /\ pktRouteUpdt' = pktRouteUpdt
      /\ UNCHANGED tables
  BY NeighbourFacts DEF LoseAtOverlay, IInv
<1>2. Bounded'
  BY <1>1, TakenQueues DEF LoseAtOverlay, Bounded, tables, counts
<1>3. \A a, b \in Nodes : UpdatesOf(links[a][b], links'[a][b])
  BY <1>1, TakenQueues
<1>4. BudgetedPackets
  <2>1. \A a, b \in Nodes : PacketsOf(links[a][b], links'[a][b])
    BY <1>1, TakenQueues
  <2> QED
    BY <2>1 DEF BudgetedPackets, PacketsOf
<1> QED
  BY <1>1, <1>2, <1>3, <1>4, QuietStep

LEMMA LoseUnsentStep ==
    ASSUME IInv, NEW n \in Nodes, NEW m \in Neighbours[n], LoseUnsent(n, m)
    PROVE  IInv'
<1> DEFINE r == SubSeq(links[n][m], 1, Len(links[n][m]) - 1)
<1>1. /\ m \in Nodes /\ Bounded /\ links[n][m] \in Seq(Messages)
      /\ links[n][m] /= <<>>
      /\ links' = [links EXCEPT ![n][m] = r] /\ pktRouteUpdt' = pktRouteUpdt
      /\ UNCHANGED tables
  BY NeighbourFacts, TypeFacts DEF LoseUnsent, IInv
<1>2. /\ r \in Seq(Messages)
      /\ UpdatesOf(links[n][m], r) /\ PacketsOf(links[n][m], r)
  BY <1>1, FrontQueue
<1> HIDE DEF r
<1>3. /\ links' \in [Nodes -> [Nodes -> Seq(Messages)]]
      /\ \A a, b \in Nodes : links'[a][b] =
           IF a = n /\ b = m THEN r ELSE links[a][b]
  BY <1>1, <1>2 DEF Bounded
<1>4. Bounded'
  BY <1>1, <1>3 DEF LoseUnsent, Bounded, tables, counts
<1>5. \A a, b \in Nodes : /\ UpdatesOf(links[a][b], links'[a][b])
                          /\ PacketsOf(links[a][b], links'[a][b])
  BY <1>1, <1>2, <1>3, SameQueue, TypeFacts
<1>6. BudgetedPackets
  BY <1>5 DEF BudgetedPackets, PacketsOf
<1> QED
  BY <1>1, <1>4, <1>5, <1>6, QuietStep

LEMMA StopStep ==
    ASSUME IInv, NEW n \in Nodes, Stop(n)
    PROVE  IInv'
<1>1. Bounded /\ links \in [Nodes -> [Nodes -> Seq(Messages)]]
      /\ UNCHANGED tables
  BY DEF Stop, IInv, Bounded, tables
<1>2. /\ links' \in [Nodes -> [Nodes -> Seq(Messages)]]
      /\ \A a, b \in Nodes : links'[a][b] =
           IF b = n THEN <<>> ELSE links[a][b]
  BY <1>1, EmptyQueue DEF Stop
<1>3. pktRouteUpdt' \in [Nodes -> Vectors \cup {NoVector}]
      /\ \A m \in Nodes : pktRouteUpdt'[m] \in {pktRouteUpdt[m], NoVector}
  BY <1>1 DEF Stop, Bounded
<1>4. Bounded'
  BY <1>1, <1>2, <1>3 DEF Stop, Bounded, tables
<1>5. \A a, b \in Nodes : /\ UpdatesOf(links[a][b], links'[a][b])
                          /\ PacketsOf(links[a][b], links'[a][b])
  BY <1>1, <1>2, SameQueue, EmptyQueue
<1>6. BudgetedPackets
  BY <1>5 DEF BudgetedPackets, PacketsOf
<1> QED
  BY <1>1, <1>3, <1>4, <1>5, <1>6, QuietStep

LEMMA DeliverPacketStep ==
    ASSUME IInv, NEW n \in Nodes, NEW m \in Neighbours[n], DeliverPacket(n, m)
    PROVE  IInv'
<1>1. /\ m \in Nodes /\ Bounded /\ links[m][n] /= <<>>
      /\ links' = Taken(m, n) /\ pktRouteUpdt' = pktRouteUpdt
      /\ UNCHANGED tables
  BY NeighbourFacts DEF DeliverPacket, Arrives, IInv
<1>2. Bounded'
  BY <1>1, TakenQueues DEF DeliverPacket, Bounded, tables
<1>3. \A a, b \in Nodes : UpdatesOf(links[a][b], links'[a][b])
  BY <1>1, TakenQueues
<1>4. BudgetedPackets
  <2>1. \A a, b \in Nodes : PacketsOf(links[a][b], links'[a][b])
    BY <1>1, TakenQueues
  <2> QED
    BY <2>1 DEF BudgetedPackets, PacketsOf
<1> QED
  BY <1>1, <1>2, <1>3, <1>4, QuietStep

\* The routing table leads downhill: its cost equation, with the neighbour's
\* present vector below the row held of it.
LEMMA Descends ==
    ASSUME Bounded, VectorsInOrder, VectorIsMinimum, RouteAttains
    PROVE  RouteDescends
<1>1. SUFFICES ASSUME NEW n \in Nodes, NEW d \in Nodes,
                      routingtable[n][d] /= NoNode
               PROVE  dv[n][d] >= Offer(n, routingtable[n][d],
                                        dv[routingtable[n][d]], d)
  BY DEF RouteDescends
<1> DEFINE m == routingtable[n][d]
<1>2. /\ m \in Neighbours[n] /\ m \in Nodes
      /\ \/ dv[n][d] = LinkCost[n][d] /\ m = d
         \/ dv[n][d] = LinkCost[n][m] + rows[n][m][d]
  BY <1>1, NeighbourFacts DEF RouteAttains, Offer
<1> HIDE DEF m
<1>3. CASE dv[n][d] = LinkCost[n][d] /\ m = d
  <2>1. dv[d][d] = 0
    BY CostFacts, TypeFacts DEF VectorIsMinimum
  <2> QED
    BY <1>3, <2>1, CostFacts, TypeFacts DEF Offer, m
<1>4. CASE dv[n][d] = LinkCost[n][m] + rows[n][m][d]
  <2>1. rows[n][m][d] >= dv[m][d]
    BY <1>2 DEF VectorsInOrder, CopyAboveVector, AtLeast
  <2> QED
    BY <1>2, <1>4, <2>1, CostFacts, TypeFacts DEF Offer, m
<1> QED
  BY <1>2, <1>3, <1>4

\* A packet whose budget covers the vector of n still covers the vector of
\* the next hop after the link to it.
LEMMA BudgetAfterHop ==
    ASSUME IInv, NEW n \in Nodes, NEW d \in Nodes, NEW left \in Int,
           left >= dv[n][d], left <= INFINITE_COST,
           routingtable[n][d] \in Neighbours[n]
    PROVE  /\ left - LinkCost[n][routingtable[n][d]]
                >= dv[routingtable[n][d]][d]
           /\ left - LinkCost[n][routingtable[n][d]] < INFINITE_COST
<1> DEFINE m == routingtable[n][d]
<1>1. m \in Nodes /\ m /= n /\ m /= NoNode
  BY NeighbourFacts, NoValueAssumption
<1>2. dv[n][d] >= LinkCost[n][m] + dv[m][d]
  BY <1>1, Descends DEF IInv, RouteDescends, Offer
<1>3. /\ LinkCost[n][m] \in Nat /\ LinkCost[n][m] /= 0
      /\ dv[n][d] \in Nat /\ dv[m][d] \in Nat /\ INFINITE_COST \in Nat
  BY <1>1, CostFacts, TypeFacts DEF IInv
<1> QED
  BY <1>2, <1>3

LEMMA UpdatesTransitive ==
    ASSUME NEW q \in Seq(Messages), NEW r \in Seq(Messages),
           NEW s \in Seq(Messages), UpdatesOf(q, r), UpdatesOf(r, s)
    PROVE  UpdatesOf(q, s)
<1>1. PICK k \in Nat : \A i \in DOMAIN r :
        IsUpdate(r[i]) => i + k \in DOMAIN q /\ r[i] = q[i + k]
  BY DEF UpdatesOf
<1>2. PICK l \in Nat : \A i \in DOMAIN s :
        IsUpdate(s[i]) => i + l \in DOMAIN r /\ s[i] = r[i + l]
  BY DEF UpdatesOf
<1>3. k + l \in Nat
  OBVIOUS
<1>4. ASSUME NEW i \in DOMAIN s, IsUpdate(s[i])
      PROVE  i + (k + l) \in DOMAIN q /\ s[i] = q[i + (k + l)]
  <2>1. i + l \in DOMAIN r /\ s[i] = r[i + l] /\ i \in Nat
    BY <1>2, <1>4
  <2>2. (i + l) + k \in DOMAIN q /\ s[i] = q[(i + l) + k]
    BY <1>1, <1>4, <2>1
  <2>3. (i + l) + k = i + (k + l)
    BY <2>1
  <2> QED
    BY <2>2, <2>3
<1> QED
  BY <1>3, <1>4 DEF UpdatesOf

LEMMA SendSegmentStep ==
    ASSUME IInv, NEW n \in Nodes, NEW d \in Nodes, SendSegment(n, d)
    PROVE  IInv'
<1> DEFINE next == routingtable[n][d]
<1>1. /\ Bounded /\ links \in [Nodes -> [Nodes -> Seq(Messages)]]
      /\ links' = Transmit(links, n, next, d, dv[n][d])
      /\ pktRouteUpdt' = pktRouteUpdt /\ UNCHANGED tables
      /\ dv[n][d] \in Int /\ dv[n][d] <= INFINITE_COST
      /\ dv[n][d] >= dv[n][d]
  BY TypeFacts DEF SendSegment, routingtable_getnextnode, IInv, Bounded
<1> HIDE DEF next
<1>2. Handed(links, n, next, Packet(d, dv[n][d] - LinkCost[n][next]), links')
  BY <1>1, TransmitQueues
<1>3. Bounded'
  <2>1. status' = status /\ sent' \in Nat /\ delivered' = delivered
        /\ failures' = failures
    BY <1>1 DEF SendSegment, Bounded
  <2> QED
    BY <1>1, <1>2, <2>1 DEF Bounded, tables, Handed
<1>4. next \in Neighbours[n] =>
        /\ dv[n][d] - LinkCost[n][next] >= dv[next][d]
        /\ dv[n][d] - LinkCost[n][next] < INFINITE_COST
  BY <1>1, BudgetAfterHop DEF next
<1>5. BudgetedPackets
  <2>1. SUFFICES ASSUME NEW a \in Nodes, NEW b \in Nodes,
                        NEW i \in DOMAIN links'[a][b],
                        links'[a][b][i].type = "SNP"
                 PROVE  \/ \E j \in DOMAIN links[a][b] :
                             links'[a][b][i] = links[a][b][j]
                        \/ /\ links'[a][b][i].left
                                 >= dv[b][links'[a][b][i].dest]
                           /\ links'[a][b][i].left < INFINITE_COST
    BY DEF BudgetedPackets
  <2>2. CASE /\ a = n /\ b = next /\ next \in Neighbours[n]
             /\ links'[a][b][i] = Packet(d, dv[n][d] - LinkCost[n][next])
    BY <1>4, <2>2 DEF Packet
  <2> QED
    BY <1>2, <2>1, <2>2 DEF Handed
<1> QED
  BY <1>1, <1>2, <1>3, <1>5, QuietStep DEF Handed

LEMMA ForwardPacketStep ==
    ASSUME IInv, NEW n \in Nodes, NEW m \in Neighbours[n], ForwardPacket(n, m)
    PROVE  IInv'
<1> DEFINE p == Head(links[m][n])
           d == p.dest
           next == routingtable[n][d]
           Q == Taken(m, n)
<1>1. /\ m \in Nodes /\ Bounded /\ links[m][n] /= <<>> /\ p.type = "SNP"
      /\ links' = Transmit(Q, n, next, d, p.left)
      /\ pktRouteUpdt' = pktRouteUpdt /\ UNCHANGED tables
  BY NeighbourFacts DEF ForwardPacket, routingtable_getnextnode, Arrives, IInv
<1>2. /\ Q \in [Nodes -> [Nodes -> Seq(Messages)]]
      /\ \A a, b \in Nodes : /\ UpdatesOf(links[a][b], Q[a][b])
                             /\ PacketsOf(links[a][b], Q[a][b])
      /\ p \in Messages /\ 1 \in DOMAIN links[m][n] /\ p = links[m][n][1]
  BY <1>1, TakenQueues
<1>3. /\ d \in Nodes /\ p.left \in Int
      /\ p.left >= dv[n][d] /\ p.left <= INFINITE_COST
  <2>1. p.type = "SNP" /\ m \in Nodes
    BY <1>1
  <2>2. d \in Nodes /\ p.left \in Int
    BY <1>2, <2>1, MessageFacts
  <2>3. p.left >= dv[n][d] /\ p.left < INFINITE_COST
    BY <1>2, <2>1 DEF IInv, WithinBudget
  <2> QED
    BY <2>2, <2>3, CostFacts
<1> HIDE DEF Q, p, d, next
<1>4. Handed(Q, n, next, Packet(d, p.left - LinkCost[n][next]), links')
  BY <1>1, <1>2, <1>3, TransmitQueues
<1>5. \A a, b \in Nodes : UpdatesOf(links[a][b], links'[a][b])
  <2>1. \A a, b \in Nodes : /\ links[a][b] \in Seq(Messages)
                            /\ Q[a][b] \in Seq(Messages)
                            /\ links'[a][b] \in Seq(Messages)
    <3>1. \A a, b \in Nodes : links[a][b] \in Seq(Messages)
      BY <1>1, TypeFacts
    <3>2. /\ Q \in [Nodes -> [Nodes -> Seq(Messages)]]
          /\ links' \in [Nodes -> [Nodes -> Seq(Messages)]]
      BY <1>2, <1>4 DEF Handed
    <3> QED
      BY <3>1, <3>2
  <2>2. SUFFICES ASSUME NEW a \in Nodes, NEW b \in Nodes
                 PROVE  UpdatesOf(links[a][b], links'[a][b])
    OBVIOUS
  <2>3. UpdatesOf(links[a][b], Q[a][b]) /\ UpdatesOf(Q[a][b], links'[a][b])
    BY <1>2, <1>4 DEF Handed
  <2> QED
    BY <2>1, <2>3, UpdatesTransitive
<1>6. Bounded'
  BY <1>1, <1>4 DEF ForwardPacket, Bounded, tables, counts, Handed
<1>7. next \in Neighbours[n] =>
        /\ p.left - LinkCost[n][next] >= dv[next][d]
        /\ p.left - LinkCost[n][next] < INFINITE_COST
  BY <1>3, BudgetAfterHop DEF next
<1>8. BudgetedPackets
  <2>1. SUFFICES ASSUME NEW a \in Nodes, NEW b \in Nodes,
                        NEW i \in DOMAIN links'[a][b],
                        links'[a][b][i].type = "SNP"
                 PROVE  \/ \E j \in DOMAIN links[a][b] :
                             links'[a][b][i] = links[a][b][j]
                        \/ /\ links'[a][b][i].left
                                 >= dv[b][links'[a][b][i].dest]
                           /\ links'[a][b][i].left < INFINITE_COST
    BY DEF BudgetedPackets
  <2>2. CASE \E j \in DOMAIN Q[a][b] : links'[a][b][i] = Q[a][b][j]
    <3>1. PICK j \in DOMAIN Q[a][b] : links'[a][b][i] = Q[a][b][j]
      BY <2>2
    <3>2. PacketsOf(links[a][b], Q[a][b]) /\ Q[a][b][j].type = "SNP"
      BY <1>2, <2>1, <3>1
    <3> QED
      BY <3>1, <3>2 DEF PacketsOf
  <2>3. CASE /\ a = n /\ b = next /\ next \in Neighbours[n]
             /\ links'[a][b][i] = Packet(d, p.left - LinkCost[n][next])
    BY <1>7, <2>3 DEF Packet
  <2> QED
    BY <1>4, <2>1, <2>2, <2>3 DEF Handed
<1> QED
  BY <1>1, <1>5, <1>6, <1>8, QuietStep

LEMMA CopyVectorStep ==
    ASSUME IInv, NEW n \in Nodes, CopyVector(n)
    PROVE  IInv'
<1>1. /\ Bounded /\ VectorsInOrder /\ UNCHANGED tables
      /\ links' = links /\ dv' = dv /\ rows' = rows
      /\ pktRouteUpdt \in [Nodes -> Vectors \cup {NoVector}]
      /\ dv[n] \in Vectors
      /\ pktRouteUpdt' = [pktRouteUpdt EXCEPT ![n] = dv[n]]
  BY TypeFacts DEF CopyVector, IInv, Bounded, tables
<1>2. /\ pktRouteUpdt' \in [Nodes -> Vectors \cup {NoVector}]
      /\ \A m \in Nodes : pktRouteUpdt'[m] =
           IF m = n THEN dv[n] ELSE pktRouteUpdt[m]
  BY <1>1
<1>3. Bounded'
  BY <1>1, <1>2 DEF CopyVector, Bounded, tables, counts
<1>4. \A v \in Vectors : AtLeast(v, v)
  BY CostFacts DEF AtLeast, Vectors, Costs
<1>5. LinksAboveCopy'
  BY <1>1, <1>2, NeighbourFacts DEF VectorsInOrder, LinksAboveCopy, AtLeast
<1>6. CopyAboveVector'
  BY <1>1, <1>2, <1>4, NeighbourFacts DEF VectorsInOrder, CopyAboveVector,
     AtLeast
<1>7. RowAboveLinks' /\ LinksInOrder'
  BY <1>1 DEF VectorsInOrder, RowAboveLinks, LinksInOrder, AtLeast, IsUpdate
<1>8. VectorIsMinimum' /\ RouteAttains' /\ WithinBudget'
  BY <1>1, TablesKept DEF IInv, WithinBudget
<1> QED
  BY <1>3, <1>5, <1>6, <1>7, <1>8 DEF IInv, VectorsInOrder

LEMMA BroadcastVectorStep ==
    ASSUME IInv, NEW n \in Nodes, BroadcastVector(n)
    PROVE  IInv'
<1> DEFINE v == pktRouteUpdt[n]
           c == RouteUpdate(v)
           heard == {m \in BroadcastTo(n) : status[m] /= "down"}
<1>1. /\ Bounded /\ VectorsInOrder /\ UNCHANGED tables
      /\ dv' = dv /\ rows' = rows
      /\ links \in [Nodes -> [Nodes -> Seq(Messages)]]
      /\ pktRouteUpdt \in [Nodes -> Vectors \cup {NoVector}]
      /\ v \in Vectors /\ v /= NoVector /\ heard \subseteq Neighbours[n]
      /\ pktRouteUpdt' = [pktRouteUpdt EXCEPT ![n] = NoVector]
  BY DEF BroadcastVector, BroadcastTo, IInv, Bounded, tables
<1>2. c \in Messages /\ IsUpdate(c) /\ c.entry = v
  BY <1>1, MessageFacts DEF RouteUpdate, IsUpdate
<1>3. links' = [links EXCEPT ![n] =
        [m \in Nodes |-> IF m \in heard THEN Queued(links[n][m], c)
                         ELSE links[n][m]]]
  BY <1>1 DEF BroadcastVector
<1> HIDE DEF c, heard
<1>4. \A m \in Nodes : Queued(links[n][m], c) \in Seq(Messages)
  BY <1>1, <1>2, AppendElements
<1>5. /\ links' \in [Nodes -> [Nodes -> Seq(Messages)]]
      /\ \A a, b \in Nodes : links'[a][b] =
           IF a = n /\ b \in heard THEN Queued(links[n][b], c)
           ELSE links[a][b]
  BY <1>1, <1>3, <1>4
<1>6. /\ pktRouteUpdt' \in [Nodes -> Vectors \cup {NoVector}]
      /\ \A m \in Nodes : pktRouteUpdt'[m] =
           IF m = n THEN NoVector ELSE pktRouteUpdt[m]
  BY <1>1
<1>7. Bounded'
  BY <1>1, <1>5, <1>6 DEF BroadcastVector, Bounded, tables, counts
\* A message on a link was there, or is the vector of n at the very end.
<1>8. ASSUME NEW a \in Nodes, NEW b \in Nodes, NEW i \in DOMAIN links'[a][b]
      PROVE  \/ i \in DOMAIN links[a][b] /\ links'[a][b][i] = links[a][b][i]
             \/ /\ a = n /\ i = Len(links[n][b]) + 1
                /\ links'[a][b][i] = c
  <2>1. CASE a = n /\ b \in heard
    <3>1. links[n][b] \in Seq(Messages)
      BY <1>1, <1>8
    <3>2. links'[a][b] = Queued(links[n][b], c)
      BY <1>5, <2>1
    <3>3. \/ i \in DOMAIN links[n][b]
             /\ Queued(links[n][b], c)[i] = links[n][b][i]
          \/ i = Len(links[n][b]) + 1 /\ Queued(links[n][b], c)[i] = c
      BY <1>2, <1>8, <3>1, <3>2, AppendElements
    <3> QED
      BY <2>1, <3>2, <3>3
  <2>2. CASE ~(a = n /\ b \in heard)
    BY <1>5, <1>8, <2>2
  <2> QED
    BY <2>1, <2>2
<1>9. RowAboveLinks'
  <2>1. SUFFICES ASSUME NEW k \in Nodes, NEW m \in Neighbours[k],
                        NEW i \in DOMAIN links'[m][k],
                        IsUpdate(links'[m][k][i])
                 PROVE  AtLeast(rows[k][m], links'[m][k][i].entry)
    BY <1>1 DEF RowAboveLinks, AtLeast, IsUpdate
  <2>2. m \in Nodes
    BY <2>1, NeighbourFacts
  <2>3. CASE i \in DOMAIN links[m][k] /\ links'[m][k][i] = links[m][k][i]
    BY <1>1, <2>1, <2>3 DEF VectorsInOrder, RowAboveLinks
  <2>4. CASE m = n /\ links'[m][k][i] = c
    BY <1>1, <1>2, <2>1, <2>2, <2>4 DEF VectorsInOrder, CopyAboveVector
  <2> QED
    BY <1>8, <2>1, <2>2, <2>3, <2>4
<1>10. LinksInOrder'
  <2>1. SUFFICES ASSUME NEW k \in Nodes, NEW m \in Neighbours[k],
                        NEW i \in DOMAIN links'[m][k],
                        NEW j \in DOMAIN links'[m][k], i < j,
                        IsUpdate(links'[m][k][i]), IsUpdate(links'[m][k][j])
                 PROVE  AtLeast(links'[m][k][i].entry, links'[m][k][j].entry)
    BY DEF LinksInOrder, AtLeast, IsUpdate
  <2>2. m \in Nodes /\ links[m][k] \in Seq(Messages)
    BY <1>1, <2>1, NeighbourFacts
  <2>3. DOMAIN links[m][k] = 1..Len(links[m][k])
    BY <2>2
  <2>4. CASE /\ i \in DOMAIN links[m][k] /\ links'[m][k][i] = links[m][k][i]
             /\ j \in DOMAIN links[m][k] /\ links'[m][k][j] = links[m][k][j]
    BY <1>1, <2>1, <2>4 DEF VectorsInOrder, LinksInOrder
  <2>5. CASE /\ i \in DOMAIN links[m][k] /\ links'[m][k][i] = links[m][k][i]
             /\ m = n /\ links'[m][k][j] = c
    BY <1>1, <1>2, <2>1, <2>2, <2>5 DEF VectorsInOrder, LinksAboveCopy
  <2>6. ~(m = n /\ i = Len(links[n][k]) + 1)
    <3>1. Len(links[m][k]) \in Nat
      BY <2>2
    <3>2. j \in Nat /\ j <= Len(links[m][k]) + 1
      <4>1. CASE j \in DOMAIN links[m][k]
        BY <2>3, <3>1, <4>1
      <4>2. CASE m = n /\ j = Len(links[n][k]) + 1
        BY <3>1, <4>2
      <4> QED
        BY <1>8, <2>1, <2>2, <4>1, <4>2
    <3>3. SUFFICES ASSUME m = n, i = Len(links[n][k]) + 1 PROVE FALSE
      OBVIOUS
    <3>4. i = Len(links[m][k]) + 1
      BY <3>3
    <3>5. j > Len(links[m][k]) + 1
      BY <2>1, <3>4
    <3> QED
      BY <3>1, <3>2, <3>5
  <2> QED
    BY <1>8, <2>1, <2>2, <2>4, <2>5, <2>6
<1>11. LinksAboveCopy'
  <2>1. SUFFICES ASSUME NEW k \in Nodes, NEW m \in Neighbours[k],
                        NEW i \in DOMAIN links'[m][k],
                        IsUpdate(links'[m][k][i])
                 PROVE  /\ AtLeast(links'[m][k][i].entry, dv[m])
                        /\ pktRouteUpdt'[m] /= NoVector
                             => AtLeast(links'[m][k][i].entry, pktRouteUpdt'[m])
    BY <1>1 DEF LinksAboveCopy, AtLeast, IsUpdate
  <2>2. m \in Nodes
    BY <2>1, NeighbourFacts
  <2>3. CASE i \in DOMAIN links[m][k] /\ links'[m][k][i] = links[m][k][i]
    BY <1>1, <1>6, <2>1, <2>2, <2>3 DEF VectorsInOrder, LinksAboveCopy
  <2>4. CASE m = n /\ links'[m][k][i] = c
    BY <1>1, <1>2, <1>6, <2>1, <2>2, <2>4 DEF VectorsInOrder, CopyAboveVector
  <2> QED
    BY <1>8, <2>1, <2>2, <2>3, <2>4
<1>12. CopyAboveVector'
  BY <1>1, <1>6, NeighbourFacts DEF VectorsInOrder, CopyAboveVector, AtLeast
<1>13. WithinBudget'
  <2>1. c.type /= "SNP"
    BY <1>2 DEF IsUpdate
  <2> QED
    BY <1>1, <1>8, <2>1 DEF IInv, WithinBudget
<1>14. VectorIsMinimum' /\ RouteAttains'
  BY <1>1, TablesKept DEF IInv
<1> QED
  BY <1>7, <1>9, <1>10, <1>11, <1>12, <1>13, <1>14 DEF IInv, VectorsInOrder

LEMMA FallsBelow ==
    ASSUME Bounded, NEW a \in Nodes, NEW u,
           \A d \in Nodes : u[d] \in Nat, AtLeast(u, dv[a]),
           \A k, d \in Nodes : dv'[k][d] \in Nat /\ dv'[k][d] <= dv[k][d]
    PROVE  AtLeast(u, dv'[a])
<1>1. \A d \in Nodes : /\ u[d] \in Nat /\ dv'[a][d] \in Nat
                       /\ dv[a][d] \in Nat
                       /\ u[d] >= dv[a][d] /\ dv'[a][d] <= dv[a][d]
  BY TypeFacts DEF AtLeast
<1> QED
  BY <1>1 DEF AtLeast

\* pkthandler takes in a vector: the vector of n only falls, to what the
\* neighbour's row offers; that row only falls too.
LEMMA HandleUpdateStep ==
    ASSUME IInv, NEW n \in Nodes, NEW m \in Neighbours[n], HandleUpdate(n, m)
    PROVE  IInv'
<1> DEFINE v == Head(links[m][n]).entry
           B == Improved(n, m, v)
<1>1. /\ m \in Nodes /\ m /= n /\ n \in Neighbours[m]
      /\ Bounded /\ VectorsInOrder /\ VectorIsMinimum /\ RouteAttains
      /\ links[m][n] /= <<>> /\ links[m][n] \in Seq(Messages)
      /\ links \in [Nodes -> [Nodes -> Seq(Messages)]]
      /\ IsUpdate(Head(links[m][n]))
      /\ links' = Taken(m, n) /\ pktRouteUpdt' = pktRouteUpdt
      /\ pktRouteUpdt \in [Nodes -> Vectors \cup {NoVector}]
  <2>1. m \in Nodes /\ m /= n /\ n \in Neighbours[m]
    BY NeighbourFacts, CostFacts
  <2>2. Bounded /\ links \in [Nodes -> [Nodes -> Seq(Messages)]]
        /\ pktRouteUpdt \in [Nodes -> Vectors \cup {NoVector}]
    BY DEF IInv, Bounded
  <2> QED
    BY <2>1, <2>2 DEF HandleUpdate, Arrives, IInv, IsUpdate
<1>nbr. m \in Nodes /\ m /= n
  BY <1>1
<1>types. /\ INFINITE_COST \in Nat /\ Bounded /\ links[m][n] /= <<>>
          /\ \A k, d \in Nodes : dv[k][d] \in Nat /\ dv[k][d] <= INFINITE_COST
          /\ \A k, d \in Nodes : \A a \in Neighbours[k] :
               rows[k][a][d] \in Nat
          /\ \A k, a \in Nodes : LinkCost[k][a] \in Nat
          /\ \A k \in Nodes : Neighbours[k] \subseteq Nodes
  BY <1>1, TypeFacts, CostFacts, NeighbourFacts
<1>2. /\ links' \in [Nodes -> [Nodes -> Seq(Messages)]]
      /\ \A a, b \in Nodes : links'[a][b] =
           IF a = m /\ b = n THEN Tail(links[m][n]) ELSE links[a][b]
      /\ \A a, b \in Nodes : /\ UpdatesOf(links[a][b], links'[a][b])
                             /\ PacketsOf(links[a][b], links'[a][b])
      /\ Head(links[m][n]) \in Messages
      /\ 1 \in DOMAIN links[m][n] /\ Head(links[m][n]) = links[m][n][1]
  <2>1. Taken(m, n) \in [Nodes -> [Nodes -> Seq(Messages)]]
    BY <1>1, TakenQueues
  <2>2. \A a, b \in Nodes : Taken(m, n)[a][b] =
           IF a = m /\ b = n THEN Tail(links[m][n]) ELSE links[a][b]
    BY <1>nbr, <1>types, TakenQueues
  <2>3. \A a, b \in Nodes : /\ UpdatesOf(links[a][b], Taken(m, n)[a][b])
                            /\ PacketsOf(links[a][b], Taken(m, n)[a][b])
    BY <1>1, TakenQueues
  <2>4. /\ Head(links[m][n]) \in Messages
        /\ 1 \in DOMAIN links[m][n] /\ Head(links[m][n]) = links[m][n][1]
    BY <1>1, TailQueue
  <2> QED
    BY <1>1, <2>1, <2>2, <2>3, <2>4
<1>3. /\ v \in Vectors
      /\ \A d \in Nodes : v[d] \in Nat /\ v[d] <= INFINITE_COST
  BY <1>1, <1>2, MessageFacts
<1>4. /\ AtLeast(rows[n][m], v) /\ AtLeast(v, dv[m])
      /\ pktRouteUpdt[m] /= NoVector => AtLeast(v, pktRouteUpdt[m])
  BY <1>1, <1>2 DEF VectorsInOrder, RowAboveLinks, LinksAboveCopy
<1>5. /\ rows' = [rows EXCEPT ![n][m] = v]
      /\ dv' = [dv EXCEPT ![n] = [d \in Nodes |->
                  IF d \in B THEN LinkCost[n][m] + v[d] ELSE dv[n][d]]]
      /\ routingtable' = [routingtable EXCEPT ![n] = [d \in Nodes |->
                  IF d \in B THEN m ELSE routingtable[n][d]]]
  BY <1>1 DEF HandleUpdate, dvtable_setcost, routingtable_setnextnode, Offer,
     Bounded
<1>6. \A d \in Nodes : d \in B <=> dv[n][d] > LinkCost[n][m] + v[d]
  BY DEF Improved, Offer
<1>7. LinkCost[n][m] \in Nat /\ LinkCost[n][m] > 0
  BY <1>1, CostFacts
<1> HIDE DEF B, v
<1>8. /\ DOMAIN rows' = Nodes
      /\ \A k \in Nodes : rows'[k] \in [Neighbours[k] -> Vectors]
      /\ \A k \in Nodes : \A a \in Neighbours[k] :
           rows'[k][a] = IF k = n /\ a = m THEN v ELSE rows[k][a]
  BY <1>1, <1>3, <1>5 DEF Bounded
<1>9. \A k, d \in Nodes : dv'[k][d] =
        IF k = n /\ d \in B THEN LinkCost[n][m] + v[d] ELSE dv[k][d]
  BY <1>1, <1>5 DEF Bounded, Vectors
<1>10. \A k, d \in Nodes : routingtable'[k][d] =
         IF k = n /\ d \in B THEN m ELSE routingtable[k][d]
  BY <1>1, <1>5 DEF Bounded
<1>11. \A k, d \in Nodes : dv'[k][d] \in Nat /\ dv'[k][d] <= dv[k][d]
  <2>1. ASSUME NEW d \in B, d \in Nodes
        PROVE  /\ LinkCost[n][m] + v[d] \in Nat
               /\ LinkCost[n][m] + v[d] < dv[n][d]
    BY <1>3, <1>6, <1>7, <1>types, <2>1
  <2> QED
    BY <1>9, <1>types, <2>1
<1>12. Bounded'
  <2>1. dv' \in [Nodes -> Vectors]
    <3>1. [d \in Nodes |-> IF d \in B THEN LinkCost[n][m] + v[d]
                           ELSE dv[n][d]] \in Vectors
      <4>1. ASSUME NEW d \in Nodes
            PROVE  (IF d \in B THEN LinkCost[n][m] + v[d] ELSE dv[n][d])
                      \in Costs
        BY <1>nbr, <1>3, <1>6, <1>7, <4>1, <1>types DEF Costs
      <4> QED
        BY <4>1 DEF Vectors
    <3> QED
      BY <1>1, <1>5, <3>1 DEF Bounded
  <2>2. routingtable' \in [Nodes -> [Nodes -> Nodes \cup {NoNode}]]
    BY <1>1, <1>5 DEF Bounded
  <2> QED
    BY <1>1, <1>2, <1>8, <2>1, <2>2 DEF HandleUpdate, Bounded, counts
<1>13. RowAboveLinks'
  <2>1. SUFFICES ASSUME NEW k \in Nodes, NEW a \in Neighbours[k],
                        NEW i \in DOMAIN links'[a][k],
                        IsUpdate(links'[a][k][i])
                 PROVE  AtLeast(rows'[k][a], links'[a][k][i].entry)
    BY DEF RowAboveLinks, AtLeast, IsUpdate
  <2>2. a \in Nodes
    BY <2>1, NeighbourFacts
  <2>3. CASE k = n /\ a = m
    <3>1. links'[a][k] = Tail(links[m][n])
      BY <1>1, <1>2, <2>3
    <3>2. /\ i + 1 \in DOMAIN links[m][n] /\ i \in Nat /\ i >= 1
          /\ links'[a][k][i] = links[m][n][i + 1]
      BY <1>1, <2>1, <3>1, TailQueue
    <3>3. AtLeast(links[m][n][1].entry, links[m][n][i + 1].entry)
      <4>1. IsUpdate(links[m][n][1]) /\ IsUpdate(links[m][n][i + 1])
        BY <1>1, <1>2, <2>1, <3>2
      <4>2. 1 < i + 1 /\ 1 \in DOMAIN links[m][n]
        BY <1>2, <3>2
      <4>3. LinksInOrder
        BY <1>1 DEF VectorsInOrder
      <4> QED
        BY <3>2, <4>1, <4>2, <4>3 DEF LinksInOrder
    <3> QED
      BY <1>1, <1>2, <1>8, <2>3, <3>2, <3>3 DEF v
  <2>4. CASE ~(k = n /\ a = m)
    <3>1. links'[a][k] = links[a][k]
      BY <1>2, <2>2, <2>4
    <3>2. rows'[k][a] = rows[k][a]
      BY <1>8, <2>4
    <3>3. RowAboveLinks
      BY <1>1 DEF VectorsInOrder
    <3> QED
      BY <2>1, <3>1, <3>2, <3>3 DEF RowAboveLinks
  <2> QED
    BY <2>3, <2>4
<1>14. LinksInOrder'
  <2>1. SUFFICES ASSUME NEW k \in Nodes, NEW a \in Neighbours[k],
                        NEW i \in DOMAIN links'[a][k],
                        NEW j \in DOMAIN links'[a][k], i < j,
                        IsUpdate(links'[a][k][i]), IsUpdate(links'[a][k][j])
                 PROVE  AtLeast(links'[a][k][i].entry, links'[a][k][j].entry)
    BY DEF LinksInOrder, AtLeast, IsUpdate
  <2>2. a \in Nodes /\ links'[a][k] \in Seq(Messages)
    BY <1>2, <2>1, NeighbourFacts
  <2>3. i \in Nat /\ j \in Nat
    BY <2>1, <2>2
  <2>4. PICK x \in Nat : \A y \in DOMAIN links'[a][k] :
          IsUpdate(links'[a][k][y]) => /\ y + x \in DOMAIN links[a][k]
                                       /\ links'[a][k][y] = links[a][k][y + x]
    BY <1>2, <2>1, <2>2 DEF UpdatesOf
  <2>5. i + x < j + x
    BY <2>1, <2>3, <2>4
  <2> QED
    BY <1>1, <2>1, <2>4, <2>5 DEF VectorsInOrder, LinksInOrder
<1>15. LinksAboveCopy'
  <2>1. SUFFICES ASSUME NEW k \in Nodes, NEW a \in Neighbours[k],
                        NEW i \in DOMAIN links'[a][k],
                        IsUpdate(links'[a][k][i])
                 PROVE  /\ AtLeast(links'[a][k][i].entry, dv'[a])
                        /\ pktRouteUpdt[a] /= NoVector
                             => AtLeast(links'[a][k][i].entry, pktRouteUpdt[a])
    BY <1>1 DEF LinksAboveCopy, AtLeast, IsUpdate
  <2>2. a \in Nodes
    BY <2>1, NeighbourFacts
  <2>3. PICK j \in DOMAIN links[a][k] : links'[a][k][i] = links[a][k][j]
    BY <1>2, <2>1, <2>2 DEF UpdatesOf
  <2>4. /\ AtLeast(links'[a][k][i].entry, dv[a])
        /\ pktRouteUpdt[a] /= NoVector
             => AtLeast(links'[a][k][i].entry, pktRouteUpdt[a])
    BY <1>1, <2>1, <2>3 DEF VectorsInOrder, LinksAboveCopy
  <2>5. \A d \in Nodes : links'[a][k][i].entry[d] \in Nat
    <3>1. links[a][k] \in Seq(Messages)
      BY <1>1, <2>1, <2>2
    <3>2. links'[a][k][i] \in Messages
      BY <2>3, <3>1
    <3> QED
      BY <2>1, <3>2, MessageFacts
  <2> QED
    <3>1. AtLeast(links'[a][k][i].entry, dv'[a])
      BY <1>11, <2>2, <2>4, <2>5, <1>types, FallsBelow
    <3> QED
      BY <2>4, <3>1
<1>16. CopyAboveVector'
  <2>1. ASSUME NEW a \in Nodes, pktRouteUpdt'[a] /= NoVector
        PROVE  AtLeast(pktRouteUpdt'[a], dv'[a])
    <3>1. AtLeast(pktRouteUpdt[a], dv[a])
      BY <1>1, <2>1 DEF VectorsInOrder, CopyAboveVector
    <3>2. \A d \in Nodes : pktRouteUpdt[a][d] \in Nat
      BY <1>1, <2>1, CostFacts DEF Vectors, Costs
    <3>3. pktRouteUpdt' = pktRouteUpdt
      BY <1>1
    <3> QED
      BY <1>11, <3>1, <3>2, <3>3, <1>types, FallsBelow
  <2>2. ASSUME NEW k \in Nodes, NEW a \in Neighbours[k]
        PROVE  /\ AtLeast(rows'[k][a], dv'[a])
               /\ pktRouteUpdt'[a] /= NoVector
                    => AtLeast(rows'[k][a], pktRouteUpdt'[a])
    <3>1. a \in Nodes
      BY <2>2, NeighbourFacts
    <3>2. /\ AtLeast(rows'[k][a], dv[a])
          /\ pktRouteUpdt[a] /= NoVector
               => AtLeast(rows'[k][a], pktRouteUpdt[a])
      <4>1. /\ AtLeast(rows[k][a], dv[a])
            /\ pktRouteUpdt[a] /= NoVector
                 => AtLeast(rows[k][a], pktRouteUpdt[a])
        BY <1>1, <2>2 DEF VectorsInOrder, CopyAboveVector
      <4>2. rows'[k][a] = IF k = n /\ a = m THEN v ELSE rows[k][a]
        BY <1>8, <2>2
      <4> QED
        BY <1>4, <4>1, <4>2
    <3>3. \A d \in Nodes : rows'[k][a][d] \in Nat
      BY <1>8, <2>2, CostFacts DEF Vectors, Costs
    <3>4. pktRouteUpdt' = pktRouteUpdt
      BY <1>1
    <3>5. AtLeast(rows'[k][a], dv'[a])
      BY <1>11, <3>1, <3>2, <3>3, <1>types, FallsBelow
    <3> QED
      BY <3>2, <3>4, <3>5
  <2> QED
    BY <2>1, <2>2 DEF CopyAboveVector, AtLeast
<1>17. VectorIsMinimum'
  <2>1. SUFFICES ASSUME NEW k \in Nodes, NEW d \in Nodes
        PROVE  /\ dv'[k][d] <= LinkCost[k][d]
               /\ \A a \in Neighbours[k] :
                    dv'[k][d] <= LinkCost[k][a] + rows'[k][a][d]
               /\ \/ dv'[k][d] = LinkCost[k][d]
                  \/ \E a \in Neighbours[k] :
                       dv'[k][d] = LinkCost[k][a] + rows'[k][a][d]
    BY DEF VectorIsMinimum, Offer
  <2>2. /\ dv[k][d] <= LinkCost[k][d]
        /\ \A a \in Neighbours[k] :
             dv[k][d] <= LinkCost[k][a] + rows[k][a][d]
        /\ \/ dv[k][d] = LinkCost[k][d]
           \/ \E a \in Neighbours[k] :
                dv[k][d] = LinkCost[k][a] + rows[k][a][d]
    BY <1>1 DEF VectorIsMinimum, Offer
  <2>3. CASE k = n /\ d \in B
    <3>1. /\ dv'[k][d] = LinkCost[n][m] + v[d] /\ dv'[k][d] \in Nat
          /\ dv'[k][d] < dv[k][d] /\ dv[k][d] \in Nat
      <4>1. dv'[k][d] = LinkCost[n][m] + v[d]
        BY <1>9, <2>3
      <4> QED
        BY <1>3, <1>6, <1>7, <1>types, <2>3, <4>1
    <3>2. rows'[n][m][d] = v[d]
      BY <1>8
    <3>3. ASSUME NEW a \in Neighbours[k]
          PROVE  dv'[k][d] <= LinkCost[k][a] + rows'[k][a][d]
      <4>1. CASE a = m
        BY <1>3, <1>7, <2>3, <3>1, <3>2, <4>1
      <4>2. CASE a /= m
        <5>1. rows'[k][a][d] = rows[k][a][d]
          BY <1>8, <4>2
        <5>2. rows[k][a][d] \in Nat /\ LinkCost[k][a] \in Nat
          BY <1>types
        <5> QED
          BY <2>2, <3>1, <5>1, <5>2
      <4> QED
        BY <4>1, <4>2
    <3>4. dv'[k][d] <= LinkCost[k][d]
      BY <2>2, <3>1, <1>types
    <3> QED
      BY <2>3, <3>1, <3>2, <3>3, <3>4
  <2>4. CASE k = n /\ d \notin B
    <3>1. dv'[k][d] = dv[k][d] /\ dv[k][d] <= LinkCost[n][m] + v[d]
      BY <1>nbr, <1>3, <1>6, <1>7, <1>9, <2>4, <1>types
    <3>2. rows[n][m][d] >= v[d] /\ rows[n][m][d] \in Nat
      BY <1>nbr, <1>4, <1>types DEF AtLeast
    <3>3. \A a \in Neighbours[k] : dv'[k][d] <= LinkCost[k][a] + rows'[k][a][d]
      BY <1>8, <2>2, <2>4, <3>1
    <3>4. ASSUME NEW a \in Neighbours[k],
                 dv[k][d] = LinkCost[k][a] + rows[k][a][d]
          PROVE  dv'[k][d] = LinkCost[k][a] + rows'[k][a][d]
      <4>1. CASE a = m
        <5>1. rows'[k][a][d] = v[d] /\ LinkCost[k][a] = LinkCost[n][m]
          BY <1>8, <2>4, <4>1
        <5>2. /\ dv[k][d] = LinkCost[n][m] + rows[n][m][d]
              /\ dv[k][d] <= LinkCost[n][m] + v[d]
          BY <2>4, <3>1, <3>4, <4>1
        <5> QED
          BY <1>3, <1>7, <3>1, <3>2, <5>1, <5>2
      <4>2. CASE a /= m
        BY <1>8, <3>1, <3>4, <4>2
      <4> QED
        BY <4>1, <4>2
    <3> QED
      BY <2>2, <3>1, <3>3, <3>4
  <2>5. CASE k /= n
    BY <1>8, <1>9, <2>2, <2>5
  <2> QED
    BY <2>3, <2>4, <2>5
<1>18. RouteAttains'
  <2>1. SUFFICES ASSUME NEW k \in Nodes, NEW d \in Nodes
        PROVE  /\ routingtable'[k][d] /= NoNode =>
                    /\ routingtable'[k][d] \in Neighbours[k]
                    /\ \/ /\ dv'[k][d] = LinkCost[k][d]
                          /\ routingtable'[k][d] = d
                       \/ dv'[k][d] = LinkCost[k][routingtable'[k][d]]
                                        + rows'[k][routingtable'[k][d]][d]
               /\ k /= d => (routingtable'[k][d] = NoNode
                               <=> dv'[k][d] = INFINITE_COST)
               /\ routingtable'[k][k] = NoNode
    BY DEF RouteAttains, Offer
  <2>2. /\ routingtable[k][d] /= NoNode =>
             /\ routingtable[k][d] \in Neighbours[k]
             /\ \/ dv[k][d] = LinkCost[k][d] /\ routingtable[k][d] = d
                \/ dv[k][d] = LinkCost[k][routingtable[k][d]]
                                + rows[k][routingtable[k][d]][d]
        /\ k /= d => (routingtable[k][d] = NoNode
                        <=> dv[k][d] = INFINITE_COST)
        /\ routingtable[k][k] = NoNode
    BY <1>1 DEF RouteAttains, Offer
  <2>3. dv[n][n] = 0 /\ n \notin B
    <3>1. dv[n][n] = 0
      <4>1. dv[n][n] <= LinkCost[n][n] /\ LinkCost[n][n] = 0
        BY <1>1, CostFacts DEF VectorIsMinimum
      <4> QED
        BY <4>1, <1>types
    <3> QED
      BY <1>3, <1>6, <1>7, <3>1
  <2>4. routingtable'[k][k] = NoNode
    BY <1>10, <2>2, <2>3
  <2>5. CASE k = n /\ d \in B
    <3>1. dv'[k][d] < INFINITE_COST
      <4>1. dv'[k][d] = LinkCost[n][m] + v[d]
        BY <1>9, <2>5
      <4>2. dv[n][d] > LinkCost[n][m] + v[d]
        BY <1>6, <2>5
      <4> QED
        BY <1>3, <1>7, <1>types, <2>5, <4>1, <4>2
    <3>2. /\ routingtable'[k][d] = m /\ rows'[k][m][d] = v[d]
          /\ dv'[k][d] = LinkCost[k][m] + v[d]
      BY <1>nbr, <1>8, <1>9, <1>10, <2>5
    <3>3. m /= NoNode /\ m \in Neighbours[k]
      BY <1>nbr, <2>5, NoValueAssumption
    <3>4. dv'[k][d] /= INFINITE_COST
      BY <1>11, <1>types, <3>1
    <3> QED
      BY <2>4, <3>2, <3>3, <3>4
  <2>6. CASE k = n /\ d \notin B
    <3>1. /\ dv'[k][d] = dv[k][d] /\ routingtable'[k][d] = routingtable[k][d]
          /\ dv[k][d] <= LinkCost[n][m] + v[d]
      BY <1>nbr, <1>3, <1>6, <1>7, <1>9, <1>10, <2>6, <1>types
    <3>2. rows[n][m][d] >= v[d] /\ rows[n][m][d] \in Nat
      BY <1>nbr, <1>4, <1>types DEF AtLeast
    <3>3. ASSUME NEW a \in Neighbours[k],
                 dv[k][d] = LinkCost[k][a] + rows[k][a][d]
          PROVE  dv'[k][d] = LinkCost[k][a] + rows'[k][a][d]
      <4>1. CASE a = m
        <5>1. rows'[k][a][d] = v[d] /\ LinkCost[k][a] = LinkCost[n][m]
          BY <1>8, <2>6, <4>1
        <5>2. /\ dv[k][d] = LinkCost[n][m] + rows[n][m][d]
              /\ dv[k][d] <= LinkCost[n][m] + v[d]
          BY <2>6, <3>1, <3>3, <4>1
        <5> QED
          BY <1>3, <1>7, <3>1, <3>2, <5>1, <5>2
      <4>2. CASE a /= m
        BY <1>8, <3>1, <3>3, <4>2
      <4> QED
        BY <4>1, <4>2
    <3> QED
      BY <2>2, <2>4, <3>1, <3>3
  <2>7. CASE k /= n
    BY <1>8, <1>9, <1>10, <2>2, <2>7
  <2> QED
    BY <2>5, <2>6, <2>7
<1>19. WithinBudget'
  <2>1. SUFFICES ASSUME NEW a \in Nodes, NEW b \in Nodes,
                        NEW i \in DOMAIN links'[a][b],
                        links'[a][b][i].type = "SNP"
                 PROVE  /\ links'[a][b][i].left
                             >= dv'[b][links'[a][b][i].dest]
                        /\ links'[a][b][i].left < INFINITE_COST
    BY DEF WithinBudget
  <2>2. PICK j \in DOMAIN links[a][b] : links'[a][b][i] = links[a][b][j]
    BY <1>2, <2>1 DEF PacketsOf
  <2>3. /\ links[a][b][j].left >= dv[b][links[a][b][j].dest]
        /\ links[a][b][j].left < INFINITE_COST
    BY <2>1, <2>2 DEF IInv, WithinBudget
  <2>4. links[a][b][j].dest \in Nodes /\ links[a][b][j].left \in Int
    <3>1. links[a][b] \in Seq(Messages)
      BY <1>1, <2>1
    <3>2. links[a][b][j] \in Messages
      BY <2>2, <3>1
    <3> QED
      BY <2>1, <2>2, <3>2, MessageFacts
  <2> QED
    BY <1>nbr, <1>11, <2>1, <2>2, <2>3, <2>4, <1>types
<1> QED
  BY <1>12, <1>13, <1>14, <1>15, <1>16, <1>17, <1>18, <1>19 DEF IInv,
     VectorsInOrder

----
(* All the steps together *)

\* A process that has run out of descriptors does not recover: as long as none
\* has, none of the calls has failed.
LEMMA StarvedStays ==
    ASSUME [Next]_vars, starved' = {}
    PROVE  /\ starved = {}
           /\ \A n \in Nodes : ~RunOut(n)
           /\ \A n \in Nodes : \A m \in Neighbours[n] : ~HandleUpdateStarved(n, m)
<1>1. \A n \in Nodes : ~RunOut(n)
  BY DEF RunOut
<1>2. ASSUME NEW n \in Nodes, StartSnp(n) \/ routeupdate_daemon(n) \/ Stop(n)
      PROVE  starved' = starved
  BY <1>2 DEF StartSnp, routeupdate_daemon, CopyVector, BroadcastVector, Stop
<1>3. ASSUME NEW n \in Nodes, NEW d \in Nodes, SendSegment(n, d)
      PROVE  starved' = starved
  BY <1>3 DEF SendSegment
<1>4. ASSUME NEW n \in Nodes, NEW m \in Neighbours[n],
             pkthandler(n, m) \/ LoseAtOverlay(n, m) \/ LoseUnsent(n, m)
      PROVE  starved' = starved
  BY <1>4 DEF pkthandler, HandleUpdate, HandleUpdateStarved, DeliverPacket,
     ForwardPacket, LoseAtOverlay, LoseUnsent
<1>5. starved = {}
  BY <1>1, <1>2, <1>3, <1>4 DEF Next, vars
<1> QED
  BY <1>1, <1>5 DEF HandleUpdateStarved

LEMMA NextStep ==
    ASSUME IInv, [Next]_vars, starved' = {}
    PROVE  IInv'
<1>1. CASE UNCHANGED vars
  <2>1. /\ Bounded /\ UNCHANGED tables /\ links' = links
        /\ pktRouteUpdt' = pktRouteUpdt /\ dv' = dv /\ rows' = rows
        /\ links \in [Nodes -> [Nodes -> Seq(Messages)]]
    BY <1>1 DEF vars, tables, IInv, Bounded
  <2>2. Bounded'
    BY <1>1 DEF vars, tables, counts, IInv, Bounded
  <2>3. VectorsInOrder'
    BY <2>1 DEF IInv, VectorsInOrder, RowAboveLinks, LinksInOrder,
       LinksAboveCopy, CopyAboveVector, AtLeast, IsUpdate
  <2>4. WithinBudget'
    BY <2>1 DEF IInv, WithinBudget
  <2>5. VectorIsMinimum' /\ RouteAttains'
    BY <2>1, TablesKept DEF IInv
  <2> QED
    BY <2>2, <2>3, <2>4, <2>5 DEF IInv
<1>2. CASE Next
  <2>1. PICK n \in Nodes :
          \/ StartSnp(n)
          \/ routeupdate_daemon(n)
          \/ \E d \in Nodes : SendSegment(n, d)
          \/ \E m \in Neighbours[n] : \/ pkthandler(n, m)
                                      \/ LoseAtOverlay(n, m)
                                      \/ LoseUnsent(n, m)
          \/ RunOut(n) \/ Stop(n)
    BY <1>2 DEF Next
  <2>2. CASE StartSnp(n)
    BY <2>2, StartSnpStep
  <2>3. CASE routeupdate_daemon(n)
    BY <2>3, CopyVectorStep, BroadcastVectorStep DEF routeupdate_daemon
  <2>4. CASE \E d \in Nodes : SendSegment(n, d)
    BY <2>4, SendSegmentStep
  <2>5. ASSUME NEW m \in Neighbours[n],
               \/ pkthandler(n, m)
               \/ LoseAtOverlay(n, m)
               \/ LoseUnsent(n, m)
        PROVE  IInv'
    BY <2>5, HandleUpdateStep, DeliverPacketStep, ForwardPacketStep,
       LoseAtOverlayStep, LoseUnsentStep, StarvedStays DEF pkthandler
  <2>6. CASE Stop(n)
    BY <2>6, StopStep
  <2> QED
    BY <2>1, <2>2, <2>3, <2>4, <2>5, <2>6, StarvedStays
<1> QED
  BY <1>1, <1>2

\* The invariants of the tables, the vectors and the packets together, from
\* which the others follow.
THEOREM Invariance == Spec => [](starved = {} => IInv)
<1>1. Init => IInv
  BY InitStep
<1>2. (starved = {} => IInv) /\ [Next]_vars => (starved = {} => IInv)'
  BY NextStep, StarvedStays
<1> QED
  BY <1>1, <1>2, PTL DEF Spec

\* A vector never overtakes an older one.
THEOREM VectorsNeverOvertake == Spec => [](starved = {} => VectorsInOrder)
<1>1. IInv => VectorsInOrder
  BY DEF IInv
<1> QED
  BY <1>1, Invariance, PTL

\* The own vector is the minimum over links and rows.
THEOREM VectorEquation == Spec => [](starved = {} => VectorIsMinimum)
<1>1. IInv => VectorIsMinimum
  BY DEF IInv
<1> QED
  BY <1>1, Invariance, PTL

\* The routing table follows the vector.
THEOREM RoutesAttain == Spec => [](starved = {} => RouteAttains)
<1>1. IInv => RouteAttains
  BY DEF IInv
<1> QED
  BY <1>1, Invariance, PTL

\* No packet travels further than its source's vector promised.
THEOREM PacketsWithinBudget == Spec => [](starved = {} => WithinBudget)
<1>1. IInv => WithinBudget
  BY DEF IInv
<1> QED
  BY <1>1, Invariance, PTL

----
(* Loops and dead ends *)

\* Along the next hops to d the vectors strictly fall.
LEMMA StrictlyDescends ==
    ASSUME IInv, NEW n \in Nodes, NEW d \in Nodes, routingtable[n][d] /= NoNode
    PROVE  /\ routingtable[n][d] \in Nodes
           /\ dv[routingtable[n][d]][d] \in Nat /\ dv[n][d] \in Nat
           /\ dv[routingtable[n][d]][d] < dv[n][d]
<1>1. routingtable[n][d] \in Neighbours[n] /\ Bounded
  BY DEF IInv, RouteAttains
<1>2. /\ routingtable[n][d] \in Nodes
      /\ LinkCost[n][routingtable[n][d]] \in Nat
      /\ LinkCost[n][routingtable[n][d]] > 0
  <2>1. routingtable[n][d] \in Nodes /\ routingtable[n][d] /= n
    BY <1>1, NeighbourFacts
  <2> QED
    BY <2>1, CostFacts
<1>3. dv[n][d] >= LinkCost[n][routingtable[n][d]]
                    + dv[routingtable[n][d]][d]
  <2>1. RouteDescends
    BY Descends DEF IInv
  <2> QED
    BY <2>1 DEF RouteDescends, Offer
<1>4. dv[routingtable[n][d]][d] \in Nat /\ dv[n][d] \in Nat
  BY <1>1, <1>2, TypeFacts
<1> QED
  BY <1>2, <1>3, <1>4

LEMMA LoopsExcluded == IInv => NoLoops
<1>1. SUFFICES ASSUME IInv, NEW d \in Nodes,
                      NEW S \in SUBSET (Nodes \ {d}), S /= {}
               PROVE  \E n \in S : routingtable[n][d] \notin S
  BY DEF NoLoops
<1>2. Bounded
  BY <1>1 DEF IInv
<1> DEFINE C == {dv[n][d] : n \in S}
<1>3. C \subseteq Nat /\ C /= {}
  BY <1>1, <1>2, TypeFacts
<1>4. PICK c \in C : \A x \in C : ~(<<x, c>> \in OpToRel(<, Nat))
  BY <1>3, NatLessThanWellFounded, WFMin
<1>5. PICK n \in S : c = dv[n][d]
  BY <1>4
<1>6. ASSUME routingtable[n][d] \in S
      PROVE  FALSE
  <2>1. routingtable[n][d] /= NoNode /\ n \in Nodes
    BY <1>6, NoValueAssumption
  <2>2. /\ dv[routingtable[n][d]][d] \in Nat /\ dv[n][d] \in Nat
        /\ dv[routingtable[n][d]][d] < dv[n][d]
    BY <1>1, <2>1, StrictlyDescends
  <2>3. dv[routingtable[n][d]][d] \in C
    BY <1>6
  <2> QED
    BY <1>4, <1>5, <2>2, <2>3 DEF OpToRel
<1> QED
  BY <1>5, <1>6

LEMMA DeadEndsExcluded == IInv => NoDeadEnd
<1>1. SUFFICES ASSUME IInv PROVE NoDeadEnd
  OBVIOUS
<1>2. /\ Bounded /\ INFINITE_COST \in Nat
      /\ \A n, d \in Nodes : n /= d =>
           (routingtable[n][d] = NoNode <=> dv[n][d] = INFINITE_COST)
  BY <1>1, CostFacts DEF IInv, RouteAttains
<1>3. ASSUME NEW n \in Nodes, NEW d \in Nodes,
             routingtable[n][d] \notin {NoNode, d}
      PROVE  routingtable[routingtable[n][d]][d] /= NoNode
  <2>1. /\ routingtable[n][d] \in Nodes
        /\ dv[routingtable[n][d]][d] \in Nat /\ dv[n][d] \in Nat
        /\ dv[routingtable[n][d]][d] < dv[n][d]
    BY <1>1, <1>3, StrictlyDescends
  <2>2. dv[n][d] <= INFINITE_COST
    BY <1>2, TypeFacts
  <2>3. dv[routingtable[n][d]][d] /= INFINITE_COST
    BY <1>2, <2>1, <2>2
  <2> QED
    BY <1>2, <1>3, <2>1, <2>3
<1>4. ASSUME NEW m \in Nodes, NEW n \in Nodes, NEW i \in DOMAIN links[m][n],
             links[m][n][i].type = "SNP", links[m][n][i].dest /= n
      PROVE  routingtable[n][links[m][n][i].dest] /= NoNode
  <2>1. links[m][n][i] \in Messages
    <3>1. links[m][n] \in Seq(Messages)
      BY <1>2, TypeFacts
    <3> QED
      BY <1>4, <3>1
  <2>2. links[m][n][i].dest \in Nodes /\ links[m][n][i].left \in Int
    BY <1>4, <2>1, MessageFacts
  <2>3. /\ links[m][n][i].left >= dv[n][links[m][n][i].dest]
        /\ links[m][n][i].left < INFINITE_COST
    BY <1>1, <1>4 DEF IInv, WithinBudget
  <2>4. dv[n][links[m][n][i].dest] \in Nat
    BY <1>2, <2>2, TypeFacts
  <2>5. dv[n][links[m][n][i].dest] /= INFINITE_COST
    BY <1>2, <2>2, <2>3, <2>4
  <2> QED
    BY <1>2, <1>4, <2>2, <2>5
<1> QED
  BY <1>3, <1>4 DEF NoDeadEnd

\* At no moment of the convergence do the next hops to a destination form a
\* loop.
THEOREM LoopFree == Spec => [](starved = {} => NoLoops)
  BY LoopsExcluded, Invariance, PTL

\* A next hop, and a node a packet is on its way to, has a route itself.
THEOREM NoDeadEnds == Spec => [](starved = {} => NoDeadEnd)
  BY DeadEndsExcluded, Invariance, PTL
----
(* Shortest paths *)

----
(* With and without descriptors *)

\* The vectors that are nowhere below what the table D has for m.
Above(D, m) == {v \in AnyVectors : \A d \in Nodes : v[d] >= D[m][d]}

\* Links whose updates are, from each sender, above D.
Clean(D, L) ==
    /\ L \in [Nodes -> [Nodes -> Seq(MessagesWith(AnyVectors))]]
    /\ \A a, b \in Nodes : L[a][b] \in Seq(MessagesWith(Above(D, a)))

\* What holds although calls fail: the types, and that the vectors, the copies
\* of the daemons and the updates on their way are above D.
Sound(D) ==
    /\ starved \subseteq Nodes
    /\ Typed(AnyVectors)
    /\ Clean(D, links)
    /\ \A m \in Nodes : /\ dv[m] \in Above(D, m)
                        /\ pktRouteUpdt[m] \in Above(D, m) \cup {NoVector}

LEMMA AboveFacts ==
    ASSUME NEW D, NEW m \in Nodes
    PROVE  /\ Above(D, m) \subseteq AnyVectors
           /\ \A v \in Above(D, m) : \A d \in Nodes : v[d] \in Nat /\ v[d] >= D[m][d]
           /\ \A v \in Above(D, m) : RouteUpdate(v) \in MessagesWith(Above(D, m))
           /\ \A c \in MessagesWith(Above(D, m)) :
                c.type = "ROUTE_UPDATE" => c.entry \in Above(D, m)
           /\ \A S : \A d \in Nodes, l \in Int : Packet(d, l) \in MessagesWith(S)
           /\ \A S : \A c \in MessagesWith(S) :
                c.type = "SNP" => c.dest \in Nodes /\ c.left \in Int
           /\ MessagesWith(Above(D, m)) \subseteq MessagesWith(AnyVectors)
  BY DEF Above, AnyVectors, MessagesWith, RouteUpdate, Packet

LEMMA QueueFacts ==
    ASSUME NEW X, NEW q \in Seq(X)
    PROVE  /\ q /= <<>> => /\ Tail(q) \in Seq(X) /\ Head(q) \in X
                           /\ SubSeq(q, 1, Len(q) - 1) \in Seq(X)
           /\ \A c \in X : Queued(q, c) \in Seq(X)
           /\ <<>> \in Seq(X)
  BY DEF Queued

LEMMA CleanTaken ==
    ASSUME NEW D, Clean(D, links), NEW m \in Nodes, NEW n \in Nodes,
           links[m][n] /= <<>>
    PROVE  /\ Clean(D, Taken(m, n))
           /\ Head(links[m][n]) \in MessagesWith(Above(D, m))
<1>1. /\ links \in [Nodes -> [Nodes -> Seq(MessagesWith(AnyVectors))]]
      /\ \A a, b \in Nodes : links[a][b] \in Seq(MessagesWith(Above(D, a)))
  BY DEF Clean
<1>2. /\ Tail(links[m][n]) \in Seq(MessagesWith(AnyVectors))
      /\ Tail(links[m][n]) \in Seq(MessagesWith(Above(D, m)))
      /\ Head(links[m][n]) \in MessagesWith(Above(D, m))
  BY <1>1, QueueFacts
<1>3. /\ Taken(m, n) \in [Nodes -> [Nodes -> Seq(MessagesWith(AnyVectors))]]
      /\ \A a, b \in Nodes : Taken(m, n)[a][b] =
           IF a = m /\ b = n THEN Tail(links[m][n]) ELSE links[a][b]
  BY <1>1, <1>2 DEF Taken
<1>4. \A a, b \in Nodes : Taken(m, n)[a][b] \in Seq(MessagesWith(Above(D, a)))
  BY <1>1, <1>2, <1>3
<1> QED
  BY <1>2, <1>3, <1>4 DEF Clean

LEMMA CleanTransmit ==
    ASSUME NEW D, NEW Q, Clean(D, Q), NEW n \in Nodes, NEW next,
           NEW dest \in Nodes, NEW left \in Int
    PROVE  Clean(D, Transmit(Q, n, next, dest, left))
<1> DEFINE c == Packet(dest, left - LinkCost[n][next])
<1>1. CASE next \in Neighbours[n] /\ status[next] /= "down"
  <2>1. /\ Q \in [Nodes -> [Nodes -> Seq(MessagesWith(AnyVectors))]]
        /\ \A a, b \in Nodes : Q[a][b] \in Seq(MessagesWith(Above(D, a)))
        /\ next \in Nodes
    BY <1>1, NeighbourFacts DEF Clean
  <2>2. c \in MessagesWith(AnyVectors) /\ c \in MessagesWith(Above(D, n))
    <3>1. left - LinkCost[n][next] \in Int
      BY <2>1, CostFacts
    <3> QED
      BY <3>1, AboveFacts
  <2> DEFINE R == [Q EXCEPT ![n][next] = Queued(@, c)]
  <2>3. Transmit(Q, n, next, dest, left) = R
    BY <1>1 DEF Transmit
  <2> HIDE DEF c
  <2>4. /\ Queued(Q[n][next], c) \in Seq(MessagesWith(AnyVectors))
        /\ Queued(Q[n][next], c) \in Seq(MessagesWith(Above(D, n)))
    BY <2>1, <2>2, QueueFacts
  <2>5. /\ R \in [Nodes -> [Nodes -> Seq(MessagesWith(AnyVectors))]]
        /\ \A a, b \in Nodes : R[a][b] =
             IF a = n /\ b = next THEN Queued(Q[n][next], c) ELSE Q[a][b]
    BY <2>1, <2>4
  <2> HIDE DEF R
  <2>6. \A a, b \in Nodes : R[a][b] \in Seq(MessagesWith(Above(D, a)))
    BY <2>1, <2>4, <2>5
  <2> QED
    BY <2>3, <2>5, <2>6 DEF Clean
<1>2. CASE ~(next \in Neighbours[n] /\ status[next] /= "down")
  BY <1>2 DEF Transmit
<1> QED
  BY <1>1, <1>2

LEMMA SoundInit ==
    ASSUME NEW D \in Potentials, Init
    PROVE  Sound(D)
<1> USE DEF Init, TablesCreated
<1>1. LinkCost \in [Nodes -> AnyVectors]
  BY CostAssumption DEF AnyVectors
<1>2. Typed(AnyVectors)
  BY <1>1, CostFacts, NeighbourFacts DEF Typed, AnyVectors, dvtable_create,
     routingtable_create
<1>3. Clean(D, links)
  <2>1. \A S : <<>> \in Seq(S)
    OBVIOUS
  <2> QED
    BY <2>1 DEF Clean
<1>4. \A m \in Nodes : dv[m] \in Above(D, m)
  BY <1>1, CostFacts DEF Above, AnyVectors, Potentials, Bounds
<1> QED
  BY <1>2, <1>3, <1>4 DEF Sound

\* A handler that leaves no entry of n below D keeps all the rest.
LEMMA SoundHandler ==
    ASSUME NEW D, Sound(D), NEW n \in Nodes, NEW m \in Neighbours[n],
           links[m][n] /= <<>>, links' = Taken(m, n),
           UNCHANGED <<status, starved, pktRouteUpdt, counts>>,
           NEW row \in AnyVectors, rows' = [rows EXCEPT ![n][m] = row],
           NEW own \in Above(D, n), dv' = [dv EXCEPT ![n] = own],
           NEW dests, routingtable' = routingtable_setnextnode(n, dests, m)
    PROVE  Sound(D)'
<1>1. m \in Nodes
  BY NeighbourFacts
<1>2. Clean(D, links)'
  BY <1>1, CleanTaken DEF Sound, Clean
<1>3. Typed(AnyVectors)'
  <2>1. DOMAIN rows' = Nodes /\ \A k \in Nodes : rows'[k] \in [Neighbours[k] -> AnyVectors]
    BY DEF Sound, Typed
  <2>2. routingtable' \in [Nodes -> [Nodes -> Nodes \cup {NoNode}]]
    BY <1>1 DEF Sound, Typed, routingtable_setnextnode
  <2>3. dv' \in [Nodes -> AnyVectors]
    BY AboveFacts DEF Sound, Typed
  <2> QED
    BY <1>2, <2>1, <2>2, <2>3 DEF Sound, Typed, counts, Clean
<1>4. \A k \in Nodes : /\ dv'[k] \in Above(D, k)
                       /\ pktRouteUpdt'[k] \in Above(D, k) \cup {NoVector}
  BY DEF Sound, Typed
<1> QED
  BY <1>2, <1>3, <1>4 DEF Sound

\* What a vector from m offers n, at the cost of the link or at one that a
\* call returned in vain, is above D.
LEMMA OfferAbove ==
    ASSUME NEW D \in Potentials, Sound(D), NEW n \in Nodes, NEW m \in Neighbours[n],
           Arrives(m, n, "ROUTE_UPDATE")
    PROVE  LET v == Head(links[m][n]).entry IN
           /\ v \in AnyVectors
           /\ \A d \in Nodes : /\ LinkCost[n][m] + v[d] \in Nat
                                /\ LinkCost[n][m] + v[d] >= D[n][d]
                                /\ INFINITE_COST + v[d] \in Nat
                                /\ INFINITE_COST + v[d] >= D[n][d]
<1> DEFINE v == Head(links[m][n]).entry
<1>1. m \in Nodes /\ links[m][n] /= <<>> /\ Head(links[m][n]).type = "ROUTE_UPDATE"
  BY NeighbourFacts DEF Arrives
<1>2. v \in Above(D, m)
  BY <1>1, CleanTaken, AboveFacts DEF Sound
<1> HIDE DEF v
<1>3. v \in AnyVectors /\ \A d \in Nodes : v[d] \in Nat /\ v[d] >= D[m][d]
  BY <1>1, <1>2, AboveFacts
<1>4. \A d \in Nodes : /\ D[n][d] <= LinkCost[n][m] + D[m][d]
                      /\ D[n][d] \in Nat /\ D[m][d] \in Nat
  BY <1>1, CostFacts DEF Potentials, Bounds
<1>5. /\ LinkCost[n][m] \in Nat /\ LinkCost[n][m] <= INFINITE_COST
      /\ INFINITE_COST \in Nat
  BY <1>1, CostFacts
<1> QED
  BY <1>3, <1>4, <1>5 DEF v

LEMMA SoundUpdate ==
    ASSUME NEW D \in Potentials, Sound(D), NEW n \in Nodes, NEW m \in Neighbours[n],
           HandleUpdate(n, m) \/ HandleUpdateStarved(n, m)
    PROVE  Sound(D)'
<1> DEFINE v == Head(links[m][n]).entry
<1>1. Arrives(m, n, "ROUTE_UPDATE") /\ links[m][n] /= <<>>
  BY DEF HandleUpdate, HandleUpdateStarved, Arrives
<1>2. /\ v \in AnyVectors
      /\ \A d \in Nodes : /\ LinkCost[n][m] + v[d] \in Nat
                           /\ LinkCost[n][m] + v[d] >= D[n][d]
                           /\ INFINITE_COST + v[d] \in Nat
                           /\ INFINITE_COST + v[d] >= D[n][d]
  BY <1>1, OfferAbove
<1>3. /\ dv[n] \in Above(D, n) /\ dv[n] \in AnyVectors
      /\ rows[n][m] \in AnyVectors
  BY DEF Sound, Typed
<1>4. CASE HandleUpdate(n, m)
  <2> DEFINE B == Improved(n, m, v)
             own == [d \in Nodes |-> IF d \in B THEN Offer(n, m, v, d) ELSE dv[n][d]]
  <2>1. /\ rows' = [rows EXCEPT ![n][m] = v]
        /\ dv' = [dv EXCEPT ![n] = own]
        /\ routingtable' = routingtable_setnextnode(n, B, m)
        /\ links' = Taken(m, n)
        /\ UNCHANGED <<status, starved, pktRouteUpdt, counts>>
    BY <1>4 DEF HandleUpdate, dvtable_setcost
  <2>2. own \in Above(D, n)
    <3>1. \A d \in Nodes : Offer(n, m, v, d) \in Nat /\ Offer(n, m, v, d) >= D[n][d]
      BY <1>2 DEF Offer
    <3> HIDE DEF v, B
    <3> QED
      BY <1>3, <3>1 DEF Above, AnyVectors
  <2> HIDE DEF own, B, v
  <2> QED
    BY <1>1, <1>2, <2>1, <2>2, SoundHandler
<1>5. CASE HandleUpdateStarved(n, m)
  <2>1. PICK stored \in SUBSET Nodes, tested \in SUBSET Improved(n, m, v) :
          LET B == {d \in Nodes : dv[n][d] >
                      nbrcosttable_getcost(n, m, d \in tested) + v[d]}
          IN \E used \in SUBSET B :
               /\ rows' = [rows EXCEPT ![n][m] =
                    [d \in Nodes |-> IF d \in stored THEN v[d] ELSE @[d]]]
               /\ dv' = [dv EXCEPT ![n] =
                    [d \in Nodes |->
                       IF d \in B
                       THEN nbrcosttable_getcost(n, m, d \in used) + v[d]
                       ELSE @[d]]]
               /\ routingtable' = routingtable_setnextnode(n, B, m)
    BY <1>5 DEF HandleUpdateStarved
  <2> DEFINE B == {d \in Nodes : dv[n][d] >
                     nbrcosttable_getcost(n, m, d \in tested) + v[d]}
  <2>2. PICK used \in SUBSET B :
          /\ rows' = [rows EXCEPT ![n][m] =
               [d \in Nodes |-> IF d \in stored THEN v[d] ELSE @[d]]]
          /\ dv' = [dv EXCEPT ![n] =
               [d \in Nodes |->
                  IF d \in B
                  THEN nbrcosttable_getcost(n, m, d \in used) + v[d]
                  ELSE @[d]]]
          /\ routingtable' = routingtable_setnextnode(n, B, m)
    BY <2>1
  <2> DEFINE row == [d \in Nodes |-> IF d \in stored THEN v[d] ELSE rows[n][m][d]]
             own == [d \in Nodes |->
                       IF d \in B
                       THEN nbrcosttable_getcost(n, m, d \in used) + v[d]
                       ELSE dv[n][d]]
  <2> HIDE DEF B, v
  <2>3. /\ rows' = [rows EXCEPT ![n][m] = row]
        /\ dv' = [dv EXCEPT ![n] = own]
        /\ routingtable' = routingtable_setnextnode(n, B, m)
    <3>1. rows' = [rows EXCEPT ![n][m] = row]
      BY <2>2
    <3>2. dv' = [dv EXCEPT ![n] = own]
      BY <2>2
    <3> QED
      BY <2>2, <3>1, <3>2
  <2>4. row \in AnyVectors
    BY <1>2, <1>3 DEF AnyVectors
  <2>5. own \in Above(D, n)
    <3>1. \A d \in Nodes : /\ nbrcosttable_getcost(n, m, d \in used) + v[d] \in Nat
                           /\ nbrcosttable_getcost(n, m, d \in used) + v[d] >= D[n][d]
      BY <1>2 DEF nbrcosttable_getcost
    <3> QED
      BY <1>3, <3>1 DEF Above, AnyVectors
  <2>6. links' = Taken(m, n) /\ UNCHANGED <<status, starved, pktRouteUpdt, counts>>
    BY <1>5 DEF HandleUpdateStarved
  <2> HIDE DEF own, row
  <2> QED
    BY <1>1, <2>3, <2>4, <2>5, <2>6, SoundHandler
<1> QED
  BY <1>4, <1>5

\* The other steps hand over, take or lose messages.
LEMMA SoundQuiet ==
    ASSUME NEW D, Sound(D), Clean(D, links'), UNCHANGED tables,
           starved' \subseteq Nodes, status' \in [Nodes -> {"new", "up", "down"}],
           pktRouteUpdt' \in [Nodes -> AnyVectors \cup {NoVector}],
           \A m \in Nodes : pktRouteUpdt'[m] \in {pktRouteUpdt[m], dv[m], NoVector},
           sent' \in Nat, delivered' \in Nat, failures' \in Nat
    PROVE  Sound(D)'
  BY DEF Sound, Typed, Clean, tables

LEMMA SoundStep ==
    ASSUME NEW D \in Potentials, Sound(D), [Next]_vars
    PROVE  Sound(D)'
<1>1. /\ Clean(D, links) /\ Typed(AnyVectors) /\ starved \subseteq Nodes
      /\ links \in [Nodes -> [Nodes -> Seq(MessagesWith(AnyVectors))]]
      /\ \A a, b \in Nodes : links[a][b] \in Seq(MessagesWith(Above(D, a)))
      /\ \A n, d \in Nodes : dv[n][d] \in Int
  <2>1. \A n \in Nodes : dv[n] \in AnyVectors
    BY DEF Sound, Typed
  <2>2. \A n, d \in Nodes : dv[n][d] \in Int
    BY <2>1 DEF AnyVectors
  <2> QED
    BY <2>2 DEF Sound, Clean
<1>2. CASE UNCHANGED vars
  BY <1>1, <1>2, SoundQuiet DEF vars, tables, counts, Typed
<1>3. ASSUME NEW n \in Nodes, StartSnp(n) \/ CopyVector(n) \/ RunOut(n)
      PROVE  Sound(D)'
  <2>1. /\ links' = links /\ UNCHANGED tables /\ starved' \subseteq Nodes
        /\ status' \in [Nodes -> {"new", "up", "down"}]
        /\ pktRouteUpdt' \in [Nodes -> AnyVectors \cup {NoVector}]
        /\ \A m \in Nodes : pktRouteUpdt'[m] \in {pktRouteUpdt[m], dv[m], NoVector}
        /\ sent' \in Nat /\ delivered' \in Nat /\ failures' \in Nat
    <3>1. CASE StartSnp(n) \/ CopyVector(n)
      BY <1>1, <3>1 DEF StartSnp, CopyVector, Typed, tables, counts
    <3>2. CASE RunOut(n)
      BY <1>1, <3>2 DEF RunOut, Typed, tables
    <3> QED
      BY <1>3, <3>1, <3>2
  <2> QED
    BY <1>1, <2>1, SoundQuiet
<1>4. ASSUME NEW n \in Nodes, BroadcastVector(n) PROVE Sound(D)'
  <2> DEFINE c == RouteUpdate(pktRouteUpdt[n])
             heard == {m \in BroadcastTo(n) : status[m] /= "down"}
  <2>1. c \in MessagesWith(Above(D, n)) /\ c \in MessagesWith(AnyVectors)
    BY <1>4, AboveFacts DEF BroadcastVector, Sound
  <2>2. links' = [links EXCEPT ![n] =
          [m \in Nodes |-> IF m \in heard THEN Queued(links[n][m], c) ELSE links[n][m]]]
    BY <1>4, <1>1 DEF BroadcastVector
  <2> HIDE DEF c, heard
  <2>3. \A m \in Nodes : /\ Queued(links[n][m], c) \in Seq(MessagesWith(AnyVectors))
                         /\ Queued(links[n][m], c) \in Seq(MessagesWith(Above(D, n)))
    BY <1>1, <2>1, QueueFacts
  <2>4. /\ links' \in [Nodes -> [Nodes -> Seq(MessagesWith(AnyVectors))]]
        /\ \A a, b \in Nodes : links'[a][b] =
             IF a = n /\ b \in heard THEN Queued(links[n][b], c) ELSE links[a][b]
    BY <1>1, <2>2, <2>3
  <2>5. Clean(D, links')
    BY <1>1, <2>3, <2>4 DEF Clean
  <2>6. /\ UNCHANGED <<status, starved, tables, counts>>
        /\ pktRouteUpdt' \in [Nodes -> AnyVectors \cup {NoVector}]
        /\ \A m \in Nodes : pktRouteUpdt'[m] \in {pktRouteUpdt[m], dv[m], NoVector}
    BY <1>1, <1>4 DEF BroadcastVector, Typed
  <2> QED
    BY <1>1, <2>5, <2>6, SoundQuiet DEF Typed, counts
<1>5. ASSUME NEW n \in Nodes, NEW d \in Nodes, SendSegment(n, d) PROVE Sound(D)'
  <2>1. Clean(D, links')
    BY <1>1, <1>5, CleanTransmit DEF SendSegment
  <2>2. /\ UNCHANGED <<status, starved, tables, pktRouteUpdt, delivered, failures>>
        /\ sent' \in Nat
    BY <1>1, <1>5 DEF SendSegment, Typed
  <2> QED
    BY <1>1, <2>1, <2>2, SoundQuiet DEF Typed
<1>6. ASSUME NEW n \in Nodes, NEW m \in Neighbours[n],
             DeliverPacket(n, m) \/ ForwardPacket(n, m) \/ LoseAtOverlay(n, m)
      PROVE  Sound(D)'
  <2>1. m \in Nodes /\ links[m][n] /= <<>>
    BY <1>6, NeighbourFacts DEF DeliverPacket, ForwardPacket, LoseAtOverlay, Arrives
  <2>2. Clean(D, Taken(m, n)) /\ Head(links[m][n]) \in MessagesWith(Above(D, m))
    BY <1>1, <2>1, CleanTaken
  <2>3. Clean(D, links')
    <3>1. CASE DeliverPacket(n, m) \/ LoseAtOverlay(n, m)
      BY <2>2, <3>1 DEF DeliverPacket, LoseAtOverlay
    <3>2. CASE ForwardPacket(n, m)
      <4>1. Head(links[m][n]).dest \in Nodes /\ Head(links[m][n]).left \in Int
        BY <2>1, <2>2, <3>2, AboveFacts DEF ForwardPacket, Arrives
      <4> QED
        BY <2>2, <3>2, <4>1, CleanTransmit DEF ForwardPacket
    <3> QED
      BY <1>6, <3>1, <3>2
  <2>4. /\ UNCHANGED <<status, starved, tables, pktRouteUpdt, sent, failures>>
        /\ delivered' \in Nat
    BY <1>1, <1>6 DEF DeliverPacket, ForwardPacket, LoseAtOverlay, counts, Typed
  <2> QED
    BY <1>1, <2>3, <2>4, SoundQuiet DEF Typed
<1>7. ASSUME NEW n \in Nodes, NEW m \in Neighbours[n], LoseUnsent(n, m)
      PROVE  Sound(D)'
  <2> DEFINE r == SubSeq(links[n][m], 1, Len(links[n][m]) - 1)
  <2>1. /\ m \in Nodes /\ links[n][m] /= <<>>
        /\ links' = [links EXCEPT ![n][m] = r]
    BY <1>7, NeighbourFacts DEF LoseUnsent
  <2>2. /\ r \in Seq(MessagesWith(AnyVectors))
        /\ r \in Seq(MessagesWith(Above(D, n)))
    BY <1>1, <2>1, QueueFacts
  <2> HIDE DEF r
  <2>3. /\ links' \in [Nodes -> [Nodes -> Seq(MessagesWith(AnyVectors))]]
        /\ \A a, b \in Nodes : links'[a][b] = IF a = n /\ b = m THEN r ELSE links[a][b]
    BY <1>1, <2>1, <2>2
  <2>4. Clean(D, links')
    BY <1>1, <2>2, <2>3 DEF Clean
  <2> QED
    BY <1>1, <1>7, <2>4, SoundQuiet DEF LoseUnsent, Typed, counts
<1>8. ASSUME NEW n \in Nodes, Stop(n) PROVE Sound(D)'
  <2>1. \A S : <<>> \in Seq(S)
    OBVIOUS
  <2>2. /\ links' \in [Nodes -> [Nodes -> Seq(MessagesWith(AnyVectors))]]
        /\ \A a, b \in Nodes : links'[a][b] = IF b = n THEN <<>> ELSE links[a][b]
    BY <1>1, <1>8, <2>1 DEF Stop
  <2>3. Clean(D, links')
    BY <1>1, <2>1, <2>2 DEF Clean
  <2>4. /\ pktRouteUpdt' \in [Nodes -> AnyVectors \cup {NoVector}]
        /\ \A m \in Nodes : pktRouteUpdt'[m] \in {pktRouteUpdt[m], dv[m], NoVector}
    BY <1>1, <1>8 DEF Stop, Typed
  <2>5. /\ UNCHANGED <<starved, tables, sent, delivered>> /\ failures' \in Nat
        /\ status' \in [Nodes -> {"new", "up", "down"}]
    BY <1>1, <1>8 DEF Stop, Typed
  <2> QED
    BY <1>1, <2>3, <2>4, <2>5, SoundQuiet DEF Typed
<1>9. \/ UNCHANGED vars
      \/ \E n \in Nodes : \/ StartSnp(n) \/ CopyVector(n) \/ RunOut(n)
                          \/ BroadcastVector(n) \/ Stop(n)
                          \/ \E d \in Nodes : SendSegment(n, d)
                          \/ \E m \in Neighbours[n] :
                               \/ HandleUpdate(n, m) \/ HandleUpdateStarved(n, m)
                               \/ DeliverPacket(n, m) \/ ForwardPacket(n, m)
                               \/ LoseAtOverlay(n, m) \/ LoseUnsent(n, m)
  BY DEF Next, routeupdate_daemon, pkthandler
<1> QED
  BY <1>2, <1>3, <1>4, <1>5, <1>6, <1>7, <1>8, <1>9, SoundUpdate

\* Vectors never undercut the cheapest paths, nor any other lower bound of
\* the shortest path problem, whatever is lost, late or stale, and whichever
\* calls fail (pkthandler).
THEOREM NeverTooCheap ==
    ASSUME NEW D \in Potentials
    PROVE  Spec => []VectorsAbove(D)
<1>1. Init => Sound(D)
  BY SoundInit
<1>2. Sound(D) /\ [Next]_vars => Sound(D)'
  BY SoundStep
<1>3. Sound(D) => VectorsAbove(D)
  BY AboveFacts DEF Sound, VectorsAbove
<1> QED
  BY <1>1, <1>2, <1>3, PTL DEF Spec

\* A network at rest solves the shortest path problem: its vectors are a lower
\* bound, by NeverTooCheap above every other, and the routes cost what the
\* vectors say (dvtable, routingtable, pkthandler).
THEOREM SettledSolves == Spec => [](starved = {} => (Settled => Solved))
<1>1. IInv => (Settled => Solved)
  <2>1. SUFFICES ASSUME IInv, Settled PROVE Solved
    OBVIOUS
  <2>2. dv \in [Nodes -> [Nodes -> 0..INFINITE_COST]]
    BY <2>1 DEF IInv, Bounded, Vectors, Costs
  <2>3. Bounds(dv)
    BY <2>1 DEF IInv, VectorIsMinimum, Settled, Bounds, Offer
  <2>4. ASSUME NEW n \in Nodes, NEW d \in Nodes, routingtable[n][d] /= NoNode
        PROVE  dv[n][d] = LinkCost[n][routingtable[n][d]]
                            + dv[routingtable[n][d]][d]
    <3> DEFINE next == routingtable[n][d]
    <3>1. /\ next \in Neighbours[n]
          /\ \/ dv[n][d] = LinkCost[n][d] /\ next = d
             \/ dv[n][d] = Offer(n, next, rows[n][next], d)
      BY <2>1, <2>4 DEF IInv, RouteAttains
    <3>2. CASE next = d /\ dv[n][d] = LinkCost[n][d]
      <4>1. dv[d][d] <= LinkCost[d][d]
        BY <2>1 DEF IInv, VectorIsMinimum
      <4>2. dv[d][d] = 0
        BY <2>2, <4>1, CostFacts
      <4> QED
        BY <3>2, <4>2, CostFacts
    <3>3. CASE dv[n][d] = Offer(n, next, rows[n][next], d)
      BY <2>1, <3>1, <3>3 DEF Settled, Offer
    <3> QED
      BY <3>1, <3>2, <3>3
  <2> QED
    BY <2>2, <2>3, <2>4 DEF Potentials, Solved
<1> QED
  BY <1>1, Invariance, PTL

----
(* The cheapest paths *)

\* A set of numbers has a least one, and induction follows from it.
LEMMA Least ==
    ASSUME NEW S \in SUBSET Nat, S /= {}
    PROVE  Min(S) \in S /\ \A x \in S : Min(S) <= x
<1>1. PICK n \in S : \A m \in S : ~(<<m, n>> \in OpToRel(<, Nat))
  BY NatLessThanWellFounded, WFMin
<1>2. ASSUME NEW m \in S PROVE n <= m
  <2>1. n \in Nat /\ m \in Nat
    OBVIOUS
  <2>2. m < n => <<m, n>> \in OpToRel(<, Nat)
    BY <2>1, Zenon DEF OpToRel
  <2>3. ~(m < n)
    BY <1>1, <2>2, Zenon
  <2> QED
    BY <2>1, <2>3
<1>3. \E x \in S : \A y \in S : x =< y
  BY <1>2
<1>4. Min(S) \in S /\ \A y \in S : Min(S) =< y
  BY <1>3, Zenon DEF Min
<1> QED
  BY <1>4

\* A set of numbers below a bound has a greatest one.
LEMMA Greatest ==
    ASSUME NEW b \in Nat, NEW S \in SUBSET (0..b), S /= {}
    PROVE  \E x \in S : \A y \in S : y <= x
<1> DEFINE below == {k \in Nat : b - k \in S}
<1>1. \A x \in S : b - x \in Nat /\ b - (b - x) = x
  OBVIOUS
<1>2. below \in SUBSET Nat /\ below /= {}
  BY <1>1
<1>3. \A x \in S : b - x \in below
  BY <1>1
<1>4. PICK k \in below : \A l \in below : k <= l
  <2> HIDE DEF below
  <2> QED
    BY <1>2, Least
<1>5. k \in Nat /\ b - k \in S
  BY <1>4
<1>6. ASSUME NEW y \in S PROVE y <= b - k
  <2>1. k <= b - y
    BY <1>3, <1>4
  <2> QED
    BY <1>5, <2>1
<1> QED
  BY <1>5, <1>6

\* Induction, for a set of numbers that can be written down.
LEMMA Induction ==
    ASSUME NEW S, 0 \in S, \A n \in Nat : n \in S => n + 1 \in S
    PROVE  Nat \subseteq S
<1> DEFINE missing == Nat \ S
<1> SUFFICES ASSUME missing /= {} PROVE FALSE
  OBVIOUS
<1>1. PICK n \in missing : \A m \in missing : n <= m
  <2>1. missing \in SUBSET Nat
    OBVIOUS
  <2> HIDE DEF missing
  <2> QED
    BY <2>1, Least
<1>2. n /= 0 /\ n \in Nat
  OBVIOUS
<1>3. n - 1 \in Nat /\ n - 1 \notin missing /\ n - 1 + 1 = n
  <2>1. n - 1 \in Nat /\ ~(n <= n - 1) /\ n - 1 + 1 = n
    BY <1>2
  <2> HIDE DEF missing
  <2> QED
    BY <1>1, <2>1
<1> QED
  BY <1>2, <1>3

(***************************************************************************)
(* The reference is computed in rounds, each of which adds a link.         *)
(***************************************************************************)
Tables == [Nodes -> Vectors]
Rounds == Cardinality(Nodes)

\* There are finitely many rounds.
LEMMA RoundsType == Rounds \in Nat
  BY NodesAssumption, FS_CardinalityType DEF Rounds

\* Entries of tables are numbers.
LEMMA TableFacts ==
    ASSUME NEW D \in Tables
    PROVE  /\ \A n, d \in Nodes : D[n][d] \in Nat /\ D[n][d] <= INFINITE_COST
           /\ LinkCost \in Tables
  BY CostFacts, CostAssumption DEF Tables, Vectors, Costs

\* A round takes the best of what there was and what the neighbours offer.
LEMMA RoundFacts ==
    ASSUME NEW D \in Tables
    PROVE  /\ OneLinkMore(D) \in Tables
           /\ \A n, d \in Nodes :
                LET new == OneLinkMore(D)[n][d] IN
                /\ new <= D[n][d]
                /\ \A m \in Neighbours[n] : new <= LinkCost[n][m] + D[m][d]
                /\ \/ new = D[n][d]
                   \/ \E m \in Neighbours[n] : new = LinkCost[n][m] + D[m][d]
<1>1. ASSUME NEW n \in Nodes, NEW d \in Nodes
      PROVE  LET new == OneLinkMore(D)[n][d] IN
             /\ new \in Costs
             /\ new <= D[n][d]
             /\ \A m \in Neighbours[n] : new <= LinkCost[n][m] + D[m][d]
             /\ \/ new = D[n][d]
                \/ \E m \in Neighbours[n] : new = LinkCost[n][m] + D[m][d]
  <2> DEFINE S == {D[n][d]} \cup {LinkCost[n][m] + D[m][d] : m \in Neighbours[n]}
  <2>1. \A m \in Neighbours[n] : LinkCost[n][m] + D[m][d] \in Nat
    BY NeighbourFacts, CostFacts, TableFacts
  <2>2. D[n][d] \in Nat /\ D[n][d] <= INFINITE_COST /\ INFINITE_COST \in Nat
    BY TableFacts, CostFacts
  <2>3. S \in SUBSET Nat /\ S /= {}
    BY <2>1, <2>2
  <2>4. OneLinkMore(D)[n][d] = Min(S)
    BY DEF OneLinkMore
  <2>5. D[n][d] \in S /\ \A m \in Neighbours[n] : LinkCost[n][m] + D[m][d] \in S
    OBVIOUS
  <2>6. Min(S) \in S /\ \A x \in S : Min(S) <= x
    <3> HIDE DEF S
    <3> QED
      BY <2>3, Least
  <2>7. Min(S) \in Nat /\ Min(S) <= D[n][d]
    <3> HIDE DEF S
    <3> QED
      BY <2>3, <2>5, <2>6
  <2>8. Min(S) \in Costs
    BY <2>2, <2>7 DEF Costs
  <2>9. Min(S) = D[n][d] \/ \E m \in Neighbours[n] : Min(S) = LinkCost[n][m] + D[m][d]
    BY <2>6
  <2> HIDE DEF S
  <2> QED
    BY <2>4, <2>5, <2>6, <2>7, <2>8, <2>9
<1>2. OneLinkMore(D) \in Tables
  <2>1. \A n, d \in Nodes : OneLinkMore(D)[n][d] \in Costs
    BY <1>1
  <2>2. OneLinkMore(D) = [n \in Nodes |-> [d \in Nodes |-> OneLinkMore(D)[n][d]]]
    BY DEF OneLinkMore
  <2> QED
    BY <2>1, <2>2 DEF Tables, Vectors
<1> QED
  BY <1>1, <1>2

\* The rounds have a run: the recursion that defines Shortest is one.
LEMMA RoundsRun ==
    \E f \in [0..Rounds -> Tables] :
      f = [k \in 0..Rounds |-> IF k = 0 THEN LinkCost ELSE OneLinkMore(f[k - 1])]
<1> DEFINE Runs(last) ==
             \E f \in [0..last -> Tables] :
               f = [k \in 0..last |-> IF k = 0 THEN LinkCost ELSE OneLinkMore(f[k - 1])]
           S == {last \in Nat : Runs(last)}
<1>1. LinkCost \in Tables
  BY CostAssumption DEF Tables, Vectors, Costs
<1>2. Runs(0)
  <2> DEFINE f == [k \in 0..0 |-> LinkCost]
  <2>1. f \in [0..0 -> Tables]
    BY <1>1
  <2>2. f = [k \in 0..0 |-> IF k = 0 THEN LinkCost ELSE OneLinkMore(f[k - 1])]
    OBVIOUS
  <2> HIDE DEF f
  <2> QED
    BY <2>1, <2>2
<1>3. ASSUME NEW last \in Nat, Runs(last) PROVE Runs(last + 1)
  <2>1. PICK f \in [0..last -> Tables] :
          f = [k \in 0..last |-> IF k = 0 THEN LinkCost ELSE OneLinkMore(f[k - 1])]
    BY <1>3
  <2> DEFINE g == [k \in 0..(last + 1) |->
                     IF k <= last THEN f[k] ELSE OneLinkMore(f[last])]
  <2>2. OneLinkMore(f[last]) \in Tables
    BY RoundFacts
  <2>3. g \in [0..(last + 1) -> Tables]
    BY <2>2
  <2>4. ASSUME NEW k \in 0..(last + 1)
        PROVE  g[k] = IF k = 0 THEN LinkCost ELSE OneLinkMore(g[k - 1])
    <3>1. CASE k = 0
      <4>1. g[0] = f[0] /\ 0 \in 0..last
        OBVIOUS
      <4>2. f[0] = LinkCost
        BY <2>1, <4>1
      <4> QED
        BY <3>1, <4>1, <4>2
    <3>2. CASE k /= 0
      <4>1. k - 1 \in 0..last /\ k - 1 \in 0..(last + 1) /\ k - 1 <= last
        BY <3>2
      <4>2. g[k - 1] = f[k - 1]
        BY <4>1
      <4>3. CASE k <= last
        <5>1. k \in 0..last
          BY <4>3
        <5>2. f[k] = OneLinkMore(f[k - 1])
          BY <2>1, <3>2, <5>1
        <5> QED
          BY <3>2, <4>2, <4>3, <5>2
      <4>4. CASE ~(k <= last)
        <5>1. k - 1 = last
          BY <4>4
        <5> QED
          BY <3>2, <4>2, <4>4, <5>1
      <4> QED
        BY <4>3, <4>4
    <3> QED
      BY <3>1, <3>2
  <2>5. g = [k \in 0..(last + 1) |-> IF k = 0 THEN LinkCost ELSE OneLinkMore(g[k - 1])]
    <3>1. g = [k \in 0..(last + 1) |-> g[k]]
      OBVIOUS
    <3> HIDE DEF g
    <3> QED
      BY <2>4, <3>1
  <2> HIDE DEF g
  <2> QED
    BY <2>3, <2>5
<1> HIDE DEF Runs
<1>4. 0 \in S /\ \A last \in Nat : last \in S => last + 1 \in S
  BY <1>2, <1>3
<1>5. Rounds \in S
  <2> HIDE DEF S
  <2> QED
    BY <1>4, Induction, RoundsType
<1> QED
  BY <1>5 DEF Runs

\* Shortest holds the tables of the rounds.
LEMMA ShortestRounds ==
    /\ Shortest \in [0..Rounds -> Tables]
    /\ Shortest[0] = LinkCost
    /\ \A k \in 0..Rounds : k /= 0 => Shortest[k] = OneLinkMore(Shortest[k - 1])
<1> DEFINE Step(f) == [k \in 0..Rounds |-> IF k = 0 THEN LinkCost ELSE OneLinkMore(f[k - 1])]
<1>1. Shortest = CHOOSE f : f = Step(f)
  BY DEF Shortest, Rounds
<1>2. PICK f \in [0..Rounds -> Tables] : f = Step(f)
  BY RoundsRun
<1>3. Shortest = Step(Shortest)
  <2> HIDE DEF Step
  <2> QED
    BY <1>1, <1>2
<1>4. \A k \in 0..Rounds : Shortest[k] = IF k = 0 THEN LinkCost ELSE OneLinkMore(Shortest[k - 1])
  BY <1>3
<1>5. 0 \in 0..Rounds
  BY RoundsType
<1>6. \A k \in 0..Rounds : Shortest[k] \in Tables
  <2> DEFINE S == {k \in Nat : k <= Rounds => Shortest[k] \in Tables}
  <2>1. LinkCost \in Tables
    BY CostAssumption DEF Tables, Vectors, Costs
  <2>2. 0 \in S
    BY <1>4, <1>5, <2>1
  <2>3. ASSUME NEW k \in Nat, k \in S PROVE k + 1 \in S
    <3>1. SUFFICES ASSUME k + 1 <= Rounds PROVE Shortest[k + 1] \in Tables
      OBVIOUS
    <3>2. k <= Rounds /\ k + 1 \in 0..Rounds /\ k + 1 /= 0 /\ k + 1 - 1 = k
      BY <3>1, RoundsType
    <3>3. Shortest[k] \in Tables
      BY <2>3, <3>2
    <3>4. Shortest[k + 1] = OneLinkMore(Shortest[k])
      BY <1>4, <3>2
    <3> QED
      BY <3>3, <3>4, RoundFacts
  <2>4. Nat \subseteq S
    <3>1. \A k \in Nat : k \in S => k + 1 \in S
      BY <2>3
    <3> HIDE DEF S
    <3> QED
      BY <2>2, <3>1, Induction
  <2> QED
    BY <2>4
<1>7. Shortest = [k \in 0..Rounds |-> Shortest[k]]
  BY <1>3
<1> QED
  BY <1>4, <1>5, <1>6, <1>7

(***************************************************************************)
(* The greatest table that meets the bounds: that of the cheapest paths.   *)
(***************************************************************************)
IsGreatest(E) == E \in Potentials /\ \A D \in Potentials : \A n, d \in Nodes : D[n][d] <= E[n][d]

\* What it means to meet the bounds, entry by entry.
LEMMA PotentialFacts ==
    ASSUME NEW D \in Potentials
    PROVE  /\ D \in Tables
           /\ \A n, d \in Nodes : D[n][d] \in 0..INFINITE_COST /\ D[n][d] \in Nat
           /\ \A n, d \in Nodes : D[n][d] <= LinkCost[n][d]
           /\ \A n, d \in Nodes : \A m \in Neighbours[n] : D[n][d] <= LinkCost[n][m] + D[m][d]
<1>1. D \in [Nodes -> [Nodes -> 0..INFINITE_COST]] /\ Bounds(D)
  BY DEF Potentials
<1>2. INFINITE_COST \in Nat
  BY CostFacts
<1> QED
  BY <1>1, <1>2 DEF Tables, Vectors, Costs, Bounds

\* Entry by entry the greatest value any of them has.
LEMMA GreatestExists == \E E : IsGreatest(E)
<1> DEFINE Values(n, d) == {D[n][d] : D \in Potentials}
           Top(n, d) == CHOOSE x \in Values(n, d) : \A y \in Values(n, d) : y <= x
           E == [n \in Nodes |-> [d \in Nodes |-> Top(n, d)]]
<1>1. ASSUME NEW n \in Nodes, NEW d \in Nodes
      PROVE  /\ \E D \in Potentials : E[n][d] = D[n][d]
             /\ \A D \in Potentials : D[n][d] <= E[n][d]
  <2>1. Values(n, d) \in SUBSET (0..INFINITE_COST)
    BY PotentialFacts
  <2>2. Values(n, d) /= {}
    <3> DEFINE Z == [a \in Nodes |-> [b \in Nodes |-> 0]]
    <3>1. Z \in [Nodes -> [Nodes -> 0..INFINITE_COST]]
      BY CostFacts
    <3>2. \A a, b \in Nodes : Z[a][b] = 0
      OBVIOUS
    <3> HIDE DEF Z
    <3>3. Bounds(Z)
      <4>1. \A a, b \in Nodes : Z[a][b] <= LinkCost[a][b]
        BY <3>2, CostFacts
      <4>2. \A a, b \in Nodes : \A m \in Neighbours[a] : Z[a][b] <= LinkCost[a][m] + Z[m][b]
        BY <3>2, CostFacts, NeighbourFacts
      <4> QED
        BY <4>1, <4>2 DEF Bounds
    <3>4. Z \in Potentials
      BY <3>1, <3>3 DEF Potentials
    <3> QED
      BY <3>4
  <2> DEFINE V == Values(n, d)
  <2>3. \E x \in V : \A y \in V : y <= x
    <3>1. V \in SUBSET (0..INFINITE_COST) /\ V /= {}
      BY <2>1, <2>2
    <3> HIDE DEF V
    <3> QED
      BY <3>1, Greatest, CostFacts
  <2>4. Top(n, d) \in V /\ \A y \in V : y <= Top(n, d)
    <3> HIDE DEF Values
    <3> QED
      BY <2>3, Zenon
  <2>5. E[n][d] = Top(n, d)
    OBVIOUS
  <2> HIDE DEF Top, E
  <2> QED
    BY <2>4, <2>5
<1>2. E = [n \in Nodes |-> [d \in Nodes |-> E[n][d]]]
  OBVIOUS
<1> HIDE DEF E
<1>3. E \in [Nodes -> [Nodes -> 0..INFINITE_COST]]
  <2>1. \A n, d \in Nodes : E[n][d] \in 0..INFINITE_COST
    BY <1>1, PotentialFacts
  <2> QED
    BY <1>2, <2>1
<1>4. Bounds(E)
  <2>1. ASSUME NEW n \in Nodes, NEW d \in Nodes
        PROVE  /\ E[n][d] <= LinkCost[n][d]
               /\ \A m \in Neighbours[n] : E[n][d] <= LinkCost[n][m] + E[m][d]
    <3>1. PICK D \in Potentials : E[n][d] = D[n][d]
      BY <1>1
    <3>2. ASSUME NEW m \in Neighbours[n] PROVE E[n][d] <= LinkCost[n][m] + E[m][d]
      <4>1. m \in Nodes /\ LinkCost[n][m] \in Nat
        BY NeighbourFacts, CostFacts
      <4>2. D[n][d] <= LinkCost[n][m] + D[m][d]
        BY PotentialFacts
      <4>3. D[m][d] <= E[m][d]
        BY <1>1, <4>1
      <4>4. D[m][d] \in Nat /\ D[n][d] \in Nat /\ E[m][d] \in Nat
        BY <1>1, <4>1, PotentialFacts
      <4> QED
        BY <3>1, <4>1, <4>2, <4>3, <4>4
    <3> QED
      BY <3>1, <3>2, PotentialFacts
  <2> QED
    BY <2>1 DEF Bounds
<1> QED
  BY <1>1, <1>3, <1>4 DEF Potentials, IsGreatest

\* It could be raised where it were below the link and every neighbour's offer.
LEMMA GreatestAttained ==
    ASSUME NEW E, IsGreatest(E), NEW n \in Nodes, NEW d \in Nodes
    PROVE  \/ E[n][d] = LinkCost[n][d]
           \/ \E m \in Neighbours[n] : E[n][d] = LinkCost[n][m] + E[m][d]
<1>1. SUFFICES ASSUME E[n][d] /= LinkCost[n][d],
                      \A m \in Neighbours[n] : E[n][d] /= LinkCost[n][m] + E[m][d]
               PROVE  FALSE
  OBVIOUS
<1>2. E \in Potentials
  BY DEF IsGreatest
<1> DEFINE F == [a \in Nodes |-> [b \in Nodes |->
                   IF a = n /\ b = d THEN E[n][d] + 1 ELSE E[a][b]]]
<1>3. \A a, b \in Nodes : F[a][b] = IF a = n /\ b = d THEN E[n][d] + 1 ELSE E[a][b]
  OBVIOUS
<1>4. F = [a \in Nodes |-> [b \in Nodes |-> F[a][b]]]
  OBVIOUS
<1> HIDE DEF F
<1>5. /\ \A a, b \in Nodes : E[a][b] \in Nat /\ E[a][b] <= INFINITE_COST
      /\ \A a, b \in Nodes : E[a][b] <= LinkCost[a][b]
      /\ \A a, b \in Nodes : \A m \in Neighbours[a] : E[a][b] <= LinkCost[a][m] + E[m][b]
  BY <1>2, PotentialFacts, CostFacts
<1>6. \A a, b \in Nodes : LinkCost[a][b] \in Nat /\ LinkCost[a][b] <= INFINITE_COST
  BY CostFacts
<1>7. E[n][d] + 1 <= LinkCost[n][d]
  BY <1>1, <1>5, <1>6
<1>8. \A a, b \in Nodes : F[a][b] <= LinkCost[a][b] /\ F[a][b] \in Nat /\ F[a][b] >= E[a][b]
  BY <1>3, <1>5, <1>6, <1>7
<1>9. ASSUME NEW a \in Nodes, NEW b \in Nodes, NEW m \in Neighbours[a]
      PROVE  F[a][b] <= LinkCost[a][m] + F[m][b]
  <2>1. m \in Nodes
    BY NeighbourFacts
  <2>2. F[m][b] >= E[m][b] /\ F[m][b] \in Nat /\ E[m][b] \in Nat /\ LinkCost[a][m] \in Nat
        /\ E[a][b] \in Nat
    BY <1>5, <1>6, <1>8, <2>1
  <2>3. E[a][b] <= LinkCost[a][m] + E[m][b]
    BY <1>5
  <2>4. CASE a = n /\ b = d
    <3>1. E[n][d] + 1 <= LinkCost[n][m] + E[m][d]
      BY <1>1, <2>2, <2>3, <2>4
    <3> QED
      BY <1>3, <2>2, <2>4, <3>1
  <2>5. CASE ~(a = n /\ b = d)
    BY <1>3, <2>2, <2>3, <2>5
  <2> QED
    BY <2>4, <2>5
<1>10. F \in [Nodes -> [Nodes -> 0..INFINITE_COST]]
  <2>1. \A a, b \in Nodes : F[a][b] \in 0..INFINITE_COST
    BY <1>6, <1>8, CostFacts
  <2> QED
    BY <1>4, <2>1
<1>11. F \in Potentials
  BY <1>8, <1>9, <1>10 DEF Potentials, Bounds
<1>12. F[n][d] <= E[n][d]
  BY <1>11 DEF IsGreatest
<1>13. F[n][d] = E[n][d] + 1
  BY <1>3
<1> QED
  BY <1>5, <1>12, <1>13

\* No round gets below a table that meets the bounds.
LEMMA RoundsAbove ==
    ASSUME NEW D \in Potentials, NEW k \in 0..Rounds
    PROVE  \A n, d \in Nodes : D[n][d] <= Shortest[k][n][d]
<1> DEFINE NotAbove(j) == \A n, d \in Nodes : D[n][d] <= Shortest[j][n][d]
           S == {j \in Nat : j <= Rounds => NotAbove(j)}
<1>1. 0 \in S
  BY ShortestRounds, PotentialFacts
<1>2. ASSUME NEW j \in Nat, j + 1 <= Rounds, NotAbove(j) PROVE NotAbove(j + 1)
  <2>1. j \in 0..Rounds /\ j + 1 \in 0..Rounds /\ j + 1 /= 0 /\ j + 1 - 1 = j
    BY <1>2, RoundsType
  <2>2. Shortest[j] \in Tables /\ Shortest[j + 1] = OneLinkMore(Shortest[j])
    BY <2>1, ShortestRounds
  <2>3. SUFFICES ASSUME NEW n \in Nodes, NEW d \in Nodes
                 PROVE  D[n][d] <= Shortest[j + 1][n][d]
    OBVIOUS
  <2>4. \/ Shortest[j + 1][n][d] = Shortest[j][n][d]
        \/ \E m \in Neighbours[n] : Shortest[j + 1][n][d] = LinkCost[n][m] + Shortest[j][m][d]
    BY <2>2, RoundFacts
  <2>5. CASE Shortest[j + 1][n][d] = Shortest[j][n][d]
    BY <1>2, <2>5
  <2>6. ASSUME NEW m \in Neighbours[n],
               Shortest[j + 1][n][d] = LinkCost[n][m] + Shortest[j][m][d]
        PROVE  D[n][d] <= Shortest[j + 1][n][d]
    <3>1. m \in Nodes /\ LinkCost[n][m] \in Nat
      BY NeighbourFacts, CostFacts
    <3>2. D[n][d] <= LinkCost[n][m] + D[m][d] /\ D[n][d] \in Nat /\ D[m][d] \in Nat
      BY <3>1, PotentialFacts
    <3>3. D[m][d] <= Shortest[j][m][d] /\ Shortest[j][m][d] \in Nat
      BY <1>2, <2>2, <3>1, TableFacts
    <3> QED
      BY <2>6, <3>1, <3>2, <3>3
  <2> QED
    BY <2>4, <2>5, <2>6
<1>3. \A j \in Nat : j \in S => j + 1 \in S
  <2> SUFFICES ASSUME NEW j \in Nat, j \in S, j + 1 <= Rounds PROVE NotAbove(j + 1)
    OBVIOUS
  <2>1. j <= Rounds
    BY RoundsType
  <2>2. NotAbove(j)
    BY <2>1
  <2> HIDE DEF NotAbove
  <2> QED
    BY <1>2, <2>2
<1>4. k \in S
  <2>1. k \in Nat
    BY RoundsType
  <2> HIDE DEF S
  <2> QED
    BY <1>1, <1>3, <2>1, Induction
<1> QED
  BY <1>4

\* No round gives up what was found before.
LEMMA RoundsFall ==
    ASSUME NEW k \in 0..Rounds, NEW n \in Nodes, NEW d \in Nodes
    PROVE  Shortest[k][n][d] <= LinkCost[n][d]
<1> DEFINE S == {j \in Nat : j <= Rounds => Shortest[j][n][d] <= LinkCost[n][d]}
<1>1. 0 \in S
  BY ShortestRounds, CostFacts
<1>2. ASSUME NEW j \in Nat, j \in S, j + 1 <= Rounds
      PROVE  Shortest[j + 1][n][d] <= LinkCost[n][d]
  <2>1. j \in 0..Rounds /\ j + 1 \in 0..Rounds /\ j + 1 /= 0 /\ j + 1 - 1 = j
    BY <1>2, RoundsType
  <2>2. Shortest[j] \in Tables /\ Shortest[j + 1] = OneLinkMore(Shortest[j])
        /\ Shortest[j + 1] \in Tables
    BY <2>1, ShortestRounds
  <2>3. Shortest[j + 1][n][d] <= Shortest[j][n][d]
    BY <2>2, RoundFacts
  <2>4. Shortest[j][n][d] <= LinkCost[n][d]
    BY <1>2, <2>1
  <2> QED
    BY <2>2, <2>3, <2>4, TableFacts, CostFacts
<1>3. \A j \in Nat : j \in S => j + 1 \in S
  BY <1>2
<1>4. k \in S
  <2>1. k \in Nat
    BY RoundsType
  <2> HIDE DEF S
  <2> QED
    BY <1>1, <1>3, <2>1, Induction
<1> QED
  BY <1>4

\* Where a round is better than the link, some neighbour supports it.
LEMMA RoundsSupported ==
    ASSUME NEW k \in 0..Rounds, NEW n \in Nodes, NEW d \in Nodes
    PROVE  \/ Shortest[k][n][d] = LinkCost[n][d]
           \/ \E m \in Neighbours[n] :
                Shortest[k][n][d] >= LinkCost[n][m] + Shortest[k][m][d]
<1> DEFINE Supported(j) ==
             \/ Shortest[j][n][d] = LinkCost[n][d]
             \/ \E m \in Neighbours[n] :
                  Shortest[j][n][d] >= LinkCost[n][m] + Shortest[j][m][d]
           S == {j \in Nat : j <= Rounds => Supported(j)}
<1>1. 0 \in S
  BY ShortestRounds
<1>2. ASSUME NEW j \in Nat, j + 1 <= Rounds, Supported(j) PROVE Supported(j + 1)
  <2>1. j \in 0..Rounds /\ j + 1 \in 0..Rounds /\ j + 1 /= 0 /\ j + 1 - 1 = j
    BY <1>2, RoundsType
  <2>2. Shortest[j] \in Tables /\ Shortest[j + 1] = OneLinkMore(Shortest[j])
        /\ Shortest[j + 1] \in Tables
    BY <2>1, ShortestRounds
  <2>3. \A m \in Neighbours[n] :
          /\ Shortest[j + 1][m][d] <= Shortest[j][m][d]
          /\ Shortest[j + 1][m][d] \in Nat /\ Shortest[j][m][d] \in Nat
          /\ LinkCost[n][m] \in Nat
    BY <2>2, RoundFacts, TableFacts, NeighbourFacts, CostFacts
  <2>4. Shortest[j + 1][n][d] \in Nat
    BY <2>2, TableFacts
  <2>5. \/ Shortest[j + 1][n][d] = Shortest[j][n][d]
        \/ \E m \in Neighbours[n] : Shortest[j + 1][n][d] = LinkCost[n][m] + Shortest[j][m][d]
    BY <2>2, RoundFacts
  <2> QED
    BY <1>2, <2>3, <2>4, <2>5
<1>3. \A j \in Nat : j \in S => j + 1 \in S
  <2> SUFFICES ASSUME NEW j \in Nat, j \in S, j + 1 <= Rounds PROVE Supported(j + 1)
    OBVIOUS
  <2>1. j <= Rounds
    BY RoundsType
  <2>2. Supported(j)
    BY <2>1
  <2> HIDE DEF Supported
  <2> QED
    BY <1>2, <2>2
<1>4. k \in S
  <2>1. k \in Nat
    BY RoundsType
  <2> HIDE DEF S
  <2> QED
    BY <1>1, <1>3, <2>1, Induction
<1> QED
  BY <1>4

\* The nodes that are cheaper from d than n is.
Nearer(E, n, d) == {m \in Nodes : E[m][d] < E[n][d]}

\* There are at most as many as rounds, and fewer for the nearer ones.
LEMMA NearerFacts ==
    ASSUME NEW E \in Tables, NEW n \in Nodes, NEW d \in Nodes
    PROVE  /\ IsFiniteSet(Nearer(E, n, d)) /\ Cardinality(Nearer(E, n, d)) \in 0..Rounds
           /\ \A m \in Nearer(E, n, d) :
                Cardinality(Nearer(E, m, d)) < Cardinality(Nearer(E, n, d))
<1> DEFINE N(m) == Nearer(E, m, d)
<1>1. \A m \in Nodes : N(m) \in SUBSET Nodes
  BY DEF Nearer
<1>2. \A m \in Nodes : /\ IsFiniteSet(N(m)) /\ Cardinality(N(m)) \in Nat
                       /\ Cardinality(N(m)) <= Cardinality(Nodes)
  <2> HIDE DEF N
  <2> QED
    BY <1>1, NodesAssumption, FS_Subset, FS_CardinalityType
<1>3. ASSUME NEW m \in N(n) PROVE Cardinality(N(m)) < Cardinality(N(n))
  <2>1. m \in Nodes /\ E[m][d] < E[n][d] /\ E[m][d] \in Nat /\ E[n][d] \in Nat
    BY TableFacts DEF Nearer
  <2>2. N(m) \in SUBSET N(n)
    <3> SUFFICES ASSUME NEW x \in Nodes, E[x][d] < E[m][d] PROVE E[x][d] < E[n][d]
      BY DEF Nearer
    <3> QED
      BY <2>1, TableFacts
  <2>3. m \notin N(m)
    BY <2>1 DEF Nearer
  <2>4. N(m) /= N(n)
    BY <1>3, <2>3
  <2> HIDE DEF N
  <2>5. Cardinality(N(m)) <= Cardinality(N(n)) /\ Cardinality(N(n)) /= Cardinality(N(m))
    BY <1>2, <2>2, <2>4, FS_Subset
  <2> QED
    BY <1>2, <2>1, <2>5
<1> QED
  BY <1>2, <1>3, RoundsType DEF Rounds

\* After as many rounds as there are nodes nearer to d, the costs from n to d
\* are those of the greatest table.
LEMMA RoundsReach ==
    ASSUME NEW E, IsGreatest(E), NEW k \in 0..Rounds, NEW n \in Nodes, NEW d \in Nodes,
           Cardinality(Nearer(E, n, d)) <= k
    PROVE  Shortest[k][n][d] <= E[n][d]
<1>1. E \in Potentials /\ E \in Tables
  BY PotentialFacts DEF IsGreatest
<1> DEFINE Near(j) == \A a \in Nodes : Cardinality(Nearer(E, a, d)) <= j =>
                           Shortest[j][a][d] <= E[a][d]
           S == {j \in Nat : j <= Rounds => Near(j)}
<1>2. ASSUME NEW a \in Nodes, NEW m \in Neighbours[a], E[a][d] = LinkCost[a][m] + E[m][d]
      PROVE  m \in Nearer(E, a, d)
  <2>1. m \in Nodes /\ m /= a /\ LinkCost[a][m] \in Nat /\ LinkCost[a][m] /= 0
    BY NeighbourFacts, CostFacts
  <2>2. E[m][d] \in Nat
    BY <1>1, <2>1, TableFacts
  <2> QED
    BY <1>2, <2>1, <2>2 DEF Nearer
<1>3. Near(0)
  <2> SUFFICES ASSUME NEW a \in Nodes, Cardinality(Nearer(E, a, d)) <= 0
               PROVE  Shortest[0][a][d] <= E[a][d]
    OBVIOUS
  <2>1. Nearer(E, a, d) = {}
    <3>1. IsFiniteSet(Nearer(E, a, d)) /\ Cardinality(Nearer(E, a, d)) = 0
      BY <1>1, NearerFacts, RoundsType
    <3> QED
      BY <3>1, FS_EmptySet
  <2>2. E[a][d] = LinkCost[a][d]
    BY <1>2, <2>1, GreatestAttained
  <2> QED
    BY <2>2, ShortestRounds, CostFacts
<1>4. ASSUME NEW j \in Nat, j + 1 <= Rounds, Near(j) PROVE Near(j + 1)
  <2>1. j \in 0..Rounds /\ j + 1 \in 0..Rounds /\ j + 1 /= 0 /\ j + 1 - 1 = j
    BY <1>4, RoundsType
  <2>2. Shortest[j] \in Tables /\ Shortest[j + 1] = OneLinkMore(Shortest[j])
        /\ Shortest[j + 1] \in Tables
    BY <2>1, ShortestRounds
  <2>3. SUFFICES ASSUME NEW a \in Nodes, Cardinality(Nearer(E, a, d)) <= j + 1
                 PROVE  Shortest[j + 1][a][d] <= E[a][d]
    OBVIOUS
  <2>4. /\ Shortest[j + 1][a][d] <= Shortest[j][a][d]
        /\ \A m \in Neighbours[a] : Shortest[j + 1][a][d] <= LinkCost[a][m] + Shortest[j][m][d]
    BY <2>2, RoundFacts
  <2>5. CASE E[a][d] = LinkCost[a][d]
    <3>1. E[a][d] <= LinkCost[a][d] /\ \A i \in 0..Rounds : Shortest[i][a][d] \in Nat
      BY <1>1, PotentialFacts, ShortestRounds, TableFacts
    <3>2. \A i \in 0..Rounds : Shortest[i][a][d] <= LinkCost[a][d]
      BY RoundsFall
    <3> QED
      BY <2>1, <2>5, <3>2
  <2>6. ASSUME NEW m \in Neighbours[a], E[a][d] = LinkCost[a][m] + E[m][d]
        PROVE  Shortest[j + 1][a][d] <= E[a][d]
    <3>1. m \in Nodes /\ m \in Nearer(E, a, d) /\ LinkCost[a][m] \in Nat
      BY <1>2, <2>6, NeighbourFacts, CostFacts
    <3>2. Cardinality(Nearer(E, m, d)) < Cardinality(Nearer(E, a, d))
          /\ Cardinality(Nearer(E, m, d)) \in Nat /\ Cardinality(Nearer(E, a, d)) \in Nat
      BY <1>1, <3>1, NearerFacts, RoundsType
    <3>3. Cardinality(Nearer(E, m, d)) <= j
      BY <2>3, <3>2
    <3>4. Shortest[j][m][d] <= E[m][d]
      BY <1>4, <3>1, <3>3
    <3>5. Shortest[j][m][d] \in Nat /\ E[m][d] \in Nat /\ Shortest[j + 1][a][d] \in Nat
      BY <1>1, <2>2, <3>1, TableFacts
    <3> QED
      BY <2>4, <2>6, <3>1, <3>4, <3>5
  <2> QED
    BY <2>5, <2>6, GreatestAttained
<1>5. \A j \in Nat : j \in S => j + 1 \in S
  <2> SUFFICES ASSUME NEW j \in Nat, j \in S, j + 1 <= Rounds PROVE Near(j + 1)
    OBVIOUS
  <2>1. j <= Rounds
    BY RoundsType
  <2>2. Near(j)
    BY <2>1
  <2> HIDE DEF Near
  <2> QED
    BY <1>4, <2>2
<1>6. 0 \in S
  BY <1>3
<1>7. k \in S
  <2>1. k \in Nat
    BY RoundsType
  <2> HIDE DEF S
  <2> QED
    BY <1>5, <1>6, <2>1, Induction
<1> QED
  BY <1>7

(***************************************************************************)
(* The reference definition is right: it is the greatest table that meets  *)
(* the bounds of the shortest path problem, as if rounds went on for ever. *)
(***************************************************************************)
THEOREM DistIsGreatest == IsGreatest(Dist)
<1>1. PICK E : IsGreatest(E)
  BY GreatestExists
<1>2. E \in Potentials /\ E \in Tables
  BY <1>1, PotentialFacts DEF IsGreatest
<1>3. Rounds \in 0..Rounds /\ Dist = Shortest[Rounds]
  BY RoundsType DEF Dist, Rounds
<1>4. Dist \in Tables
  BY <1>3, ShortestRounds
<1>5. ASSUME NEW n \in Nodes, NEW d \in Nodes PROVE Dist[n][d] = E[n][d]
  <2>1. E[n][d] <= Dist[n][d]
    BY <1>2, <1>3, RoundsAbove
  <2>2. Cardinality(Nearer(E, n, d)) <= Rounds
    BY <1>2, NearerFacts, RoundsType
  <2>3. Dist[n][d] <= E[n][d]
    BY <1>1, <1>3, <2>2, RoundsReach
  <2> QED
    BY <1>2, <1>4, <2>1, <2>3, TableFacts
<1>6. Dist = E
  BY <1>2, <1>4, <1>5 DEF Tables, Vectors
<1> QED
  BY <1>1, <1>6

----
(* The cheapest paths and the vectors *)

LEMMA DistSound == Spec => []Sound(Dist)
<1>1. Dist \in Potentials
  BY DistIsGreatest DEF IsGreatest
<1>2. Init => Sound(Dist)
  BY <1>1, SoundInit
<1>3. Sound(Dist) /\ [Next]_vars => Sound(Dist)'
  BY <1>1, SoundStep
<1> QED
  BY <1>2, <1>3, PTL DEF Spec

\* Every variable has its type in every reachable state, and vectors stay
\* within INFINITE_COST as long as no process has run out of descriptors.
THEOREM TypeCorrect == Spec => []TypeOK
<1>1. Sound(Dist) /\ (starved = {} => IInv) => TypeOK
  BY DEF Sound, IInv, Bounded, Messages, TypeOK, Typed
<1> QED
  BY <1>1, DistSound, Invariance, PTL

(***************************************************************************)
(* No vector is ever below the cheapest path, whatever is lost, late or    *)
(* stale, and whichever calls fail (pkthandler).                           *)
(***************************************************************************)
THEOREM NeverBelowCheapest == Spec => []NeverUnderestimates
<1>1. Sound(Dist) => NeverUnderestimates
  BY AboveFacts DEF Sound, NeverUnderestimates, VectorsAbove
<1> QED
  BY <1>1, DistSound, PTL

\* A handler takes over only what is better, and nothing better than the
\* cheapest path is ever on its way.
LEMMA RightStep ==
    ASSUME Sound(Dist), [Next]_vars, NEW n \in Nodes, NEW d \in Nodes,
           dv[n][d] = Dist[n][d]
    PROVE  dv'[n][d] = dv[n][d] /\ routingtable'[n][d] = routingtable[n][d]
<1>1. Dist \in Potentials /\ Dist[n][d] \in Nat
  BY DistIsGreatest, PotentialFacts DEF IsGreatest
<1>2. /\ dv \in [Nodes -> AnyVectors]
      /\ routingtable \in [Nodes -> [Nodes -> Nodes \cup {NoNode}]]
  BY DEF Sound, Typed
<1>3. ASSUME NEW k \in Nodes, NEW m \in Neighbours[k], HandleUpdate(k, m)
      PROVE  dv'[n][d] = dv[n][d] /\ routingtable'[n][d] = routingtable[n][d]
  <2> DEFINE v == Head(links[m][k]).entry
             B == Improved(k, m, v)
  <2>1. /\ dv' = [dv EXCEPT ![k] =
             [e \in Nodes |-> IF e \in B THEN Offer(k, m, v, e) ELSE dv[k][e]]]
        /\ routingtable' = [routingtable EXCEPT ![k] =
             [e \in Nodes |-> IF e \in B THEN m ELSE routingtable[k][e]]]
    BY <1>3 DEF HandleUpdate, routingtable_setnextnode
  <2>2. k = n => d \notin B
    <3>1. Offer(k, m, v, d) \in Nat /\ Offer(k, m, v, d) >= Dist[k][d]
      BY <1>1, <1>3, OfferAbove DEF HandleUpdate, Offer
    <3> HIDE DEF v
    <3> QED
      BY <1>1, <3>1 DEF Improved
  <2> HIDE DEF v, B
  <2> QED
    BY <1>2, <2>1, <2>2 DEF AnyVectors
<1>4. ASSUME NEW k \in Nodes, NEW m \in Neighbours[k], HandleUpdateStarved(k, m)
      PROVE  dv'[n][d] = dv[n][d] /\ routingtable'[n][d] = routingtable[n][d]
  <2> DEFINE v == Head(links[m][k]).entry
             B(tested) == {e \in Nodes : dv[k][e] >
                             nbrcosttable_getcost(k, m, e \in tested) + v[e]}
  <2>1. PICK tested \in SUBSET Improved(k, m, v) : \E used \in SUBSET B(tested) :
          /\ dv' = [dv EXCEPT ![k] =
               [e \in Nodes |->
                  IF e \in B(tested)
                  THEN nbrcosttable_getcost(k, m, e \in used) + v[e]
                  ELSE dv[k][e]]]
          /\ routingtable' = [routingtable EXCEPT ![k] =
               [e \in Nodes |-> IF e \in B(tested) THEN m ELSE routingtable[k][e]]]
    BY <1>4 DEF HandleUpdateStarved, routingtable_setnextnode
  <2>2. k = n => d \notin B(tested)
    <3>1. /\ nbrcosttable_getcost(k, m, d \in tested) + v[d] \in Nat
          /\ nbrcosttable_getcost(k, m, d \in tested) + v[d] >= Dist[k][d]
      BY <1>1, <1>4, OfferAbove DEF HandleUpdateStarved, nbrcosttable_getcost
    <3> HIDE DEF v
    <3> QED
      BY <1>1, <3>1
  <2> HIDE DEF v, B
  <2> QED
    BY <1>2, <2>1, <2>2 DEF AnyVectors
<1>5. \/ \E k \in Nodes : \E m \in Neighbours[k] :
           HandleUpdate(k, m) \/ HandleUpdateStarved(k, m)
      \/ UNCHANGED tables
  BY DEF Next, vars, StartSnp, routeupdate_daemon, CopyVector,
     BroadcastVector, SendSegment, pkthandler, DeliverPacket, ForwardPacket,
     LoseAtOverlay, LoseUnsent, RunOut, Stop
<1> QED
  BY <1>3, <1>4, <1>5 DEF tables

(***************************************************************************)
(* An entry that is right is not changed again, nor its next hop, whatever *)
(* is late or stale, and whichever calls fail (pkthandler).                *)
(***************************************************************************)
THEOREM RightStaysRight == Spec => RightForGood
<1>1. Sound(Dist) /\ [Next]_vars =>
        \A n, d \in Nodes :
          dv[n][d] = Dist[n][d] => /\ dv'[n][d] = dv[n][d]
                                   /\ routingtable'[n][d] = routingtable[n][d]
  BY RightStep
<1> QED
  BY <1>1, DistSound, PTL DEF Spec, RightForGood

\* Vectors that are at most the costs of the cheapest paths are those costs,
\* and the next hops lie on the paths.
LEMMA RightWhenLow ==
    ASSUME IInv, NeverUnderestimates, \A n, d \in Nodes : dv[n][d] <= Dist[n][d]
    PROVE  RoutesRight
<1>1. Dist \in Tables /\ Dist \in Potentials
  BY DistIsGreatest, PotentialFacts DEF IsGreatest
<1>2. \A n, d \in Nodes : dv[n][d] = Dist[n][d]
  BY <1>1, TypeFacts, TableFacts DEF IInv, NeverUnderestimates, VectorsAbove
<1>3. ASSUME NEW n \in Nodes, NEW d \in Nodes, n /= d, routingtable[n][d] /= NoNode
      PROVE  /\ routingtable[n][d] \in Neighbours[n]
             /\ Dist[n][d] = LinkCost[n][routingtable[n][d]] + Dist[routingtable[n][d]][d]
  <2>1. routingtable[n][d] \in Neighbours[n] /\ routingtable[n][d] \in Nodes
    BY <1>3, NeighbourFacts DEF IInv, RouteAttains
  <2>2. Dist[n][d] >= LinkCost[n][routingtable[n][d]] + Dist[routingtable[n][d]][d]
    <3>1. RouteDescends
      BY Descends DEF IInv
    <3> QED
      BY <1>2, <1>3, <2>1, <3>1 DEF RouteDescends, Offer
  <2>3. Dist[n][d] <= LinkCost[n][routingtable[n][d]] + Dist[routingtable[n][d]][d]
    BY <1>1, <2>1, PotentialFacts
  <2>4. /\ LinkCost[n][routingtable[n][d]] \in Nat
        /\ Dist[routingtable[n][d]][d] \in Nat /\ Dist[n][d] \in Nat
    BY <1>1, <2>1, TableFacts, CostFacts
  <2> QED
    BY <2>1, <2>2, <2>3, <2>4
<1>4. \A n, d \in Nodes : n /= d => (routingtable[n][d] = NoNode <=> Dist[n][d] = INFINITE_COST)
  BY <1>2 DEF IInv, RouteAttains
<1> QED
  BY <1>2, <1>3, <1>4 DEF RoutesRight

(***************************************************************************)
(* A network at rest has the costs and the next hops of the cheapest       *)
(* paths, and next hops just where there is a path (pkthandler).           *)
(***************************************************************************)
THEOREM RestIsShortest == Spec => [](starved = {} => SettledIsShortest)
<1>1. ASSUME IInv, Settled => Solved, NeverUnderestimates PROVE SettledIsShortest
  <2>1. SUFFICES ASSUME Solved PROVE RoutesRight
    BY <1>1 DEF SettledIsShortest
  <2>2. \A n, d \in Nodes : dv[n][d] <= Dist[n][d]
    BY <2>1, DistIsGreatest DEF IsGreatest, Solved
  <2> QED
    BY <1>1, <2>2, RightWhenLow
<1> QED
  BY <1>1, Invariance, SettledSolves, NeverBelowCheapest, PTL

(***************************************************************************)
(* Each round of vectors taken in, however old they are, is one more link  *)
(* of the cheapest paths; after as many as there are nodes the routes are  *)
(* right (pkthandler, routeupdate_daemon).                                 *)
(***************************************************************************)
THEOREM ConvergesByRounds == Spec => [](starved = {} => RoundByRound)
<1>1. ASSUME IInv, NeverUnderestimates PROVE RoundByRound
  <2>1. \A k \in 0..Rounds : Within[k] = Shortest[k] /\ Shortest[k] \in Tables
    BY ShortestRounds DEF Within, Rounds
  <2>2. ASSUME NEW n \in Nodes PROVE Reached(n, 0)
    <3>1. Within[0] = LinkCost
      BY <2>1, ShortestRounds, RoundsType
    <3> QED
      BY <1>1, <3>1 DEF Reached, IInv, VectorIsMinimum
  <2>3. ASSUME NEW n \in Nodes, NEW k \in 0..(Rounds - 1), Heard(n, k)
        PROVE  Reached(n, k + 1)
    <3>1. /\ k \in 0..Rounds /\ k + 1 \in 0..Rounds /\ k + 1 /= 0
          /\ (k + 1) - 1 = k
      BY RoundsType
    <3>2. /\ Within[k] = Shortest[k] /\ Shortest[k] \in Tables
          /\ Within[k + 1] = OneLinkMore(Shortest[k])
      BY <2>1, <3>1, ShortestRounds
    <3>3. SUFFICES ASSUME NEW d \in Nodes PROVE dv[n][d] <= Within[k + 1][n][d]
      BY DEF Reached
    <3>4. \/ Within[k + 1][n][d] = Shortest[k][n][d]
          \/ \E m \in Neighbours[n] :
               Within[k + 1][n][d] = LinkCost[n][m] + Shortest[k][m][d]
      BY <3>2, RoundFacts
    <3>5. ASSUME NEW m \in Neighbours[n],
                 Within[k + 1][n][d] = LinkCost[n][m] + Shortest[k][m][d]
          PROVE  dv[n][d] <= Within[k + 1][n][d]
      <4>1. m \in Nodes
        BY NeighbourFacts
      <4>2. /\ dv[n][d] <= LinkCost[n][m] + rows[n][m][d]
            /\ rows[n][m][d] <= Shortest[k][m][d]
        BY <1>1, <2>3, <3>2 DEF IInv, VectorIsMinimum, Offer, Heard
      <4>3. /\ dv[n][d] \in Nat /\ rows[n][m][d] \in Nat
            /\ LinkCost[n][m] \in Nat /\ Shortest[k][m][d] \in Nat
        BY <1>1, <3>2, <4>1, TypeFacts, CostFacts, TableFacts DEF IInv
      <4> QED
        BY <3>5, <4>2, <4>3
    <3>6. CASE Within[k + 1][n][d] = Shortest[k][n][d]
      <4>1. CASE Shortest[k][n][d] = LinkCost[n][d]
        BY <1>1, <3>6, <4>1 DEF IInv, VectorIsMinimum
      <4>2. ASSUME NEW m \in Neighbours[n],
                   Shortest[k][n][d] >= LinkCost[n][m] + Shortest[k][m][d]
            PROVE  dv[n][d] <= Within[k + 1][n][d]
        <5>1. m \in Nodes
          BY NeighbourFacts
        <5>2. /\ dv[n][d] <= LinkCost[n][m] + rows[n][m][d]
              /\ rows[n][m][d] <= Shortest[k][m][d]
          BY <1>1, <2>3, <3>2 DEF IInv, VectorIsMinimum, Offer, Heard
        <5>3. /\ dv[n][d] \in Nat /\ rows[n][m][d] \in Nat
              /\ LinkCost[n][m] \in Nat /\ Shortest[k][m][d] \in Nat
              /\ Shortest[k][n][d] \in Nat
          BY <1>1, <3>2, <5>1, TypeFacts, CostFacts, TableFacts DEF IInv
        <5> QED
          BY <3>6, <4>2, <5>2, <5>3
      <4> QED
        BY <3>1, <4>1, <4>2, RoundsSupported
    <3> QED
      BY <3>4, <3>5, <3>6
  <2>4. (\A n \in Nodes : Reached(n, Cardinality(Nodes))) => RoutesRight
    <3>1. Within[Rounds] = Dist
      BY <2>1, RoundsType DEF Dist, Rounds
    <3> QED
      BY <1>1, <3>1, RightWhenLow DEF Reached, Rounds
  <2> QED
    BY <2>2, <2>3, <2>4 DEF RoundByRound, Rounds
<1> QED
  BY <1>1, Invariance, NeverBelowCheapest, PTL
====
