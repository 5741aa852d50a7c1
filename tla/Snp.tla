---- MODULE Snp ----
(***************************************************************************)
(* The network layer: one SNP process per node (network/network.c), its    *)
(* distance vector table, neighbour cost table and routing table, and the  *)
(* overlay (overlay/overlay.c) that carries packets between neighbours.    *)
(*                                                                         *)
(* Between two SNP processes a packet crosses three TCP connections (SNP   *)
(* to ON, ON to ON, ON to SNP), each of them in order and without loss,    *)
(* and the ON processes keep no packets of their own: links[m][n] is that  *)
(* chain from m to n as one queue.  The ON process of n has a thread per   *)
(* neighbour, so it takes packets from them in any order: the choice of m  *)
(* in the handlers.  A packet is handed over whole.                        *)
(*                                                                         *)
(* A node that stops does not come back: waitNetwork and waitNbrs accept   *)
(* once, and the ON process returns from main when its SNP process leaves. *)
(*                                                                         *)
(* The queries of topology.c open topology.dat and do not close it, so the *)
(* handler of an SNP process runs out of file descriptors in the end       *)
(* (SnpHost); from then on the table functions it calls may fail.          *)
(***************************************************************************)
EXTENDS Integers, Sequences, FiniteSets

CONSTANTS
    Nodes,          \* the hosts named in topology.dat
    LinkCost,       \* topology_getCost
    INFINITE_COST,
    NoNode,         \* the -1 of routingtable_getnextnode
    NoVector,       \* routeupdate_daemon holds no vector to send
    MaxUpdates,     \* bound: route updates in flight on one link, by sender
    MaxPackets,     \* bound: segments the transport layers hand over
    MaxFailures,    \* bound: nodes that stop or run out of descriptors
    MayStarve       \* the nodes whose SNP process may run out of descriptors

\* The costs in topology.dat: an edge serves both directions, a node is at
\* cost 0 from itself and from no other node, and no edge costs more than
\* INFINITE_COST, the cost between two nodes without an edge.
ASSUME CostAssumption ==
    /\ INFINITE_COST \in Nat
    /\ LinkCost \in [Nodes -> [Nodes -> 0..INFINITE_COST]]
    /\ \A n, m \in Nodes : /\ LinkCost[n][m] = 0 <=> n = m
                           /\ LinkCost[n][m] = LinkCost[m][n]

Costs == 0..INFINITE_COST
Vectors == [Nodes -> Costs]

\* A file has finitely many lines.
ASSUME NodesAssumption == IsFiniteSet(Nodes)

\* Costs that include an INFINITE_COST a table function returned in vain are
\* not bounded by it.
AnyVectors == [Nodes -> Nat]

ASSUME NoValueAssumption == NoNode \notin Nodes /\ NoVector \notin AnyVectors

VARIABLES
    status,         \* of a node: its SNP process not yet started, up, or gone
    starved,        \* the nodes whose SNP process has run out of descriptors
    dv,             \* dvt[0]: the node's own distance vector
    rows,           \* dvt[1..]: the vectors it holds of its neighbours
    routingtable,   \* next hop by destination
    pktRouteUpdt,   \* the vector routeupdate_daemon has copied and not sent
    links,          \* links[m][n]: packets from m on their way to n
    sent,           \* segments handed over so far
    delivered,      \* packets handed to the transport layer so far
    failures        \* nodes stopped or out of descriptors so far

tables == <<dv, rows, routingtable>>
counts == <<sent, delivered, failures>>
vars == <<status, starved, tables, pktRouteUpdt, links, counts>>

Neighbours ==
    [n \in Nodes |-> {m \in Nodes \ {n} : LinkCost[n][m] < INFINITE_COST}]

RouteUpdate(vector) == [type |-> "ROUTE_UPDATE", entry |-> vector]

\* A packet with one segment.  left is what remains of the cost its source
\* promised for the way when it sent the packet; no code reads it.
Packet(dest, left) == [type |-> "SNP", dest |-> dest, left |-> left]

MessagesWith(vectors) ==
    [type : {"ROUTE_UPDATE"}, entry : vectors]
        \cup [type : {"SNP"}, dest : Nodes, left : Int]

RoutesLeftEmpty(n) == [d \in Nodes |-> NoNode]                    \* mutant
routingtable_create(n) ==
    [d \in Nodes |-> IF d \in Neighbours[n] THEN d ELSE NoNode]

\* The rows of dvtable_create for the neighbours; the own row is LinkCost[n].
dvtable_create(n) ==
    [m \in Neighbours[n] |-> [d \in Nodes |-> INFINITE_COST]]

TablesCreated ==
    /\ dv = LinkCost
    /\ rows = [n \in Nodes |-> dvtable_create(n)]
    /\ routingtable = [n \in Nodes |-> routingtable_create(n)]
    /\ pktRouteUpdt = [n \in Nodes |-> NoVector]
    /\ links = [m \in Nodes |-> [n \in Nodes |-> <<>>]]
    /\ starved = {} /\ delivered = 0

Init ==
    /\ status = [n \in Nodes |-> "new"] /\ TablesCreated
    /\ sent = 0 /\ failures = 0
----
(* The overlay *)

Overtaking(queue, message) == <<message>> \o queue                \* mutant
Queued(queue, message) == Append(queue, message)

\* What the ON process of n does with a packet its SNP process hands it for
\* one next hop: no neighbour of that number, no send; a neighbour that has
\* closed its connection, a send that fails.  Neither is reported back.
Transmit(queues, n, next, dest, left) ==
    IF next \in Neighbours[n] /\ status[next] /= "down"
    THEN [queues EXCEPT ![n][next] =
            Queued(@, Packet(dest, left - LinkCost[n][next]))]
    ELSE queues

\* For BROADCAST_NODEID it goes through all the neighbours.
AllNeighboursButOne(n) == Neighbours[n] \ {CHOOSE m \in Nodes : m /= n} \* mutant
BroadcastTo(n) == Neighbours[n]

\* The next packet from m is taken off the overlay by n.
Taken(m, n) == [links EXCEPT ![m][n] = Tail(@)]

\* One listen_to_neighbor thread for each neighbour m.
ArrivesFromOne(m, n, type) ==                                     \* mutant
    /\ m = CHOOSE x \in Nodes : x \in Neighbours[n]
    /\ links[m][n] /= <<>>
    /\ Head(links[m][n]).type = type
Arrives(m, n, type) ==
    /\ links[m][n] /= <<>>
    /\ Head(links[m][n]).type = type

UpdatesInFlight(n, m) ==
    Cardinality({i \in DOMAIN links[n][m] :
                   links[n][m][i].type = "ROUTE_UPDATE"})

\* forwardpktToSNP on a node whose SNP process has not connected: the send
\* fails and the packet is gone.
LoseAtOverlay(n, m) ==
    /\ status[n] = "new"
    /\ links[m][n] /= <<>>
    /\ links' = Taken(m, n)
    /\ UNCHANGED <<status, starved, tables, pktRouteUpdt, counts>>

\* The last packets of a node that stopped may not have left it.
LoseUnsent(n, m) ==
    /\ status[n] = "down"
    /\ links[n][m] /= <<>>
    /\ links' = [links EXCEPT ![n][m] = SubSeq(@, 1, Len(@) - 1)]
    /\ UNCHANGED <<status, starved, tables, pktRouteUpdt, counts>>
----
(* The SNP process *)

StartSnp(n) ==
    /\ status[n] = "new"
    /\ status' = [status EXCEPT ![n] = "up"]
    /\ UNCHANGED <<starved, tables, pktRouteUpdt, links, counts>>

\* routeupdate_daemon copies the vector under dv_mutex ...
CopyVector(n) ==
    /\ status[n] = "up" /\ pktRouteUpdt[n] = NoVector
    /\ pktRouteUpdt' = [pktRouteUpdt EXCEPT ![n] = dv[n]]
    /\ UNCHANGED <<status, starved, tables, links, counts>>

\* ... and broadcasts the copy after the mutex is released.
BroadcastVector(n) ==
    /\ status[n] = "up" /\ pktRouteUpdt[n] /= NoVector
    /\ \A m \in Neighbours[n] : UpdatesInFlight(n, m) < MaxUpdates[n]
    /\ links' = [links EXCEPT ![n] =
         [m \in Nodes |-> IF m \in BroadcastTo(n) /\ status[m] /= "down"
                          THEN Queued(@[m], RouteUpdate(pktRouteUpdt[n]))
                          ELSE @[m]]]
    /\ pktRouteUpdt' = [pktRouteUpdt EXCEPT ![n] = NoVector]
    /\ UNCHANGED <<status, starved, tables, counts>>

\* What a vector heard from neighbour m offers node n for destination d.
OfferWithoutLink(n, m, vector, d) == vector[d]                    \* mutant
Offer(n, m, vector, d) == LinkCost[n][m] + vector[d]

\* The destinations for which n takes over what m offers.
ImprovedUnseen(n, m, vector) == Nodes                             \* mutant
ImprovedByLatest(n, m, vector) ==                                 \* mutant
    {d \in Nodes : dv[n][d] /= Offer(n, m, vector, d)}
ImprovedButOne(n, m, vector) ==                                   \* mutant
    {d \in Nodes : dv[n][d] > Offer(n, m, vector, d)}
        \ {CHOOSE d \in Nodes : TRUE}
Improved(n, m, vector) ==
    {d \in Nodes : dv[n][d] > Offer(n, m, vector, d)}

RowNotFound(n, m, vector) == rows                                 \* mutant
dvtable_setcost(n, m, vector) == [rows EXCEPT ![n][m] = vector]

OldEntryStays(n, dests, next) ==                                  \* mutant
    [routingtable EXCEPT ![n] =
        [d \in Nodes |-> IF d \in dests /\ @[d] = NoNode THEN next ELSE @[d]]]
routingtable_setnextnode(n, dests, next) ==
    [routingtable EXCEPT ![n] =
        [d \in Nodes |-> IF d \in dests THEN next ELSE @[d]]]

NeighbourDirectly(n, d) ==                                        \* mutant
    IF d \in Neighbours[n] THEN d ELSE routingtable[n][d]
routingtable_getnextnode(n, d) == routingtable[n][d]

\* pkthandler, ROUTE_UPDATE, while topology.dat can be opened
HandleUpdate(n, m) ==
    /\ status[n] = "up" /\ Arrives(m, n, "ROUTE_UPDATE")
    /\ n \notin starved
    /\ LET vector == Head(links[m][n]).entry
           improved == Improved(n, m, vector)
       IN /\ rows' = dvtable_setcost(n, m, vector)
          /\ dv' = [dv EXCEPT ![n] =
               [d \in Nodes |-> IF d \in improved
                                THEN Offer(n, m, vector, d) ELSE @[d]]]
          /\ routingtable' = routingtable_setnextnode(n, improved, m)
    /\ links' = Taken(m, n)
    /\ UNCHANGED <<status, starved, pktRouteUpdt, counts>>

\* openDat fails in a call that the handler of n makes: RLIMIT_NOFILE is not in
\* the source, so at any time.
RunOut(n) ==
    /\ status[n] = "up" /\ n \in MayStarve \ starved
    /\ failures < MaxFailures
    /\ starved' = starved \cup {n}
    /\ failures' = failures + 1
    /\ UNCHANGED <<status, tables, pktRouteUpdt, links, sent, delivered>>

\* nbrcosttable_getcost, with the file opened or not
FailsWithZero(n, m, opened) == IF opened THEN LinkCost[n][m] ELSE 0   \* mutant
nbrcosttable_getcost(n, m, opened) ==
    IF opened THEN LinkCost[n][m] ELSE INFINITE_COST

\* pkthandler, ROUTE_UPDATE, when any of the calls may fail, as waitTransport
\* may give a descriptor back between two of them.  A dvtable_setcost that
\* fails does nothing; of the two calls of nbrcosttable_getcost for an entry
\* the first decides and the second is written.  stored, tested and used are
\* the destinations for which the three calls succeed, where that makes a
\* difference.
HandleUpdateStarved(n, m) ==
    /\ status[n] = "up" /\ Arrives(m, n, "ROUTE_UPDATE")
    /\ n \in starved
    /\ LET vector == Head(links[m][n]).entry IN
       \E stored \in SUBSET Nodes : \E tested \in SUBSET Improved(n, m, vector) :
         LET improved == {d \in Nodes : dv[n][d] >
                            nbrcosttable_getcost(n, m, d \in tested) + vector[d]}
         IN \E used \in SUBSET improved :
              /\ rows' = [rows EXCEPT ![n][m] =
                   [d \in Nodes |-> IF d \in stored THEN vector[d] ELSE @[d]]]
              /\ dv' = [dv EXCEPT ![n] =
                   [d \in Nodes |->
                      IF d \in improved
                      THEN nbrcosttable_getcost(n, m, d \in used) + vector[d]
                      ELSE @[d]]]
              /\ routingtable' = routingtable_setnextnode(n, improved, m)
    /\ links' = Taken(m, n)
    /\ UNCHANGED <<status, starved, pktRouteUpdt, counts>>

\* pkthandler, SNP, for this node
DeliverPacket(n, m) ==
    /\ status[n] = "up" /\ Arrives(m, n, "SNP")
    /\ Head(links[m][n]).dest = n
    /\ links' = Taken(m, n)
    /\ delivered' = delivered + 1
    /\ UNCHANGED <<status, starved, tables, pktRouteUpdt, sent, failures>>

\* pkthandler, SNP, for another node
ForwardPacket(n, m) ==
    /\ status[n] = "up" /\ Arrives(m, n, "SNP")
    /\ LET dest == Head(links[m][n]).dest IN
       /\ dest /= n
       /\ links' = Transmit(Taken(m, n), n, routingtable_getnextnode(n, dest),
                            dest, Head(links[m][n]).left)
    /\ UNCHANGED <<status, starved, tables, pktRouteUpdt, counts>>

\* waitTransport, for a segment to d
SendSegment(n, d) ==
    /\ status[n] = "up" /\ sent < MaxPackets
    /\ links' = Transmit(links, n, routingtable_getnextnode(n, d), d, dv[n][d])
    /\ sent' = sent + 1
    /\ UNCHANGED <<status, starved, tables, pktRouteUpdt, delivered, failures>>

\* network_stop or overlay_stop: either process takes the other out of the
\* network, and what the node had not read is gone.
Stop(n) ==
    /\ status[n] /= "down" /\ failures < MaxFailures
    /\ status' = [status EXCEPT ![n] = "down"]
    /\ links' = [m \in Nodes |-> [links[m] EXCEPT ![n] = <<>>]]
    /\ pktRouteUpdt' = [pktRouteUpdt EXCEPT ![n] = NoVector]
    /\ failures' = failures + 1
    /\ UNCHANGED <<starved, tables, sent, delivered>>
----
routeupdate_daemon(n) == CopyVector(n) \/ BroadcastVector(n)

pkthandler(n, m) ==
    \/ HandleUpdate(n, m) \/ HandleUpdateStarved(n, m)
    \/ DeliverPacket(n, m) \/ ForwardPacket(n, m)

Next ==
    \E n \in Nodes :
        \/ StartSnp(n)
        \/ routeupdate_daemon(n)
        \/ \E d \in Nodes : SendSegment(n, d)
        \/ \E m \in Neighbours[n] : \/ pkthandler(n, m)
                                    \/ LoseAtOverlay(n, m)
                                    \/ LoseUnsent(n, m)
        \/ RunOut(n) \/ Stop(n)

Spec == Init /\ [][Next]_vars

\* Every node's processes are started, the daemon's sleep ends, and the
\* handler thread of a running process takes what has arrived from each of
\* its neighbours, with or without effect.
Fairness ==
    \A n \in Nodes :
        /\ WF_vars(StartSnp(n))
        /\ WF_vars(routeupdate_daemon(n))
        /\ \A m \in Neighbours[n] : WF_vars(pkthandler(n, m))

FairSpec == Spec /\ Fairness
====
