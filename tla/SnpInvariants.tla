---- MODULE SnpInvariants ----
(***************************************************************************)
(* What the distance vectors, the routing tables and the packets on their  *)
(* way keep true of one another, whatever the order in which vectors are   *)
(* copied, sent and taken in, and whichever nodes stop.                    *)
(***************************************************************************)
EXTENDS Snp, FiniteSetsExt

Typed(vectors) ==
    /\ status \in [Nodes -> {"new", "up", "down"}]
    /\ dv \in [Nodes -> vectors]
    /\ DOMAIN rows = Nodes
    /\ \A n \in Nodes : rows[n] \in [Neighbours[n] -> vectors]
    /\ routingtable \in [Nodes -> [Nodes -> Nodes \cup {NoNode}]]
    /\ pktRouteUpdt \in [Nodes -> vectors \cup {NoVector}]
    /\ links \in [Nodes -> [Nodes -> Seq(MessagesWith(vectors))]]
    /\ sent \in Nat /\ delivered \in Nat /\ failures \in Nat

\* Every next hop is a node or -1; and as long as no node has run out of
\* descriptors, no sum with INFINITE_COST enters a vector.
TypeOK ==
    /\ starved \subseteq Nodes
    /\ Typed(AnyVectors)
    /\ starved = {} => Typed(Vectors)

(***************************************************************************)
(* Except for NeverUnderestimates and RightForGood, the properties from    *)
(* here on are those of a network in which every process can still open    *)
(* topology.dat (starved = {}): the runs that check them have              *)
(* MayStarve = {}, and the theorems say so.                                *)
(***************************************************************************)

\* The vector in u, if u is a route update, is nowhere below v.
AtLeast(u, v) == \A d \in Nodes : u[d] >= v[d]

IsUpdate(message) == message.type = "ROUTE_UPDATE"

(***************************************************************************)
(* A vector never overtakes an older one.  From the row n holds of its     *)
(* neighbour m, through the updates on their way in the order they were    *)
(* sent and the copy the daemon of m has taken, to the vector m has now,   *)
(* no cost ever rises: a late update can be stale and is never too good.   *)
(***************************************************************************)
RowAboveLinks ==
    \A n \in Nodes : \A m \in Neighbours[n] :
        \A i \in DOMAIN links[m][n] :
            IsUpdate(links[m][n][i])
                => AtLeast(rows[n][m], links[m][n][i].entry)

LinksInOrder ==
    \A n \in Nodes : \A m \in Neighbours[n] : \A i, j \in DOMAIN links[m][n] :
        i < j /\ IsUpdate(links[m][n][i]) /\ IsUpdate(links[m][n][j])
            => AtLeast(links[m][n][i].entry, links[m][n][j].entry)

LinksAboveCopy ==
    \A n \in Nodes : \A m \in Neighbours[n] : \A i \in DOMAIN links[m][n] :
        IsUpdate(links[m][n][i]) =>
            /\ AtLeast(links[m][n][i].entry, dv[m])
            /\ pktRouteUpdt[m] /= NoVector
                 => AtLeast(links[m][n][i].entry, pktRouteUpdt[m])

CopyAboveVector ==
    /\ \A m \in Nodes : pktRouteUpdt[m] /= NoVector
                          => AtLeast(pktRouteUpdt[m], dv[m])
    /\ \A n \in Nodes : \A m \in Neighbours[n] :
         /\ AtLeast(rows[n][m], dv[m])
         /\ pktRouteUpdt[m] /= NoVector
              => AtLeast(rows[n][m], pktRouteUpdt[m])

VectorsInOrder ==
    RowAboveLinks /\ LinksInOrder /\ LinksAboveCopy /\ CopyAboveVector

(***************************************************************************)
(* The distance vector equation.  The handler only ever compares with the  *)
(* vector it has just received; still a node's own vector is the minimum   *)
(* over its direct links and all the rows it holds.                        *)
(***************************************************************************)
VectorIsMinimum ==
    \A n, d \in Nodes :
        /\ dv[n][d] <= LinkCost[n][d]
        /\ \A m \in Neighbours[n] : dv[n][d] <= Offer(n, m, rows[n][m], d)
        /\ \/ dv[n][d] = LinkCost[n][d]
           \/ \E m \in Neighbours[n] : dv[n][d] = Offer(n, m, rows[n][m], d)

(***************************************************************************)
(* The routing table follows the vector: the next hop is a neighbour, and  *)
(* one that offers exactly the cost the vector states; and there is a next *)
(* hop just when that cost is finite.                                      *)
(***************************************************************************)
RouteAttains ==
    \A n, d \in Nodes :
        /\ routingtable[n][d] /= NoNode =>
             /\ routingtable[n][d] \in Neighbours[n]
             /\ \/ dv[n][d] = LinkCost[n][d] /\ routingtable[n][d] = d
                \/ dv[n][d] = Offer(n, routingtable[n][d],
                                    rows[n][routingtable[n][d]], d)
        /\ n /= d => (routingtable[n][d] = NoNode <=> dv[n][d] = INFINITE_COST)
        /\ routingtable[n][n] = NoNode

\* The cost left from the next hop is less by at least the link to it.
RouteDescends ==
    \A n, d \in Nodes :
        routingtable[n][d] /= NoNode =>
            dv[n][d] >= Offer(n, routingtable[n][d],
                              dv[routingtable[n][d]], d)

(***************************************************************************)
(* No loops, at any moment of the convergence: whatever set of nodes other *)
(* than the destination one looks at, some node of it has its next hop     *)
(* outside or none.                                                        *)
(***************************************************************************)
NoLoops ==
    \A d \in Nodes : \A S \in SUBSET (Nodes \ {d}) :
        S /= {} => \E n \in S : routingtable[n][d] \notin S

(***************************************************************************)
(* A packet never travels further than its source's vector promised when   *)
(* it was sent, although the nodes on its way may change their next hops   *)
(* while it travels.                                                       *)
(***************************************************************************)
WithinBudget ==
    \A m, n \in Nodes : \A i \in DOMAIN links[m][n] :
        links[m][n][i].type = "SNP" =>
            /\ links[m][n][i].left >= dv[n][links[m][n][i].dest]
            /\ links[m][n][i].left < INFINITE_COST

(***************************************************************************)
(* No dead ends: the next hop towards a destination is that destination or *)
(* has a next hop itself, and so has the node a packet is on its way to.   *)
(* Only a node that stopped, or is not running yet, loses a packet that    *)
(* its source could send.                                                  *)
(***************************************************************************)
NoDeadEnd ==
    /\ \A n, d \in Nodes :
         routingtable[n][d] \notin {NoNode, d}
             => routingtable[routingtable[n][d]][d] /= NoNode
    /\ \A m, n \in Nodes : \A i \in DOMAIN links[m][n] :
         links[m][n][i].type = "SNP" /\ links[m][n][i].dest /= n
             => routingtable[n][links[m][n][i].dest] /= NoNode
----
(***************************************************************************)
(* The shortest path problem.  A table of costs under which no link, and   *)
(* no link followed by what the neighbour has, is better than what a node  *)
(* has itself is a lower bound of the paths' costs; the cheapest paths are *)
(* the greatest such table.                                                *)
(***************************************************************************)
Bounds(D) ==
    \A n, d \in Nodes : /\ D[n][d] <= LinkCost[n][d]
                        /\ \A m \in Neighbours[n] : D[n][d] <= LinkCost[n][m] + D[m][d]

Potentials ==
    {D \in [Nodes -> [Nodes -> 0..INFINITE_COST]] : Bounds(D)}

\* No vector is below the table D.
VectorsAbove(D) == \A n, d \in Nodes : dv[n][d] >= D[n][d]

\* Every node has taken in its neighbours' present vectors.
Settled == \A n \in Nodes : \A m \in Neighbours[n] : rows[n][m] = dv[m]

\* The vectors are such a table themselves, and along the next hops the way
\* costs what they say.
Solved ==
    /\ dv \in Potentials
    /\ \A n, d \in Nodes :
         routingtable[n][d] /= NoNode =>
           dv[n][d] = LinkCost[n][routingtable[n][d]] + dv[routingtable[n][d]][d]

(***************************************************************************)
(* The reference: what the cheapest paths cost, by their number of links.  *)
(***************************************************************************)
OneLinkMore(D) ==
    [n \in Nodes |-> [d \in Nodes |->
        Min({D[n][d]} \cup {LinkCost[n][m] + D[m][d] : m \in Neighbours[n]})]]

\* The cost of the cheapest path of at most k + 1 links.
Shortest[k \in 0..Cardinality(Nodes)] ==
    IF k = 0 THEN LinkCost ELSE OneLinkMore(Shortest[k - 1])

Dist == Shortest[Cardinality(Nodes)]

\* All of them, as a table.
Within == [k \in 0..Cardinality(Nodes) |-> Shortest[k]]

(***************************************************************************)
(* A vector is never below the cheapest path there is: no cost is counted  *)
(* twice or lost, and a stale vector never makes a way look cheaper; a     *)
(* call that fails for want of descriptors never makes a cost too low.     *)
(***************************************************************************)
NeverUnderestimates == VectorsAbove(Dist)

(***************************************************************************)
(* Where every node has taken in its neighbours' present vectors, the      *)
(* costs are those of the cheapest paths and the next hops lie on them:    *)
(* the network comes to rest nowhere else.                                 *)
(***************************************************************************)
RoutesRight ==
    \A n, d \in Nodes :
        /\ dv[n][d] = Dist[n][d]
        /\ n /= d => LET next == routingtable[n][d] IN
             IF Dist[n][d] = INFINITE_COST
             THEN next = NoNode
             ELSE /\ next \in Neighbours[n]
                  /\ Dist[n][d] = LinkCost[n][next] + Dist[next][d]

SettledIsShortest == Settled => RoutesRight

(***************************************************************************)
(* What is right stays: an entry that has reached the cost of the cheapest *)
(* path is not changed again, nor its next hop, by old vectors, by nodes   *)
(* that stop, or by a handler whose calls fail.  So a network that has its *)
(* routes keeps them when the descriptors run out.                         *)
(***************************************************************************)
RightForGood ==
    [][\A n, d \in Nodes :
         dv[n][d] = Dist[n][d] => /\ dv'[n][d] = dv[n][d]
                                  /\ routingtable'[n][d] = routingtable[n][d]]_vars

(***************************************************************************)
(* Convergence, counted in rounds and not in time.  A node that has taken  *)
(* in, from each neighbour, a vector that is as good as the cheapest paths *)
(* of k + 1 links, has itself one that is as good as those of k + 2; and   *)
(* when every node is that far for as many rounds as there are nodes, the  *)
(* routes are right.  It does not matter in which order the vectors come,  *)
(* which of them are old, and how late a node was started.                 *)
(***************************************************************************)
Reached(n, k) == \A d \in Nodes : dv[n][d] <= Within[k][n][d]

Heard(n, k) ==
    \A m \in Neighbours[n] : \A d \in Nodes : rows[n][m][d] <= Within[k][m][d]

RoundByRound ==
    /\ \A n \in Nodes : Reached(n, 0)
    /\ \A n \in Nodes : \A k \in 0..(Cardinality(Nodes) - 1) :
         Heard(n, k) => Reached(n, k + 1)
    /\ (\A n \in Nodes : Reached(n, Cardinality(Nodes))) => RoutesRight
====
