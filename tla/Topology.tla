---- MODULE Topology ----
(***************************************************************************)
(* The queries of topology.c on topology.dat.  The file does not change    *)
(* while the processes run; each query reads it from its first line.       *)
(***************************************************************************)
EXTENDS Integers, SequencesExt

CONSTANTS
    Lines,         \* topology.dat: two hosts, by node ID, and a cost a line
    INFINITE_COST

ASSUME LinesAssumption ==
    Lines \in Seq([host1 : Nat, host2 : Nat, cost : Nat])

\* Each host of a line that is not in the list yet is added to it.
Add(list, host) == IF host \in ToSet(list) THEN list ELSE Append(list, host)
AddHosts(list, line) == Add(Add(list, line.host1), line.host2)

topology_getNodeArray ==
    LET read[i \in 0..Len(Lines)] ==
          IF i = 0 THEN << >> ELSE AddHosts(read[i - 1], Lines[i])
    IN  read[Len(Lines)]
topology_getNodeNum == Len(topology_getNodeArray)

\* A line names a host's neighbour after it or before it.
Names(line, host) == host \in {line.host1, line.host2}
Peer(line, host) == IF line.host1 = host THEN line.host2 ELSE line.host1
AddPeer(list, line, host) ==
    IF Names(line, host) THEN Append(list, Peer(line, host)) ELSE list

topology_getNbrArray(host) ==
    LET read[i \in 0..Len(Lines)] ==
          IF i = 0 THEN << >> ELSE AddPeer(read[i - 1], Lines[i], host)
    IN  read[Len(Lines)]
topology_getNbrNum(host) == Len(topology_getNbrArray(host))

\* The first line that joins the two hosts, in either order.
Joins(i, from, to) ==
    \/ Lines[i].host1 = from /\ Lines[i].host2 = to
    \/ Lines[i].host1 = to /\ Lines[i].host2 = from

topology_getCost(from, to) ==
    LET Found == {i \in DOMAIN Lines : Joins(i, from, to)} IN
    IF from = to THEN 0
    ELSE IF Found = {} THEN INFINITE_COST
    ELSE Lines[CHOOSE i \in Found : \A j \in Found : i <= j].cost
====
