---- MODULE MCSnp ----
(***************************************************************************)
(* Instances of the network layer for TLC, and what fair executions lead   *)
(* to.                                                                     *)
(***************************************************************************)
EXTENDS SnpInvariants

CONSTANTS A, B, C

NoEdge == INFINITE_COST

\* Three nodes, the direct link between A and C dearer than the way by B.
TriangleCost ==
    [n \in {A, B, C} |-> [m \in {A, B, C} |->
        CASE n = m                -> 0
          [] {n, m} = {A, C}      -> 4
          [] {n, m} = {A, B}      -> 1
          [] OTHER                -> 2]]

\* Three nodes in a line.
LineCost ==
    [n \in {A, B, C} |-> [m \in {A, B, C} |->
        CASE n = m           -> 0
          [] {n, m} = {A, C} -> NoEdge
          [] OTHER           -> 1]]

\* Two updates on each link from A, whose vector changes: one could overtake the
\* other.
TwoFromA == [n \in {A, B, C} |-> IF n = A THEN 2 ELSE 1]

OneFromEach == [n \in {A, B, C} |-> 1]

\* All the processes are started before the first update leaves: the state
\* that StartSnp of every node leads to.
Running == status = [n \in Nodes |-> "up"] /\ TablesCreated

\* Bound: a second update is on a link only before a packet is sent and before
\* a node fails.
SecondUpdateAlone ==
    sent + failures > 0 => \A m, n \in Nodes : UpdatesInFlight(m, n) <= 1

RunningInit == Running /\ sent = 0 /\ failures = 0
RunningSpec == RunningInit /\ [][Next /\ SecondUpdateAlone']_vars

\* Executions with a packet and without failures, in which nodes start at any
\* time; and with a failure and without packets, in which all run from the
\* beginning.  The count of what is left out begins at its bound.
WithPacket ==
    /\ status = [n \in Nodes |-> "new"] /\ TablesCreated
    /\ sent = 0 /\ failures = MaxFailures
WithFailure == Running /\ sent = MaxPackets /\ failures = 0

StartSpec == (WithPacket \/ WithFailure) /\ [][Next]_vars /\ Fairness

(***************************************************************************)
(* Once all nodes run, a time comes from which on every node has the       *)
(* cheapest paths, unless before that a node stops, or runs out of         *)
(* descriptors and its handler ignores what it hears.                      *)
(***************************************************************************)
AllUp == \A n \in Nodes : status[n] = "up"
Interrupted == ~AllUp \/ starved /= {}

Converges == AllUp ~> ([]RoutesRight \/ Interrupted)

(***************************************************************************)
(* A packet on its way while all nodes run is delivered, whatever the      *)
(* state of the tables, unless a node stops or runs out of descriptors.    *)
(***************************************************************************)
PacketOnTheWay ==
    \E m, n \in Nodes : \E i \in DOMAIN links[m][n] :
        links[m][n][i].type = "SNP"

PacketsArrive ==
    \A k \in 0..(MaxPackets - 1) :
        (AllUp /\ delivered = k /\ PacketOnTheWay)
            ~> (delivered > k \/ Interrupted)
====
