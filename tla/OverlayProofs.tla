---- MODULE OverlayProofs ----
(***************************************************************************)
(* What the queries of topology.c return from any well-formed topology.dat *)
(* and, from that, that the overlay's nodes end up connected to all their  *)
(* neighbours, in whatever order they start, accept and connect.           *)
(***************************************************************************)
EXTENDS Overlay, FiniteSetTheorems, WellFoundedInduction, TLAPS

\* Induction on the numbers, for a set of them that can be written down.
LEMMA Induction ==
    ASSUME NEW S, 0 \in S, \A n \in Nat : n \in S => n + 1 \in S
    PROVE  Nat \subseteq S
<1> DEFINE missing == Nat \ S
<1> SUFFICES ASSUME missing /= {} PROVE FALSE
  OBVIOUS
<1>0. missing \subseteq Nat
  OBVIOUS
<1> HIDE DEF missing
<1>1. PICK n \in missing : \A m \in missing : ~(<<m, n>> \in OpToRel(<, Nat))
  BY <1>0, NatLessThanWellFounded, WFMin
<1>a. n \in Nat /\ n \notin S
  BY <1>1 DEF missing
<1>2. n /= 0 /\ n - 1 \in Nat
  BY <1>a
<1>3. n - 1 < n
  BY <1>a
<1>4. n - 1 \in S
  <2>1. n - 1 \in missing => ~(<<n - 1, n>> \in OpToRel(<, Nat))
    BY <1>1, Zenon
  <2>2. n \in Nat /\ n - 1 \in Nat
    BY <1>a, <1>2
  <2>3. <<n - 1, n>> \in OpToRel(<, Nat)
    BY <1>3, <2>2, Zenon DEF OpToRel
  <2> QED
    BY <2>1, <2>2, <2>3 DEF missing
<1>5. n \in S
  <2>1. n - 1 + 1 = n
    BY <1>a
  <2> QED
    BY <1>2, <1>4, <2>1
<1> QED
  BY <1>a, <1>5

\* A loop that computes each value from the one before has a run: the functions
\* that Topology's queries read the file with exist.
LEMMA LoopRuns ==
    ASSUME NEW T, NEW first \in T, NEW last \in Nat,
           NEW turn \in [(1..last) \X T -> T]
    PROVE  \E f \in [0..last -> T] :
             /\ f[0] = first
             /\ \A i \in 1..last : f[i] = turn[<<i, f[i - 1]>>]
<1> DEFINE Runs(n) == \E f \in [0..n -> T] :
                        /\ f[0] = first
                        /\ \A i \in 1..n : f[i] = turn[<<i, f[i - 1]>>]
           S == {n \in Nat : n <= last => Runs(n)}
<1>1. Runs(0)
  <2> DEFINE f == [i \in 0..0 |-> first]
  <2>1. f \in [0..0 -> T] /\ f[0] = first
    OBVIOUS
  <2>2. \A i \in 1..0 : f[i] = turn[<<i, f[i - 1]>>]
    OBVIOUS
  <2> HIDE DEF f
  <2> QED
    BY <2>1, <2>2
<1>2. ASSUME NEW n \in Nat, n + 1 <= last, Runs(n) PROVE Runs(n + 1)
  <2>1. PICK f \in [0..n -> T] :
          f[0] = first /\ \A i \in 1..n : f[i] = turn[<<i, f[i - 1]>>]
    BY <1>2
  <2> DEFINE g == [i \in 0..(n + 1) |-> IF i <= n THEN f[i]
                                        ELSE turn[<<n + 1, f[n]>>]]
  <2>2. <<n + 1, f[n]>> \in (1..last) \X T
    BY <1>2
  <2>3. turn[<<n + 1, f[n]>>] \in T
    BY <2>2
  <2>4. g \in [0..(n + 1) -> T]
    BY <2>3
  <2>5. g[0] = first
    BY <2>1
  <2>6. ASSUME NEW i \in 1..(n + 1) PROVE g[i] = turn[<<i, g[i - 1]>>]
    <3>1. i - 1 \in 0..n /\ g[i - 1] = f[i - 1]
      OBVIOUS
    <3>2. CASE i <= n
      BY <2>1, <3>1, <3>2
    <3>3. CASE i = n + 1
      <4>1. g[i] = turn[<<n + 1, f[n]>>] /\ i - 1 = n
        BY <3>3
      <4> QED
        BY <3>1, <3>3, <4>1
    <3> QED
      BY <3>2, <3>3
  <2> HIDE DEF g
  <2> QED
    BY <2>4, <2>5, <2>6
<1>3. 0 \in S
  BY <1>1
<1>4. ASSUME NEW n \in Nat, n \in S PROVE n + 1 \in S
  BY <1>2, <1>4
<1> HIDE DEF Runs
<1>5. \A n \in Nat : n \in S => n + 1 \in S
  BY <1>4
<1>6. Nat \subseteq S
  <2> HIDE DEF S
  <2> QED
    BY <1>3, <1>5, Induction
<1>7. last \in S /\ last <= last
  <2> HIDE DEF S
  <2> QED
    BY <1>6
<1>8. Runs(last)
  BY <1>7
<1> QED
  BY <1>8 DEF Runs

\* The elements of a sequence.
LEMMA Element ==
    ASSUME NEW S, NEW s \in Seq(S), NEW i \in DOMAIN s
    PROVE  s[i] \in S
OBVIOUS

\* A line of the file names two hosts and a cost.
LEMMA LineType ==
    ASSUME NEW i \in 1..Len(Lines)
    PROVE  Lines[i].host1 \in Nat /\ Lines[i].host2 \in Nat
<1>1. i \in DOMAIN Lines
  BY LinesAssumption
<1>2. Lines[i] \in [host1 : Nat, host2 : Nat, cost : Nat]
  BY <1>1, Element, LinesAssumption, Zenon
<1> QED
  BY <1>2

\* What a list holds after one more element.
LEMMA AppendElement ==
    ASSUME NEW S, NEW s \in Seq(S), NEW x \in S
    PROVE  /\ Append(s, x) \in Seq(S)
           /\ ToSet(Append(s, x)) = ToSet(s) \cup {x}
           /\ DOMAIN Append(s, x) = DOMAIN s \cup {Len(s) + 1}
           /\ \A i \in DOMAIN s : Append(s, x)[i] = s[i]
           /\ Append(s, x)[Len(s) + 1] = x
           /\ Len(s) + 1 \notin DOMAIN s
<1>1. /\ Append(s, x) \in Seq(S)
      /\ DOMAIN Append(s, x) = DOMAIN s \cup {Len(s) + 1}
      /\ \A i \in DOMAIN s : Append(s, x)[i] = s[i]
      /\ Append(s, x)[Len(s) + 1] = x
      /\ Len(s) + 1 \notin DOMAIN s
  OBVIOUS
<1>2. ToSet(Append(s, x)) = ToSet(s) \cup {x}
  BY <1>1, Zenon DEF ToSet
<1> QED
  BY <1>1, <1>2

\* The array of hosts after one line.
LEMMA AddHost ==
    ASSUME NEW list \in Seq(Nat), NEW host \in Nat
    PROVE  /\ Add(list, host) \in Seq(Nat)
           /\ ToSet(Add(list, host)) = ToSet(list) \cup {host}
<1>1. CASE host \in ToSet(list)
  BY <1>1 DEF Add
<1>2. CASE host \notin ToSet(list)
  BY <1>2, AppendElement DEF Add
<1> QED
  BY <1>1, <1>2

\* topology_getNodeArray's loop, and what it has read after each line.
LEMMA HostsLoop ==
    \E read : /\ read[0] = << >>
              /\ \A i \in 1..Len(Lines) : read[i] = AddHosts(read[i - 1], Lines[i])
              /\ topology_getNodeArray = read[Len(Lines)]
<1> DEFINE last == Len(Lines)
           Reads(f) == f = [i \in 0..last |-> IF i = 0 THEN << >>
                                            ELSE AddHosts(f[i - 1], Lines[i])]
           turn == [p \in (1..last) \X Seq(Nat) |-> AddHosts(p[2], Lines[p[1]])]
<1>1. turn \in [(1..last) \X Seq(Nat) -> Seq(Nat)]
  <2>1. ASSUME NEW p \in (1..last) \X Seq(Nat)
        PROVE  AddHosts(p[2], Lines[p[1]]) \in Seq(Nat)
    <3>1. p[1] \in 1..Len(Lines) /\ p[2] \in Seq(Nat)
      OBVIOUS
    <3> QED
      BY <3>1, LineType, AddHost DEF AddHosts
  <2> QED
    BY <2>1
<1>2. last \in Nat /\ << >> \in Seq(Nat)
  BY LinesAssumption
<1>3. PICK g \in [0..last -> Seq(Nat)] :
        g[0] = << >> /\ \A i \in 1..last : g[i] = turn[<<i, g[i - 1]>>]
  <2> DEFINE T == Seq(Nat)
             empty == << >>
  <2>1. turn \in [(1..last) \X T -> T] /\ last \in Nat /\ empty \in T
    BY <1>1, <1>2
  <2> HIDE DEF last, turn, T, empty
  <2>2. \E g \in [0..last -> T] :
          g[0] = empty /\ \A i \in 1..last : g[i] = turn[<<i, g[i - 1]>>]
    BY <2>1, LoopRuns
  <2> QED
    BY <2>2 DEF T, empty
<1>4. ASSUME NEW i \in 1..last PROVE g[i] = AddHosts(g[i - 1], Lines[i])
  <2>1. i - 1 \in 0..last
    BY <1>2
  <2>2. g[i - 1] \in Seq(Nat)
    BY <2>1, <1>3
  <2>3. <<i, g[i - 1]>> \in (1..last) \X Seq(Nat)
    BY <2>2
  <2>4. turn[<<i, g[i - 1]>>] = AddHosts(g[i - 1], Lines[i])
    BY <2>3
  <2> QED
    BY <1>3, <2>4
<1>5. Reads(g)
  <2>1. \A i \in 0..last : g[i] = IF i = 0 THEN << >>
                                  ELSE AddHosts(g[i - 1], Lines[i])
    BY <1>2, <1>3, <1>4
  <2> QED
    BY <1>3, <2>1
<1> DEFINE read == CHOOSE f : Reads(f)
<1>6. Reads(read)
  <2> HIDE DEF Reads
  <2> QED
    BY <1>5, Zenon
<1>7. topology_getNodeArray = read[last]
  BY Zenon DEF topology_getNodeArray
<1> HIDE DEF read
<1>8. read[0] = << >> /\ \A i \in 1..last : read[i] = AddHosts(read[i - 1], Lines[i])
  BY <1>2, <1>6
<1> QED
  BY <1>7, <1>8

\* The hosts of the first n lines.
Hosts(n) == {Lines[i].host1 : i \in 1..n} \cup {Lines[i].host2 : i \in 1..n}

\* topology_getNodeArray returns the hosts the file names.
LEMMA NodesAreHosts == Nodes = Hosts(Len(Lines)) /\ Nodes \subseteq Nat
<1> DEFINE last == Len(Lines)
<1>1. last \in Nat
  BY LinesAssumption
<1>2. PICK read :
        /\ read[0] = << >>
        /\ \A i \in 1..last : read[i] = AddHosts(read[i - 1], Lines[i])
        /\ topology_getNodeArray = read[last]
  BY HostsLoop
<1> DEFINE Good(n) == read[n] \in Seq(Nat) /\ ToSet(read[n]) = Hosts(n)
           S == {n \in Nat : n <= last => Good(n)}
<1>3. 0 \in S
  <2>1. << >> \in Seq(Nat) /\ ToSet(<< >>) = {} /\ Hosts(0) = {}
    BY DEF ToSet, Hosts
  <2> QED
    BY <1>2, <2>1
<1>4. \A n \in Nat : n \in S => n + 1 \in S
  <2> SUFFICES ASSUME NEW n \in Nat, Good(n), n + 1 <= last
               PROVE  Good(n + 1)
    <3> HIDE DEF Good
    <3> QED
      BY <1>1
  <2>1. read[n] \in Seq(Nat) /\ ToSet(read[n]) = Hosts(n)
    BY <1>1
  <2>2. n + 1 \in 1..last /\ (n + 1) - 1 = n
    BY <1>1
  <2>3. read[n + 1] = AddHosts(read[n], Lines[n + 1])
    BY <1>2, <2>2
  <2>4. Lines[n + 1].host1 \in Nat /\ Lines[n + 1].host2 \in Nat
    BY <2>2, LineType
  <2>5. /\ read[n + 1] \in Seq(Nat)
        /\ ToSet(read[n + 1]) =
             (ToSet(read[n]) \cup {Lines[n + 1].host1}) \cup {Lines[n + 1].host2}
    <3>1. /\ Add(read[n], Lines[n + 1].host1) \in Seq(Nat)
          /\ ToSet(Add(read[n], Lines[n + 1].host1)) =
               ToSet(read[n]) \cup {Lines[n + 1].host1}
      BY <2>1, <2>4, AddHost
    <3> QED
      BY <2>3, <2>4, <3>1, AddHost DEF AddHosts
  <2>6. 1..(n + 1) = (1..n) \cup {n + 1}
    OBVIOUS
  <2>7. Hosts(n + 1) =
          (Hosts(n) \cup {Lines[n + 1].host1}) \cup {Lines[n + 1].host2}
    BY <2>6, Zenon DEF Hosts
  <2> QED
    BY <2>1, <2>5, <2>7, Zenon
<1>5. last \in S
  <2> HIDE DEF S
  <2> QED
    BY <1>1, <1>3, <1>4, Induction
<1>6. Nodes = Hosts(last)
  BY <1>2, <1>5 DEF Nodes
<1>7. Hosts(last) \subseteq Nat
  BY LineType DEF Hosts
<1> QED
  BY <1>6, <1>7

\* topology_getNbrArray's loop, and what it has read after each line.
LEMMA PeersLoop ==
    ASSUME NEW host
    PROVE
    \E read : /\ read[0] = << >>
              /\ \A i \in 1..Len(Lines) : read[i] = AddPeer(read[i - 1], Lines[i], host)
              /\ topology_getNbrArray(host) = read[Len(Lines)]
<1> DEFINE last == Len(Lines)
           Reads(f) == f = [i \in 0..last |-> IF i = 0 THEN << >>
                                            ELSE AddPeer(f[i - 1], Lines[i], host)]
           turn == [p \in (1..last) \X Seq(Nat) |-> AddPeer(p[2], Lines[p[1]], host)]
<1>1. turn \in [(1..last) \X Seq(Nat) -> Seq(Nat)]
  <2>1. ASSUME NEW p \in (1..last) \X Seq(Nat)
        PROVE  AddPeer(p[2], Lines[p[1]], host) \in Seq(Nat)
    <3>1. p[1] \in 1..Len(Lines) /\ p[2] \in Seq(Nat)
      OBVIOUS
    <3> QED
      BY <3>1, LineType DEF AddPeer, Peer
  <2> QED
    BY <2>1
<1>2. last \in Nat /\ << >> \in Seq(Nat)
  BY LinesAssumption
<1>3. PICK g \in [0..last -> Seq(Nat)] :
        g[0] = << >> /\ \A i \in 1..last : g[i] = turn[<<i, g[i - 1]>>]
  <2> DEFINE T == Seq(Nat)
             empty == << >>
  <2>1. turn \in [(1..last) \X T -> T] /\ last \in Nat /\ empty \in T
    BY <1>1, <1>2
  <2> HIDE DEF last, turn, T, empty
  <2>2. \E g \in [0..last -> T] :
          g[0] = empty /\ \A i \in 1..last : g[i] = turn[<<i, g[i - 1]>>]
    BY <2>1, LoopRuns
  <2> QED
    BY <2>2 DEF T, empty
<1>4. ASSUME NEW i \in 1..last PROVE g[i] = AddPeer(g[i - 1], Lines[i], host)
  <2>1. i - 1 \in 0..last
    BY <1>2
  <2>2. g[i - 1] \in Seq(Nat)
    BY <2>1, <1>3
  <2>3. <<i, g[i - 1]>> \in (1..last) \X Seq(Nat)
    BY <2>2
  <2>4. turn[<<i, g[i - 1]>>] = AddPeer(g[i - 1], Lines[i], host)
    BY <2>3
  <2> QED
    BY <1>3, <2>4
<1>5. Reads(g)
  <2>1. \A i \in 0..last : g[i] = IF i = 0 THEN << >>
                                  ELSE AddPeer(g[i - 1], Lines[i], host)
    BY <1>2, <1>3, <1>4
  <2> QED
    BY <1>3, <2>1
<1> DEFINE read == CHOOSE f : Reads(f)
<1>6. Reads(read)
  <2> HIDE DEF Reads
  <2> QED
    BY <1>5, Zenon
<1>7. topology_getNbrArray(host) = read[last]
  BY Zenon DEF topology_getNbrArray
<1> HIDE DEF read
<1>8. read[0] = << >> /\ \A i \in 1..last : read[i] = AddPeer(read[i - 1], Lines[i], host)
  BY <1>2, <1>6
<1> QED
  BY <1>7, <1>8

\* The peers of host on the first n lines.
Peers(host, n) == {Peer(Lines[i], host) : i \in {j \in 1..n : Names(Lines[j], host)}}

\* topology.dat has each link once, and no host is its own neighbour.
LinksOnce ==
    \A i, j \in DOMAIN Lines :
      /\ Lines[i].host1 /= Lines[i].host2
      /\ Joins(i, Lines[j].host1, Lines[j].host2) => i = j

\* topology_getNbrArray returns each peer of the host's links once.
LEMMA NbrsAreJoined ==
    ASSUME LinksOnce, NEW host
    PROVE  /\ topology_getNbrArray(host) \in Seq(Nat)
           /\ IsInjective(topology_getNbrArray(host))
           /\ \A m : m \in ToSet(topology_getNbrArray(host)) <=>
                       \E i \in DOMAIN Lines : Joins(i, host, m)
<1> DEFINE last == Len(Lines)
           Distinct(s) == \A i, j \in DOMAIN s : s[i] = s[j] => i = j
<1>1. last \in Nat /\ DOMAIN Lines = 1..last
  BY LinesAssumption
<1>2. PICK read :
        /\ read[0] = << >>
        /\ \A i \in 1..last : read[i] = AddPeer(read[i - 1], Lines[i], host)
        /\ topology_getNbrArray(host) = read[last]
  BY PeersLoop
<1> DEFINE Good(n) == /\ read[n] \in Seq(Nat)
                      /\ ToSet(read[n]) = Peers(host, n)
                      /\ Distinct(read[n])
           S == {n \in Nat : n <= last => Good(n)}
<1>3. 0 \in S
  <2>1. << >> \in Seq(Nat) /\ ToSet(<< >>) = {} /\ Peers(host, 0) = {}
        /\ Distinct(<< >>)
    BY DEF ToSet, Peers
  <2> QED
    BY <1>2, <2>1
<1>4. \A n \in Nat : n \in S => n + 1 \in S
  <2> SUFFICES ASSUME NEW n \in Nat, Good(n), n + 1 <= last
               PROVE  Good(n + 1)
    <3> HIDE DEF Good
    <3> QED
      BY <1>1
  <2> DEFINE line == Lines[n + 1]
  <2>1. read[n] \in Seq(Nat) /\ ToSet(read[n]) = Peers(host, n) /\ Distinct(read[n])
    BY <1>1
  <2>2. n + 1 \in 1..last /\ (n + 1) - 1 = n
    BY <1>1
  <2>3. read[n + 1] = AddPeer(read[n], line, host)
    BY <1>2, <2>2
  <2>4. line.host1 \in Nat /\ line.host2 \in Nat
    BY <2>2, LineType
  <2>5. 1..(n + 1) = (1..n) \cup {n + 1}
    OBVIOUS
  <2>6. CASE ~Names(line, host)
    <3>1. read[n + 1] = read[n]
      BY <2>3, <2>6 DEF AddPeer
    <3>2. Peers(host, n + 1) = Peers(host, n)
      BY <2>5, <2>6, Zenon DEF Peers
    <3> QED
      BY <2>1, <3>1, <3>2
  <2>7. CASE Names(line, host)
    <3> DEFINE m == Peer(line, host)
    <3>1. read[n + 1] = Append(read[n], m)
      BY <2>3, <2>7 DEF AddPeer
    <3>2. m \in Nat
      BY <2>4 DEF Peer
    <3>3. Peers(host, n + 1) = Peers(host, n) \cup {m}
      BY <2>5, <2>7, Zenon DEF Peers
    <3>4. m \notin Peers(host, n)
      <4> SUFFICES ASSUME NEW i \in 1..n, Names(Lines[i], host),
                          Peer(Lines[i], host) = m
                   PROVE  FALSE
        BY DEF Peers
      <4>1. i \in 1..last /\ i /= n + 1
        BY <1>1, <2>2
      <4>2. Joins(i, line.host1, line.host2)
        BY <2>7 DEF Names, Peer, Joins
      <4> QED
        BY <1>1, <2>2, <4>1, <4>2 DEF LinksOnce
    <3> HIDE DEF m
    <3>5. /\ Append(read[n], m) \in Seq(Nat)
          /\ ToSet(Append(read[n], m)) = ToSet(read[n]) \cup {m}
          /\ DOMAIN Append(read[n], m) = DOMAIN read[n] \cup {Len(read[n]) + 1}
          /\ \A i \in DOMAIN read[n] : Append(read[n], m)[i] = read[n][i]
          /\ Append(read[n], m)[Len(read[n]) + 1] = m
          /\ Len(read[n]) + 1 \notin DOMAIN read[n]
      BY <2>1, <3>2, AppendElement
    <3>7. \A i \in DOMAIN read[n] : read[n][i] /= m
      BY <2>1, <3>4, Zenon DEF ToSet
    <3>8. Distinct(Append(read[n], m))
      BY <2>1, <3>5, <3>7, Zenon
    <3>9. read[n + 1] \in Seq(Nat)
      BY <3>1, <3>5
    <3>10. ToSet(read[n + 1]) = Peers(host, n + 1)
      BY <2>1, <3>1, <3>3, <3>5, Zenon
    <3>11. Distinct(read[n + 1])
      BY <3>1, <3>8, Zenon
    <3> QED
      BY <3>9, <3>10, <3>11
  <2> QED
    BY <2>6, <2>7
<1>5. last \in S
  <2> HIDE DEF S
  <2> QED
    BY <1>1, <1>3, <1>4, Induction
<1>6. /\ read[last] \in Seq(Nat)
      /\ ToSet(read[last]) = Peers(host, last)
      /\ IsInjective(read[last])
  BY <1>1, <1>5 DEF IsInjective
<1>7. ASSUME NEW m
      PROVE  m \in Peers(host, last) <=> \E i \in 1..last : Joins(i, host, m)
  <2>1. ASSUME NEW i \in 1..last
        PROVE  Names(Lines[i], host) /\ Peer(Lines[i], host) = m <=> Joins(i, host, m)
    BY <1>1 DEF Names, Peer, Joins, LinksOnce
  <2> QED
    BY <2>1 DEF Peers
<1> QED
  BY <1>1, <1>2, <1>6, <1>7

\* A line joins two hosts at a positive cost, none above INFINITE_COST.
WellFormed ==
    /\ INFINITE_COST \in Nat \ {0}
    /\ \A i \in DOMAIN Lines : /\ Lines[i].host1 /= Lines[i].host2
                               /\ Lines[i].cost > 0
                               /\ Lines[i].cost <= INFINITE_COST

\* The lines that join the two hosts.
LineOf(from, to) == {i \in DOMAIN Lines : Joins(i, from, to)}

\* The search for a link of two hosts ends at its first line.
LEMMA FirstLine ==
    ASSUME NEW from, NEW to, LineOf(from, to) /= {}
    PROVE  \E i \in LineOf(from, to) : \A j \in LineOf(from, to) : i <= j
<1>1. LineOf(from, to) \subseteq Nat
  BY LinesAssumption DEF LineOf
<1>2. PICK i \in LineOf(from, to) :
        \A j \in LineOf(from, to) : ~(<<j, i>> \in OpToRel(<, Nat))
  BY <1>1, NatLessThanWellFounded, WFMin
<1>3. ASSUME NEW j \in LineOf(from, to) PROVE i <= j
  <2>1. i \in Nat /\ j \in Nat
    BY <1>1
  <2>2. ~(j < i)
    BY <1>2, <2>1 DEF OpToRel
  <2> QED
    BY <2>1, <2>2
<1> QED
  BY <1>3

\* What topology_getCost returns is the cost on that line, or INFINITE_COST.
LEMMA CostByLine ==
    ASSUME NEW from, NEW to
    PROVE  topology_getCost(from, to) =
             IF from = to THEN 0
             ELSE IF LineOf(from, to) = {} THEN INFINITE_COST
             ELSE Lines[CHOOSE i \in LineOf(from, to) :
                          \A j \in LineOf(from, to) : i <= j].cost
  BY DEF topology_getCost, LineOf

\* It is the cost on one of the link's lines.
LEMMA CostOfLink ==
    ASSUME NEW from, NEW to, from /= to
    PROVE  \/ LineOf(from, to) = {} /\ topology_getCost(from, to) = INFINITE_COST
           \/ \E i \in LineOf(from, to) : topology_getCost(from, to) = Lines[i].cost
<1>1. CASE LineOf(from, to) = {}
  BY <1>1, CostByLine
<1>2. CASE LineOf(from, to) /= {}
  <2> DEFINE first == CHOOSE i \in LineOf(from, to) :
                        \A j \in LineOf(from, to) : i <= j
  <2>1. first \in LineOf(from, to)
    BY <1>2, FirstLine
  <2>2. topology_getCost(from, to) = Lines[first].cost
    BY <1>2, CostByLine
  <2> QED
    BY <2>1, <2>2
<1> QED
  BY <1>1, <1>2

\* topology_getCost gives the network layer costs as it assumes them: within
\* INFINITE_COST, zero from a node to itself only, and the same in both
\* directions, whichever of two lines of one link the search finds.
THEOREM CostsSuitRouting ==
    ASSUME WellFormed, NEW from, NEW to
    PROVE  /\ topology_getCost(from, to) \in 0..INFINITE_COST
           /\ topology_getCost(from, to) = 0 <=> from = to
           /\ topology_getCost(from, to) = topology_getCost(to, from)
<1>1. LineOf(from, to) = LineOf(to, from)
  BY DEF LineOf, Joins
<1>2. topology_getCost(from, to) = topology_getCost(to, from)
  BY <1>1, CostByLine
<1>3. CASE from = to
  BY <1>2, <1>3, CostByLine DEF WellFormed
<1>4. CASE from /= to
  <2>1. ASSUME NEW i \in LineOf(from, to)
        PROVE  Lines[i].cost \in 0..INFINITE_COST /\ Lines[i].cost /= 0
    <3>1. i \in DOMAIN Lines
      BY DEF LineOf
    <3>2. Lines[i] \in [host1 : Nat, host2 : Nat, cost : Nat]
      BY <3>1, Element, LinesAssumption, Zenon
    <3>3. Lines[i].cost \in Nat
      BY <3>2
    <3> QED
      BY <3>1, <3>3 DEF WellFormed
  <2>2. CASE LineOf(from, to) = {}
    <3>1. topology_getCost(from, to) = INFINITE_COST
      BY <1>4, <2>2, CostByLine
    <3> QED
      BY <1>2, <1>4, <3>1 DEF WellFormed
  <2>3. CASE LineOf(from, to) /= {}
    BY <1>2, <1>4, <2>1, <2>3, CostOfLink
  <2> QED
    BY <2>2, <2>3
<1> QED
  BY <1>2, <1>3, <1>4

(***************************************************************************)
(* The neighbour tables                                                    *)
(***************************************************************************)
TablesOK ==
    /\ Nodes \subseteq Nat
    /\ \A n \in Nodes :
         /\ NbrArray[n] \in Seq(Nodes)
         /\ IsInjective(NbrArray[n])
         /\ n \notin Nbrs(n)
         /\ \A m \in Nodes : m \in Nbrs(n) <=> n \in Nbrs(m)

(***************************************************************************)
(* The neighbour tables of any overlay whose file names each link once: a  *)
(* node's table has each of its neighbours once, never the node itself,    *)
(* and two nodes are in each other's table or in neither.  This is all     *)
(* that connectNbrs and waitNbrs need of the file.                         *)
(***************************************************************************)
THEOREM TablesMatch == LinksOnce => TablesOK
<1> SUFFICES ASSUME LinksOnce PROVE TablesOK
  OBVIOUS
<1>1. Nodes \subseteq Nat /\ Nodes = Hosts(Len(Lines)) /\ DOMAIN Lines = 1..Len(Lines)
  BY NodesAreHosts, LinesAssumption
<1>2. ASSUME NEW n \in Nodes
      PROVE  /\ NbrArray[n] \in Seq(Nat) /\ IsInjective(NbrArray[n])
             /\ \A m : m \in Nbrs(n) <=> \E i \in DOMAIN Lines : Joins(i, n, m)
  BY NbrsAreJoined DEF NbrArray, Nbrs
<1>3. ASSUME NEW n \in Nodes, NEW m \in Nbrs(n) PROVE m \in Nodes /\ m /= n
  <2>1. PICK i \in DOMAIN Lines : Joins(i, n, m)
    BY <1>2, <1>3
  <2>2. Lines[i].host1 \in Hosts(Len(Lines)) /\ Lines[i].host2 \in Hosts(Len(Lines))
    BY <1>1 DEF Hosts
  <2> QED
    BY <1>1, <2>1, <2>2 DEF Joins, LinksOnce
<1>4. ASSUME NEW n \in Nodes, NEW m \in Nodes PROVE m \in Nbrs(n) <=> n \in Nbrs(m)
  BY <1>2 DEF Joins
<1>5. ASSUME NEW n \in Nodes PROVE NbrArray[n] \in Seq(Nodes)
  <2>1. \A i \in DOMAIN NbrArray[n] : NbrArray[n][i] \in Nodes
    BY <1>3 DEF Nbrs, ToSet
  <2> QED
    BY <1>2, <2>1
<1> QED
  BY <1>1, <1>2, <1>3, <1>4, <1>5 DEF TablesOK
----
(***************************************************************************)
(* The inductive invariant.                                                *)
(***************************************************************************)

\* A process that does not run has nothing, and every running one was started.
OffOrGone ==
    \A n \in Nodes :
      /\ starts[n] = 0 <=> onPc[n] = "off"
      /\ listening[n] => Alive(n) /\ awaited[n] > 0
      /\ ~Alive(n) =>
           /\ awaited[n] = 0 /\ backlog[n] = << >>
           /\ nt[n] = EmptyTable /\ connecting[n] = 1

\* x is a neighbour of m with a larger node ID.
Above(x, m) == x > m /\ m \in Nbrs(x)

\* Connections are between neighbours that were started, the larger one asked.
Between(c, x, m) ==
    /\ c /= NoConn /\ c[1] = x /\ c[2] = m /\ Above(x, m)
    /\ c[3] <= starts[x] /\ c[4] <= starts[m]

ConnsOK ==
    \A n \in Nodes :
      /\ \A k \in DOMAIN backlog[n] : Between(backlog[n][k], backlog[n][k][1], n)
      /\ \A m \in Nodes : nt[n][m] /= NoConn =>
           Between(nt[n][m], n, m) \/ Between(nt[n][m], m, n)

\* Positions of the neighbours that the loop of connectNbrs has dealt with;
\* they were there.
Dealt(n) == {i \in SmallerNbrs[n] : i < connecting[n]}

DealtWereThere == \A n \in Nodes : \A i \in Dealt(n) : starts[NbrArray[n][i]] > 0

\* What late says, and where main goes on.
InTime ==
    ~late => \A n \in Nodes :
      /\ starts[n] <= 1 /\ onPc[n] /= "gone"
      /\ onPc[n] \notin {"off", "connect"} => AllPast(SmallerNbrs[n], connecting[n])

JoinedAfterAll ==
    \A n \in Nodes : Joined(n) => awaited[n] > 0 /\ AllPast(LargerNbrs[n], awaited[n])

(***************************************************************************)
(* As long as no process was started again, every connection is the one    *)
(* connection between its ends.                                            *)
(***************************************************************************)
StartedOnce == \A n \in Nodes : starts[n] <= 1
Only(x, m) == <<x, m, 1, 1>>

\* x has connected to m, or did so as far as anybody can tell.
Connected(x, m) ==
    \/ onPc[x] = "gone"
    \/ \E i \in Dealt(x) : NbrArray[x][i] = m

InBacklog(x, m) == \E k \in DOMAIN backlog[m] : backlog[m][k][1] = x

OnlyConns ==
    \A m \in Nodes :
      /\ \A k, l \in DOMAIN backlog[m] :
           backlog[m][k][1] = backlog[m][l][1] => k = l
      /\ \A x \in Nodes :
           InBacklog(x, m) \/ (x > m /\ nt[m][x] /= NoConn) => Connected(x, m)

\* A neighbour that is connected and running is in the table, at both ends.
EnteredBelow ==
    \A n \in Nodes : \A i \in Dealt(n) :
      Alive(NbrArray[n][i]) => nt[n][NbrArray[n][i]] = Only(n, NbrArray[n][i])

EnteredAbove ==
    \A m, x \in Nodes :
      Above(x, m) /\ Alive(x) /\ Alive(m) /\ Connected(x, m) /\ ~InBacklog(x, m)
        => nt[m][x] = Only(x, m)

\* waitNbrs has not gone further than there are neighbours it is done with.
Passed(m) == {i \in LargerNbrs[m] : i < awaited[m]}
Done(m) ==
    {i \in LargerNbrs[m] : /\ Connected(NbrArray[m][i], m)
                           /\ ~InBacklog(NbrArray[m][i], m)}

AcceptsCounted ==
    \A m \in Nodes : Alive(m) => Cardinality(Passed(m)) <= Cardinality(Done(m))

IfStartedOnce ==
    StartedOnce => OnlyConns /\ EnteredBelow /\ EnteredAbove /\ AcceptsCounted

IInv ==
    /\ TypeOK /\ OffOrGone /\ ConnsOK /\ DealtWereThere /\ InTime
    /\ JoinedAfterAll /\ IfStartedOnce
----
\* What the tables hold, as the loops see it.
LEMMA Entries ==
    ASSUME TablesOK, NEW n \in Nodes
    PROVE  /\ n \in Nat
           /\ Len(NbrArray[n]) \in Nat /\ DOMAIN NbrArray[n] = 1..Len(NbrArray[n])
           /\ \A i \in DOMAIN NbrArray[n] : NbrArray[n][i] \in Nodes
           /\ \A i, j \in DOMAIN NbrArray[n] :
                NbrArray[n][i] = NbrArray[n][j] => i = j
           /\ LargerNbrs[n] \subseteq DOMAIN NbrArray[n]
           /\ SmallerNbrs[n] \subseteq DOMAIN NbrArray[n]
           /\ \A i \in LargerNbrs[n] : Above(NbrArray[n][i], n)
           /\ \A i \in SmallerNbrs[n] : Above(n, NbrArray[n][i])
           /\ \A m \in Nodes : Above(m, n) => \E i \in LargerNbrs[n] : NbrArray[n][i] = m
           /\ \A m \in Nodes : Above(n, m) => \E i \in SmallerNbrs[n] : NbrArray[n][i] = m
<1>1. /\ NbrArray[n] \in Seq(Nodes) /\ n \in Nat /\ Nodes \subseteq Nat
      /\ \A i, j \in DOMAIN NbrArray[n] : NbrArray[n][i] = NbrArray[n][j] => i = j
  BY DEF TablesOK, IsInjective
<1>2. /\ Len(NbrArray[n]) \in Nat /\ DOMAIN NbrArray[n] = 1..Len(NbrArray[n])
      /\ \A i \in DOMAIN NbrArray[n] : NbrArray[n][i] \in Nodes
  BY <1>1
<1>3. \A i \in DOMAIN NbrArray[n] : NbrArray[n][i] \in Nbrs(n)
  BY DEF Nbrs, ToSet
<1>4. \A m \in Nbrs(n) : \E i \in DOMAIN NbrArray[n] : NbrArray[n][i] = m
  BY DEF Nbrs, ToSet
<1>5. \A m \in Nodes : m \in Nbrs(n) <=> n \in Nbrs(m)
  BY DEF TablesOK
<1>6. /\ LargerNbrs[n] = {i \in DOMAIN NbrArray[n] : NbrArray[n][i] > n}
      /\ SmallerNbrs[n] = {i \in DOMAIN NbrArray[n] : NbrArray[n][i] < n}
  BY DEF LargerNbrs, SmallerNbrs
<1>7. \A m \in Nodes : m < n <=> n > m
  BY <1>1
<1>8. /\ LargerNbrs[n] \subseteq DOMAIN NbrArray[n]
      /\ SmallerNbrs[n] \subseteq DOMAIN NbrArray[n]
  BY <1>6
<1>9. \A i \in LargerNbrs[n] : Above(NbrArray[n][i], n)
  BY <1>2, <1>3, <1>5, <1>6 DEF Above
<1>10. \A i \in SmallerNbrs[n] : Above(n, NbrArray[n][i])
  BY <1>2, <1>3, <1>6, <1>7 DEF Above
<1>11. \A m \in Nodes : Above(m, n) => \E i \in LargerNbrs[n] : NbrArray[n][i] = m
  BY <1>4, <1>5, <1>6 DEF Above
<1>12. \A m \in Nodes : Above(n, m) => \E i \in SmallerNbrs[n] : NbrArray[n][i] = m
  BY <1>4, <1>6, <1>7 DEF Above
<1> QED
  BY <1>1, <1>2, <1>8, <1>9, <1>10, <1>11, <1>12

\* A node has finitely many larger neighbours.
LEMMA Finite ==
    ASSUME TablesOK, NEW n \in Nodes
    PROVE  IsFiniteSet(LargerNbrs[n])
<1>1. IsFiniteSet(DOMAIN NbrArray[n])
  BY Entries, FS_Interval
<1> QED
  BY <1>1, Entries, FS_Subset

\* No process runs yet.
LEMMA InitIInv == ASSUME TablesOK, Init PROVE IInv
<1>1. TypeOK
  <2>1. backlog \in [Nodes -> Seq(Conns)] /\ awaited \in [Nodes -> Nat] /\ connecting \in [Nodes -> Nat]
    BY DEF Init
  <2>2. nt \in [Nodes -> [Nodes -> Conns]]
    BY DEF Init, EmptyTable, Conns
  <2>3. /\ onPc \in [Nodes -> {"off", "connect", "join", "network", "serve", "gone"}]
        /\ listening \in [Nodes -> BOOLEAN] /\ snpUp \in [Nodes -> BOOLEAN]
        /\ late \in BOOLEAN
    BY DEF Init
  <2>4. \A n \in Nodes : /\ awaited[n] \in 0..(Len(NbrArray[n]) + 1)
                         /\ connecting[n] \in 1..(Len(NbrArray[n]) + 1)
    BY Entries DEF Init
  <2>5. starts \in [Nodes -> 0..MaxStarts] /\ stops \in 0..MaxStops
    BY BoundsAssumption DEF Init
  <2> QED
    BY <2>1, <2>2, <2>3, <2>4, <2>5 DEF TypeOK
<1>2. OffOrGone
  BY DEF Init, OffOrGone, Alive
<1>3. ConnsOK
  BY DEF Init, ConnsOK, EmptyTable
<1>4. \A n \in Nodes : Dealt(n) = {}
  BY Entries DEF Init, Dealt
<1>5. DealtWereThere
  BY <1>4 DEF DealtWereThere
<1>6. InTime
  BY DEF Init, InTime
<1>7. JoinedAfterAll
  BY DEF Init, JoinedAfterAll, Joined
<1>8. OnlyConns /\ EnteredBelow /\ EnteredAbove /\ AcceptsCounted
  BY <1>4 DEF Init, OnlyConns, EnteredBelow, EnteredAbove, AcceptsCounted, Alive,
     InBacklog, EmptyTable
<1> QED
  BY <1>1, <1>2, <1>3, <1>5, <1>6, <1>7, <1>8 DEF IInv, IfStartedOnce

(***************************************************************************)
(* Steps that leave connections, and which processes run, as they are      *)
(***************************************************************************)
SameConns ==
    /\ UNCHANGED <<backlog, nt, connecting, starts>>
    /\ \A n \in Nodes : /\ Alive(n)' <=> Alive(n)
                        /\ onPc'[n] = "gone" <=> onPc[n] = "gone"
                        /\ onPc'[n] = "off" <=> onPc[n] = "off"

\* What the invariant says of the connections still holds then.
LEMMA ConnsStay ==
    ASSUME TablesOK, IInv, SameConns
    PROVE  /\ ConnsOK' /\ DealtWereThere'
           /\ StartedOnce' =>
                StartedOnce /\ OnlyConns' /\ EnteredBelow' /\ EnteredAbove'
           /\ \A m \in Nodes : Done(m)' = Done(m)
<1>1. ConnsOK' /\ DealtWereThere'
  BY DEF IInv, SameConns, ConnsOK, Between, DealtWereThere, Dealt
<1>2. /\ \A n \in Nodes : Dealt(n)' = Dealt(n)
      /\ \A x, m \in Nodes : /\ InBacklog(x, m)' <=> InBacklog(x, m)
                             /\ Connected(x, m)' <=> Connected(x, m)
  BY DEF SameConns, Dealt, InBacklog, Connected
<1>3. StartedOnce' => StartedOnce
  BY DEF SameConns, StartedOnce
<1>4. ASSUME StartedOnce PROVE OnlyConns' /\ EnteredBelow' /\ EnteredAbove'
  <2>1. OnlyConns /\ EnteredBelow /\ EnteredAbove
    BY <1>4 DEF IInv, IfStartedOnce
  <2>2. OnlyConns'
    BY <1>2, <2>1 DEF OnlyConns, SameConns
  <2>3. EnteredBelow'
    <3>1. \A n \in Nodes : \A i \in Dealt(n) : NbrArray[n][i] \in Nodes
      BY Entries DEF Dealt
    <3> QED
      BY <1>2, <2>1, <3>1 DEF EnteredBelow, SameConns
  <2>4. EnteredAbove'
    BY <1>2, <2>1 DEF EnteredAbove, SameConns
  <2> QED
    BY <2>2, <2>3, <2>4
<1>5. ASSUME NEW m \in Nodes PROVE Done(m)' = Done(m)
  <2>1. \A i \in LargerNbrs[m] : NbrArray[m][i] \in Nodes
    BY Entries
  <2> QED
    BY <1>2, <2>1 DEF Done
<1> QED
  BY <1>1, <1>3, <1>4, <1>5

\* connectNbrs ends; late is what excuses an end before its time.
LEMMA ConnectRefusedStep ==
    ASSUME TablesOK, IInv, NEW n \in Nodes, ConnectRefused(n) \/ ConnectDone(n)
    PROVE  IInv'
<1>0. /\ onPc[n] = "connect" /\ onPc' = [onPc EXCEPT ![n] = "join"]
      /\ UNCHANGED <<listening, awaited, backlog, nt, connecting, snpUp, starts, stops>>
      /\ late' = TRUE \/ (late' = late /\ AllPast(SmallerNbrs[n], connecting[n]))
  BY DEF ConnectRefused, ConnectDone
<1>1. TypeOK'
  BY <1>0 DEF IInv, TypeOK
<1>2. SameConns
  BY <1>0 DEF IInv, TypeOK, SameConns, Alive
<1>3. OffOrGone'
  BY <1>0, <1>2 DEF IInv, OffOrGone, SameConns
<1>4. InTime'
  BY <1>0 DEF IInv, TypeOK, InTime
<1>5. JoinedAfterAll'
  BY <1>0 DEF IInv, TypeOK, JoinedAfterAll, Joined
<1>6. ASSUME StartedOnce PROVE AcceptsCounted'
  <2>1. \A m \in Nodes : Passed(m)' = Passed(m)
    BY <1>0 DEF Passed
  <2>2. \A m \in Nodes : (Alive(m)' <=> Alive(m)) /\ Done(m)' = Done(m)
    BY <1>2, ConnsStay DEF SameConns
  <2> QED
    BY <1>6, <2>1, <2>2 DEF IInv, IfStartedOnce, AcceptsCounted
<1> QED
  BY <1>1, <1>2, <1>3, <1>4, <1>5, <1>6, ConnsStay DEF IInv, IfStartedOnce

\* main goes on after pthread_join only when waitNbrs is done.
LEMMA JoinStep ==
    ASSUME TablesOK, IInv, NEW n \in Nodes, JoinWaitNbrs(n) \/ StartNetwork(n)
    PROVE  IInv'
<1>0. /\ UNCHANGED <<listening, awaited, backlog, nt, connecting, starts, stops, late>>
      /\ \/ /\ onPc[n] = "join" /\ onPc' = [onPc EXCEPT ![n] = "network"]
            /\ WaitNbrsReturned(n) /\ snpUp' = snpUp
         \/ /\ onPc[n] = "network" /\ onPc' = [onPc EXCEPT ![n] = "serve"]
            /\ snpUp' = [snpUp EXCEPT ![n] = TRUE]
  BY DEF JoinWaitNbrs, StartNetwork
<1>1. TypeOK'
  BY <1>0 DEF IInv, TypeOK
<1>2. SameConns
  BY <1>0 DEF IInv, TypeOK, SameConns, Alive
<1>3. OffOrGone'
  BY <1>0, <1>2 DEF IInv, OffOrGone, SameConns
<1>4. InTime'
  BY <1>0 DEF IInv, TypeOK, InTime
<1>5. JoinedAfterAll'
  BY <1>0 DEF IInv, TypeOK, JoinedAfterAll, Joined, WaitNbrsReturned
<1>6. ASSUME StartedOnce PROVE AcceptsCounted'
  <2>1. \A m \in Nodes : Passed(m)' = Passed(m)
    BY <1>0 DEF Passed
  <2>2. \A m \in Nodes : (Alive(m)' <=> Alive(m)) /\ Done(m)' = Done(m)
    BY <1>2, ConnsStay DEF SameConns
  <2> QED
    BY <1>6, <2>1, <2>2 DEF IInv, IfStartedOnce, AcceptsCounted
<1> QED
  BY <1>1, <1>2, <1>3, <1>4, <1>5, <1>6, ConnsStay DEF IInv, IfStartedOnce

\* What the invariant counts is finite.
LEMMA DoneFinite ==
    ASSUME TablesOK, NEW m \in Nodes
    PROVE  /\ IsFiniteSet(Done(m)) /\ Cardinality(Done(m)) \in Nat
           /\ IsFiniteSet(Passed(m)) /\ Cardinality(Passed(m)) \in Nat
<1>1. Done(m) \subseteq LargerNbrs[m] /\ Passed(m) \subseteq LargerNbrs[m]
  BY DEF Done, Passed
<1> QED
  BY <1>1, Finite, FS_Subset, FS_CardinalityType

\* waitNbrs has passed nobody when it begins to listen.
LEMMA ListenStep ==
    ASSUME TablesOK, IInv, NEW n \in Nodes, Listen(n) \/ ListenFails(n)
    PROVE  IInv'
<1>0. /\ UNCHANGED <<onPc, backlog, nt, connecting, snpUp, starts, stops>>
      /\ Alive(n) /\ awaited[n] = 0
      /\ \/ /\ listening' = [listening EXCEPT ![n] = TRUE]
            /\ awaited' = [awaited EXCEPT ![n] = 1] /\ late' = late
         \/ /\ listening' = listening /\ starts[n] > 1 /\ late' = TRUE
            /\ awaited' = [awaited EXCEPT ![n] = Len(NbrArray[n]) + 1]
  BY DEF Listen, ListenFails
<1>1. \A m \in Nodes : Len(NbrArray[m]) \in Nat
  BY Entries
<1>a. PICK k \in 1..(Len(NbrArray[n]) + 1) : awaited' = [awaited EXCEPT ![n] = k]
  BY <1>0, <1>1
<1>b. /\ awaited' \in [Nodes -> Nat] /\ awaited'[n] = k
      /\ \A m \in Nodes : m /= n => awaited'[m] = awaited[m]
  BY <1>a DEF IInv, TypeOK
<1>2. TypeOK'
  <2>1. \A m \in Nodes : awaited'[m] \in 0..(Len(NbrArray[m]) + 1)
    BY <1>1, <1>a, <1>b DEF IInv, TypeOK
  <2>2. listening' \in [Nodes -> BOOLEAN] /\ late' \in BOOLEAN
    BY <1>0 DEF IInv, TypeOK
  <2> QED
    BY <1>0, <1>b, <2>1, <2>2 DEF IInv, TypeOK
<1>3. SameConns
  BY <1>0 DEF SameConns, Alive
<1>4. OffOrGone'
  BY <1>0, <1>b, <1>3 DEF IInv, TypeOK, OffOrGone, SameConns
<1>5. InTime'
  BY <1>0 DEF IInv, InTime
<1>6. JoinedAfterAll'
  <2>1. ~Joined(n)'
    <3>1. onPc'[n] = onPc[n] /\ awaited[n] = 0
      BY <1>0
    <3> QED
      BY <3>1 DEF IInv, JoinedAfterAll, Joined
  <2>2. \A m \in Nodes : m /= n => (Joined(m)' <=> Joined(m)) /\ awaited'[m] = awaited[m]
    BY <1>0, <1>b DEF Joined
  <2> QED
    BY <2>1, <2>2 DEF IInv, JoinedAfterAll
<1>7. ASSUME StartedOnce' PROVE AcceptsCounted'
  <2>1. StartedOnce
    BY <1>3, <1>7, ConnsStay
  <2>2. awaited' = [awaited EXCEPT ![n] = 1]
    BY <1>0, <2>1 DEF StartedOnce, IInv, TypeOK
  <2>3. ASSUME NEW m \in Nodes, Alive(m)'
        PROVE  Cardinality(Passed(m)') <= Cardinality(Done(m)')
    <3>1. Done(m)' = Done(m) /\ Alive(m)
      BY <1>3, <2>3, ConnsStay DEF SameConns
    <3>2. CASE m = n
      <4>1. Passed(m)' = {}
        <5>1. awaited'[m] = 1
          BY <2>2, <3>2 DEF IInv, TypeOK
        <5>2. \A i \in LargerNbrs[m] : i \in Nat /\ ~(i < 1)
          BY Entries
        <5> QED
          BY <5>1, <5>2 DEF Passed
      <4> QED
        BY <3>1, <4>1, DoneFinite, FS_EmptySet
    <3>3. CASE m /= n
      <4>1. Passed(m)' = Passed(m)
        BY <1>b, <3>3 DEF Passed
      <4> QED
        BY <2>1, <3>1, <4>1 DEF IInv, IfStartedOnce, AcceptsCounted
    <3> QED
      BY <3>2, <3>3
  <2> QED
    BY <2>3 DEF AcceptsCounted
<1> QED
  BY <1>2, <1>3, <1>4, <1>5, <1>6, <1>7, ConnsStay DEF IInv, IfStartedOnce

\* Nothing changes.
LEMMA StutterStep ==
    ASSUME TablesOK, IInv, UNCHANGED vars
    PROVE  IInv'
<1>1. SameConns
  BY DEF SameConns, vars, nodeVars, Alive
<1>2. \A m \in Nodes : Passed(m)' = Passed(m) /\ Done(m)' = Done(m)
  BY <1>1, ConnsStay DEF Passed, vars, nodeVars
<1>3. StartedOnce => AcceptsCounted'
  BY <1>1, <1>2 DEF IInv, IfStartedOnce, AcceptsCounted, SameConns
<1>4. TypeOK' /\ OffOrGone' /\ InTime' /\ JoinedAfterAll'
  BY DEF IInv, TypeOK, OffOrGone, InTime, JoinedAfterAll, vars, nodeVars, Alive, Joined
<1> QED
  BY <1>1, <1>3, <1>4, ConnsStay DEF IInv, IfStartedOnce

\* What accept takes from the backlog.
LEMMA TailOfBacklog ==
    ASSUME TypeOK, ConnsOK, NEW n \in Nodes, backlog[n] /= << >>,
           backlog' = [backlog EXCEPT ![n] = Tail(@)],
           NEW x, x = Head(backlog[n])[1]
    PROVE  /\ backlog' \in [Nodes -> Seq(Conns)]
           /\ InBacklog(x, n)
           /\ Head(backlog[n]) \in Conns /\ Between(Head(backlog[n]), x, n)
           /\ \A k \in DOMAIN backlog'[n] :
                k + 1 \in DOMAIN backlog[n] /\ backlog'[n][k] = backlog[n][k + 1]
           /\ \A m \in Nodes : m /= n => backlog'[m] = backlog[m]
           /\ \A y, m \in Nodes :
                m /= n \/ y /= x => (InBacklog(y, m)' <=> InBacklog(y, m))
           /\ OnlyConns => ~InBacklog(x, n)'
<1> DEFINE s == backlog[n]
<1>1. s \in Seq(Conns)
  BY DEF TypeOK
<1>2. /\ Tail(s) \in Seq(Conns) /\ Head(s) \in Conns /\ Head(s) = s[1]
      /\ 1 \in DOMAIN s
      /\ \A k \in DOMAIN Tail(s) : k \in Nat \ {0} /\ k + 1 \in DOMAIN s /\ Tail(s)[k] = s[k + 1]
      /\ \A k \in DOMAIN s : k /= 1 => k - 1 \in DOMAIN Tail(s) /\ s[k] = Tail(s)[k - 1]
  BY <1>1
<1>3. backlog'[n] = Tail(s) /\ \A m \in Nodes : m /= n => backlog'[m] = backlog[m]
  BY DEF TypeOK
<1>4. backlog' \in [Nodes -> Seq(Conns)]
  BY <1>2 DEF TypeOK
<1> HIDE DEF s
<1>5. InBacklog(x, n) /\ Between(Head(s), x, n)
  BY <1>2 DEF InBacklog, ConnsOK, s
<1>6. ASSUME NEW y, InBacklog(y, n)' PROVE InBacklog(y, n)
  <2>1. PICK k \in DOMAIN Tail(s) : Tail(s)[k][1] = y
    BY <1>3, <1>6 DEF InBacklog
  <2> QED
    BY <1>2, <2>1 DEF InBacklog, s
<1>7. ASSUME NEW y, y /= x, InBacklog(y, n) PROVE InBacklog(y, n)'
  <2>1. PICK k \in DOMAIN s : s[k][1] = y
    BY <1>7 DEF InBacklog, s
  <2>2. k /= 1
    BY <1>2, <1>7, <2>1 DEF s
  <2> QED
    BY <1>2, <1>3, <2>1, <2>2 DEF InBacklog
<1>8. ASSUME NEW y \in Nodes, NEW m \in Nodes, m /= n
      PROVE  InBacklog(y, m)' <=> InBacklog(y, m)
  BY <1>3, <1>8 DEF InBacklog
<1>9. ASSUME OnlyConns, InBacklog(x, n)' PROVE FALSE
  <2>1. PICK k \in DOMAIN Tail(s) : Tail(s)[k][1] = x
    BY <1>3, <1>9 DEF InBacklog
  <2>2. k + 1 \in DOMAIN s /\ s[k + 1][1] = x /\ s[1][1] = x /\ k + 1 /= 1
    BY <1>2, <2>1 DEF s
  <2> QED
    BY <1>2, <1>9, <2>2 DEF OnlyConns, s
<1> QED
  BY <1>2, <1>3, <1>4, <1>5, <1>6, <1>7, <1>8, <1>9 DEF s

\* The ends of a connection.
LEMMA ConnShape ==
    ASSUME NEW c \in Conns, NEW x, NEW m, Between(c, x, m)
    PROVE  /\ x \in Nodes /\ m \in Nodes /\ c \in Nodes \X Nodes \X (1..MaxStarts) \X (1..MaxStarts)
           /\ c = <<x, m, c[3], c[4]>> /\ c[3] \in 1..MaxStarts /\ c[4] \in 1..MaxStarts
           /\ Above(x, m) /\ x > m
BY BoundsAssumption DEF Conns, Between, Above

\* As long as nobody was started again there is only this one.
LEMMA ConnIsOnly ==
    ASSUME TypeOK, StartedOnce, NEW c \in Conns, NEW x, NEW m, Between(c, x, m)
    PROVE  c = Only(x, m)
<1>1. x \in Nodes /\ m \in Nodes
      /\ c = <<x, m, c[3], c[4]>> /\ c[3] \in 1..MaxStarts /\ c[4] \in 1..MaxStarts
  BY ConnShape
<1>2. starts[x] \in Nat /\ starts[m] \in Nat /\ starts[x] <= 1 /\ starts[m] <= 1
      /\ c[3] <= starts[x] /\ c[4] <= starts[m]
  BY <1>1, BoundsAssumption DEF TypeOK, StartedOnce, Between
<1>3. c[3] = 1 /\ c[4] = 1
  BY <1>1, <1>2, BoundsAssumption
<1> QED
  BY <1>1, <1>3 DEF Only

\* accept: the counted neighbour need not be the one that is entered.
LEMMA AcceptStep ==
    ASSUME TablesOK, IInv, NEW n \in Nodes, AcceptNbr(n)
    PROVE  IInv'
<1>h. PICK c : c = Head(backlog[n])
  OBVIOUS
<1>g. PICK x : x = c[1]
  OBVIOUS
<1>0. /\ UNCHANGED <<onPc, listening, connecting, snpUp, starts, stops, late>>
      /\ Alive(n) /\ listening[n] /\ backlog[n] /= << >>
      /\ nt' = [nt EXCEPT ![n][x] = c]
      /\ backlog' = [backlog EXCEPT ![n] = Tail(@)]
  BY <1>h, <1>g DEF AcceptNbr, EntryByAddress
<1>i. PICK i \in LargerNbrs[n] : /\ IsNext(i, LargerNbrs[n], awaited[n])
                                 /\ awaited' = [awaited EXCEPT ![n] = i + 1]
  BY DEF AcceptNbr
<1>c. /\ backlog' \in [Nodes -> Seq(Conns)]
      /\ InBacklog(x, n)
      /\ c \in Conns /\ Between(c, x, n)
      /\ \A k \in DOMAIN backlog'[n] :
           k + 1 \in DOMAIN backlog[n] /\ backlog'[n][k] = backlog[n][k + 1]
      /\ \A m \in Nodes : m /= n => backlog'[m] = backlog[m]
      /\ \A y, m \in Nodes :
           m /= n \/ y /= x => (InBacklog(y, m)' <=> InBacklog(y, m))
      /\ OnlyConns => ~InBacklog(x, n)'
  <2>1. TypeOK /\ ConnsOK
    BY DEF IInv
  <2> QED
    BY <1>0, <1>h, <1>g, <2>1, TailOfBacklog
<1>x. x \in Nodes /\ Above(x, n) /\ x > n /\ c /= NoConn
  BY <1>c, ConnShape DEF Between
<1>d. /\ i \in DOMAIN NbrArray[n] /\ DOMAIN NbrArray[n] = 1..Len(NbrArray[n])
      /\ \A m \in Nodes : Len(NbrArray[m]) \in Nat
      /\ n \in Nat /\ x \in Nat /\ ~(x < n)
  BY <1>x, Entries
<1>n. /\ nt' \in [Nodes -> [Nodes -> Conns]] /\ nt'[n][x] = c
      /\ \A m, y \in Nodes : m /= n \/ y /= x => nt'[m][y] = nt[m][y]
      /\ \A m \in Nodes : m /= n => nt'[m] = nt[m]
  BY <1>0, <1>c, <1>x DEF IInv, TypeOK
<1>a. /\ awaited' \in [Nodes -> Nat] /\ awaited'[n] = i + 1
      /\ \A m \in Nodes : m /= n => awaited'[m] = awaited[m]
  BY <1>i, <1>d DEF IInv, TypeOK
<1>2. TypeOK'
  <2>0. \A m \in Nodes : awaited[m] \in 0..(Len(NbrArray[m]) + 1)
    BY DEF IInv, TypeOK
  <2>1. \A m \in Nodes : awaited'[m] \in 0..(Len(NbrArray[m]) + 1)
    <3>1. i + 1 \in 0..(Len(NbrArray[n]) + 1)
      BY <1>d
    <3> QED
      BY <1>a, <2>0, <3>1
  <2> QED
    BY <1>0, <1>a, <1>c, <1>n, <2>1 DEF IInv, TypeOK
<1>3. \A m \in Nodes : Alive(m)' <=> Alive(m)
  BY <1>0 DEF Alive
<1>4. OffOrGone'
  <2>1. ASSUME NEW m \in Nodes, m /= n
        PROVE  awaited'[m] = awaited[m] /\ backlog'[m] = backlog[m] /\ nt'[m] = nt[m]
    BY <1>a, <1>c, <1>n, <2>1
  <2>2. awaited'[n] > 0
    BY <1>a, <1>d
  <2> QED
    BY <1>0, <1>3, <2>1, <2>2 DEF IInv, OffOrGone
<1>5. ConnsOK'
  <2>1. \A e, y, m : Between(e, y, m)' <=> Between(e, y, m)
    BY <1>0 DEF Between
  <2>2. ASSUME NEW m \in Nodes, NEW k \in DOMAIN backlog'[m]
        PROVE  Between(backlog'[m][k], backlog'[m][k][1], m)
    BY <1>c, <2>2 DEF IInv, ConnsOK
  <2>3. ASSUME NEW m \in Nodes, NEW y \in Nodes, nt'[m][y] /= NoConn
        PROVE  Between(nt'[m][y], m, y) \/ Between(nt'[m][y], y, m)
    BY <1>c, <1>n, <2>3 DEF IInv, ConnsOK
  <2> QED
    BY <2>1, <2>2, <2>3 DEF ConnsOK
<1>6. DealtWereThere' /\ InTime'
  BY <1>0 DEF IInv, DealtWereThere, Dealt, InTime
<1>7. JoinedAfterAll'
  <2>1. ~Joined(n)
    BY <1>d, <1>i DEF IInv, TypeOK, JoinedAfterAll, AllPast, IsNext
  <2> QED
    BY <1>0, <1>a, <2>1 DEF IInv, JoinedAfterAll, Joined
<1>8. ASSUME StartedOnce
      PROVE  OnlyConns' /\ EnteredBelow' /\ EnteredAbove' /\ AcceptsCounted'
  <2>0. OnlyConns /\ EnteredBelow /\ EnteredAbove /\ AcceptsCounted
    BY <1>8 DEF IInv, IfStartedOnce
  <2>1. /\ \A y, m \in Nodes : Connected(y, m)' <=> Connected(y, m)
        /\ \A m \in Nodes : Dealt(m)' = Dealt(m)
    BY <1>0 DEF Connected, Dealt
  <2>2. OnlyConns'
    <3>1. ASSUME NEW m \in Nodes, NEW k \in DOMAIN backlog'[m], NEW l \in DOMAIN backlog'[m],
                 backlog'[m][k][1] = backlog'[m][l][1]
          PROVE  k = l
      <4>1. CASE m = n
        <5>1. k + 1 = l + 1
          BY <1>c, <2>0, <3>1, <4>1 DEF OnlyConns
        <5>2. k \in Nat /\ l \in Nat
          <6>1. backlog'[m] \in Seq(Conns)
            BY <1>c
          <6> QED
            BY <6>1
        <5> QED
          BY <5>1, <5>2
      <4>2. CASE m /= n
        BY <1>c, <2>0, <3>1, <4>2 DEF OnlyConns
      <4> QED
        BY <4>1, <4>2
    <3>2. ASSUME NEW m \in Nodes, NEW y \in Nodes,
                 InBacklog(y, m)' \/ (y > m /\ nt'[m][y] /= NoConn)
          PROVE  Connected(y, m)
      <4>1. CASE m = n /\ y = x
        BY <1>c, <2>0, <4>1 DEF OnlyConns
      <4>2. CASE m /= n \/ y /= x
        BY <1>c, <1>n, <2>0, <3>2, <4>2 DEF OnlyConns
      <4> QED
        BY <4>1, <4>2
    <3> QED
      BY <2>1, <3>1, <3>2 DEF OnlyConns
  <2>3. EnteredBelow'
    <3>1. ASSUME NEW m \in Nodes, NEW j \in Dealt(m)
          PROVE  NbrArray[m][j] \in Nodes /\ nt'[m][NbrArray[m][j]] = nt[m][NbrArray[m][j]]
      <4>1. NbrArray[m][j] \in Nodes /\ NbrArray[m][j] < m
        BY Entries DEF Dealt, SmallerNbrs
      <4> QED
        BY <1>d, <1>n, <4>1
    <3> QED
      BY <1>3, <2>0, <2>1, <3>1 DEF EnteredBelow
  <2>4. EnteredAbove'
    <3>1. c = Only(x, n)
      BY <1>8, <1>c, ConnIsOnly DEF IInv
    <3>2. ASSUME NEW m \in Nodes, NEW y \in Nodes, Above(y, m), Alive(y), Alive(m),
                 Connected(y, m), ~InBacklog(y, m)'
          PROVE  nt'[m][y] = Only(y, m)
      <4>1. CASE m = n /\ y = x
        BY <1>n, <3>1, <4>1
      <4>2. CASE m /= n \/ y /= x
        BY <1>c, <1>n, <2>0, <3>2, <4>2 DEF EnteredAbove
      <4> QED
        BY <4>1, <4>2
    <3> QED
      BY <1>3, <2>1, <3>2 DEF EnteredAbove
  <2>5. AcceptsCounted'
    <3>1. ASSUME NEW m \in Nodes, Alive(m), m /= n
          PROVE  Cardinality(Passed(m)') <= Cardinality(Done(m)')
      <4>1. \A j \in LargerNbrs[m] : NbrArray[m][j] \in Nodes
        BY Entries
      <4>2. Passed(m)' = Passed(m) /\ Done(m)' = Done(m)
        BY <1>a, <1>c, <2>1, <3>1, <4>1 DEF Passed, Done
      <4> QED
        BY <2>0, <3>1, <4>2 DEF AcceptsCounted
    <3>2. Cardinality(Passed(n)') <= Cardinality(Done(n)')
      <4>1. PICK ix \in LargerNbrs[n] : NbrArray[n][ix] = x
        BY <1>x, Entries
      <4>2. \A j \in LargerNbrs[n] : NbrArray[n][j] \in Nodes /\ j \in Nat
        BY Entries
      <4>3. ix \notin Done(n) /\ Done(n) \cup {ix} \subseteq Done(n)'
        <5>1. ix \notin Done(n)
          BY <1>c, <4>1 DEF Done
        <5>2. ~InBacklog(x, n)' /\ Connected(x, n)'
          <6>1. Connected(x, n)
            BY <1>c, <1>x, <2>0 DEF OnlyConns
          <6> QED
            BY <1>c, <1>x, <2>0, <2>1, <6>1
        <5>3. ASSUME NEW j \in Done(n) PROVE j \in Done(n)'
          <6>1. NbrArray[n][j] \in Nodes /\ j \in LargerNbrs[n]
                /\ Connected(NbrArray[n][j], n) /\ ~InBacklog(NbrArray[n][j], n)
            BY <4>2 DEF Done
          <6>2. ~InBacklog(NbrArray[n][j], n)'
            BY <1>c, <6>1
          <6> QED
            BY <2>1, <6>1, <6>2 DEF Done
        <5>4. ix \in Done(n)'
          BY <4>1, <5>2 DEF Done
        <5> QED
          BY <5>1, <5>3, <5>4
      <4>4. Passed(n)' \subseteq Passed(n) \cup {i}
        <5>1. ASSUME NEW j \in LargerNbrs[n], j < i + 1, j /= i PROVE j < awaited[n]
          <6>1. j \in Nat /\ i \in Nat /\ awaited[n] \in Nat
            BY <4>2 DEF IInv, TypeOK
          <6> QED
            BY <1>i, <5>1, <6>1 DEF IsNext
        <5> QED
          BY <1>a, <5>1 DEF Passed
      <4>5. IsFiniteSet(Done(n)') /\ Cardinality(Done(n)') \in Nat
        <5>1. Done(n)' \subseteq LargerNbrs[n]
          BY DEF Done
        <5> QED
          BY <5>1, Finite, FS_Subset, FS_CardinalityType
      <4>6. Cardinality(Done(n) \cup {ix}) = Cardinality(Done(n)) + 1
            /\ Cardinality(Done(n) \cup {ix}) <= Cardinality(Done(n)')
        BY <4>3, <4>5, DoneFinite, FS_AddElement, FS_Subset
      <4>7. /\ IsFiniteSet(Passed(n) \cup {i})
            /\ Cardinality(Passed(n) \cup {i}) <= Cardinality(Passed(n)) + 1
            /\ Cardinality(Passed(n) \cup {i}) \in Nat
        <5>1. IsFiniteSet(Passed(n) \cup {i})
              /\ (Cardinality(Passed(n) \cup {i}) = Cardinality(Passed(n)) + 1
                  \/ Cardinality(Passed(n) \cup {i}) = Cardinality(Passed(n)))
          BY DoneFinite, FS_AddElement
        <5> QED
          BY <5>1, DoneFinite
      <4>8. Cardinality(Passed(n)') <= Cardinality(Passed(n) \cup {i})
            /\ Cardinality(Passed(n)') \in Nat
        BY <4>4, <4>7, FS_Subset, FS_CardinalityType
      <4>9. Cardinality(Passed(n)) <= Cardinality(Done(n))
        BY <1>0, <2>0 DEF AcceptsCounted
      <4> QED
        BY <4>5, <4>6, <4>7, <4>8, <4>9, DoneFinite
    <3> QED
      BY <1>3, <3>1, <3>2 DEF AcceptsCounted
  <2> QED
    BY <2>2, <2>3, <2>4, <2>5
<1>9. StartedOnce' => StartedOnce
  BY <1>0 DEF StartedOnce
<1> QED
  BY <1>2, <1>4, <1>5, <1>6, <1>7, <1>8, <1>9 DEF IInv, IfStartedOnce

\* What connect adds to the backlog of its peer.
LEMMA AppendToBacklog ==
    ASSUME TypeOK, NEW m \in Nodes, NEW c \in Conns,
           backlog' = [backlog EXCEPT ![m] = Append(backlog[m], c)]
    PROVE  /\ backlog' \in [Nodes -> Seq(Conns)]
           /\ \A l \in Nodes : l /= m => backlog'[l] = backlog[l]
           /\ \A k \in DOMAIN backlog'[m] :
                \/ k \in DOMAIN backlog[m] /\ backlog'[m][k] = backlog[m][k]
                \/ k = Len(backlog[m]) + 1 /\ backlog'[m][k] = c
           /\ \A y, l \in Nodes :
                InBacklog(y, l)' <=> InBacklog(y, l) \/ (l = m /\ y = c[1])
<1> DEFINE s == backlog[m]
<1>1. s \in Seq(Conns)
  BY DEF TypeOK
<1>2. /\ Append(s, c) \in Seq(Conns)
      /\ \A k \in DOMAIN Append(s, c) :
           \/ k \in DOMAIN s /\ Append(s, c)[k] = s[k]
           \/ k = Len(s) + 1 /\ Append(s, c)[k] = c
      /\ Len(s) + 1 \in DOMAIN Append(s, c) /\ Append(s, c)[Len(s) + 1] = c
      /\ \A k \in DOMAIN s : k \in DOMAIN Append(s, c) /\ Append(s, c)[k] = s[k]
  BY <1>1
<1>3. backlog'[m] = Append(s, c) /\ \A l \in Nodes : l /= m => backlog'[l] = backlog[l]
  BY DEF TypeOK
<1>4. backlog' \in [Nodes -> Seq(Conns)]
  BY <1>2 DEF TypeOK
<1>5. ASSUME NEW y PROVE InBacklog(y, m)' <=> InBacklog(y, m) \/ y = c[1]
  BY <1>2, <1>3 DEF InBacklog
<1>6. ASSUME NEW y, NEW l \in Nodes, l /= m PROVE InBacklog(y, l)' <=> InBacklog(y, l)
  BY <1>3, <1>6 DEF InBacklog
<1> QED
  BY <1>2, <1>3, <1>4, <1>5, <1>6

\* connect: the connection is entered here and waits in the other backlog.
LEMMA ConnectStep ==
    ASSUME TablesOK, IInv, NEW n \in Nodes, ConnectNbr(n)
    PROVE  IInv'
<1>i. PICK i \in SmallerNbrs[n] :
        /\ IsNext(i, SmallerNbrs[n], connecting[n])
        /\ LET m == NbrArray[n][i]
               c == <<n, m, starts[n], starts[m]>> IN
           /\ Answers(m)
           /\ nt' = [nt EXCEPT ![n][m] = c]
           /\ backlog' = [backlog EXCEPT ![m] = Append(@, c)]
        /\ connecting' = [connecting EXCEPT ![n] = i + 1]
  BY DEF ConnectNbr
<1>m. PICK m : m = NbrArray[n][i]
  OBVIOUS
<1>c. PICK c : c = <<n, m, starts[n], starts[m]>>
  OBVIOUS
<1>0. /\ UNCHANGED <<onPc, listening, awaited, snpUp, starts, stops, late>>
      /\ onPc[n] = "connect" /\ Alive(m)
      /\ nt' = [nt EXCEPT ![n][m] = c]
      /\ backlog' = [backlog EXCEPT ![m] = Append(@, c)]
  BY <1>i, <1>m, <1>c DEF ConnectNbr, Answers
<1>d. /\ i \in DOMAIN NbrArray[n] /\ DOMAIN NbrArray[n] = 1..Len(NbrArray[n])
      /\ \A l \in Nodes : Len(NbrArray[l]) \in Nat
      /\ m \in Nodes /\ Above(n, m)
  BY <1>m, Entries
<1>e. n \in Nat /\ m \in Nat /\ n > m /\ n /= m
  BY <1>d, Entries DEF Above
<1>f. /\ starts[n] \in 1..MaxStarts /\ starts[m] \in 1..MaxStarts /\ Alive(n)
  <2>1. starts[n] /= 0 /\ starts[m] /= 0 /\ Alive(n)
    BY <1>0, <1>d DEF IInv, OffOrGone, Alive
  <2>2. starts[n] \in 0..MaxStarts /\ starts[m] \in 0..MaxStarts
    BY <1>d DEF IInv, TypeOK
  <2> QED
    BY <2>1, <2>2, BoundsAssumption
<1>g. c \in Conns /\ c[1] = n /\ Between(c, n, m)
  <2>1. /\ c \in Nodes \X Nodes \X (1..MaxStarts) \X (1..MaxStarts)
        /\ c[1] = n /\ c[2] = m /\ c[3] = starts[n] /\ c[4] = starts[m] /\ c /= << >>
    BY <1>c, <1>d, <1>f
  <2> QED
    BY <1>d, <1>f, <2>1 DEF Conns, Between, NoConn
<1>b. /\ backlog' \in [Nodes -> Seq(Conns)]
      /\ \A l \in Nodes : l /= m => backlog'[l] = backlog[l]
      /\ \A k \in DOMAIN backlog'[m] :
           \/ k \in DOMAIN backlog[m] /\ backlog'[m][k] = backlog[m][k]
           \/ k = Len(backlog[m]) + 1 /\ backlog'[m][k] = c
      /\ \A y, l \in Nodes :
           InBacklog(y, l)' <=> InBacklog(y, l) \/ (l = m /\ y = n)
  <2>1. TypeOK
    BY DEF IInv
  <2>2. /\ m \in Nodes /\ c \in Conns
        /\ backlog' = [backlog EXCEPT ![m] = Append(backlog[m], c)]
    BY <1>0, <1>d, <1>g
  <2>3. c[1] = n
    BY <1>g
  <2>4. /\ backlog' \in [Nodes -> Seq(Conns)]
        /\ \A l \in Nodes : l /= m => backlog'[l] = backlog[l]
        /\ \A k \in DOMAIN backlog'[m] :
             \/ k \in DOMAIN backlog[m] /\ backlog'[m][k] = backlog[m][k]
             \/ k = Len(backlog[m]) + 1 /\ backlog'[m][k] = c
    BY <2>1, <2>2, AppendToBacklog
  <2>5. \A y, l \in Nodes :
           InBacklog(y, l)' <=> InBacklog(y, l) \/ (l = m /\ y = c[1])
    BY <2>1, <2>2, AppendToBacklog
  <2> QED
    BY <2>3, <2>4, <2>5
<1>n. /\ nt' \in [Nodes -> [Nodes -> Conns]] /\ nt'[n][m] = c
      /\ \A l, y \in Nodes : l /= n \/ y /= m => nt'[l][y] = nt[l][y]
      /\ \A l \in Nodes : l /= n => nt'[l] = nt[l]
  BY <1>0, <1>d, <1>g DEF IInv, TypeOK
<1>a. /\ connecting' \in [Nodes -> Nat] /\ connecting'[n] = i + 1
      /\ \A l \in Nodes : l /= n => connecting'[l] = connecting[l]
  BY <1>i, <1>d DEF IInv, TypeOK
<1>2. TypeOK'
  <2>0. \A l \in Nodes : connecting[l] \in 1..(Len(NbrArray[l]) + 1)
    BY DEF IInv, TypeOK
  <2>1. \A l \in Nodes : connecting'[l] \in 1..(Len(NbrArray[l]) + 1)
    <3>1. i + 1 \in 1..(Len(NbrArray[n]) + 1)
      BY <1>d
    <3> QED
      BY <1>a, <2>0, <3>1
  <2> QED
    BY <1>0, <1>a, <1>b, <1>n, <2>1 DEF IInv, TypeOK
<1>3. \A l \in Nodes : Alive(l)' <=> Alive(l)
  BY <1>0 DEF Alive
<1>4. OffOrGone'
  <2>1. ASSUME NEW l \in Nodes, ~Alive(l)
        PROVE  connecting'[l] = connecting[l] /\ backlog'[l] = backlog[l] /\ nt'[l] = nt[l]
    BY <1>0, <1>a, <1>b, <1>f, <1>n, <2>1
  <2> QED
    BY <1>0, <1>3, <2>1 DEF IInv, OffOrGone
<1>5. ConnsOK'
  <2>1. \A e, y, l : Between(e, y, l)' <=> Between(e, y, l)
    BY <1>0 DEF Between
  <2>2. ASSUME NEW l \in Nodes, NEW k \in DOMAIN backlog'[l]
        PROVE  Between(backlog'[l][k], backlog'[l][k][1], l)
    BY <1>b, <1>g, <2>2 DEF IInv, ConnsOK
  <2>3. ASSUME NEW l \in Nodes, NEW y \in Nodes, nt'[l][y] /= NoConn
        PROVE  Between(nt'[l][y], l, y) \/ Between(nt'[l][y], y, l)
    BY <1>g, <1>n, <2>3 DEF IInv, ConnsOK
  <2> QED
    BY <2>1, <2>2, <2>3 DEF ConnsOK
<1>6. /\ Dealt(n)' = Dealt(n) \cup {i} /\ i \notin Dealt(n)
      /\ \A l \in Nodes : l /= n => Dealt(l)' = Dealt(l)
  <2>1. /\ i \in Nat /\ connecting[n] \in Nat /\ ~(i < connecting[n])
        /\ \A j \in SmallerNbrs[n] : j \in Nat
    <3>1. i \in Nat /\ \A j \in SmallerNbrs[n] : j \in Nat
      BY <1>d, Entries
    <3>2. connecting[n] \in Nat /\ i >= connecting[n]
      BY <1>i DEF IInv, TypeOK, IsNext
    <3> QED
      BY <3>1, <3>2
  <2>2. \A j \in SmallerNbrs[n] : j < i + 1 <=> j < connecting[n] \/ j = i
    BY <1>i, <2>1 DEF IsNext
  <2> QED
    BY <1>a, <2>1, <2>2 DEF Dealt
<1>7. DealtWereThere'
  <2>1. starts[NbrArray[n][i]] > 0
    BY <1>f, <1>m
  <2> QED
    BY <1>0, <1>6, <2>1 DEF IInv, DealtWereThere
<1>8. InTime'
  <2>1. onPc[n] = "connect" /\ \A l \in Nodes : l /= n => connecting'[l] = connecting[l]
    BY <1>0, <1>a
  <2> QED
    BY <1>0, <2>1 DEF IInv, InTime
<1>9. JoinedAfterAll'
  BY <1>0 DEF IInv, JoinedAfterAll, Joined
<1>10. ASSUME StartedOnce
       PROVE  OnlyConns' /\ EnteredBelow' /\ EnteredAbove' /\ AcceptsCounted'
  <2>0. OnlyConns /\ EnteredBelow /\ EnteredAbove /\ AcceptsCounted
    BY <1>10 DEF IInv, IfStartedOnce
  <2>1. ~Connected(n, m)
    <3>1. \A j \in Dealt(n) : NbrArray[n][j] /= m
      BY <1>6, <1>d, <1>m, Entries DEF Dealt
    <3> QED
      BY <1>0, <3>1 DEF Connected
  <2>2. \A y, l \in Nodes : Connected(y, l)' <=> Connected(y, l) \/ (y = n /\ l = m)
    <3>1. Connected(n, m)'
      BY <1>6, <1>m DEF Connected
    <3>2. ASSUME NEW l \in Nodes, l /= m PROVE Connected(n, l)' <=> Connected(n, l)
      BY <1>0, <1>6, <1>m, <3>2 DEF Connected
    <3>3. ASSUME NEW y \in Nodes, NEW l \in Nodes, y /= n
          PROVE  Connected(y, l)' <=> Connected(y, l)
      BY <1>0, <1>6, <3>3 DEF Connected
    <3> QED
      BY <3>1, <3>2, <3>3
  <2>3. c = Only(n, m)
    BY <1>10, <1>g, ConnIsOnly DEF IInv
  <2>4. ~InBacklog(n, m)
    BY <1>d, <2>0, <2>1 DEF OnlyConns
  <2>5. OnlyConns'
    <3>1. ASSUME NEW l \in Nodes, NEW j \in DOMAIN backlog'[l], NEW k \in DOMAIN backlog'[l],
                 backlog'[l][j][1] = backlog'[l][k][1]
          PROVE  j = k
      <4>1. CASE l = m
        <5>1. \A h \in DOMAIN backlog[m] : backlog[m][h][1] /= n
          BY <2>4 DEF InBacklog
        <5> QED
          BY <1>b, <1>d, <1>g, <2>0, <3>1, <4>1, <5>1 DEF OnlyConns
      <4>2. CASE l /= m
        BY <1>b, <2>0, <3>1, <4>2 DEF OnlyConns
      <4> QED
        BY <4>1, <4>2
    <3>2. ASSUME NEW l \in Nodes, NEW y \in Nodes,
                 InBacklog(y, l)' \/ (y > l /\ nt'[l][y] /= NoConn)
          PROVE  Connected(y, l)'
      <4>1. CASE y = n /\ l = m
        BY <2>2, <4>1
      <4>2. CASE ~(y = n /\ l = m)
        <5>1. InBacklog(y, l)' <=> InBacklog(y, l)
          BY <1>b, <4>2
        <5>2. y > l => nt'[l][y] = nt[l][y]
          BY <1>e, <1>n
        <5> QED
          BY <2>0, <2>2, <3>2, <5>1, <5>2 DEF OnlyConns
      <4> QED
        BY <4>1, <4>2
    <3> QED
      BY <3>1, <3>2 DEF OnlyConns
  <2>6. EnteredBelow'
    <3>1. ASSUME NEW l \in Nodes, NEW j \in Dealt(l)', Alive(NbrArray[l][j])'
          PROVE  nt'[l][NbrArray[l][j]] = Only(l, NbrArray[l][j])
      <4>1. CASE l = n /\ NbrArray[l][j] = m
        BY <1>n, <2>3, <4>1
      <4>2. CASE ~(l = n /\ NbrArray[l][j] = m)
        <5>1. j \in Dealt(l) /\ NbrArray[l][j] \in Nodes
          <6>1. j \in Dealt(l)
            BY <1>6, <1>m, <3>1, <4>2
          <6> QED
            BY <6>1, Entries DEF Dealt
        <5>2. nt'[l][NbrArray[l][j]] = nt[l][NbrArray[l][j]]
          BY <1>n, <4>2, <5>1
        <5> QED
          BY <1>3, <2>0, <3>1, <5>1, <5>2 DEF EnteredBelow
      <4> QED
        BY <4>1, <4>2
    <3> QED
      BY <3>1 DEF EnteredBelow
  <2>7. EnteredAbove'
    <3>1. ASSUME NEW l \in Nodes, NEW y \in Nodes, Above(y, l), Alive(y), Alive(l),
                 Connected(y, l)', ~InBacklog(y, l)'
          PROVE  nt'[l][y] = Only(y, l)
      <4>1. Connected(y, l) /\ ~InBacklog(y, l)
        BY <1>b, <1>d, <2>2, <3>1
      <4>2. nt'[l][y] = nt[l][y]
        <5>1. l /= n \/ y /= m
          BY <1>e, <3>1 DEF Above
        <5> QED
          BY <1>n, <5>1
      <4> QED
        BY <2>0, <3>1, <4>1, <4>2 DEF EnteredAbove
    <3> QED
      BY <1>3, <3>1 DEF EnteredAbove
  <2>8. AcceptsCounted'
    <3>1. ASSUME NEW l \in Nodes, Alive(l)
          PROVE  Cardinality(Passed(l)') <= Cardinality(Done(l)')
      <4>1. \A j \in LargerNbrs[l] : NbrArray[l][j] \in Nodes
        BY Entries
      <4>2. \A y \in Nodes : Connected(y, l)' /\ ~InBacklog(y, l)' <=>
                             Connected(y, l) /\ ~InBacklog(y, l)
        BY <1>b, <1>d, <2>1, <2>2
      <4>3. Passed(l)' = Passed(l) /\ Done(l)' = Done(l)
        BY <1>0, <4>1, <4>2 DEF Passed, Done
      <4> QED
        BY <2>0, <3>1, <4>3 DEF AcceptsCounted
    <3> QED
      BY <1>3, <3>1 DEF AcceptsCounted
  <2> QED
    BY <2>5, <2>6, <2>7, <2>8
<1>11. StartedOnce' => StartedOnce
  BY <1>0 DEF StartedOnce
<1> QED
  BY <1>2, <1>4, <1>5, <1>7, <1>8, <1>9, <1>10, <1>11 DEF IInv, IfStartedOnce

\* The connection was taken from the table because its other end is gone.
LEMMA ClosedStep ==
    ASSUME TablesOK, IInv, NEW n \in Nodes, NEW k \in Nodes, NeighborClosed(n, k)
    PROVE  IInv'
<1>0. /\ UNCHANGED <<onPc, listening, awaited, backlog, connecting, snpUp, starts, stops, late>>
      /\ Alive(n) /\ nt[n][k] /= NoConn /\ ~Live(nt[n][k])
      /\ nt' = [nt EXCEPT ![n][k] = NoConn]
  BY DEF NeighborClosed, Alive
<1>1. /\ nt' \in [Nodes -> [Nodes -> Conns]] /\ nt'[n][k] = NoConn
      /\ \A l, y \in Nodes : l /= n \/ y /= k => nt'[l][y] = nt[l][y]
      /\ \A l \in Nodes : l /= n => nt'[l] = nt[l]
  <2>1. NoConn \in Conns
    BY DEF Conns
  <2> QED
    BY <1>0, <2>1 DEF IInv, TypeOK
<1>2. TypeOK'
  BY <1>0, <1>1 DEF IInv, TypeOK
<1>3. \A l \in Nodes : Alive(l)' <=> Alive(l)
  BY <1>0 DEF Alive
<1>4. OffOrGone'
  <2>1. \A l \in Nodes : ~Alive(l) => nt'[l] = nt[l]
    BY <1>0, <1>1
  <2> QED
    BY <1>0, <1>3, <2>1 DEF IInv, OffOrGone
<1>5. ConnsOK'
  <2>1. \A e, y, l : Between(e, y, l)' <=> Between(e, y, l)
    BY <1>0 DEF Between
  <2>2. \A l, y \in Nodes : nt'[l][y] /= NoConn => nt'[l][y] = nt[l][y]
    BY <1>1
  <2> QED
    BY <1>0, <2>1, <2>2 DEF IInv, ConnsOK
<1>6. DealtWereThere' /\ InTime' /\ JoinedAfterAll'
  BY <1>0 DEF IInv, DealtWereThere, Dealt, InTime, JoinedAfterAll, Joined
<1>7. ASSUME StartedOnce
      PROVE  OnlyConns' /\ EnteredBelow' /\ EnteredAbove' /\ AcceptsCounted'
  <2>0. OnlyConns /\ EnteredBelow /\ EnteredAbove /\ AcceptsCounted
    BY <1>7 DEF IInv, IfStartedOnce
  <2>1. /\ \A l \in Nodes : Dealt(l)' = Dealt(l)
        /\ \A y, l \in Nodes : /\ InBacklog(y, l)' <=> InBacklog(y, l)
                               /\ Connected(y, l)' <=> Connected(y, l)
    BY <1>0 DEF Dealt, InBacklog, Connected
  <2>2. ~Alive(k)
    <3>1. PICK e : e = nt[n][k]
      OBVIOUS
    <3>2. e \in Conns /\ TypeOK
      BY <3>1 DEF IInv, TypeOK
    <3>3. Between(e, n, k) \/ Between(e, k, n)
      BY <1>0, <3>1 DEF IInv, ConnsOK
    <3>4. e = Only(n, k) \/ e = Only(k, n)
      BY <1>7, <3>2, <3>3, ConnIsOnly
    <3>5. e[3] = 1 /\ e[4] = 1
          /\ ((e[1] = n /\ e[2] = k) \/ (e[1] = k /\ e[2] = n))
      BY <3>4 DEF Only
    <3>6. starts[n] = 1 /\ starts[k] = 1
      BY <1>7, <3>2, <3>3, <3>5, BoundsAssumption DEF Between, TypeOK, StartedOnce
    <3> QED
      BY <1>0, <3>1, <3>5, <3>6 DEF Live
  <2>3. OnlyConns'
    <3>1. \A l, y \in Nodes : nt'[l][y] /= NoConn => nt[l][y] /= NoConn
      BY <1>1
    <3> QED
      BY <1>0, <2>0, <2>1, <3>1 DEF OnlyConns
  <2>4. EnteredBelow'
    <3>1. \A l \in Nodes : \A j \in Dealt(l) : NbrArray[l][j] \in Nodes
      BY Entries DEF Dealt
    <3>2. \A l, y \in Nodes : Alive(y) => nt'[l][y] = nt[l][y]
      BY <1>1, <2>2
    <3> QED
      BY <1>3, <2>0, <2>1, <3>1, <3>2 DEF EnteredBelow
  <2>5. EnteredAbove'
    <3>1. \A l, y \in Nodes : Alive(y) => nt'[l][y] = nt[l][y]
      BY <1>1, <2>2
    <3> QED
      BY <1>3, <2>0, <2>1, <3>1 DEF EnteredAbove
  <2>6. AcceptsCounted'
    <3>1. ASSUME NEW l \in Nodes PROVE Passed(l)' = Passed(l) /\ Done(l)' = Done(l)
      <4>1. \A j \in LargerNbrs[l] : NbrArray[l][j] \in Nodes
        BY Entries
      <4> QED
        BY <1>0, <2>1, <4>1 DEF Passed, Done
    <3> QED
      BY <1>3, <2>0, <3>1 DEF AcceptsCounted
  <2> QED
    BY <2>3, <2>4, <2>5, <2>6
<1>8. StartedOnce' => StartedOnce
  BY <1>0 DEF StartedOnce
<1> QED
  BY <1>2, <1>4, <1>5, <1>6, <1>7, <1>8 DEF IInv, IfStartedOnce

\* Nobody has connected to a process that is only now started first.
LEMMA StartStep ==
    ASSUME TablesOK, IInv, NEW n \in Nodes, StartOverlay(n)
    PROVE  IInv'
<1>0. /\ UNCHANGED <<listening, awaited, backlog, connecting, snpUp, stops, late>>
      /\ ~Alive(n) /\ starts[n] < MaxStarts
      /\ onPc' = [onPc EXCEPT ![n] = "connect"]
      /\ starts' = [starts EXCEPT ![n] = @ + 1]
      /\ nt' = [nt EXCEPT ![n] = EmptyTable]
  BY DEF StartOverlay
<1>1. nt' = nt /\ awaited[n] = 0 /\ backlog[n] = << >> /\ connecting[n] = 1 /\ ~listening[n]
  BY <1>0 DEF IInv, TypeOK, OffOrGone
<1>2. /\ starts' \in [Nodes -> 0..MaxStarts]
      /\ starts[n] \in Nat /\ starts'[n] = starts[n] + 1
      /\ \A l \in Nodes : /\ starts[l] \in Nat /\ starts'[l] \in Nat
                          /\ starts[l] <= starts'[l]
                          /\ l /= n => starts'[l] = starts[l]
  BY <1>0, BoundsAssumption DEF IInv, TypeOK
<1>3. /\ onPc'[n] = "connect"
      /\ \A l \in Nodes : l /= n => onPc'[l] = onPc[l]
  BY <1>0 DEF IInv, TypeOK
<1>4. Alive(n)' /\ \A l \in Nodes : l /= n => (Alive(l)' <=> Alive(l))
  BY <1>3 DEF Alive
<1>5. TypeOK'
  BY <1>0, <1>1, <1>2 DEF IInv, TypeOK
<1>6. OffOrGone'
  <2>1. \A l \in Nodes : l /= n => (starts'[l] = 0 <=> onPc'[l] = "off")
    BY <1>2, <1>3 DEF IInv, OffOrGone
  <2>2. starts'[n] /= 0 /\ onPc'[n] /= "off"
    BY <1>2, <1>3
  <2> QED
    BY <1>0, <1>1, <1>4, <2>1, <2>2 DEF IInv, OffOrGone
<1>7. ConnsOK'
  <2>1. ASSUME NEW e \in Conns, NEW y, NEW l, Between(e, y, l) PROVE Between(e, y, l)'
    <3>1. y \in Nodes /\ l \in Nodes /\ e[3] \in Nat /\ e[4] \in Nat
      BY <2>1, ConnShape, BoundsAssumption
    <3> QED
      BY <1>2, <2>1, <3>1 DEF Between
  <2>2. /\ \A l \in Nodes : \A j \in DOMAIN backlog[l] : backlog[l][j] \in Conns
        /\ \A l, y \in Nodes : nt[l][y] \in Conns
    BY DEF IInv, TypeOK
  <2> QED
    BY <1>0, <1>1, <2>1, <2>2 DEF IInv, ConnsOK
<1>8. \A l \in Nodes : Dealt(l)' = Dealt(l)
  BY <1>0 DEF Dealt
<1>9. \A l \in Nodes : \A j \in Dealt(l) : NbrArray[l][j] \in Nodes
  BY Entries DEF Dealt
<1>10. Dealt(n) = {}
  BY <1>1, Entries DEF Dealt
<1>11. DealtWereThere'
  BY <1>2, <1>8, <1>9 DEF IInv, DealtWereThere
<1>12. InTime'
  BY <1>0, <1>2, <1>3 DEF IInv, InTime, OffOrGone, Alive
<1>13. JoinedAfterAll'
  BY <1>0, <1>3 DEF IInv, JoinedAfterAll, Joined
<1>14. ASSUME StartedOnce'
       PROVE  OnlyConns' /\ EnteredBelow' /\ EnteredAbove' /\ AcceptsCounted'
  <2>1. StartedOnce /\ starts[n] = 0
    BY <1>2, <1>14 DEF StartedOnce
  <2>2. OnlyConns /\ EnteredBelow /\ EnteredAbove /\ AcceptsCounted
    BY <2>1 DEF IInv, IfStartedOnce
  <2>3. onPc[n] = "off"
    BY <2>1 DEF IInv, OffOrGone
  <2>4. \A y, l \in Nodes : /\ InBacklog(y, l)' <=> InBacklog(y, l)
                            /\ Connected(y, l)' <=> Connected(y, l)
    BY <1>0, <1>3, <1>8, <2>3 DEF InBacklog, Connected
  <2>5. \A l \in Nodes : \A j \in Dealt(l) : NbrArray[l][j] /= n
    BY <2>1 DEF IInv, DealtWereThere
  <2>6. OnlyConns'
    BY <1>0, <1>1, <2>2, <2>4 DEF OnlyConns
  <2>7. EnteredBelow'
    BY <1>1, <1>4, <1>8, <1>9, <2>2, <2>5 DEF EnteredBelow
  <2>8. EnteredAbove'
    <3>1. ASSUME NEW l \in Nodes, NEW y \in Nodes, Alive(y)', Connected(y, l)
          PROVE  l /= n /\ y /= n
      <4>1. onPc[y] /= "gone"
        BY <1>3, <2>3, <3>1 DEF Alive
      <4>2. PICK j \in Dealt(y) : NbrArray[y][j] = l
        BY <3>1, <4>1 DEF Connected
      <4> QED
        BY <1>10, <2>5, <4>2
    <3> QED
      BY <1>1, <1>4, <2>2, <2>4, <3>1 DEF EnteredAbove
  <2>9. AcceptsCounted'
    <3>1. ASSUME NEW l \in Nodes PROVE Passed(l)' = Passed(l) /\ Done(l)' = Done(l)
      <4>1. \A j \in LargerNbrs[l] : NbrArray[l][j] \in Nodes
        BY Entries
      <4> QED
        BY <1>0, <2>4, <4>1 DEF Passed, Done
    <3>2. Passed(n) = {}
      BY <1>1, Entries DEF Passed
    <3>3. Cardinality(Passed(n)) <= Cardinality(Done(n))
      BY <3>2, DoneFinite, FS_EmptySet
    <3> QED
      BY <1>4, <2>2, <3>1, <3>3 DEF AcceptsCounted
  <2> QED
    BY <2>6, <2>7, <2>8, <2>9
<1> QED
  BY <1>5, <1>6, <1>7, <1>11, <1>12, <1>13, <1>14 DEF IInv, IfStartedOnce

\* What the process that stops has connected to counts as done with.
LEMMA StopStep ==
    ASSUME TablesOK, IInv, NEW n \in Nodes, StopOverlay(n)
    PROVE  IInv'
<1>0. /\ starts' = starts /\ Alive(n) /\ stops < MaxStops
      /\ onPc' = [onPc EXCEPT ![n] = "gone"]
      /\ listening' = [listening EXCEPT ![n] = FALSE]
      /\ backlog' = [backlog EXCEPT ![n] = << >>]
      /\ snpUp' = [snpUp EXCEPT ![n] = FALSE]
      /\ nt' = [nt EXCEPT ![n] = EmptyTable]
      /\ awaited' = [awaited EXCEPT ![n] = 0]
      /\ connecting' = [connecting EXCEPT ![n] = 1]
      /\ stops' = stops + 1
      /\ late' = TRUE
  BY DEF StopOverlay
<1>1. EmptyTable \in [Nodes -> Conns] /\ \A y \in Nodes : EmptyTable[y] = NoConn
  BY DEF EmptyTable, Conns
<1>2. /\ onPc'[n] = "gone" /\ listening'[n] = FALSE /\ backlog'[n] = << >>
      /\ nt'[n] = EmptyTable /\ awaited'[n] = 0 /\ connecting'[n] = 1
      /\ \A l \in Nodes : l /= n =>
           /\ onPc'[l] = onPc[l] /\ listening'[l] = listening[l] /\ backlog'[l] = backlog[l]
           /\ nt'[l] = nt[l] /\ awaited'[l] = awaited[l] /\ connecting'[l] = connecting[l]
  BY <1>0 DEF IInv, TypeOK
<1>3. TypeOK'
  <2>0. /\ \A l \in Nodes : Len(NbrArray[l]) \in Nat
        /\ \A l \in Nodes : /\ awaited[l] \in 0..(Len(NbrArray[l]) + 1)
                            /\ connecting[l] \in 1..(Len(NbrArray[l]) + 1)
    BY Entries DEF IInv, TypeOK
  <2>1. \A l \in Nodes : /\ awaited'[l] \in 0..(Len(NbrArray[l]) + 1)
                         /\ connecting'[l] \in 1..(Len(NbrArray[l]) + 1)
    <3>1. 0 \in 0..(Len(NbrArray[n]) + 1) /\ 1 \in 1..(Len(NbrArray[n]) + 1)
      BY <2>0
    <3> QED
      BY <1>2, <2>0, <3>1
  <2>2. backlog' \in [Nodes -> Seq(Conns)]
    <3>1. << >> \in Seq(Conns)
      OBVIOUS
    <3> QED
      BY <1>0, <3>1 DEF IInv, TypeOK
  <2>4. nt' \in [Nodes -> [Nodes -> Conns]]
    BY <1>0, <1>1 DEF IInv, TypeOK
  <2>5. /\ onPc' \in [Nodes -> {"off", "connect", "join", "network", "serve", "gone"}]
        /\ listening' \in [Nodes -> BOOLEAN] /\ snpUp' \in [Nodes -> BOOLEAN]
    BY <1>0 DEF IInv, TypeOK
  <2>6. awaited' \in [Nodes -> Nat] /\ connecting' \in [Nodes -> Nat]
    BY <1>0 DEF IInv, TypeOK
  <2>3. starts' \in [Nodes -> 0..MaxStarts] /\ stops' \in 0..MaxStops /\ late' \in BOOLEAN
    BY <1>0, BoundsAssumption DEF IInv, TypeOK
  <2> QED
    BY <2>1, <2>2, <2>3, <2>4, <2>5, <2>6 DEF TypeOK
<1>4. ~Alive(n)' /\ \A l \in Nodes : l /= n => (Alive(l)' <=> Alive(l))
  BY <1>2 DEF Alive
<1>5. OffOrGone'
  <2>1. starts[n] /= 0
    BY <1>0 DEF IInv, OffOrGone, Alive
  <2>2. \A l \in Nodes : starts'[l] = 0 <=> onPc'[l] = "off"
    BY <1>0, <1>2, <2>1 DEF IInv, OffOrGone
  <2>3. \A l \in Nodes : ~Alive(l)' =>
          /\ awaited'[l] = 0 /\ backlog'[l] = << >>
          /\ nt'[l] = EmptyTable /\ connecting'[l] = 1
    BY <1>2, <1>4 DEF IInv, OffOrGone
  <2>4. \A l \in Nodes : listening'[l] => Alive(l)' /\ awaited'[l] > 0
    BY <1>2, <1>4 DEF IInv, OffOrGone
  <2>5. EmptyTable' = EmptyTable
    BY DEF EmptyTable
  <2> QED
    BY <2>2, <2>3, <2>4, <2>5 DEF OffOrGone
<1>6. \A l, y \in Nodes : nt'[l][y] /= NoConn => l /= n /\ nt'[l][y] = nt[l][y]
  BY <1>1, <1>2
<1>7. \A l \in Nodes : \A j \in DOMAIN backlog'[l] : l /= n /\ backlog'[l] = backlog[l]
  BY <1>2
<1>8. ConnsOK'
  <2>1. \A e, y, l : Between(e, y, l)' <=> Between(e, y, l)
    BY <1>0 DEF Between
  <2> QED
    BY <1>6, <1>7, <2>1 DEF IInv, ConnsOK
<1>9. /\ Dealt(n)' = {}
      /\ \A l \in Nodes : l /= n => Dealt(l)' = Dealt(l)
  BY <1>2, Entries DEF Dealt
<1>10. DealtWereThere'
  BY <1>0, <1>9 DEF IInv, DealtWereThere
<1>11. InTime'
  BY <1>0 DEF InTime
<1>12. JoinedAfterAll'
  BY <1>2 DEF IInv, JoinedAfterAll, Joined
<1>13. ASSUME StartedOnce
       PROVE  OnlyConns' /\ EnteredBelow' /\ EnteredAbove' /\ AcceptsCounted'
  <2>0. OnlyConns /\ EnteredBelow /\ EnteredAbove /\ AcceptsCounted
    BY <1>13 DEF IInv, IfStartedOnce
  <2>1. \A y, l \in Nodes :
          /\ Connected(y, l) => Connected(y, l)'
          /\ y /= n => (Connected(y, l)' <=> Connected(y, l))
    <3>1. \A l : Connected(n, l)'
      BY <1>2 DEF Connected
    <3>2. \A y, l \in Nodes : y /= n => (Connected(y, l)' <=> Connected(y, l))
      BY <1>2, <1>9 DEF Connected
    <3> QED
      BY <3>1, <3>2
  <2>2. \A y, l \in Nodes : l /= n => (InBacklog(y, l)' <=> InBacklog(y, l))
    BY <1>2 DEF InBacklog
  <2>3. \A y \in Nodes : ~InBacklog(y, n)'
    BY <1>2 DEF InBacklog
  <2>4. OnlyConns'
    <3>1. \A l \in Nodes : \A j, k \in DOMAIN backlog'[l] :
            backlog'[l][j][1] = backlog'[l][k][1] => j = k
      BY <1>7, <2>0 DEF OnlyConns
    <3>2. \A l, y \in Nodes :
            InBacklog(y, l)' \/ (y > l /\ nt'[l][y] /= NoConn) => Connected(y, l)'
      BY <1>6, <2>0, <2>1, <2>2, <2>3 DEF OnlyConns
    <3> QED
      BY <3>1, <3>2 DEF OnlyConns
  <2>5. EnteredBelow'
    <3>1. ASSUME NEW l \in Nodes, NEW j \in Dealt(l)', Alive(NbrArray[l][j])'
          PROVE  nt'[l][NbrArray[l][j]] = Only(l, NbrArray[l][j])
      <4>1. l /= n /\ j \in Dealt(l)
        BY <1>9, <3>1
      <4>2. NbrArray[l][j] \in Nodes
        BY <4>1, Entries DEF Dealt
      <4>3. Alive(NbrArray[l][j])
        BY <1>4, <3>1, <4>2
      <4> QED
        BY <1>2, <2>0, <4>1, <4>3 DEF EnteredBelow
    <3> QED
      BY <3>1 DEF EnteredBelow
  <2>6. EnteredAbove'
    <3>1. ASSUME NEW l \in Nodes, NEW y \in Nodes, Above(y, l), Alive(y)', Alive(l)',
                 Connected(y, l)', ~InBacklog(y, l)'
          PROVE  nt'[l][y] = Only(y, l)
      <4>1. l /= n /\ y /= n /\ Alive(y) /\ Alive(l)
        BY <1>4, <3>1
      <4>2. Connected(y, l) /\ ~InBacklog(y, l)
        BY <2>1, <2>2, <3>1, <4>1
      <4> QED
        BY <1>2, <2>0, <3>1, <4>1, <4>2 DEF EnteredAbove
    <3> QED
      BY <3>1 DEF EnteredAbove
  <2>7. AcceptsCounted'
    <3>1. ASSUME NEW l \in Nodes, Alive(l)'
          PROVE  Cardinality(Passed(l)') <= Cardinality(Done(l)')
      <4>1. l /= n /\ Alive(l)
        BY <1>4, <3>1
      <4>2. \A j \in LargerNbrs[l] : NbrArray[l][j] \in Nodes
        BY Entries
      <4>3. Passed(l)' = Passed(l) /\ Done(l) \subseteq Done(l)' /\ Done(l)' \subseteq LargerNbrs[l]
        BY <1>2, <2>1, <2>2, <4>1, <4>2 DEF Passed, Done
      <4>4. IsFiniteSet(Done(l)')
        BY <4>3, Finite, FS_Subset
      <4>5. Cardinality(Done(l)) <= Cardinality(Done(l)') /\ Cardinality(Done(l)') \in Nat
        BY <4>3, <4>4, FS_Subset, FS_CardinalityType
      <4>6. Cardinality(Passed(l)) <= Cardinality(Done(l))
        BY <2>0, <4>1 DEF AcceptsCounted
      <4> QED
        BY <4>3, <4>5, <4>6, DoneFinite
    <3> QED
      BY <3>1 DEF AcceptsCounted
  <2> QED
    BY <2>4, <2>5, <2>6, <2>7
<1>14. StartedOnce' => StartedOnce
  BY <1>0 DEF StartedOnce
<1> QED
  BY <1>3, <1>5, <1>8, <1>10, <1>11, <1>12, <1>13, <1>14 DEF IInv, IfStartedOnce

\* Every step of the program preserves the invariant.
LEMMA StepIInv == ASSUME TablesOK, IInv, [Next]_vars PROVE IInv'
<1>1. CASE UNCHANGED vars
  BY <1>1, StutterStep
<1>2. CASE Next
  <2>1. PICK n \in Nodes : \/ StartOverlay(n) \/ Continues(n) \/ StopOverlay(n)
                           \/ \E m \in Nodes : NeighborClosed(n, m)
    BY <1>2 DEF Next
  <2>2. CASE StartOverlay(n)
    BY <2>2, StartStep
  <2>3. CASE Listen(n) \/ ListenFails(n)
    BY <2>3, ListenStep
  <2>4. CASE AcceptNbr(n)
    BY <2>4, AcceptStep
  <2>5. CASE ConnectNbr(n)
    BY <2>5, ConnectStep
  <2>6. CASE ConnectRefused(n) \/ ConnectDone(n)
    BY <2>6, ConnectRefusedStep
  <2>7. CASE JoinWaitNbrs(n) \/ StartNetwork(n)
    BY <2>7, JoinStep
  <2>8. CASE StopOverlay(n)
    BY <2>8, StopStep
  <2>9. CASE \E m \in Nodes : NeighborClosed(n, m)
    BY <2>9, ClosedStep
  <2> QED
    BY <2>1, <2>2, <2>3, <2>4, <2>5, <2>6, <2>7, <2>8, <2>9
       DEF Continues, waitNbrs, connectNbrs
<1> QED
  BY <1>1, <1>2

(***************************************************************************)
(* The invariant holds in every reachable state of any overlay whose file  *)
(* names each link once: of connectNbrs, waitNbrs, main and listen_to_neighbor, *)
(* in any order, with processes that stop and start again.                 *)
(***************************************************************************)
THEOREM Invariance == LinksOnce => (Spec => []IInv)
<1> SUFFICES ASSUME LinksOnce PROVE Spec => []IInv
  OBVIOUS
<1>1. TablesOK
  BY TablesMatch
<1>2. Init => IInv
  BY <1>1, InitIInv
<1>3. IInv /\ [Next]_vars => IInv'
  BY <1>1, StepIInv
<1> QED
  BY <1>2, <1>3, PTL DEF Spec

(***************************************************************************)
(* The loops of connectNbrs and waitNbrs stay within the neighbour table and *)
(* its entries are connections.                                            *)
(***************************************************************************)
THEOREM TypeCorrect == LinksOnce => (Spec => []TypeOK)
<1>1. IInv => TypeOK
  BY DEF IInv
<1> QED
  BY <1>1, Invariance, PTL

\* A node past the join has accepted from every larger neighbour: it counted
\* as many as there are, and each of them can have been counted only once.
LEMMA AllAccepted ==
    ASSUME TablesOK, IInv, StartedOnce, NEW m \in Nodes, Joined(m),
           NEW x \in Nodes, Above(x, m)
    PROVE  /\ Connected(x, m) /\ ~InBacklog(x, m)
           /\ Alive(x) => nt[m][x] = Only(x, m)
<1>1. OnlyConns /\ EnteredAbove /\ AcceptsCounted /\ Alive(m)
  BY DEF IInv, IfStartedOnce, Joined, Alive
<1>2. Passed(m) = LargerNbrs[m]
  BY DEF IInv, JoinedAfterAll, AllPast, Passed
<1>3. Cardinality(LargerNbrs[m]) <= Cardinality(Done(m))
  BY <1>1, <1>2 DEF AcceptsCounted
<1>4. Done(m) \in SUBSET LargerNbrs[m]
  BY DEF Done
<1>5. Cardinality(Done(m)) = Cardinality(LargerNbrs[m])
  BY <1>3, <1>4, Finite, FS_Subset, DoneFinite, FS_CardinalityType
<1>6. Done(m) = LargerNbrs[m]
  BY <1>4, <1>5, Finite, FS_Subset
<1>7. PICK i \in LargerNbrs[m] : NbrArray[m][i] = x
  BY Entries
<1>8. Connected(x, m) /\ ~InBacklog(x, m)
  BY <1>6, <1>7 DEF Done
<1> QED
  BY <1>1, <1>8 DEF EnteredAbove

\* The connection between two running processes that were started once.
LEMMA OnlyLives ==
    ASSUME TablesOK, IInv, StartedOnce, NEW x \in Nodes, NEW m \in Nodes,
           Alive(x), Alive(m)
    PROVE  Live(Only(x, m)) /\ Only(x, m) /= NoConn
<1>1. starts[x] = 1 /\ starts[m] = 1
  <2>1. starts[x] /= 0 /\ starts[m] /= 0 /\ starts[x] <= 1 /\ starts[m] <= 1
    BY DEF IInv, OffOrGone, StartedOnce, Alive
  <2>2. starts[x] \in Nat /\ starts[m] \in Nat
    BY BoundsAssumption DEF IInv, TypeOK
  <2> QED
    BY <2>1, <2>2
<1>2. /\ Only(x, m)[1] = x /\ Only(x, m)[2] = m /\ Only(x, m)[3] = 1 /\ Only(x, m)[4] = 1
      /\ Only(x, m) /= NoConn
  BY DEF Only, NoConn
<1>3. \A k \in 1..2 : k = 1 \/ k = 2
  OBVIOUS
<1> QED
  BY <1>1, <1>2, <1>3 DEF Live

\* The invariant is strong enough for the claim of overlay.c:243 ...
LEMMA JoinedConnected == ASSUME TablesOK, IInv PROVE ConnectedAtJoin
<1> SUFFICES ASSUME NEW n \in Nodes, Joined(n), ~late, NEW m \in Nbrs(n)
             PROVE  Live(nt[n][m])
  BY DEF ConnectedAtJoin
<1>1. m \in Nodes /\ n \in Nodes /\ n \in Nat /\ m \in Nat /\ n /= m /\ n \in Nbrs(m)
  <2>1. m \in Nodes /\ m /= n
    BY Entries DEF TablesOK, Nbrs, ToSet
  <2>2. n \in Nbrs(m) /\ n \in Nat /\ m \in Nat
    BY <2>1 DEF TablesOK
  <2> QED
    BY <2>1, <2>2
<1>2. StartedOnce /\ \A l \in Nodes : onPc[l] /= "gone"
  BY DEF IInv, InTime, StartedOnce
<1>3. Alive(n)
  BY DEF Joined, Alive
<1>4. CASE m > n
  <2>1. Above(m, n)
    BY <1>1, <1>4 DEF Above
  <2>2. Connected(m, n) /\ (Alive(m) => nt[n][m] = Only(m, n))
    BY <1>1, <1>2, <2>1, AllAccepted
  <2>3. Alive(m)
    <3>1. PICK i \in Dealt(m) : NbrArray[m][i] = n
      BY <1>1, <1>2, <2>2 DEF Connected
    <3>2. connecting[m] /= 1
      BY <1>1, <3>1, Entries DEF Dealt
    <3> QED
      BY <1>1, <3>2 DEF IInv, OffOrGone
  <2> QED
    BY <1>1, <1>2, <1>3, <2>2, <2>3, OnlyLives
<1>5. CASE n > m
  <2>1. PICK i \in SmallerNbrs[n] : NbrArray[n][i] = m
    BY <1>1, <1>5, Entries DEF Above
  <2>2. i \in Dealt(n)
    BY <1>1, <2>1 DEF IInv, InTime, AllPast, Dealt, Joined
  <2>3. Alive(m)
    <3>1. starts[m] > 0
      BY <2>1, <2>2 DEF IInv, DealtWereThere
    <3>2. starts[m] /= 0
      BY <1>1, <3>1
    <3> QED
      BY <1>1, <1>2, <3>2 DEF IInv, OffOrGone, Alive
  <2>4. nt[n][m] = Only(n, m)
    BY <1>2, <2>1, <2>2, <2>3 DEF IInv, IfStartedOnce, EnteredBelow
  <2> QED
    BY <1>1, <1>2, <1>3, <2>3, <2>4, OnlyLives
<1> QED
  BY <1>1, <1>4, <1>5

\* ... and for the agreement of the two tables.
LEMMA BothHoldIt == ASSUME TablesOK, IInv PROVE SameConnection
<1>1. ASSUME NEW n \in Nodes, NEW m \in Nodes, nt[n][m] /= NoConn
      PROVE  {nt[n][m][1], nt[n][m][2]} = {n, m}
  BY <1>1 DEF IInv, ConnsOK, Between
<1>2. ASSUME NEW n \in Nodes, NEW m \in Nodes, Joined(n), Joined(m), Live(nt[n][m]),
             StartedOnce
      PROVE  nt[m][n] = nt[n][m]
  <2>1. Alive(n) /\ Alive(m)
    BY <1>2 DEF Joined, Alive
  <2>2. PICK c : c = nt[n][m]
    OBVIOUS
  <2>3. c \in Conns /\ (Between(c, n, m) \/ Between(c, m, n)) /\ TypeOK
    BY <1>2, <2>2 DEF IInv, TypeOK, ConnsOK, Live
  <2>4. CASE Between(c, n, m)
    <3>1. Above(n, m) /\ c = Only(n, m)
      BY <1>2, <2>3, <2>4, ConnIsOnly DEF Between
    <3> QED
      BY <1>2, <2>1, <2>2, <3>1, AllAccepted
  <2>5. CASE Between(c, m, n)
    <3>1. Above(m, n) /\ c = Only(m, n)
      BY <1>2, <2>3, <2>5, ConnIsOnly DEF Between
    <3>2. Connected(m, n) /\ onPc[m] /= "gone"
      BY <1>2, <3>1, AllAccepted DEF Joined
    <3>3. PICK i \in Dealt(m) : NbrArray[m][i] = n
      BY <3>2 DEF Connected
    <3> QED
      BY <1>2, <2>1, <2>2, <3>1, <3>3 DEF IInv, IfStartedOnce, EnteredBelow
  <2> QED
    BY <2>3, <2>4, <2>5
<1> QED
  BY <1>1, <1>2 DEF SameConnection, StartedOnce

(***************************************************************************)
(* overlay.c:243: where main goes on after pthread_join every neighbour has *)
(* its connection and runs, unless one was late or stopped - for any topology *)
(* and in any order of the connects and accepts.                           *)
(***************************************************************************)
THEOREM AllNeighborsAtJoin == LinksOnce => (Spec => []ConnectedAtJoin)
<1> SUFFICES ASSUME LinksOnce PROVE Spec => []ConnectedAtJoin
  OBVIOUS
<1>1. IInv => ConnectedAtJoin
  BY TablesMatch, JoinedConnected
<1> QED
  BY <1>1, Invariance, PTL

(***************************************************************************)
(* An entry of the neighbour table is a connection with that neighbour, and *)
(* past the join two neighbours hold the same one, as long as no process was *)
(* started again.                                                          *)
(***************************************************************************)
THEOREM OneConnection == LinksOnce => (Spec => []SameConnection)
<1> SUFFICES ASSUME LinksOnce PROVE Spec => []SameConnection
  OBVIOUS
<1>1. IInv => SameConnection
  BY TablesMatch, BothHoldIt
<1> QED
  BY <1>1, Invariance, PTL
====
