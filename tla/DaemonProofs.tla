---------------------------- MODULE DaemonProofs ----------------------------
(* Proofs about module Daemon, for every number of nodes and descriptors,  *)
(* every password and everything clients may send.                         *)
EXTENDS Daemon, FiniteSetTheorems, SequenceTheorems, TLAPS

Peer == [inbox : Seq(Lines), sent : Nat, half : BOOLEAN, hup : BOOLEAN,
         proved : BOOLEAN]

(* No node twice, and exactly the live ones.                               *)
Once(s) == \A i, j \in 1..Len(s) : s[i] = s[j] => i = j
ListOK == Once(list) /\ ToSet(list) = {n \in Nodes : Live(n)}

(* A descriptor belongs to one live node, the listener's to the listener.  *)
SocksOK ==
    /\ Live(Listener) /\ SockOf(Listener) = ListenFd
    /\ \A m, n \in Nodes : Live(m) /\ Live(n) /\ SockOf(m) = SockOf(n) => m = n

FdsOK ==
    /\ fds = {SockOf(n) : n \in ToSet(list)}
    /\ \A f \in fds : f <= fdmax
    /\ fdmax \in fds

(* What the handlers of a connection change, and where the main thread is. *)
Table ==
    /\ list \in Seq(Nodes) /\ conn \in [Nodes -> Node]
    /\ subs \in [Nodes -> 0..MaxSubs] /\ peer \in [Fds -> Peer]
    /\ ListOK /\ SocksOK /\ FdsOK

Place ==
    /\ pc \in {"select", "walk", "lines", "next"}
    /\ cur \in Nodes \cup {None}
    /\ pc = "lines" => cur \in Conns
    /\ pc = "next" => cur \in Nodes
    /\ ready \subseteq Fds
    /\ lines \in Seq(Lines \cup {Fragment})
    /\ backlog \in 0..MaxBacklog /\ crashed \in BOOLEAN

(* The traversal stands at a live node, or at one that its own handler has *)
(* freed, from which it goes on to a live one.                             *)
LiveOrEnd(n) == n = None \/ (n \in Nodes /\ Live(n))
Cursor ==
    /\ pc = "walk" => LiveOrEnd(cur)
    /\ pc \in {"lines", "next"} /\ ~Live(cur) => LiveOrEnd(conn[cur].next)

Inv == Table /\ Place /\ Cursor
-----------------------------------------------------------------------------
(* A finite set of numbers that is not empty has a largest one: it is the  *)
(* one with the fewest above it.                                           *)
LEMMA LargestExists ==
  ASSUME NEW S \in SUBSET Fds, S # {}
  PROVE  \E f \in S : \A g \in S : g <= f
<1> DEFINE Above(x) == {y \in S : y > x}
           T == {Above(x) : x \in S}
<1>1. S \subseteq Nat /\ IsFiniteSet(S)
  BY FdsAssumption, FS_Subset
<1>2. T \subseteq FiniteSubsetsOf(S) /\ T # {}
  <2>1. ASSUME NEW x \in S PROVE Above(x) \in FiniteSubsetsOf(S)
    <3>1. Above(x) \in SUBSET S
      OBVIOUS
    <3> QED
      BY <1>1, <3>1, FS_Subset DEF FiniteSubsetsOf
  <2> QED
    BY <2>1
<1>3. \E x \in T : \A y \in T : ~ (<<y, x>> \in StrictSubsetOrdering(S))
  <2>1. IsWellFoundedOn(StrictSubsetOrdering(S), FiniteSubsetsOf(S))
    BY FS_StrictSubsetOrderingWellFounded
  <2> HIDE DEF T
  <2> QED
    BY <1>2, <2>1, WFMin
<1>4. PICK f \in S : \A y \in T : ~ (<<y, Above(f)>> \in StrictSubsetOrdering(S))
  BY <1>3
<1>5. ASSUME NEW g \in S, g > f PROVE FALSE
  <2>1. f \in Nat /\ g \in Nat /\ \A y \in S : y \in Nat
    BY <1>1
  <2>2. g \in Above(f) /\ g \notin Above(g)
    BY <1>5, <2>1
  <2>3. \A y \in S : y > g => y > f
    BY <1>5, <2>1
  <2>4. Above(g) \subseteq Above(f) /\ Above(g) # Above(f)
    BY <2>2, <2>3
  <2>5. <<Above(g), Above(f)>> \in StrictSubsetOrdering(S)
    BY <2>4 DEF StrictSubsetOrdering
  <2> QED
    BY <1>4, <2>5
<1> QED
  BY <1>1, <1>5

(* donky_conn_set_fdmax returns the largest descriptor of the nodes.       *)
LEMMA SetFdmax ==
  ASSUME NEW s \in SUBSET Nodes, s # {}, \A n \in s : SockOf(n) \in Fds
  PROVE  /\ set_fdmax(s) \in {SockOf(n) : n \in s}
         /\ \A n \in s : SockOf(n) <= set_fdmax(s)
<1> DEFINE S == {SockOf(n) : n \in s}
<1>1. S \in SUBSET Fds /\ S # {}
  OBVIOUS
<1>2. \E f \in S : \A n \in s : SockOf(n) <= f
  BY <1>1, LargestExists
<1> QED
  BY <1>2 DEF set_fdmax

(* Unlinking a node moves those behind it up by one.                       *)
LEMMA Shifted ==
  ASSUME list \in Seq(Nodes), Once(list), NEW i \in 1..Len(list)
  PROVE  LET s == Without(list[i]) IN
         /\ Position(list[i]) = i
         /\ s \in Seq(Nodes) /\ Len(s) = Len(list) - 1
         /\ \A j \in 1..Len(s) : s[j] = IF j < i THEN list[j] ELSE list[j + 1]
<1> DEFINE n == list[i]
<1>2. Position(n) = i
  BY DEF Position, Once
<1> HIDE DEF n
<1> DEFINE a == SubSeq(list, 1, i - 1)
           b == SubSeq(list, i + 1, Len(list))
<1>4. /\ a \in Seq(Nodes) /\ Len(a) = i - 1
      /\ \A j \in 1..(i - 1) : a[j] = list[j]
  OBVIOUS
<1>5. /\ b \in Seq(Nodes) /\ Len(b) = Len(list) - i
      /\ \A j \in 1..(Len(list) - i) : b[j] = list[j + i]
  OBVIOUS
<1>6. Without(n) = a \o b
  BY <1>2 DEF Without
<1> HIDE DEF a, b
<1>7. /\ Without(n) \in Seq(Nodes) /\ Len(Without(n)) = Len(list) - 1
      /\ \A j \in 1..Len(Without(n)) :
            Without(n)[j] = IF j < i THEN list[j] ELSE list[j + 1]
  <2>1. /\ a \o b \in Seq(Nodes) /\ Len(a \o b) = Len(a) + Len(b)
        /\ \A j \in 1..(Len(a) + Len(b)) :
              (a \o b)[j] = IF j <= Len(a) THEN a[j] ELSE b[j - Len(a)]
    BY <1>4, <1>5, ConcatProperties
  <2>2. ASSUME NEW j \in 1..(Len(list) - 1)
        PROVE  (a \o b)[j] = IF j < i THEN list[j] ELSE list[j + 1]
    <3>1. CASE j < i
      BY <3>1, <1>4, <1>5, <2>1
    <3>2. CASE ~ (j < i)
      <4>1. j - (i - 1) \in 1..(Len(list) - i)
        BY <3>2
      <4>2. b[j - (i - 1)] = list[j - (i - 1) + i]
        BY <4>1, <1>5
      <4>3. (a \o b)[j] = b[j - (i - 1)]
        BY <3>2, <1>4, <1>5, <2>1
      <4> QED
        BY <3>2, <4>2, <4>3
    <3> QED
      BY <3>1, <3>2
  <2>3. Len(a \o b) = Len(list) - 1
    BY <1>4, <1>5, <2>1
  <2> QED
    BY <1>6, <2>1, <2>2, <2>3
<1> QED
  BY <1>2, <1>7 DEF n

(* Unlinking a node takes it from the list and disturbs nothing else.      *)
LEMMA Unlinked ==
  ASSUME list \in Seq(Nodes), Once(list), NEW n \in ToSet(list)
  PROVE  /\ Without(n) \in Seq(Nodes) /\ Once(Without(n))
         /\ ToSet(Without(n)) = ToSet(list) \ {n}
         /\ Successor(n) \in (ToSet(list) \ {n}) \cup {None}
         /\ ToSet(list) \subseteq Nodes
<1>1. PICK i \in 1..Len(list) : list[i] = n
  BY DEF ToSet
<1>2. Position(n) = i
  BY <1>1 DEF Position, Once
<1>3. Successor(n) \in (ToSet(list) \ {n}) \cup {None}
  <2>1. CASE i = Len(list)
    BY <1>2, <2>1 DEF Successor
  <2>2. CASE i # Len(list)
    <3>1. i + 1 \in 1..Len(list) /\ Successor(n) = list[i + 1]
      BY <1>2, <2>2 DEF Successor
    <3>2. list[i + 1] # n
      BY <1>1, <3>1 DEF Once
    <3> QED
      BY <3>1, <3>2 DEF ToSet
  <2> QED
    BY <2>1, <2>2
<1>7. /\ Without(n) \in Seq(Nodes) /\ Len(Without(n)) = Len(list) - 1
      /\ \A j \in 1..Len(Without(n)) :
            Without(n)[j] = IF j < i THEN list[j] ELSE list[j + 1]
  BY <1>1, Shifted
<1>8. Once(Without(n))
  BY <1>7 DEF Once
<1>9. ToSet(Without(n)) = ToSet(list) \ {n}
  <2>1. ASSUME NEW m \in ToSet(Without(n)) PROVE m \in ToSet(list) \ {n}
    <3>1. PICK j \in 1..Len(Without(n)) : Without(n)[j] = m
      BY <1>7 DEF ToSet
    <3>2. PICK l \in 1..Len(list) : l # i /\ list[l] = m
      BY <3>1, <1>7
    <3> QED
      BY <3>2, <1>1 DEF ToSet, Once
  <2>2. ASSUME NEW m \in ToSet(list), m # n PROVE m \in ToSet(Without(n))
    <3>1. PICK j \in 1..Len(list) : list[j] = m
      BY DEF ToSet
    <3>2. CASE j < i
      BY <3>1, <3>2, <1>7 DEF ToSet
    <3>3. CASE j > i
      <4>1. j - 1 \in 1..Len(Without(n)) /\ Without(n)[j - 1] = m
        BY <3>1, <3>3, <1>7
      <4> QED
        BY <4>1, <1>7 DEF ToSet
    <3> QED
      BY <3>1, <3>2, <3>3, <1>1, <2>2
  <2> QED
    BY <2>1, <2>2
<1>10. ToSet(list) \subseteq Nodes
  BY DEF ToSet
<1> QED
  BY <1>3, <1>7, <1>8, <1>9, <1>10
-----------------------------------------------------------------------------
(* The handlers keep the list, the descriptor set and fdmax in step.       *)

LEMMA InvTypes == Inv => TypeOK
<1> SUFFICES ASSUME Inv PROVE TypeOK
  OBVIOUS
<1>1. ToSet(list) \subseteq Nodes
  BY DEF Inv, Table, ListOK
<1>2. \A n \in Nodes : SockOf(n) \in Fds
  BY DEF Inv, Table, Node, SockOf
<1>3. fds \subseteq Fds /\ fdmax \in Fds
  BY <1>1, <1>2 DEF Inv, Table, FdsOK
<1> QED
  BY <1>3 DEF Inv, Table, Place, TypeOK

LEMMA TableKept ==
  ASSUME Table, UNCHANGED <<list, fds, fdmax>>,
         conn' \in [Nodes -> Node],
         \A n \in Nodes : conn'[n].live = conn[n].live /\ conn'[n].sock = conn[n].sock,
         subs' \in [Nodes -> 0..MaxSubs], peer' \in [Fds -> Peer]
  PROVE  Table'
<1>1. ListOK' /\ SocksOK'
  BY NodesAssumption DEF Table, ListOK, SocksOK, Once, Live, SockOf, Nodes
<1>2. ToSet(list) \subseteq Nodes
  BY DEF Table, ListOK
<1>3. {SockOf(n)' : n \in ToSet(list)} = {SockOf(n) : n \in ToSet(list)}
  BY <1>2 DEF SockOf
<1>4. FdsOK'
  BY <1>3 DEF Table, FdsOK, SockOf
<1> QED
  BY <1>1, <1>4 DEF Table

LEMMA AddTable ==
  ASSUME Table, NEW n \in Conns, ~Live(n), NEW f \in Fds \ OpenFds,
         donky_conn_add(n, f), UNCHANGED subs, peer' \in [Fds -> Peer]
  PROVE  Table'
<1> DEFINE new == [live |-> TRUE, sock |-> f, authed |-> FALSE, next |-> None]
<1>1. conn' = [conn EXCEPT ![n] = new] /\ new \in Node /\ n \in Nodes
  BY DEF donky_conn_add, Node, Nodes
<1>2. conn' \in [Nodes -> Node]
  BY <1>1 DEF Table
<1>3. \A m \in Nodes : conn'[m] = IF m = n THEN new ELSE conn[m]
  BY <1>1 DEF Table
<1>4. list' = Append(list, n) /\ list' \in Seq(Nodes)
  BY <1>1 DEF donky_conn_add, Table
<1>5. /\ Len(list') = Len(list) + 1 /\ list'[Len(list) + 1] = n
      /\ \A i \in 1..Len(list) : list'[i] = list[i]
  BY <1>4 DEF Table
<1>6. n \notin ToSet(list)
  BY DEF Table, ListOK
<1>7. Once(list')
  <2>1. Len(list) \in Nat /\ \A i \in 1..Len(list) : list[i] # n
    BY <1>6 DEF ToSet, Table
  <2>2. \A i \in 1..Len(list') : i \in 1..Len(list) \/ i = Len(list) + 1
    BY <1>5, <2>1
  <2>3. Once(list)
    BY DEF Table, ListOK
  <2> QED
    BY <1>5, <2>1, <2>2, <2>3 DEF Once
<1>8. ToSet(list)' = ToSet(list) \cup {n}
  <2>1. ASSUME NEW m \in ToSet(list) PROVE m \in ToSet(list')
    <3>1. PICK i \in 1..Len(list) : list[i] = m
      BY DEF ToSet, Table
    <3>2. i \in DOMAIN list' /\ list'[i] = m
      BY <3>1, <1>4, <1>5 DEF Table
    <3> QED
      BY <3>2 DEF ToSet
  <2>2. n \in ToSet(list')
    BY <1>4, <1>5 DEF ToSet, Table
  <2>3. ToSet(list') \subseteq ToSet(list) \cup {n}
    BY <1>4, <1>5 DEF ToSet, Table
  <2> QED
    BY <2>1, <2>2, <2>3
<1>9. ListOK'
  BY <1>1, <1>3, <1>7, <1>8 DEF Table, ListOK, Live
<1>10. SocksOK'
  <2>1. \A m \in Nodes : Live(m) => SockOf(m) # f
    BY DEF OpenFds
  <2> QED
    BY <1>3, <2>1, NodesAssumption DEF Table, SocksOK, Live, SockOf, Nodes
<1>11. FdsOK'
  <2>1. ToSet(list) \subseteq Nodes \ {n}
    BY <1>6 DEF Table, ListOK
  <2>2. {SockOf(m)' : m \in ToSet(list) \cup {n}} = {SockOf(m) : m \in ToSet(list)} \cup {f}
    BY <1>1, <1>3, <2>1 DEF SockOf
  <2>3. fds' = fds \cup {f}
    BY DEF donky_conn_add
  <2>4. fds' = {SockOf(m)' : m \in ToSet(list)'}
    BY <1>8, <2>2, <2>3 DEF Table, FdsOK
  <2>5. fds \subseteq Nat /\ f \in Nat /\ fdmax \in Nat
    BY <2>1, FdsAssumption DEF Table, FdsOK, SockOf, Node
  <2>6. fdmax' = IF f > fdmax THEN f ELSE fdmax
    BY DEF donky_conn_add
  <2>7. fdmax' \in fds' /\ \A g \in fds' : g <= fdmax'
    BY <2>3, <2>5, <2>6 DEF Table, FdsOK
  <2> QED
    BY <2>4, <2>7 DEF FdsOK
<1> QED
  BY <1>2, <1>4, <1>9, <1>10, <1>11 DEF Table

LEMMA DropTable ==
  ASSUME Table, NEW n \in Conns, Live(n), donky_conn_drop(n)
  PROVE  Table' /\ ~Live(n)' /\ LiveOrEnd(conn[n].next)'
<1>1. n \in Nodes /\ n \in ToSet(list) /\ n # Listener
  BY NodesAssumption DEF Table, ListOK, Nodes
<1>2. /\ Without(n) \in Seq(Nodes) /\ Once(Without(n))
      /\ ToSet(Without(n)) = ToSet(list) \ {n}
      /\ Successor(n) \in (ToSet(list) \ {n}) \cup {None}
      /\ ToSet(list) \subseteq Nodes
  BY <1>1, Unlinked DEF Table, ListOK
<1>3. /\ conn' \in [Nodes -> Node]
      /\ \A m \in Nodes : /\ conn'[m].sock = conn[m].sock
                          /\ conn'[m].live = (m # n /\ conn[m].live)
  BY <1>1, <1>2, ZenonT(30) DEF Table, Node, donky_conn_drop
<1>4. subs' \in [Nodes -> 0..MaxSubs]
  BY <1>1, BoundsAssumption DEF Table, donky_conn_drop
<1>5. peer' \in [Fds -> Peer]
  <2>1. NoPeer \in Peer
    BY DEF NoPeer, Peer
  <2> QED
    BY <2>1 DEF Table, donky_conn_drop
<1>6. list' = Without(n)
  BY DEF donky_conn_drop
<1>7. ListOK'
  BY <1>1, <1>2, <1>3, <1>6 DEF Table, ListOK, Live
<1>8. SocksOK'
  BY <1>1, <1>3, NodesAssumption DEF Table, SocksOK, Live, SockOf, Nodes
<1>9. FdsOK'
  <2> DEFINE rest == ToSet(list) \ {n}
  <2>1. rest \subseteq Nodes /\ Listener \in rest
    BY <1>1 DEF Table, ListOK, SocksOK, Nodes
  <2>2. \A m \in ToSet(list) : SockOf(m) \in Fds /\ (SockOf(m) = SockOf(n) => m = n)
    BY <1>1 DEF Table, ListOK, SocksOK, SockOf, Node
  <2>3. {SockOf(m)' : m \in rest} = {SockOf(m) : m \in rest}
    BY <1>3, <2>1 DEF SockOf
  <2>4. fds' = {SockOf(m) : m \in rest}
    BY <1>1, <2>2 DEF Table, FdsOK, donky_conn_drop
  <2>5. fds' = {SockOf(m)' : m \in ToSet(list)'}
    BY <1>2, <1>6, <2>3, <2>4
  <2>6. CASE SockOf(n) = fdmax
    <3>1. fdmax' = set_fdmax(rest)
      BY <2>6, <1>2 DEF donky_conn_drop
    <3>2. /\ set_fdmax(rest) \in {SockOf(m) : m \in rest}
          /\ \A m \in rest : SockOf(m) <= set_fdmax(rest)
      BY <2>1, <2>2, SetFdmax
    <3> QED
      BY <2>4, <2>5, <3>1, <3>2 DEF FdsOK
  <2>7. CASE SockOf(n) # fdmax
    <3>1. fdmax' = fdmax /\ fds' = fds \ {SockOf(n)}
      BY <2>7 DEF donky_conn_drop
    <3> QED
      BY <2>5, <2>7, <3>1 DEF Table, FdsOK
  <2> QED
    BY <2>6, <2>7
<1>10. conn'[n].next = Successor(n)
  BY <1>1 DEF Table, Node, donky_conn_drop
<1>11. ~Live(n)' /\ LiveOrEnd(conn[n].next)'
  <2>1. ~Live(n)'
    BY <1>1, <1>3 DEF Live
  <2>2. ASSUME NEW m \in ToSet(list) \ {n} PROVE m \in Nodes /\ Live(m)'
    BY <1>2, <1>3 DEF Live, Table, ListOK
  <2>3. LiveOrEnd(conn[n].next)'
    <3>1. CASE Successor(n) = None
      BY <1>10, <3>1 DEF LiveOrEnd
    <3>2. CASE Successor(n) \in ToSet(list) \ {n}
      <4>1. Successor(n) \in Nodes /\ conn'[Successor(n)].live
        BY <2>2, <3>2 DEF Live
      <4> QED
        BY <1>10, <4>1 DEF LiveOrEnd, Live
    <3> QED
      BY <1>2, <3>1, <3>2
  <2> QED
    BY <2>1, <2>3
<1> QED
  BY <1>2, <1>3, <1>4, <1>5, <1>6, <1>7, <1>8, <1>9, <1>11 DEF Table
-----------------------------------------------------------------------------
(* Every step keeps the invariant.                                         *)

LEMMA InitInv == Init => Inv
<1> SUFFICES ASSUME Init PROVE Inv
  OBVIOUS
<1>1. Listener \in Nodes /\ NoPeer \in Peer /\ ListenFd \in Nat /\ 0 \in 0..MaxSubs
      /\ 0 \in 0..MaxBacklog
  BY FdsAssumption, BoundsAssumption DEF Nodes, NoPeer, Peer
<1>2. list \in Seq(Nodes) /\ ToSet(list) = {Listener} /\ Once(list)
  BY <1>1 DEF Init, ToSet, Once
<1>3. conn \in [Nodes -> Node] /\ \A n \in Nodes : Live(n) <=> n = Listener
  BY FdsAssumption DEF Init, Node, Live
<1>4. SockOf(Listener) = ListenFd /\ fds = {ListenFd} /\ fdmax = ListenFd
  BY <1>1 DEF Init, SockOf
<1>5. Table
  BY <1>1, <1>2, <1>3, <1>4 DEF Init, Table, ListOK, SocksOK, FdsOK
<1>6. Place
  <2>1. ready = {} /\ pc = "select" /\ cur = None /\ lines = <<>> /\ backlog = 0
        /\ crashed = FALSE
    BY DEF Init
  <2>2. <<>> \in Seq(Lines \cup {Fragment})
    OBVIOUS
  <2>3. lines \in Seq(Lines \cup {Fragment})
    BY <2>1, <2>2
  <2>4. ready \subseteq Fds /\ backlog \in 0..MaxBacklog /\ crashed \in BOOLEAN
    BY <1>1, <2>1
  <2> QED
    BY <2>1, <2>3, <2>4 DEF Place
<1>7. Cursor
  BY DEF Init, Cursor
<1> QED
  BY <1>5, <1>6, <1>7 DEF Inv

(* The traversal goes on to a live node, or to the end of the list.        *)
LEMMA NextIsLive ==
  ASSUME Table, NEW n \in Nodes, Live(n) \/ LiveOrEnd(conn[n].next)
  PROVE  LiveOrEnd(NextOf(n))
<1>1. CASE Live(n)
  <2>1. Successor(n) \in ToSet(list) \cup {None}
    BY <1>1, Unlinked DEF Table, ListOK
  <2>2. NextOf(n) = Successor(n)
    BY <1>1 DEF NextOf
  <2>3. \A m \in ToSet(list) : m \in Nodes /\ Live(m)
    BY DEF Table, ListOK
  <2> QED
    BY <2>1, <2>2, <2>3 DEF LiveOrEnd
<1>2. CASE ~Live(n)
  BY <1>2 DEF NextOf
<1> QED
  BY <1>1, <1>2

LEMMA LoopInv ==
  ASSUME Inv, Select \/ NotReady \/ EndOfWalk \/ Advance \/ AcceptFails,
         UNCHANGED crashed
  PROVE  Inv'
<1> USE DEF Inv
<1>1. ASSUME UNCHANGED <<list, conn, fds, fdmax, subs, peer>> PROVE Table'
  BY <1>1, TableKept DEF Table
<1>2. CASE Select
  <2>1. list[1] \in Nodes /\ Live(list[1])
    <3>1. Listener \in ToSet(list)
      BY DEF Table, ListOK, SocksOK, Nodes
    <3>2. list[1] \in ToSet(list)
      BY <3>1 DEF Table, ToSet
    <3> QED
      BY <3>2 DEF Table, ListOK
  <2>2. Table'
    BY <1>1, <1>2 DEF Select, envVars
  <2>3. ready' \subseteq Fds
    BY <1>2 DEF Select, Table, FdsOK, ListOK, SockOf, Node
  <2>4. Place'
    BY <1>2, <2>1, <2>3 DEF Select, envVars, Place
  <2>5. Cursor'
    BY <1>2, <2>1 DEF Select, Cursor, LiveOrEnd, Live
  <2> QED
    BY <2>2, <2>4, <2>5
<1>3. CASE NotReady
  <2>1. LiveOrEnd(NextOf(cur))
    BY <1>3, NextIsLive DEF NotReady, Place, Cursor, LiveOrEnd
  <2>2. Place'
    BY <1>3, <2>1 DEF NotReady, envVars, Place, LiveOrEnd
  <2>3. Cursor'
    BY <1>3, <2>1 DEF NotReady, Cursor, LiveOrEnd, Live
  <2> QED
    BY <1>1, <1>3, <2>2, <2>3 DEF NotReady, envVars
<1>4. CASE EndOfWalk
  <2>1. /\ conn' \in [Nodes -> Node]
        /\ \A n \in Nodes : conn'[n].live = conn[n].live /\ conn'[n].sock = conn[n].sock
    BY <1>4 DEF EndOfWalk, Live, Table, Node
  <2>2. Table'
    BY <1>4, <2>1, TableKept DEF EndOfWalk, envVars, Table
  <2> QED
    BY <1>4, <2>2 DEF EndOfWalk, envVars, Place, Cursor
<1>5. CASE Advance
  <2>1. Table'
    BY <1>1, <1>5 DEF Advance, envVars
  <2>2. CASE pc = "next"
    <3>1. LiveOrEnd(NextOf(cur))
      BY <2>2, NextIsLive DEF Place, Cursor
    <3>2. cur' = NextOf(cur) /\ pc' = "walk"
      BY <1>5, <2>2 DEF Advance
    <3>3. Place'
      BY <1>5, <2>2, <3>1, <3>2 DEF Advance, envVars, Place, LiveOrEnd
    <3>4. Cursor'
      BY <1>5, <2>2, <3>1, <3>2 DEF Advance, Cursor, LiveOrEnd, Live
    <3> QED
      BY <2>1, <3>3, <3>4
  <2>3. CASE pc = "lines"
    <3>1. pc' = "next" /\ UNCHANGED <<conn, cur, ready, lines, backlog>>
      BY <1>5, <2>3 DEF Advance, envVars
    <3>2. Cursor'
      BY <2>3, <3>1 DEF Cursor, LiveOrEnd, Live
    <3> QED
      BY <2>1, <2>3, <3>1, <3>2 DEF Place, Nodes
  <2> QED
    BY <1>5, <2>2, <2>3 DEF Advance
<1>6. CASE AcceptFails
  <2>1. Live(cur)
    BY <1>6, NodesAssumption DEF AcceptFails, Table, SocksOK
  <2>2. Cursor'
    BY <1>6, <2>1 DEF AcceptFails, Cursor, Live
  <2> QED
    BY <1>1, <1>6, <2>2 DEF AcceptFails, envVars, Place, Nodes
<1> QED
  BY <1>2, <1>3, <1>4, <1>5, <1>6

LEMMA AcceptInv ==
  ASSUME Inv, NEW n \in Conns, NEW f \in Fds, Accept(n, f), UNCHANGED crashed
  PROVE  Inv'
<1> USE DEF Inv
<1>1. peer' \in [Fds -> Peer]
  BY DEF Accept, Table, NoPeer, Peer
<1>2. Table'
  BY <1>1, AddTable DEF Accept
<1>3. Cursor'
  BY <1>2 DEF Accept, Cursor, Table, SocksOK
<1> QED
  BY <1>2, <1>3, BoundsAssumption DEF Accept, Place, Nodes

LEMMA RecvInv ==
  ASSUME Inv, RecvPiece \/ RecvHangup \/ \E k \in 1..MaxSent : Recv(k),
         UNCHANGED crashed
  PROVE  Inv'
<1> USE DEF Inv
<1>1. ASSUME ReadyClient
      PROVE  cur \in Conns /\ cur \in Nodes /\ SockOf(cur) \in Fds
             /\ peer[SockOf(cur)] \in Peer /\ Live(cur)
  BY <1>1, NodesAssumption
     DEF ReadyClient, Nodes, Table, Node, SockOf, Cursor, LiveOrEnd
<1>2. ASSUME UNCHANGED <<list, conn, fds, fdmax, subs>>, peer' \in [Fds -> Peer]
      PROVE  Table'
  BY <1>2, TableKept DEF Table
<1>6. ASSUME ReadyClient, UNCHANGED <<conn, cur>> PROVE Cursor'
  BY <1>1, <1>6 DEF Cursor, LiveOrEnd, Live
<1>3. CASE RecvPiece
  <2>1. peer' \in [Fds -> Peer]
    BY <1>1, <1>3 DEF RecvPiece, Table, Peer
  <2> QED
    BY <1>1, <1>2, <1>3, <1>6, <2>1 DEF RecvPiece, Place
<1>4. CASE RecvHangup
  <2>1. Table' /\ LiveOrEnd(conn[cur].next)'
    BY <1>1, <1>4, DropTable DEF RecvHangup
  <2>2. Cursor'
    BY <1>4, <2>1 DEF RecvHangup, Cursor, LiveOrEnd
  <2> QED
    BY <1>1, <1>4, <2>1, <2>2 DEF RecvHangup, Place
<1>5. ASSUME NEW k \in 1..MaxSent, Recv(k) PROVE Inv'
  <2> DEFINE box == peer[SockOf(cur)].inbox
             whole == SubSeq(box, 1, k)
  <2>1. box \in Seq(Lines) /\ k \in 1..Len(box)
    BY <1>1, <1>5 DEF Recv, Peer
  <2>2. whole \in Seq(Lines) /\ whole # <<>> /\ SubSeq(box, k + 1, Len(box)) \in Seq(Lines)
    BY <2>1
  <2>3. peer' \in [Fds -> Peer]
    BY <1>1, <1>5, <2>2 DEF Recv, Table, Peer
  <2>4. <<Fragment>> \o Tail(whole) \in Seq(Lines \cup {Fragment})
        /\ whole \in Seq(Lines \cup {Fragment})
    BY <2>2
  <2>5. lines' \in Seq(Lines \cup {Fragment})
    BY <1>5, <2>4 DEF Recv
  <2> QED
    BY <1>1, <1>2, <1>5, <1>6, <2>3, <2>5 DEF Recv, Place
<1> QED
  BY <1>3, <1>4, <1>5

LEMMA HandleInv ==
  ASSUME Inv, HandleAuth \/ HandleVar \/ HandleBye \/ HandleOther, UNCHANGED crashed
  PROVE  Inv'
<1> USE DEF Inv
<1>1. cur \in Conns /\ cur \in Nodes /\ lines # <<>>
  BY DEF HandleAuth, HandleVar, HandleBye, HandleOther, Command, Handling, Place, Nodes
<1>2. Tail(lines) \in Seq(Lines \cup {Fragment})
  BY <1>1 DEF Place
<1>3. ASSUME NEW b \in BOOLEAN, conn' = [conn EXCEPT ![cur].authed = b],
             UNCHANGED <<list, fds, fdmax, peer, cur, pc>>, subs' \in [Nodes -> 0..MaxSubs]
      PROVE  Table' /\ Cursor'
  <2>1. /\ conn' \in [Nodes -> Node]
        /\ \A n \in Nodes : conn'[n].live = conn[n].live /\ conn'[n].sock = conn[n].sock
                            /\ conn'[n].next = conn[n].next
    BY <1>1, <1>3 DEF Table, Node
  <2>2. Table'
    BY <1>3, <2>1, TableKept DEF Table
  <2>3. Cursor'
    BY <1>1, <1>3, <2>1 DEF Cursor, LiveOrEnd, Live, Place
  <2> QED
    BY <2>2, <2>3
<1>4. CASE HandleAuth
  <2>1. (conn[cur].authed \/ Matches(Line)) \in BOOLEAN
    OBVIOUS
  <2>2. conn' = [conn EXCEPT ![cur].authed = conn[cur].authed \/ Matches(Line)]
    BY <1>4 DEF HandleAuth
  <2>3. Table' /\ Cursor'
    BY <1>3, <1>4, <2>1, <2>2 DEF HandleAuth, envVars, Table
  <2> QED
    BY <1>2, <1>4, <2>3 DEF HandleAuth, envVars, Place
<1>5. CASE HandleVar
  <2>1. subs' \in [Nodes -> 0..MaxSubs]
    <3>1. subs \in [Nodes -> 0..MaxSubs]
      BY DEF Table
    <3>2. CASE UNCHANGED subs
      BY <3>1, <3>2
    <3>3. CASE ~ UNCHANGED subs
      <4>1. subs[cur] < MaxSubs /\ subs' = [subs EXCEPT ![cur] = @ + 1]
        BY <1>5, <3>3 DEF HandleVar
      <4> QED
        BY <1>1, <3>1, <4>1, BoundsAssumption
    <3> QED
      BY <3>2, <3>3
  <2>2. Table' /\ Cursor'
    BY <1>3, <1>5, <2>1 DEF HandleVar, envVars
  <2> QED
    BY <1>2, <1>5, <2>2 DEF HandleVar, envVars, Place
<1>6. CASE HandleBye
  <2>1. Table' /\ LiveOrEnd(conn[cur].next)'
    BY <1>1, <1>6, DropTable DEF HandleBye
  <2>2. Cursor'
    BY <1>6, <2>1 DEF HandleBye, Command, Handling, Cursor, LiveOrEnd
  <2> QED
    BY <1>1, <1>2, <1>6, <2>1, <2>2 DEF HandleBye, Place
<1>7. CASE HandleOther
  <2>1. Table' /\ Cursor'
    BY <1>3, <1>7 DEF HandleOther, envVars, Table
  <2> QED
    BY <1>2, <1>7, <2>1 DEF HandleOther, envVars, Place
<1> QED
  BY <1>4, <1>5, <1>6, <1>7

LEMMA EnvironmentInv == Inv /\ Environment => Inv'
<1> SUFFICES ASSUME Inv, Environment PROVE Inv'
  OBVIOUS
<1> USE DEF Inv
<1>1. UNCHANGED crashed
  BY DEF Environment
<1>2. ASSUME UNCHANGED mainVars, peer' \in [Fds -> Peer], backlog' \in 0..MaxBacklog,
             subs' \in [Nodes -> 0..MaxSubs]
      PROVE  Inv'
  BY <1>1, <1>2, TableKept DEF mainVars, Table, Place, Cursor, LiveOrEnd, Live
<1>3. CASE PeerConnect
  BY <1>2, <1>3, BoundsAssumption DEF PeerConnect, Table, Place
<1>4. ASSUME NEW f \in Fds, PeerHangup(f) PROVE Inv'
  <2>1. peer' \in [Fds -> Peer]
    BY <1>4 DEF PeerHangup, Table, Peer
  <2> QED
    BY <1>2, <1>4, <2>1 DEF PeerHangup, Table, Place
<1>5. ASSUME NEW f \in Fds, NEW line \in Lines, PeerSend(f, line) PROVE Inv'
  <2>1. peer[f] \in Peer
    BY DEF Table
  <2> DEFINE box == Append(peer[f].inbox, line)
             n == peer[f].sent + 1
             d == peer[f].proved \/ Proves(line)
  <2>2. peer' = [peer EXCEPT ![f] = [peer[f] EXCEPT
                    !.inbox = box, !.sent = n, !.proved = d]]
    BY <1>5 DEF PeerSend, Table
  <2>3. box \in Seq(Lines) /\ n \in Nat /\ d \in BOOLEAN
    BY <2>1 DEF Peer
  <2> HIDE DEF box, n, d
  <2>4. [peer[f] EXCEPT !.inbox = box, !.sent = n, !.proved = d] \in Peer
    BY <2>1, <2>3 DEF Peer
  <2>5. peer' \in [Fds -> Peer]
    BY <2>2, <2>4 DEF Table
  <2> QED
    BY <1>2, <1>5, <2>5 DEF PeerSend, Table, Place
<1>6. ASSUME NEW n \in Nodes, RequestLeaves(n) PROVE Inv'
  BY <1>2, <1>6, BoundsAssumption DEF RequestLeaves, envVars, Table, Place
<1>7. CASE StrtokElsewhere
  <2>1. Line \in Lines \cup {Fragment}
    BY <1>7 DEF StrtokElsewhere, Handling, Line, Place
  <2>2. lines' \in Seq(Lines \cup {Fragment})
    <3> DEFINE S == Lines \cup {Fragment}
    <3>1. Fragment \in S /\ Line \in S
      BY <2>1
    <3>2. lines' = <<Line>> \/ lines' = <<Line, Fragment>>
      BY <1>7 DEF StrtokElsewhere
    <3> HIDE DEF S
    <3>3. <<Line>> \in Seq(S) /\ <<Line, Fragment>> \in Seq(S)
      BY <3>1
    <3> QED
      BY <3>2, <3>3 DEF S
  <2>3. Table'
    BY <1>7, TableKept DEF StrtokElsewhere, envVars, Table
  <2>4. Cursor'
    BY <1>7 DEF StrtokElsewhere, Cursor, LiveOrEnd, Live
  <2> QED
    BY <1>1, <1>7, <2>2, <2>3, <2>4 DEF StrtokElsewhere, envVars, Place
<1> QED
  BY <1>3, <1>4, <1>5, <1>6, <1>7 DEF Environment

LEMMA NextInv == Inv /\ [Next]_vars => Inv'
<1> SUFFICES ASSUME Inv, [Next]_vars PROVE Inv'
  OBVIOUS
<1>1. CASE Main
  BY <1>1, LoopInv, AcceptInv, RecvInv, HandleInv DEF Main
<1>2. CASE Environment
  BY <1>2, EnvironmentInv
<1>3. ASSUME UNCHANGED <<mainVars, envVars, subs>>, crashed' \in BOOLEAN
      PROVE  Inv'
  BY <1>3, TableKept
     DEF Inv, Table, Place, Cursor, LiveOrEnd, Live, mainVars, envVars
<1>4. CASE Crash
  BY <1>3, <1>4 DEF Crash
<1>5. CASE UNCHANGED vars
  BY <1>3, <1>5 DEF vars, Inv, Place
<1> QED
  BY <1>1, <1>2, <1>4, <1>5 DEF Next

LEMMA InvHolds == Spec => []Inv
  BY InitInv, NextInv, PTL DEF Spec

(* Type correctness of the main thread's state.                            *)
THEOREM TypeCorrect == Spec => []TypeOK
  BY InvHolds, InvTypes, PTL

(* After every handler select watches exactly the connections: donky_fds   *)
(* holds the sockets of the nodes on the list and donky_fdmax is the       *)
(* largest of them, whatever order clients come and go in (daemon.c,       *)
(* donky_conn_add, donky_conn_drop and donky_conn_set_fdmax).              *)
THEOREM EveryConnectionIsWatched == Spec => []SelectWatchesAll
<1>1. Inv => SelectWatchesAll
  BY DEF Inv, Table, ListOK, FdsOK, SelectWatchesAll
<1> QED
  BY <1>1, InvHolds, PTL
-----------------------------------------------------------------------------
(* Who is let in.                                                          *)

(* Where the password is on its way, or compared, it was presented.        *)
SentProves(f) ==
    \A i \in 1..Len(peer[f].inbox) : Proves(peer[f].inbox[i]) => peer[f].proved
Earned(s, f) == \A i \in 1..Len(s) : Matches(s[i]) => peer[f].proved

Gate ==
    /\ \A f \in Fds : SentProves(f)
    /\ pc = "lines" /\ Live(cur) /\ Password # None => Earned(lines, SockOf(cur))
    /\ AuthGate

Served == Inv /\ Gate

LEMMA MatchProves ==
  ASSUME NEW line \in Lines, Password # None, Matches(line)
  PROVE  Proves(line)
<1>1. line.words \in Seq(Words) /\ line.words # <<>>
  BY LinesAssumption DEF Matches
<1>2. Password = <<line.words[1]>> /\ Len(line.words) >= 1
      /\ line.words[1] \in Words
  BY <1>1 DEF Matches
<1> DEFINE one == <<line.words[1]>>
<1>3. one \in Seq(Words) /\ Len(one) = 1 /\ one[1] = line.words[1]
  BY <1>2
<1> HIDE DEF one
<1>4. SubSeq(Password, 1, Len(Password)) = SubSeq(line.words, 1, Len(Password))
  <2>1. ASSUME NEW s \in Seq(Words), Len(s) >= 1, s[1] = line.words[1]
        PROVE  SubSeq(s, 1, 1) = one
    <3>1. SubSeq(s, 1, 1) \in Seq(Words) /\ Len(SubSeq(s, 1, 1)) = 1
          /\ SubSeq(s, 1, 1)[1] = s[1]
      BY <2>1
    <3> QED
      BY <1>3, <2>1, <3>1, SeqEqual
  <2>2. Password = one
    BY <1>2 DEF one
  <2> QED
    BY <1>1, <1>2, <1>3, <2>1, <2>2
<1> QED
  BY <1>2, <1>4 DEF Proves, IsPrefix, Matches

LEMMA FragmentIsNone ==
  Fragment.cmd = "fragment" /\ ~Matches(Fragment) /\ ~Proves(Fragment)
  BY DEF Fragment, Matches, Proves

(* Steps that change neither what clients sent nor who is connected.       *)
LEMMA ServedKept ==
  ASSUME Served, Inv', UNCHANGED peer,
         \A n \in Nodes : /\ conn'[n].live = conn[n].live
                          /\ conn'[n].sock = conn[n].sock
                          /\ conn'[n].authed = conn[n].authed,
         UNCHANGED lines,
         pc' = "lines" => pc = "lines" /\ cur' = cur
  PROVE  Served'
<1>1. \A f \in Fds : SentProves(f)'
  BY DEF Served, Gate, SentProves, Proves
<1>2. pc' = "lines" => cur \in Nodes
  BY DEF Served, Inv, Place, Nodes
<1>4. AuthGate'
  BY DEF Served, Gate, AuthGate, Live, SockOf, Nodes
<1>6. (pc = "lines" /\ Live(cur) /\ Password # None => Earned(lines, SockOf(cur)))'
  BY <1>2 DEF Served, Gate, Earned, Matches, Live, SockOf
<1>7. Gate'
  BY <1>1, <1>4, <1>6 DEF Gate
<1> QED
  BY <1>7 DEF Served

LEMMA LoopServed ==
  ASSUME Served, Inv', Select \/ NotReady \/ EndOfWalk \/ Advance \/ AcceptFails
  PROVE  Served'
<1>1. CASE ~EndOfWalk
  BY <1>1, ServedKept DEF Select, NotReady, Advance, AcceptFails, envVars
<1>2. CASE EndOfWalk
  <2>1. \A n \in Nodes : /\ conn'[n].live = conn[n].live
                         /\ conn'[n].sock = conn[n].sock
                         /\ conn'[n].authed = conn[n].authed
    BY <1>2 DEF EndOfWalk, Live, Served, Inv, Table, Node
  <2> QED
    BY <1>2, <2>1, ServedKept DEF EndOfWalk, envVars
<1> QED
  BY <1>1, <1>2

LEMMA AcceptServed ==
  ASSUME Served, Inv', NEW n \in Conns, NEW f \in Fds, Accept(n, f)
  PROVE  Served'
<1>1. /\ n \in Nodes /\ ~Live(n) /\ f \notin OpenFds /\ pc' = "next"
      /\ UNCHANGED lines
  BY DEF Accept, Nodes
<1>2. \A g \in Fds : peer'[g] = IF g = f THEN NoPeer ELSE peer[g]
  BY DEF Accept, Served, Inv, Table
<1>3. \A m \in Nodes : m # n => conn'[m] = conn[m]
  BY DEF Accept, donky_conn_add, Served, Inv, Table
<1>4. conn'[n].live /\ conn'[n].authed = FALSE
  BY <1>1 DEF Accept, donky_conn_add, Served, Inv, Table
<1>6. \A g \in Fds : SentProves(g)'
  BY <1>2 DEF Served, Gate, SentProves, Proves, NoPeer
<1>8. AuthGate'
  <2> SUFFICES ASSUME Password # None, NEW m \in Conns, Live(m)', conn'[m].authed
               PROVE  peer'[SockOf(m)'].proved
    BY DEF AuthGate
  <2>1. m # n /\ m \in Nodes
    BY <1>1, <1>4 DEF Nodes
  <2>2. Live(m) /\ SockOf(m)' = SockOf(m) /\ peer[SockOf(m)].proved
    BY <1>1, <1>3, <2>1 DEF Served, Gate, AuthGate, Live, SockOf
  <2>3. SockOf(m) # f /\ SockOf(m) \in Fds
    BY <1>1, <2>1, <2>2 DEF OpenFds, Served, Inv, Table, Node, SockOf
  <2> QED
    BY <1>2, <2>2, <2>3
<1> QED
  BY <1>1, <1>6, <1>8 DEF Served, Gate

LEMMA DropServed ==
  ASSUME Served, Inv', NEW n \in Conns, Live(n), donky_conn_drop(n),
         pc' = "lines" => cur' = n
  PROVE  Served'
<1>1. n \in Nodes /\ SockOf(n) \in Fds
  BY DEF Served, Inv, Table, Node, SockOf, Nodes
<1>2. \A g \in Fds : peer'[g] = IF g = SockOf(n) THEN NoPeer ELSE peer[g]
  BY <1>1 DEF donky_conn_drop, Served, Inv, Table
<1>3. \A m \in Nodes : m # n => conn'[m] = conn[m]
  BY DEF donky_conn_drop, Served, Inv, Table
<1>4. conn'[n].live = FALSE
  BY <1>1 DEF donky_conn_drop, Served, Inv, Table, Node
<1>6. \A g \in Fds : SentProves(g)'
  BY <1>2 DEF Served, Gate, SentProves, Proves, NoPeer
<1>8. AuthGate'
  <2> SUFFICES ASSUME Password # None, NEW m \in Conns, Live(m)', conn'[m].authed
               PROVE  peer'[SockOf(m)'].proved
    BY DEF AuthGate
  <2>1. m # n /\ m \in Nodes
    BY <1>4 DEF Nodes, Live
  <2>2. Live(m) /\ SockOf(m)' = SockOf(m) /\ peer[SockOf(m)].proved
    BY <1>3, <2>1 DEF Served, Gate, AuthGate, Live, SockOf
  <2>3. SockOf(m) # SockOf(n) /\ SockOf(m) \in Fds
    BY <1>1, <2>1, <2>2 DEF Served, Inv, Table, SocksOK, Node, SockOf
  <2> QED
    BY <1>2, <2>2, <2>3
<1>9. pc' = "lines" => ~Live(cur)'
  BY <1>4 DEF Live
<1> QED
  BY <1>6, <1>8, <1>9 DEF Served, Gate

LEMMA TailFacts ==
  ASSUME NEW S, NEW s \in Seq(S), s # <<>>
  PROVE  /\ Tail(s) \in Seq(S) /\ Len(s) \in Nat \ {0} /\ Len(Tail(s)) = Len(s) - 1
         /\ Head(s) = s[1] /\ s[1] \in S
         /\ \A i \in 1..Len(Tail(s)) : Tail(s)[i] = s[i + 1]
  OBVIOUS

LEMMA HeadReplaced ==
  ASSUME NEW S, NEW s \in Seq(S), s # <<>>, NEW a \in S
  PROVE  /\ Len(<<a>> \o Tail(s)) = Len(s)
         /\ \A i \in 1..Len(s) : (<<a>> \o Tail(s))[i] = a \/ (<<a>> \o Tail(s))[i] = s[i]
<1> DEFINE t == Tail(s)
           h == <<a>>
<1>1. t \in Seq(S) /\ h \in Seq(S) /\ Len(h) = 1 /\ h[1] = a /\ Len(t) = Len(s) - 1
      /\ Len(s) \in Nat \ {0} /\ \A i \in 1..Len(t) : t[i] = s[i + 1]
  BY TailFacts
<1> HIDE DEF t, h
<1>2. /\ Len(h \o t) = Len(h) + Len(t)
      /\ \A i \in 1..(Len(h) + Len(t)) :
            (h \o t)[i] = IF i <= Len(h) THEN h[i] ELSE t[i - Len(h)]
  BY <1>1, ConcatProperties
<1>3. ASSUME NEW i \in 1..Len(s), i # 1 PROVE (h \o t)[i] = s[i]
  <2>1. i - 1 \in 1..Len(t) /\ (h \o t)[i] = t[i - 1]
    BY <1>1, <1>2, <1>3
  <2>2. t[i - 1] = s[(i - 1) + 1]
    BY <1>1, <2>1
  <2> QED
    BY <2>1, <2>2
<1>4. (h \o t)[1] = a
  BY <1>1, <1>2
<1> QED
  BY <1>1, <1>2, <1>3, <1>4 DEF t, h

LEMMA RecvServed ==
  ASSUME Served, Inv', RecvPiece \/ RecvHangup \/ \E k \in 1..MaxSent : Recv(k)
  PROVE  Served'
<1>1. /\ ReadyClient /\ cur \in Conns /\ cur \in Nodes /\ SockOf(cur) \in Fds /\ Live(cur)
      /\ peer[SockOf(cur)] \in Peer
  BY NodesAssumption DEF RecvPiece, RecvHangup, Recv, ReadyClient, Nodes, Served,
        Inv, Table, Node, SockOf, Cursor, LiveOrEnd
<1>2. ASSUME UNCHANGED <<conn, cur>>,
             \A g \in Fds : SentProves(g)'
                            /\ peer'[g].proved = peer[g].proved,
             Password # None => Earned(lines', SockOf(cur))
      PROVE  Served'
  <2>1. AuthGate'
    <3>1. \A m \in Conns : SockOf(m) \in Fds
      BY DEF Served, Inv, Table, Node, SockOf, Nodes
    <3> QED
      BY <1>2, <3>1 DEF Served, Gate, AuthGate, Live, SockOf
  <2>2. Password # None => Earned(lines, SockOf(cur))'
    BY <1>1, <1>2 DEF Earned, Matches, SockOf
  <2>4. Live(cur)'
    BY <1>1, <1>2 DEF Live
  <2> QED
    BY <1>2, <2>1, <2>2, <2>4 DEF Served, Gate
<1>3. CASE RecvPiece
  <2>1. \A g \in Fds : peer'[g].inbox = peer[g].inbox /\ peer'[g].proved = peer[g].proved
    BY <1>1, <1>3 DEF RecvPiece, Served, Inv, Table, Peer
  <2>2. \A g \in Fds : SentProves(g)'
    BY <2>1 DEF Served, Gate, SentProves, Proves
  <2>3. lines' = <<Fragment>>
    BY <1>3 DEF RecvPiece
  <2>4. Earned(lines', SockOf(cur))
    BY <2>3, FragmentIsNone DEF Earned
  <2> QED
    BY <1>2, <1>3, <2>1, <2>2, <2>4 DEF RecvPiece
<1>4. CASE RecvHangup
  <2>1. pc' = "next" /\ UNCHANGED lines /\ donky_conn_drop(cur)
    BY <1>4 DEF RecvHangup
  <2> QED
    BY <1>1, <2>1, DropServed
<1>5. ASSUME NEW k \in 1..MaxSent, Recv(k) PROVE Served'
  <2> DEFINE f == SockOf(cur)
             box == peer[f].inbox
             whole == SubSeq(box, 1, k)
             rest == SubSeq(box, k + 1, Len(box))
  <2>1. box \in Seq(Lines) /\ k \in 1..Len(box) /\ Len(box) \in Nat
    BY <1>1, <1>5 DEF Recv, Peer
  <2>2. whole \in Seq(Lines) /\ Len(whole) = k /\ \A i \in 1..k : whole[i] = box[i]
    BY <2>1
  <2>3. rest \in Seq(Lines) /\ Len(rest) = Len(box) - k
        /\ \A i \in 1..Len(rest) : rest[i] = box[i + k]
    BY <2>1
  <2>4. \A g \in Fds : /\ peer'[g].inbox = IF g = f THEN rest ELSE peer[g].inbox
                       /\ peer'[g].proved = peer[g].proved
    BY <1>1, <1>5 DEF Recv, Served, Inv, Table, Peer
  <2>5. SentProves(f) /\ f \in Fds
    BY <1>1 DEF Served, Gate
  <2>6. \A g \in Fds : SentProves(g)'
    <3>2. ASSUME NEW i \in 1..Len(rest), Proves(rest[i]) PROVE peer[f].proved
      <4>1. i + k \in 1..Len(box) /\ rest[i] = box[i + k]
        BY <2>1, <2>3
      <4>2. Proves(box[i + k])
        BY <3>2, <4>1
      <4> QED
        BY <2>5, <4>1, <4>2 DEF SentProves
    <3> HIDE DEF f, rest
    <3> QED
      BY <2>4, <3>2, SMTT(30) DEF Served, Gate, SentProves, Proves
  <2>7. /\ Len(lines') = k
        /\ \A i \in 1..k : lines'[i] = Fragment \/ lines'[i] = box[i]
    <3>1. CASE lines' = whole
      BY <2>2, <3>1
    <3>2. CASE lines' = <<Fragment>> \o Tail(whole)
      <4>1. whole \in Seq(Lines \cup {Fragment}) /\ whole # <<>>
            /\ Fragment \in Lines \cup {Fragment}
        BY <2>1, <2>2
      <4> HIDE DEF whole
      <4> QED
        BY <2>2, <3>2, <4>1, HeadReplaced
    <3> QED
      BY <1>5, <3>1, <3>2 DEF Recv
  <2>9. Password # None => Earned(lines', f)
    <3> SUFFICES ASSUME Password # None, NEW i \in 1..k, Matches(lines'[i])
                 PROVE  peer[f].proved
      BY <2>7 DEF Earned
    <3>1. lines'[i] = box[i] /\ box[i] \in Lines /\ i \in 1..Len(box)
      BY <2>1, <2>7, FragmentIsNone
    <3> QED
      BY <2>5, <3>1, MatchProves DEF SentProves
  <2> QED
    BY <1>2, <1>5, <2>4, <2>6, <2>9 DEF Recv
<1> QED
  BY <1>3, <1>4, <1>5

(* The handlers, of which bye alone drops the connection.                  *)
LEMMA HandleServed ==
  ASSUME Served, Inv', HandleAuth \/ HandleVar \/ HandleBye \/ HandleOther
  PROVE  Served'
<1> DEFINE S == Lines \cup {Fragment}
           rest == Tail(lines)
<1>1. /\ Handling /\ cur \in Conns /\ cur \in Nodes /\ SockOf(cur) \in Fds
      /\ conn[cur] \in Node /\ lines' = rest /\ Line = lines[1]
  BY TailFacts DEF HandleAuth, HandleVar, HandleBye, HandleOther, Command, Handling,
        Served, Inv, Place, Table, Nodes, Node, SockOf, Line
<1>2. /\ lines \in Seq(S) /\ lines # <<>> /\ lines[1] \in S
      /\ Len(lines) \in Nat \ {0} /\ Len(rest) = Len(lines) - 1
      /\ \A i \in 1..Len(rest) : rest[i] = lines[i + 1]
  <2>1. lines \in Seq(S) /\ lines # <<>>
    BY <1>1 DEF Served, Inv, Place, Handling
  <2> HIDE DEF S
  <2> QED
    BY <2>1, TailFacts
<1> HIDE DEF rest, S
<1>5. Earned(lines, SockOf(cur)) => Earned(rest, SockOf(cur))
  <2> SUFFICES ASSUME Earned(lines, SockOf(cur)), NEW i \in 1..Len(rest), Matches(rest[i])
               PROVE  peer[SockOf(cur)].proved
    BY DEF Earned
  <2>1. i + 1 \in 1..Len(lines) /\ rest[i] = lines[i + 1]
    BY <1>2
  <2> QED
    BY <2>1 DEF Earned
<1>7. CASE HandleBye
  <2>1. Live(cur) /\ donky_conn_drop(cur) /\ pc' = "lines" /\ cur' = cur
    BY <1>1, <1>7 DEF HandleBye, Command, Handling
  <2> QED
    BY <1>1, <2>1, DropServed
<1>8. ASSUME UNCHANGED <<peer, pc, cur>>, NEW b \in BOOLEAN,
             conn' = [conn EXCEPT ![cur].authed = b],
             Password # None /\ Live(cur) /\ b => peer[SockOf(cur)].proved
      PROVE  Served'
  <2>1. \A n \in Nodes : conn'[n].live = conn[n].live /\ conn'[n].sock = conn[n].sock
    BY <1>1, <1>8 DEF Served, Inv, Table, Node
  <2>2. \A n \in Nodes : n # cur => conn'[n] = conn[n]
    BY <1>8 DEF Served, Inv, Table
  <2>3. \A f \in Fds : SentProves(f)'
    BY <1>8 DEF Served, Gate, SentProves, Proves
  <2>5. Live(cur)' = Live(cur) /\ SockOf(cur)' = SockOf(cur)
    BY <1>1, <1>8, <2>1 DEF Live, SockOf
  <2>6. conn'[cur].authed = b
    BY <1>1, <1>8 DEF Served, Inv, Table, Node
  <2>7. AuthGate'
    <3> SUFFICES ASSUME Password # None, NEW m \in Conns, Live(m)', conn'[m].authed
                 PROVE  peer'[SockOf(m)'].proved
      BY DEF AuthGate
    <3>1. CASE m = cur
      BY <1>8, <2>5, <2>6, <3>1
    <3>2. CASE m # cur
      <4>1. m \in Nodes /\ conn'[m] = conn[m]
        BY <2>2, <3>2 DEF Nodes
      <4>2. Live(m) /\ SockOf(m)' = SockOf(m) /\ conn[m].authed
        BY <4>1 DEF Live, SockOf
      <4> QED
        BY <1>8, <4>2 DEF Served, Gate, AuthGate
    <3> QED
      BY <3>1, <3>2
  <2>9. (pc = "lines" /\ Live(cur) /\ Password # None => Earned(lines, SockOf(cur)))'
    <3> SUFFICES ASSUME Live(cur), Password # None,
                        NEW i \in 1..Len(rest), Matches(rest[i])
                 PROVE  peer[SockOf(cur)].proved
      BY <1>1, <1>8, <2>5 DEF Earned, Matches
    <3>1. Earned(rest, SockOf(cur))
      BY <1>1, <1>5 DEF Served, Gate, Handling
    <3> QED
      BY <3>1 DEF Earned
  <2> QED
    BY <2>3, <2>7, <2>9 DEF Served, Gate
<1>9. Live(cur) => Authed(cur) = {conn[cur].authed}
  BY DEF Authed
<1>10. CASE HandleAuth
  <2> DEFINE b == conn[cur].authed \/ Matches(Line)
  <2>1. b \in BOOLEAN /\ UNCHANGED <<peer, pc, cur>>
        /\ conn' = [conn EXCEPT ![cur].authed = b] /\ Password # None
    BY <1>10 DEF HandleAuth, envVars
  <2>2. ASSUME Live(cur), b PROVE peer[SockOf(cur)].proved
    <3>1. ~conn[cur].authed
      BY <1>1, <1>9, <1>10, <2>2 DEF HandleAuth, Node
    <3>2. Matches(lines[1]) /\ 1 \in 1..Len(lines)
      BY <1>1, <1>2, <2>2, <3>1
    <3>3. Earned(lines, SockOf(cur))
      BY <1>1, <2>1, <2>2 DEF Served, Gate, Handling
    <3> QED
      BY <3>2, <3>3 DEF Earned
  <2> HIDE DEF b
  <2> QED
    BY <1>8, <2>1, <2>2
<1>11. ASSUME Command, Live(cur), Password # None PROVE peer[SockOf(cur)].proved
  BY <1>1, <1>9, <1>11 DEF Command, Served, Gate, AuthGate, Node
<1>12. CASE HandleVar \/ HandleOther
  <2>1. UNCHANGED <<peer, pc, cur>> /\ conn' = [conn EXCEPT ![cur].authed = TRUE]
        /\ Command
    BY <1>12 DEF HandleVar, HandleOther, envVars
  <2> QED
    BY <1>8, <1>11, <2>1
<1> QED
  BY <1>7, <1>10, <1>12

LEMMA EnvironmentServed ==
  ASSUME Served, Inv', Environment
  PROVE  Served'
<1>1. ASSUME UNCHANGED mainVars,
             \A g \in Fds : SentProves(g)'
                            /\ (peer[g].proved => peer'[g].proved)
      PROVE  Served'
  <2>1. \A n \in Nodes : SockOf(n) \in Fds
    BY DEF Served, Inv, Table, Node, SockOf
  <2>2. AuthGate'
    BY <1>1, <2>1 DEF Served, Gate, AuthGate, Live, SockOf, mainVars, Nodes
  <2>5. (pc = "lines" /\ Live(cur) /\ Password # None => Earned(lines, SockOf(cur)))'
    <3> SUFFICES ASSUME pc = "lines", Live(cur), Password # None,
                        NEW i \in 1..Len(lines), Matches(lines[i])
                 PROVE  peer'[SockOf(cur)].proved
      BY <1>1 DEF mainVars, Earned, Matches, Live, SockOf
    <3>1. cur \in Nodes /\ Earned(lines, SockOf(cur))
      BY DEF Served, Inv, Place, Gate, Nodes
    <3> QED
      BY <1>1, <2>1, <3>1 DEF Earned
  <2> QED
    BY <1>1, <2>2, <2>5 DEF Served, Gate
<1>2. CASE PeerConnect
  BY <1>1, <1>2 DEF PeerConnect, mainVars, Served, Gate, SentProves, Proves
<1>3. ASSUME NEW f \in Fds, PeerHangup(f) PROVE Served'
  <2>1. \A g \in Fds : /\ peer'[g].inbox = peer[g].inbox
                       /\ peer'[g].proved = peer[g].proved
    BY <1>3 DEF PeerHangup, Served, Inv, Table, Peer
  <2>2. \A g \in Fds : SentProves(g)'
    BY <2>1 DEF Served, Gate, SentProves, Proves
  <2> QED
    BY <1>1, <1>3, <2>1, <2>2 DEF PeerHangup
<1>4. ASSUME NEW f \in Fds, NEW line \in Lines, PeerSend(f, line) PROVE Served'
  <2> DEFINE box == Append(peer[f].inbox, line)
  <2>1. /\ SentProves(f)
        /\ peer[f].inbox \in Seq(Lines) /\ Len(peer[f].inbox) \in Nat
    BY <1>4 DEF PeerSend, Served, Gate, Inv, Table, Peer
  <2>2. /\ Len(box) = Len(peer[f].inbox) + 1 /\ box[Len(box)] = line
        /\ \A i \in 1..Len(peer[f].inbox) : box[i] = peer[f].inbox[i]
    BY <2>1
  <2>3. \A g \in Fds : g # f => peer'[g] = peer[g]
    BY <1>4 DEF PeerSend, Served, Inv, Table
  <2>4. /\ peer'[f].inbox = box
        /\ peer'[f].proved = (peer[f].proved \/ Proves(line))
    BY <1>4 DEF PeerSend, Served, Inv, Table, Peer
  <2> HIDE DEF box
  <2>6. SentProves(f)'
    <3> SUFFICES ASSUME NEW i \in 1..Len(box), Proves(box[i])
                 PROVE  peer'[f].proved
      BY <2>4 DEF SentProves, Proves
    <3>1. CASE i \in 1..Len(peer[f].inbox)
      BY <2>1, <2>2, <2>4, <3>1 DEF SentProves
    <3>2. CASE i \notin 1..Len(peer[f].inbox)
      <4>1. i = Len(box)
        BY <2>1, <2>2, <3>2
      <4> QED
        BY <2>2, <2>4, <4>1
    <3> QED
      BY <3>1, <3>2
  <2>7. \A g \in Fds : SentProves(g)'
    BY <2>3, <2>6 DEF Served, Gate, SentProves, Proves
  <2> QED
    BY <1>1, <1>4, <2>3, <2>4, <2>7 DEF PeerSend
<1>5. ASSUME NEW n \in Nodes, RequestLeaves(n) PROVE Served'
  BY <1>1, <1>5 DEF RequestLeaves, envVars, Served, Gate, SentProves, Proves
<1>6. CASE StrtokElsewhere
  <2> DEFINE S == Lines \cup {Fragment}
  <2>1. /\ lines' = <<Line>> \/ lines' = <<Line, Fragment>>
        /\ UNCHANGED <<conn, pc, cur, peer>> /\ Handling
    BY <1>6 DEF StrtokElsewhere, envVars
  <2>2. Line = lines[1] /\ 1 \in 1..Len(lines)
    <3>1. lines \in Seq(S) /\ lines # <<>>
      BY <2>1 DEF Handling, Served, Inv, Place
    <3> HIDE DEF S
    <3> QED
      BY <3>1, TailFacts DEF Line
  <2>3. \A i \in 1..Len(lines') : lines'[i] = Fragment \/ (i = 1 /\ lines'[i] = Line)
    BY <2>1
  <2>7. pc = "lines" /\ Live(cur) /\ Password # None => Earned(lines', SockOf(cur))
    BY <2>2, <2>3, FragmentIsNone DEF Served, Gate, Earned
  <2>8. \A f \in Fds : SentProves(f)'
    BY <2>1 DEF Served, Gate, SentProves, Proves
  <2>9. AuthGate'
    BY <2>1 DEF Served, Gate, AuthGate, Live, SockOf
  <2> QED
    BY <2>1, <2>7, <2>8, <2>9 DEF Served, Gate, Earned, Matches, Live, SockOf
<1> QED
  BY <1>2, <1>3, <1>4, <1>5, <1>6 DEF Environment

LEMMA InitServed == Init => Served
<1> SUFFICES ASSUME Init PROVE Served
  OBVIOUS
<1>1. \A f \in Fds : SentProves(f)
  BY DEF Init, SentProves, NoPeer
<1>2. pc # "lines"
  BY DEF Init
<1>4. AuthGate
  BY NodesAssumption DEF Init, AuthGate, Live, Nodes
<1> QED
  BY <1>1, <1>2, <1>4, InitInv DEF Served, Gate

LEMMA NextServed ==
  ASSUME Served, [Next]_vars
  PROVE  Served'
<1>1. Inv'
  BY NextInv DEF Served
<1>2. CASE Main
  BY <1>1, <1>2, LoopServed, AcceptServed, RecvServed, HandleServed DEF Main
<1>3. CASE Environment
  BY <1>1, <1>3, EnvironmentServed
<1>4. CASE Crash \/ UNCHANGED vars
  BY <1>1, <1>4, ServedKept DEF Crash, vars, mainVars, envVars
<1> QED
  BY <1>2, <1>3, <1>4 DEF Next

(* With a password, whoever is authenticated presented it on this very     *)
(* connection (protocol_handle_auth and is_authed), although nodes and     *)
(* descriptors are used again and lines are handled for a node that the    *)
(* bye before them has freed.                                              *)
THEOREM OnlyWhoKnowsThePassword == Spec => []AuthGate
<1>1. Served => AuthGate
  BY DEF Served, Gate
<1>2. Served /\ [Next]_vars => Served'
  BY NextServed
<1> QED
  BY <1>1, <1>2, InitServed, PTL DEF Spec
-----------------------------------------------------------------------------
(* What the traversal still has before it.  Those that select reported and *)
(* that it has not come to have something for recv.                        *)

Ripe(n) ==
    SockOf(n) \in ready => peer[SockOf(n)].inbox # <<>> \/ peer[SockOf(n)].hup
From(i) == \A j \in 1..Len(list) : j >= i /\ list[j] \in Conns => Ripe(list[j])
At(i, n) == i \in 1..Len(list) /\ list[i] = n

(* The listener comes first: connections are accepted before the traversal *)
(* closes any descriptor that select reported.                             *)
ListenerFirst ==
    /\ At(1, Listener)
    /\ pc = "walk" /\ cur = Listener => ready \subseteq fds

(* The traversal has reached position i, or goes on behind it; a freed     *)
(* node has left its place to the one that it goes on to.                  *)
Reached ==
    /\ pc = "walk" /\ cur # None => \E i \in 1..Len(list) : list[i] = cur /\ From(i)
    /\ pc \in {"lines", "next"} =>
          IF Live(cur)
          THEN \E i \in 1..Len(list) : list[i] = cur /\ From(i + 1)
          ELSE conn[cur].next # None =>
                  \E i \in 2..Len(list) : list[i] = conn[cur].next /\ From(i)

Ahead == Inv /\ ListenerFirst /\ Reached

LEMMA ListFacts ==
  ASSUME Inv
  PROVE  /\ Len(list) \in Nat
         /\ \A i \in 1..Len(list) : /\ list[i] \in Nodes /\ Live(list[i])
                                    /\ SockOf(list[i]) \in Fds /\ SockOf(list[i]) \in fds
         /\ \A i, j \in 1..Len(list) :
               i # j => list[i] # list[j] /\ SockOf(list[i]) # SockOf(list[j])
         /\ \A f \in fds : \E n \in Nodes : Live(n) /\ SockOf(n) = f
<1>1. list \in Seq(Nodes) /\ \A i \in 1..Len(list) : list[i] \in ToSet(list)
  BY DEF Inv, Table, ToSet
<1>2. \A n \in ToSet(list) : n \in Nodes /\ Live(n)
  BY DEF Inv, Table, ListOK
<1>3. \A i \in 1..Len(list) : SockOf(list[i]) \in Fds /\ SockOf(list[i]) \in fds
  BY <1>1, <1>2 DEF Inv, Table, FdsOK, Node, SockOf
<1>4. \A i, j \in 1..Len(list) : i # j => list[i] # list[j]
  BY DEF Inv, Table, ListOK, Once
<1>5. \A i, j \in 1..Len(list) : i # j => SockOf(list[i]) # SockOf(list[j])
  BY <1>1, <1>2, <1>4 DEF Inv, Table, SocksOK
<1>6. \A f \in fds : \E n \in Nodes : Live(n) /\ SockOf(n) = f
  BY <1>2 DEF Inv, Table, FdsOK
<1> QED
  BY <1>1, <1>2, <1>3, <1>4, <1>5, <1>6

(* Where the traversal goes on to.                                         *)
LEMMA GoesOn ==
  ASSUME Inv, NEW i \in 1..Len(list)
  PROVE  NextOf(list[i]) = IF i = Len(list) THEN None ELSE list[i + 1]
<1>1. Position(list[i]) = i
  BY Shifted DEF Inv, Table, ListOK
<1> QED
  BY <1>1, ListFacts DEF NextOf, Successor

(* Steps that leave the list and its sockets alone, and take nothing from  *)
(* the connections from position k on.                                     *)
LEMMA FromKept ==
  ASSUME Inv, NEW k \in Nat, From(k), UNCHANGED <<list, ready>>,
         \A n \in Nodes : conn'[n].sock = conn[n].sock,
         \A j \in 1..Len(list) : j >= k =>
            LET f == SockOf(list[j]) IN
            \/ peer'[f] = peer[f]
            \/ peer'[f].inbox # <<>> \/ peer'[f].hup
  PROVE  From(k)'
<1> SUFFICES ASSUME NEW j \in 1..Len(list), j >= k, list[j] \in Conns
             PROVE  Ripe(list[j])'
  BY DEF From
<1>1. list[j] \in Nodes /\ SockOf(list[j])' = SockOf(list[j])
  BY ListFacts DEF SockOf
<1>2. Ripe(list[j])
  BY DEF From
<1> QED
  BY <1>1, <1>2 DEF Ripe

LEMMA AheadKept ==
  ASSUME Ahead, Inv', UNCHANGED <<list, fds, ready, pc, cur>>,
         \A n \in Nodes : /\ conn'[n].sock = conn[n].sock
                          /\ conn'[n].live = conn[n].live
                          /\ conn'[n].next = conn[n].next,
         \A f \in Fds : \/ peer'[f] = peer[f]
                        \/ peer'[f].inbox # <<>> \/ peer'[f].hup
  PROVE  Ahead'
<1>1. ASSUME NEW k \in Nat, From(k) PROVE From(k)'
  BY <1>1, FromKept, ListFacts DEF Ahead
<1>2. ListenerFirst'
  BY DEF Ahead, ListenerFirst, At
<1>3. Len(list) \in Nat
  BY ListFacts DEF Ahead
<1>4. pc \in {"lines", "next"} => cur \in Nodes
  BY DEF Ahead, Inv, Place, Nodes
<1>5. Reached'
  <2>1. ASSUME pc = "walk", cur # None
        PROVE  \E i \in 1..Len(list) : list[i] = cur /\ From(i)'
    <3>1. PICK i \in 1..Len(list) : list[i] = cur /\ From(i)
      BY <2>1 DEF Ahead, Reached
    <3> QED
      BY <1>1, <1>3, <3>1
  <2>2. ASSUME pc \in {"lines", "next"}, Live(cur)
        PROVE  \E i \in 1..Len(list) : list[i] = cur /\ From(i + 1)'
    <3>1. PICK i \in 1..Len(list) : list[i] = cur /\ From(i + 1)
      BY <2>2 DEF Ahead, Reached
    <3>2. i + 1 \in Nat
      BY <1>3
    <3> QED
      BY <1>1, <3>1, <3>2
  <2>3. ASSUME pc \in {"lines", "next"}, ~Live(cur), conn[cur].next # None
        PROVE  \E i \in 2..Len(list) : list[i] = conn[cur].next /\ From(i)'
    <3>1. PICK i \in 2..Len(list) : list[i] = conn[cur].next /\ From(i)
      BY <2>3 DEF Ahead, Reached
    <3> QED
      BY <1>1, <1>3, <3>1
  <2>4. pc \in {"lines", "next"} =>
           Live(cur)' = Live(cur) /\ conn'[cur].next = conn[cur].next
    BY <1>4 DEF Live
  <2>5. UNCHANGED <<list, pc, cur>>
    OBVIOUS
  <2>6. (pc = "walk" /\ cur # None => \E i \in 1..Len(list) : list[i] = cur /\ From(i))'
    BY <2>1, <2>5
  <2>7. (pc \in {"lines", "next"} /\ Live(cur)
            => \E i \in 1..Len(list) : list[i] = cur /\ From(i + 1))'
    BY <2>2, <2>4, <2>5
  <2>8. (pc \in {"lines", "next"} /\ ~Live(cur) /\ conn[cur].next # None
            => \E i \in 2..Len(list) : list[i] = conn[cur].next /\ From(i))'
    BY <2>3, <2>4, <2>5
  <2> QED
    BY <2>6, <2>7, <2>8 DEF Reached
<1> QED
  BY <1>2, <1>5 DEF Ahead

LEMMA LoopAhead ==
  ASSUME Ahead, Inv', Select \/ NotReady \/ EndOfWalk \/ Advance \/ AcceptFails
  PROVE  Ahead'
<1>1. /\ UNCHANGED list /\ UNCHANGED peer /\ UNCHANGED fds
      /\ \A n \in Nodes : conn'[n].sock = conn[n].sock /\ conn'[n].live = conn[n].live
  BY DEF Select, NotReady, EndOfWalk, Advance, AcceptFails, envVars, Ahead, Inv,
         Table, Node, Live
<1>2. Len(list) \in Nat /\ At(1, Listener)
  BY ListFacts DEF Ahead, ListenerFirst
<1>3. ASSUME UNCHANGED ready, NEW k \in Nat, From(k) PROVE From(k)'
  BY <1>1, <1>3, FromKept DEF Ahead
<1>4. CASE Select
  <2>1. cur' = list[1] /\ cur' = Listener /\ pc' = "walk" /\ ready' \subseteq fds
    BY <1>2, <1>4 DEF Select, At
  <2>2. From(1)'
    <3> SUFFICES ASSUME NEW j \in 1..Len(list), list[j] \in Conns,
                        SockOf(list[j]) \in ready'
                 PROVE  peer[SockOf(list[j])].inbox # <<>> \/ peer[SockOf(list[j])].hup
      <4>1. \A j \in 1..Len(list) : SockOf(list[j])' = SockOf(list[j])
        BY <1>1, ListFacts DEF Ahead, SockOf
      <4> QED
        BY <1>1, <4>1 DEF From, Ripe
    <3>1. list[j] \in Nodes /\ Live(list[j]) /\ list[j] # Listener
      BY ListFacts, NodesAssumption DEF Ahead
    <3>2. SockOf(list[j]) # ListenFd
      BY <3>1 DEF Ahead, Inv, Table, SocksOK, Nodes
    <3>3. Pending(SockOf(list[j]))
      BY <1>4 DEF Select
    <3> QED
      BY <3>2, <3>3 DEF Pending
  <2>3. ListenerFirst'
    BY <1>1, <1>2, <2>1 DEF ListenerFirst, At
  <2>4. \E i \in 1..Len(list) : list[i] = cur' /\ From(i)'
    BY <1>2, <2>1, <2>2 DEF At
  <2>5. Reached'
    BY <1>1, <2>1, <2>4 DEF Reached
  <2> QED
    BY <2>3, <2>5 DEF Ahead
<1>5. ASSUME pc' = "walk", UNCHANGED ready,
             cur' = None \/ \E i \in 2..Len(list) : list[i] = cur' /\ From(i)
      PROVE  Ahead'
  <2>1. CASE cur' = None
    BY <1>1, <1>2, <1>5, <2>1, NodesAssumption DEF Ahead, ListenerFirst, Reached, At, Nodes
  <2>2. CASE \E i \in 2..Len(list) : list[i] = cur' /\ From(i)
    <3>1. PICK i \in 2..Len(list) : list[i] = cur' /\ From(i)
      BY <2>2
    <3>2. From(i)' /\ i \in 1..Len(list) /\ i # 1 /\ 1 \in 1..Len(list)
      BY <1>2, <1>3, <1>5, <3>1
    <3>3. cur' # Listener
      BY <1>2, <3>1, <3>2, ListFacts DEF Ahead, At
    <3>4. Reached'
      BY <1>1, <1>5, <3>1, <3>2 DEF Reached
    <3>5. ListenerFirst'
      BY <1>1, <1>2, <1>5, <3>3 DEF ListenerFirst, At
    <3> QED
      BY <3>4, <3>5 DEF Ahead
  <2> QED
    BY <1>5, <2>1, <2>2
<1>6. ASSUME NEW i \in 1..Len(list), From(i + 1)
      PROVE  NextOf(list[i]) = None
             \/ \E j \in 2..Len(list) : list[j] = NextOf(list[i]) /\ From(j)
  <2>1. CASE i = Len(list)
    BY <2>1, GoesOn DEF Ahead
  <2>2. CASE i # Len(list)
    <3>1. i + 1 \in 2..Len(list) /\ NextOf(list[i]) = list[i + 1]
      BY <1>2, <2>2, GoesOn DEF Ahead
    <3> QED
      BY <1>6, <3>1
  <2> QED
    BY <2>1, <2>2
<1>7. ASSUME NEW i \in 1..Len(list), From(i) PROVE From(i + 1)
  BY <1>2, <1>7 DEF From
<1>8. CASE NotReady
  <2>1. PICK i \in 1..Len(list) : list[i] = cur /\ From(i)
    BY <1>8 DEF NotReady, Ahead, Reached
  <2>2. pc' = "walk" /\ UNCHANGED ready /\ cur' = NextOf(list[i])
    BY <1>8, <2>1 DEF NotReady
  <2> QED
    BY <1>5, <1>6, <1>7, <2>1, <2>2
<1>9. CASE EndOfWalk
  <2>1. pc' = "select"
    BY <1>9 DEF EndOfWalk
  <2> QED
    BY <1>1, <1>2, <2>1 DEF Ahead, ListenerFirst, Reached, At
<1>10. CASE AcceptFails
  <2>1. pc = "walk" /\ cur = Listener /\ pc' = "next" /\ UNCHANGED <<cur, ready, conn>>
    BY <1>10 DEF AcceptFails
  <2>2. PICK i \in 1..Len(list) : list[i] = cur /\ From(i)
    BY <2>1, NodesAssumption DEF Ahead, Reached, Nodes
  <2>3. From(i + 1)'
    BY <1>2, <1>3, <1>7, <2>1, <2>2
  <2>4. Live(cur)'
    BY <2>1, <2>2, ListFacts DEF Ahead, Live
  <2>5. Reached'
    BY <1>1, <2>1, <2>2, <2>3, <2>4 DEF Reached
  <2> QED
    BY <1>1, <1>2, <2>1, <2>5 DEF Ahead, ListenerFirst, At
<1>11. CASE Advance
  <2>1. CASE pc = "next"
    <3>1. pc' = "walk" /\ UNCHANGED ready /\ cur' = NextOf(cur)
      BY <1>11, <2>1 DEF Advance
    <3>2. CASE Live(cur)
      <4>1. PICK i \in 1..Len(list) : list[i] = cur /\ From(i + 1)
        BY <2>1, <3>2 DEF Ahead, Reached
      <4> QED
        BY <1>5, <1>6, <3>1, <4>1
    <3>3. CASE ~Live(cur)
      <4>1. NextOf(cur) = conn[cur].next
        BY <3>3 DEF NextOf
      <4>2. NextOf(cur) # None =>
               \E i \in 2..Len(list) : list[i] = NextOf(cur) /\ From(i)
        BY <2>1, <3>3, <4>1 DEF Ahead, Reached
      <4> QED
        BY <1>5, <3>1, <4>2
    <3> QED
      BY <3>2, <3>3
  <2>2. CASE pc = "lines"
    <3>1. pc' = "next" /\ UNCHANGED <<cur, ready, conn>>
      BY <1>11, <2>2 DEF Advance
    <3>2. ASSUME Live(cur) PROVE \E i \in 1..Len(list) : list[i] = cur /\ From(i + 1)'
      <4>1. PICK i \in 1..Len(list) : list[i] = cur /\ From(i + 1)
        BY <2>2, <3>2 DEF Ahead, Reached
      <4>2. i + 1 \in Nat
        BY <1>2
      <4> QED
        BY <1>3, <3>1, <4>1, <4>2
    <3>3. ASSUME ~Live(cur), conn[cur].next # None
          PROVE  \E i \in 2..Len(list) : list[i] = conn[cur].next /\ From(i)'
      <4>1. PICK i \in 2..Len(list) : list[i] = conn[cur].next /\ From(i)
        BY <2>2, <3>3 DEF Ahead, Reached
      <4> QED
        BY <1>2, <1>3, <3>1, <4>1
    <3>4. Reached'
      BY <1>1, <3>1, <3>2, <3>3 DEF Reached, Live
    <3> QED
      BY <1>1, <1>2, <3>1, <3>4 DEF Ahead, ListenerFirst, At
  <2> QED
    BY <1>11, <2>1, <2>2 DEF Advance
<1> QED
  BY <1>4, <1>8, <1>9, <1>10, <1>11

LEMMA AcceptAhead ==
  ASSUME Ahead, Inv', NEW n \in Conns, NEW f \in Fds, Accept(n, f)
  PROVE  Ahead'
<1>1. /\ pc = "walk" /\ pc' = "next" /\ cur = Listener /\ f \notin OpenFds /\ ~Live(n)
      /\ UNCHANGED <<cur, ready>> /\ n \in Nodes
      /\ list' = Append(list, n)
  BY DEF Accept, donky_conn_add, Nodes
<1>2. /\ Len(list) \in Nat /\ Len(list') = Len(list) + 1 /\ list'[Len(list) + 1] = n
      /\ \A j \in 1..Len(list) : list'[j] = list[j]
  BY <1>1 DEF Ahead, Inv, Table
<1>3. \A g \in Fds : g # f => peer'[g] = peer[g]
  BY DEF Accept, Ahead, Inv, Table
<1>4. /\ \A m \in Nodes : m # n => conn'[m] = conn[m]
      /\ conn'[n].sock = f
  BY <1>1 DEF Accept, donky_conn_add, Ahead, Inv, Table
<1>5. f \notin fds /\ f \notin ready
  <2>1. \A m \in Nodes : Live(m) => SockOf(m) # f
    BY <1>1 DEF OpenFds
  <2>2. f \notin fds
    BY <2>1, ListFacts DEF Ahead
  <2> QED
    BY <1>1, <2>2 DEF Ahead, ListenerFirst
<1>6. PICK i \in 1..Len(list) : list[i] = Listener /\ From(i)
  BY <1>1, NodesAssumption DEF Ahead, Reached, Nodes
<1>7. From(i + 1)'
  <2> SUFFICES ASSUME NEW j \in 1..Len(list'), j >= i + 1, list'[j] \in Conns,
                      conn'[list'[j]].sock \in ready'
               PROVE  \/ peer'[conn'[list'[j]].sock].inbox # <<>>
                      \/ peer'[conn'[list'[j]].sock].hup
    BY DEF From, Ripe, SockOf
  <2>1. CASE j = Len(list) + 1
    BY <1>1, <1>2, <1>4, <1>5, <2>1 DEF Ripe, SockOf
  <2>2. CASE j # Len(list) + 1
    <3>1. j \in 1..Len(list) /\ list'[j] = list[j] /\ j >= i
      BY <1>2, <2>2
    <3>2. list[j] \in Nodes /\ list[j] # n /\ SockOf(list[j]) \in Fds /\ SockOf(list[j]) # f
      BY <1>1, <1>5, <3>1, ListFacts DEF Ahead
    <3>3. Ripe(list[j])
      BY <1>6, <3>1 DEF From
    <3> QED
      BY <1>1, <1>3, <1>4, <3>1, <3>2, <3>3 DEF Ripe, SockOf
  <2> QED
    BY <2>1, <2>2
<1>8. Live(Listener)' /\ Listener # n
  BY <1>1, <1>4, NodesAssumption DEF Ahead, Inv, Table, SocksOK, Live, Nodes
<1>9. i \in 1..Len(list') /\ list'[i] = Listener
  BY <1>2, <1>6
<1>10. Reached'
  BY <1>1, <1>7, <1>8, <1>9 DEF Reached
<1>11. ListenerFirst'
  BY <1>1, <1>2 DEF Ahead, ListenerFirst, At
<1> QED
  BY <1>10, <1>11 DEF Ahead

(* A handler closes its own connection, where the traversal stands.        *)
LEMMA DropAhead ==
  ASSUME Ahead, Inv', NEW i \in 1..Len(list), list[i] = cur, From(i + 1), cur \in Conns,
         donky_conn_drop(cur), UNCHANGED <<cur, ready>>, pc' \in {"lines", "next"}
  PROVE  Ahead'
<1>1. cur \in Nodes /\ cur # Listener /\ Len(list) \in Nat /\ i # 1
      /\ SockOf(cur) \in Fds /\ At(1, Listener)
  BY NodesAssumption, ListFacts DEF Nodes, Ahead, ListenerFirst, At
<1>2. /\ list' = Without(cur) /\ Len(list') = Len(list) - 1
      /\ \A j \in 1..Len(list') : list'[j] = IF j < i THEN list[j] ELSE list[j + 1]
  BY Shifted DEF donky_conn_drop, Ahead, Inv, Table, ListOK
<1>3. Successor(cur) = IF i = Len(list) THEN None ELSE list[i + 1]
  BY Shifted DEF Successor, Ahead, Inv, Table, ListOK
<1>4. conn'[cur].next = Successor(cur) /\ conn'[cur].live = FALSE
  BY <1>1 DEF donky_conn_drop, Ahead, Inv, Table, Node
<1>5. \A m \in Nodes : conn'[m].sock = conn[m].sock
  BY <1>1 DEF donky_conn_drop, Ahead, Inv, Table, Node
<1>6. \A g \in Fds : g # SockOf(cur) => peer'[g] = peer[g]
  BY DEF donky_conn_drop, Ahead, Inv, Table
<1>7. From(i)'
  <2> SUFFICES ASSUME NEW j \in 1..Len(list'), j >= i, list'[j] \in Conns,
                      conn'[list'[j]].sock \in ready'
               PROVE  \/ peer'[conn'[list'[j]].sock].inbox # <<>>
                      \/ peer'[conn'[list'[j]].sock].hup
    BY DEF From, Ripe, SockOf
  <2>1. j + 1 \in 1..Len(list) /\ j + 1 # i /\ j + 1 >= i + 1 /\ list'[j] = list[j + 1]
    BY <1>1, <1>2
  <2>2. SockOf(list[j + 1]) # SockOf(cur) /\ SockOf(list[j + 1]) \in Fds
        /\ list[j + 1] \in Nodes
    BY <2>1, ListFacts DEF Ahead
  <2>3. Ripe(list[j + 1])
    BY <2>1 DEF From
  <2> QED
    BY <1>5, <1>6, <2>1, <2>2, <2>3 DEF Ripe, SockOf
<1>8. conn'[cur].next # None => \E k \in 2..Len(list') : list'[k] = conn'[cur].next /\ From(k)'
  <2> SUFFICES ASSUME conn'[cur].next # None
               PROVE  i \in 2..Len(list') /\ list'[i] = conn'[cur].next
    BY <1>7
  <2>1. i # Len(list)
    BY <1>3, <1>4
  <2>2. i \in 2..Len(list')
    BY <1>1, <1>2, <2>1
  <2> QED
    BY <1>1, <1>2, <1>3, <1>4, <2>1, <2>2
<1>9. Reached'
  BY <1>4, <1>8 DEF Reached, Live
<1>10. 1 \in 1..Len(list') /\ list'[1] = Listener
  BY <1>1, <1>2 DEF At
<1>11. ListenerFirst'
  BY <1>10 DEF ListenerFirst, At
<1> QED
  BY <1>9, <1>11 DEF Ahead

LEMMA RecvAhead ==
  ASSUME Ahead, Inv', RecvPiece \/ RecvHangup \/ \E k \in 1..MaxSent : Recv(k)
  PROVE  Ahead'
<1>1. ReadyClient /\ pc = "walk" /\ cur \in Conns /\ cur # None /\ UNCHANGED <<cur, ready>>
  BY NodesAssumption DEF RecvPiece, RecvHangup, Recv, ReadyClient, Nodes
<1>2. PICK i \in 1..Len(list) : list[i] = cur /\ From(i)
  BY <1>1 DEF Ahead, Reached
<1>3. Len(list) \in Nat /\ From(i + 1)
  BY <1>2, ListFacts DEF Ahead, From
<1>4. CASE RecvHangup
  BY <1>1, <1>2, <1>3, <1>4, DropAhead DEF RecvHangup
<1>5. CASE RecvPiece \/ \E k \in 1..MaxSent : Recv(k)
  <2>1. pc' = "lines" /\ UNCHANGED <<list, conn, fds>>
    BY <1>5 DEF RecvPiece, Recv
  <2>2. \A g \in Fds : g # SockOf(cur) => peer'[g] = peer[g]
    BY <1>5 DEF RecvPiece, Recv, Ahead, Inv, Table
  <2>3. \A j \in 1..Len(list) : j >= i + 1 => peer'[SockOf(list[j])] = peer[SockOf(list[j])]
    <3>1. ASSUME NEW j \in 1..Len(list), j >= i + 1
          PROVE  SockOf(list[j]) # SockOf(cur) /\ SockOf(list[j]) \in Fds
      <4>1. j # i
        BY <1>3, <3>1
      <4> QED
        BY <1>2, <4>1, ListFacts DEF Ahead
    <3> QED
      BY <2>2, <3>1
  <2>4. From(i + 1)'
    <3>1. i + 1 \in Nat
      BY <1>3
    <3> QED
      BY <1>1, <1>3, <2>1, <2>3, <3>1, FromKept DEF Ahead
  <2>5. Live(cur)'
    BY <1>1, <1>2, <2>1, ListFacts DEF Ahead, Live
  <2>6. Reached'
    BY <1>1, <1>2, <2>1, <2>4, <2>5 DEF Reached
  <2> QED
    BY <2>1, <2>6 DEF Ahead, ListenerFirst, At
<1> QED
  BY <1>4, <1>5

LEMMA HandleAhead ==
  ASSUME Ahead, Inv', HandleAuth \/ HandleVar \/ HandleBye \/ HandleOther
  PROVE  Ahead'
<1>1. pc = "lines" /\ UNCHANGED <<pc, cur, ready>> /\ cur \in Conns /\ cur \in Nodes
  BY DEF HandleAuth, HandleVar, HandleBye, HandleOther, Command, Handling, Ahead, Inv,
         Place, Nodes
<1>2. CASE HandleBye
  <2>1. Live(cur) /\ donky_conn_drop(cur)
    BY <1>2 DEF HandleBye
  <2>2. PICK i \in 1..Len(list) : list[i] = cur /\ From(i + 1)
    BY <1>1, <2>1 DEF Ahead, Reached
  <2> QED
    BY <1>1, <2>1, <2>2, DropAhead
<1>3. CASE HandleAuth \/ HandleVar \/ HandleOther
  <2>1. UNCHANGED <<list, fds, peer>>
    BY <1>3 DEF HandleAuth, HandleVar, HandleOther, envVars
  <2>2. \A n \in Nodes : /\ conn'[n].sock = conn[n].sock
                         /\ conn'[n].live = conn[n].live
                         /\ conn'[n].next = conn[n].next
    <3>1. PICK b : conn' = [conn EXCEPT ![cur].authed = b]
      <4>1. CASE HandleAuth
        BY <4>1 DEF HandleAuth
      <4>2. CASE HandleVar \/ HandleOther
        BY <4>2 DEF HandleVar, HandleOther
      <4> QED
        BY <1>3, <4>1, <4>2
    <3> QED
      BY <1>1, <3>1 DEF Ahead, Inv, Table, Node
  <2> QED
    BY <1>1, <2>1, <2>2, AheadKept
<1> QED
  BY <1>2, <1>3

LEMMA EnvironmentAhead ==
  ASSUME Ahead, Inv', Environment
  PROVE  Ahead'
<1>1. UNCHANGED <<list, conn, fds, ready, pc, cur>>
  BY DEF Environment, PeerConnect, PeerHangup, PeerSend, RequestLeaves, StrtokElsewhere,
         mainVars
<1>2. ASSUME NEW f \in Fds, PeerHangup(f)
      PROVE  \A g \in Fds : peer'[g] = peer[g] \/ peer'[g].hup
  BY <1>2 DEF PeerHangup, Ahead, Inv, Table, Peer
<1>3. ASSUME NEW f \in Fds, NEW line \in Lines, PeerSend(f, line)
      PROVE  \A g \in Fds : peer'[g] = peer[g] \/ peer'[g].inbox # <<>>
  <2>1. peer[f].inbox \in Seq(Lines) /\ peer[f] \in Peer
    BY DEF Ahead, Inv, Table, Peer
  <2>2. Append(peer[f].inbox, line) # <<>>
    BY <2>1
  <2>3. peer'[f].inbox = Append(peer[f].inbox, line)
    BY <1>3, <2>1 DEF PeerSend, Ahead, Inv, Table, Peer
  <2>4. \A g \in Fds : g # f => peer'[g] = peer[g]
    BY <1>3 DEF PeerSend, Ahead, Inv, Table
  <2> QED
    BY <2>2, <2>3, <2>4
<1>4. \A g \in Fds : peer'[g] = peer[g] \/ peer'[g].inbox # <<>> \/ peer'[g].hup
  BY <1>2, <1>3 DEF Environment, PeerConnect, RequestLeaves, StrtokElsewhere, envVars
<1> QED
  BY <1>1, <1>4, AheadKept

LEMMA InitAhead == Init => Ahead
<1> SUFFICES ASSUME Init PROVE Ahead
  OBVIOUS
<1>1. At(1, Listener) /\ pc = "select"
  BY DEF Init, At
<1> QED
  BY <1>1, InitInv DEF Ahead, ListenerFirst, Reached

LEMMA NextAhead == Ahead /\ [Next]_vars => Ahead'
<1> SUFFICES ASSUME Ahead, [Next]_vars PROVE Ahead'
  OBVIOUS
<1>1. Inv'
  BY NextInv DEF Ahead
<1>2. CASE Main
  BY <1>1, <1>2, LoopAhead, AcceptAhead, RecvAhead, HandleAhead DEF Main
<1>3. CASE Environment
  BY <1>1, <1>3, EnvironmentAhead
<1>4. CASE Crash \/ UNCHANGED vars
  BY <1>1, <1>4, AheadKept DEF Crash, vars, mainVars, envVars
<1> QED
  BY <1>2, <1>3, <1>4 DEF Next

(* recv never blocks the main thread: what select reported of a connection *)
(* is still true of it when the traversal comes to it (daemon.c,           *)
(* donky_loop), although connections were closed and nodes freed before.   *)
THEOREM TheMainThreadNeverBlocks == Spec => []RecvNeverBlocks
<1>1. Ahead => RecvNeverBlocks
  <2> SUFFICES ASSUME Ahead, ReadyClient
               PROVE  peer[SockOf(cur)].inbox # <<>> \/ peer[SockOf(cur)].hup
    BY DEF RecvNeverBlocks
  <2>1. pc = "walk" /\ cur \in Conns /\ cur # None /\ SockOf(cur) \in ready
    BY NodesAssumption DEF ReadyClient, Nodes
  <2>2. PICK i \in 1..Len(list) : list[i] = cur /\ From(i)
    BY <2>1 DEF Ahead, Reached
  <2> QED
    BY <2>1, <2>2 DEF From, Ripe
<1> QED
  BY <1>1, InitAhead, NextAhead, PTL DEF Spec
=============================================================================
