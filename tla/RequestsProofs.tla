--------------------------- MODULE RequestsProofs ---------------------------
(* Proofs about module Requests, for every number of connections, cells,   *)
(* modules and variables.                                                  *)
EXTENDS Requests, FiniteSetTheorems, SequenceTheorems, TLAPS

(* What the properties need besides each other.  Only a cell that holds a  *)
(* variable is reachable: from the list, from the cursor, or from the next *)
(* pointer of a freed cell.                                                *)
LiveOK == \A r \in Reqs : Live(r) => req[r].var \in Vars /\ req[r].next = None
NextOK == \A r \in Reqs : req[r].next # None => req[req[r].next].var \in Vars
CurOK  == cur # None => phase = "walk" /\ req[cur].var \in Vars

Inv == TypeOK /\ LiveOK /\ NextOK /\ CurOK /\ ListIsLive
Counts == ClientsCount /\ NoStaleCode /\ RequestedIsLoaded
-----------------------------------------------------------------------------
(* Lemmas about the list.                                                  *)

LEMMA WithoutList ==
  ASSUME list \in Seq(Reqs), NEW i \in 1..Len(list)
  PROVE  /\ Without(i) \in Seq(Reqs)
         /\ Len(Without(i)) = Len(list) - 1
         /\ \A j \in 1..Len(Without(i)) :
               Without(i)[j] = IF j < i THEN list[j] ELSE list[j + 1]
<1> DEFINE a == SubSeq(list, 1, i - 1)
           b == SubSeq(list, i + 1, Len(list))
<1>1. /\ a \in Seq(Reqs) /\ Len(a) = i - 1
      /\ \A j \in 1..(i - 1) : a[j] = list[j]
  OBVIOUS
<1>2. /\ b \in Seq(Reqs) /\ Len(b) = Len(list) - i
      /\ \A j \in 1..(Len(list) - i) : b[j] = list[j + i]
  <2>1. CASE i = Len(list)
    BY <2>1
  <2>2. CASE i # Len(list)
    BY <2>2
  <2> QED BY <2>1, <2>2
<1>3. Without(i) = a \o b
  BY DEF Without
<1> HIDE DEF a, b
<1>4. /\ a \o b \in Seq(Reqs) /\ Len(a \o b) = Len(a) + Len(b)
      /\ \A j \in 1..(Len(a) + Len(b)) :
            (a \o b)[j] = IF j <= Len(a) THEN a[j] ELSE b[j - Len(a)]
  BY <1>1, <1>2, ConcatProperties
<1>5. ASSUME NEW j \in 1..(Len(list) - 1)
      PROVE  (a \o b)[j] = IF j < i THEN list[j] ELSE list[j + 1]
  <2>1. CASE j < i
    BY <1>1, <1>2, <1>4, <2>1
  <2>2. CASE ~(j < i)
    <3>1. j - (i - 1) \in 1..(Len(list) - i)
      BY <2>2
    <3>2. b[j - (i - 1)] = list[j - (i - 1) + i]
      BY <3>1, <1>2
    <3>3. (a \o b)[j] = b[j - (i - 1)]
      BY <1>1, <1>2, <1>4, <2>2
    <3> QED BY <2>2, <3>2, <3>3
  <2> QED BY <2>1, <2>2
<1>6. Len(Without(i)) = Len(list) - 1
  BY <1>1, <1>2, <1>3, <1>4
<1>7. \A j \in 1..(Len(list) - 1) :
         Without(i)[j] = IF j < i THEN list[j] ELSE list[j + 1]
  BY <1>3, <1>5
<1> QED BY <1>3, <1>4, <1>6, <1>7

LEMMA PositionInList ==
  ASSUME NEW r, InList(r)
  PROVE  Position(r) \in 1..Len(list) /\ list[Position(r)] = r
  BY DEF InList, Position

LEMMA NextOfType ==
  ASSUME Inv, NEW r \in Reqs
  PROVE  /\ NextOf(r) \in Reqs \cup {None}
         /\ NextOf(r) # None => req[NextOf(r)].var \in Vars
<1>1. CASE ~Live(r)
  BY <1>1 DEF Inv, TypeOK, Request, NextOK, NextOf
<1>2. CASE Live(r) /\ Position(r) = Len(list)
  BY <1>2 DEF NextOf
<1>3. CASE Live(r) /\ Position(r) # Len(list)
  <2>1. Position(r) \in 1..Len(list)
    BY <1>3, PositionInList DEF Inv, ListIsLive
  <2>2. Position(r) + 1 \in 1..Len(list)
    BY <1>3, <2>1 DEF Inv, TypeOK
  <2>3. list[Position(r) + 1] \in Reqs
    BY <2>2 DEF Inv, TypeOK
  <2>4. Live(list[Position(r) + 1])
    BY <2>2, <2>3 DEF Inv, ListIsLive, InList
  <2> QED BY <1>3, <2>3, <2>4 DEF NextOf, Inv, LiveOK
<1> QED BY <1>1, <1>2, <1>3
-----------------------------------------------------------------------------
LEMMA InitInv == Init => Inv /\ Counts /\ ReqConnAlive
<1> SUFFICES ASSUME Init PROVE Inv /\ Counts /\ ReqConnAlive
  OBVIOUS
<1>1. TypeOK
  <2>1. Blank \in Request
    BY DEF Blank, Request
  <2>2. 0 \in Sums
    BY DEF Sums
  <2>3. list \in Seq(Reqs)
    BY DEF Init
  <2>4. /\ req \in [Reqs -> Request]
        /\ sum \in [Vars -> Sums]
    BY <2>1, <2>2 DEF Init
  <2>5. age \in [Vars -> Nat] /\ \A v \in Vars : age[v] <= Timeout[v]
    BY ModulesAssumption DEF Init, ModulesAssumption
  <2> QED BY <2>3, <2>4, <2>5 DEF Init, TypeOK
<1>2. \A r \in Reqs : req[r] = Blank
  BY DEF Init
<1>3. \A r \in Reqs : ~Live(r) /\ req[r].next = None
  BY <1>2 DEF Live, Blank
<1>4. LiveOK /\ NextOK /\ CurOK /\ ListIsLive /\ ReqConnAlive
  BY <1>3 DEF LiveOK, NextOK, CurOK, ListIsLive, InList, ReqConnAlive, Init
<1>5. \A m \in Modules : LiveOf(m) = {}
  BY <1>3 DEF LiveOf
<1>6. ClientsCount
  BY <1>5, FS_EmptySet DEF ClientsCount, Init
<1>7. NoStaleCode /\ RequestedIsLoaded
  BY <1>3, ModulesAssumption
  DEF NoStaleCode, RequestedIsLoaded, Init, ModulesAssumption
<1> QED BY <1>1, <1>4, <1>6, <1>7 DEF Inv, Counts
-----------------------------------------------------------------------------
(* A call of request_list_add.                                             *)

LEMMA LiveOfFinite ==
  ASSUME NEW m
  PROVE  IsFiniteSet(LiveOf(m))
  BY ReqsAssumption, FS_Subset DEF LiveOf, ReqsAssumption

LEMMA AddType ==
  ASSUME Inv, NEW r \in Reqs, NEW c \in Conns, NEW v \in Vars,
         NEW once \in BOOLEAN, NEW ok \in BOOLEAN,
         request_list_add(r, c, v, once, ok),
         UNCHANGED <<mainVars, threadVars, crashed>>, c \in conns
  PROVE  TypeOK'
<1> DEFINE new == [live |-> TRUE, conn |-> c, var |-> v, remove |-> once,
                   first |-> TRUE, next |-> None, answered |-> FALSE]
           m == Parent[v]
<1>1. new \in Request
  BY DEF Request
<1>2. req' \in [Reqs -> Request]
  BY <1>1 DEF request_list_add, AddClient, Inv, TypeOK
<1>3. list' \in Seq(Reqs)
  BY DEF request_list_add, AddClient, Inv, TypeOK
<1>4. m \in Modules
  BY ModulesAssumption DEF ModulesAssumption
<1>5. clients' \in [Modules -> Nat]
  BY <1>4 DEF request_list_add, AddClient, Inv, TypeOK
<1>6. /\ loaded' \in [Vars -> BOOLEAN]
      /\ sym' \in [Vars -> {"null", "mapped", "gone"}]
  BY DEF request_list_add, AddClient, resolve, Inv, TypeOK
<1>7. open' \in [Modules -> BOOLEAN]
  BY <1>4 DEF request_list_add, AddClient, module_load, Inv, TypeOK
<1>9. age' \in [Vars -> Nat] /\ \A w \in Vars : age'[w] <= Timeout[w]
  <2>1. \/ age' = [w \in Vars |-> IF Parent[w] = m THEN Timeout[w] ELSE age[w]]
        \/ age' = age
    BY DEF request_list_add, AddClient, module_load
  <2>2. CASE age' = age
    BY <2>2 DEF Inv, TypeOK
  <2>3. CASE age' = [w \in Vars |-> IF Parent[w] = m THEN Timeout[w] ELSE age[w]]
    <3>1. \A w \in Vars : Timeout[w] \in Nat
      BY ModulesAssumption DEF ModulesAssumption
    <3>2. \A w \in Vars : age[w] \in Nat /\ age[w] <= Timeout[w]
      BY DEF Inv, TypeOK
    <3> QED BY <2>3, <3>1, <3>2
  <2> QED BY <2>1, <2>2, <2>3
<1>8. sum' \in [Vars -> Sums]
  <2>1. 0 \in Sums
    BY DEF Sums
  <2> QED BY <2>1 DEF request_list_add, AddClient, module_load, Inv, TypeOK
<1> QED BY <1>2, <1>3, <1>5, <1>6, <1>7, <1>8, <1>9
        DEF Inv, TypeOK, mainVars, threadVars

LEMMA AddInv ==
  ASSUME Inv, Counts, NEW r \in Reqs, NEW c \in Conns, NEW v \in Vars,
         NEW once \in BOOLEAN, NEW ok \in BOOLEAN, ~Live(r),
         request_list_add(r, c, v, once, ok),
         UNCHANGED <<mainVars, threadVars, crashed>>, c \in conns
  PROVE  Inv' /\ Counts'
<1> DEFINE m == Parent[v]
<1>1. /\ req'[r].live /\ req'[r].var = v /\ req'[r].next = None
      /\ \A x \in Reqs \ {r} : req'[x] = req[x]
  BY DEF request_list_add, AddClient, Inv, TypeOK
<1>2. TypeOK'
  BY AddType
<1>3. LiveOK' /\ NextOK' /\ CurOK'
  <2>1. LiveOK'
    BY <1>1 DEF Inv, LiveOK, Live
  <2>2. \A x \in Reqs : req[x].next \in Reqs \cup {None}
    BY DEF Inv, TypeOK, Request
  <2>3. \A x \in Reqs : req[x].var \in Vars => req'[x].var \in Vars
    BY <1>1
  <2>4. NextOK'
    BY <1>1, <2>2, <2>3 DEF Inv, NextOK
  <2>5. CurOK'
    BY <2>3 DEF Inv, TypeOK, CurOK, threadVars
  <2> QED BY <2>1, <2>4, <2>5
<1>4. ListIsLive'
  <2>1. /\ Len(list') = Len(list) + 1
        /\ \A i \in 1..Len(list) : list'[i] = list[i]
        /\ list'[Len(list) + 1] = r
    BY DEF request_list_add, AddClient, Inv, TypeOK
  <2>2. \A i \in 1..Len(list) : list[i] # r
    BY DEF Inv, ListIsLive, InList
  <2>3. ASSUME NEW x \in Reqs PROVE Live(x)' <=> InList(x)'
    <3>1. Len(list) \in Nat
      BY DEF Inv, TypeOK
    <3>2. InList(x)' <=> InList(x) \/ x = r
      BY <2>1, <3>1 DEF InList
    <3> QED BY <1>1, <3>2 DEF Inv, ListIsLive, Live
  <2>4. ASSUME NEW i \in 1..Len(list'), NEW j \in 1..Len(list'),
               list'[i] = list'[j]
        PROVE  i = j
    <3>1. Len(list) \in Nat
      BY DEF Inv, TypeOK
    <3>2. \/ i \in 1..Len(list) /\ j \in 1..Len(list)
          \/ i = Len(list) + 1 /\ j = Len(list) + 1
      BY <2>1, <2>2, <2>4, <3>1
    <3>3. CASE i \in 1..Len(list) /\ j \in 1..Len(list)
      BY <2>1, <2>4, <3>3 DEF Inv, ListIsLive
    <3> QED BY <3>2, <3>3
  <2> QED BY <2>3, <2>4 DEF ListIsLive
<1>5. m \in Modules
  BY ModulesAssumption DEF ModulesAssumption
<1>6. LiveOf(m)' = LiveOf(m) \cup {r} /\ r \notin LiveOf(m)
  BY <1>1 DEF LiveOf, Live, ModuleOf
<1>7. \A n \in Modules \ {m} : LiveOf(n)' = LiveOf(n)
  BY <1>1 DEF LiveOf, Live, ModuleOf
<1>8. clients'[m] = clients[m] + 1
      /\ \A n \in Modules \ {m} : clients'[n] = clients[n]
  BY <1>5 DEF request_list_add, AddClient, Inv, TypeOK
<1>9. ClientsCount'
  <2>1. Cardinality(LiveOf(m)') = Cardinality(LiveOf(m)) + 1
    BY <1>6, LiveOfFinite, FS_AddElement
  <2> QED BY <1>5, <1>7, <1>8, <2>1 DEF Counts, ClientsCount
<1>10. NoStaleCode'
  <2>1. \A n \in Modules : open'[n] => clients'[n] > 0
    BY <1>5, <1>8 DEF request_list_add, AddClient, module_load, Counts, NoStaleCode, Inv, TypeOK
  <2>2. \A w \in Vars : loaded'[w] => sym'[w] # "gone" /\ clients'[Parent[w]] > 0
    <3>1. \A w \in Vars : Parent[w] = m => clients'[Parent[w]] > 0
      BY <1>5, <1>8 DEF Inv, TypeOK
    <3>2. \A w \in Vars : Parent[w] # m => clients'[Parent[w]] = clients[Parent[w]]
      BY <1>8, ModulesAssumption DEF ModulesAssumption
    <3> DEFINE vs == IF clients[m] = 0 THEN VarsOf(m)
                     ELSE IF loaded[v] THEN {} ELSE {v}
    <3>3. /\ vs \subseteq VarsOf(m)
          /\ \A w \in Vars : loaded'[w] = (w \in vs \/ loaded[w])
          /\ \A w \in vs : sym'[w] \in {"mapped", "null"}
          /\ \A w \in Vars \ vs : sym'[w] = sym[w]
      <4>1. CASE clients[m] = 0
        BY <4>1 DEF request_list_add, AddClient, resolve, VarsOf
      <4>2. CASE clients[m] # 0
        BY <4>2 DEF request_list_add, AddClient, resolve, VarsOf
      <4> QED BY <4>1, <4>2
    <3> HIDE DEF vs
    <3>4. ASSUME NEW w \in Vars, loaded'[w]
          PROVE  sym'[w] # "gone" /\ clients'[Parent[w]] > 0
      <4>1. CASE w \in vs
        BY <3>1, <3>3, <4>1 DEF VarsOf
      <4>2. CASE w \notin vs
        BY <3>1, <3>2, <3>3, <3>4, <4>2 DEF Counts, NoStaleCode
      <4> QED BY <4>1, <4>2
    <3> QED BY <3>4
  <2> QED BY <2>1, <2>2 DEF NoStaleCode
<1>11. RequestedIsLoaded'
  <2>1. \A w \in Vars : loaded[w] => loaded'[w]
    BY DEF request_list_add, AddClient, resolve
  <2>2. loaded'[v]
    BY DEF request_list_add, AddClient, resolve, VarsOf
  <2> QED BY <1>1, <2>1, <2>2 DEF RequestedIsLoaded, Live, Counts, Inv, LiveOK
<1> QED BY <1>2, <1>3, <1>4, <1>9, <1>10, <1>11 DEF Inv, Counts
-----------------------------------------------------------------------------
(* A call of request_list_remove.  q is req after the caller's assignments *)
(* to the node, which change neither the list nor what is on it.           *)

SameNodes(q) ==
    /\ q \in [Reqs -> Request]
    /\ \A x \in Reqs : /\ q[x].live = req[x].live
                       /\ q[x].conn = req[x].conn
                       /\ q[x].var = req[x].var
                       /\ q[x].next = req[x].next

LEMMA RemovedNode ==
  ASSUME Inv, NEW r \in Reqs, NEW q, SameNodes(q), request_list_remove(q, r)
  PROVE  /\ req' \in [Reqs -> Request]
         /\ ~req'[r].live /\ req'[r].next = NextOf(r)
         /\ \A x \in Reqs : req'[x].var = req[x].var
         /\ \A x \in Reqs \ {r} : /\ req'[x].live = req[x].live
                                  /\ req'[x].conn = req[x].conn
                                  /\ req'[x].next = req[x].next
<1>1. req' = [q EXCEPT ![r].live = FALSE, ![r].conn = None, ![r].next = NextOf(r)]
  BY DEF request_list_remove, DropClient, LastClient
<1>2. NextOf(r) \in Reqs \cup {None}
  BY NextOfType
<1>3. [q[r] EXCEPT !.live = FALSE, !.conn = None, !.next = NextOf(r)] \in Request
  BY <1>2, ZenonT(30) DEF SameNodes, Request
<1>4. req' = [q EXCEPT ![r] =
                 [q[r] EXCEPT !.live = FALSE, !.conn = None, !.next = NextOf(r)]]
  BY <1>1 DEF SameNodes
<1>5. req' \in [Reqs -> Request]
  BY <1>3, <1>4 DEF SameNodes
<1>6. q[r] \in Request
  BY DEF SameNodes
<1>7. ~req'[r].live /\ req'[r].next = NextOf(r) /\ req'[r].var = q[r].var
  BY <1>4, <1>6 DEF SameNodes, Request
<1>8. \A x \in Reqs \ {r} : req'[x] = q[x]
  BY <1>4 DEF SameNodes
<1> QED BY <1>5, <1>7, <1>8 DEF SameNodes

LEMMA RemoveModules ==
  ASSUME Inv, NEW r \in Reqs, NEW q, Removable(r), request_list_remove(q, r)
  PROVE  /\ ModuleOf(r) \in Modules
         /\ open' \in [Modules -> BOOLEAN]
         /\ loaded' \in [Vars -> BOOLEAN]
         /\ sym' \in [Vars -> {"null", "mapped", "gone"}]
<1>1. ModuleOf(r) \in Modules
  BY ModulesAssumption DEF Removable, LastClient, Inv, LiveOK, ModuleOf, ModulesAssumption
<1> QED BY <1>1 DEF request_list_remove, DropClient, LastClient, module_unload, Inv, TypeOK

LEMMA RemoveList ==
  ASSUME Inv, NEW r \in Reqs, NEW q, Live(r), SameNodes(q),
         request_list_remove(q, r)
  PROVE  list' \in Seq(Reqs) /\ ListIsLive'
<1> DEFINE p == Position(r)
<1>1. p \in 1..Len(list) /\ list[p] = r
  BY PositionInList DEF Inv, ListIsLive
<1>2. /\ list' \in Seq(Reqs)
      /\ Len(list') = Len(list) - 1
      /\ \A j \in 1..Len(list') :
            list'[j] = IF j < p THEN list[j] ELSE list[j + 1]
  BY <1>1, WithoutList DEF request_list_remove, DropClient, LastClient, Inv, TypeOK
<1> HIDE DEF p
<1>3. Len(list) \in Nat
  BY DEF Inv, TypeOK
<1>4. \A i, j \in 1..Len(list) : list[i] = list[j] => i = j
  BY DEF Inv, ListIsLive
<1>5. ASSUME NEW i \in 1..Len(list'), NEW j \in 1..Len(list'), list'[i] = list'[j]
      PROVE  i = j
  <2> DEFINE old(k) == IF k < p THEN k ELSE k + 1
  <2>1. \A k \in 1..Len(list') : old(k) \in 1..Len(list) /\ list'[k] = list[old(k)]
    BY <1>1, <1>2, <1>3
  <2>2. old(i) = old(j)
    BY <1>4, <1>5, <2>1
  <2> QED BY <1>1, <1>2, <1>3, <2>2
<1>6. ASSUME NEW x \in Reqs PROVE InList(x)' <=> InList(x) /\ x # r
  <2>1. ASSUME InList(x)' PROVE InList(x) /\ x # r
    <3>1. PICK j \in 1..Len(list') : list'[j] = x
      BY <2>1 DEF InList
    <3>2. CASE j < p
      <4>1. list[j] = x /\ j \in 1..Len(list) /\ j # p
        BY <1>1, <1>2, <1>3, <3>1, <3>2
      <4> QED BY <1>1, <1>4, <4>1 DEF InList
    <3>3. CASE ~(j < p)
      <4>1. list[j + 1] = x /\ j + 1 \in 1..Len(list) /\ j + 1 # p
        BY <1>1, <1>2, <1>3, <3>1, <3>3
      <4> QED BY <1>1, <1>4, <4>1 DEF InList
    <3> QED BY <3>2, <3>3
  <2>2. ASSUME InList(x), x # r PROVE InList(x)'
    <3>1. PICK i \in 1..Len(list) : list[i] = x
      BY <2>2 DEF InList
    <3>2. i # p
      BY <1>1, <2>2, <3>1
    <3>3. CASE i < p
      <4>1. i \in 1..Len(list') /\ list'[i] = x
        BY <1>1, <1>2, <1>3, <3>1, <3>3
      <4> QED BY <4>1 DEF InList
    <3>4. CASE i > p
      <4>1. i - 1 \in 1..Len(list') /\ list'[i - 1] = x
        BY <1>1, <1>2, <1>3, <3>1, <3>4
      <4> QED BY <4>1 DEF InList
    <3> QED BY <1>1, <3>2, <3>3, <3>4
  <2> QED BY <2>1, <2>2
<1>7. \A x \in Reqs : Live(x)' <=> Live(x) /\ x # r
  BY RemovedNode DEF Live
<1> QED BY <1>2, <1>5, <1>6, <1>7 DEF ListIsLive, Inv

LEMMA RemoveCounts ==
  ASSUME Inv, Counts, NEW r \in Reqs, NEW q, Removable(r), SameNodes(q),
         request_list_remove(q, r)
  PROVE  clients' \in [Modules -> Nat] /\ Counts'
<1>0. PICK m \in Modules : m = ModuleOf(r)
  BY RemoveModules
<1>1. m \in Modules /\ Live(r)
  BY DEF Removable, LastClient
<1>2. \A x \in Reqs : /\ Live(x)' <=> Live(x) /\ x # r
                      /\ req'[x].var = req[x].var
  BY RemovedNode DEF Live
<1>3. LiveOf(m)' = LiveOf(m) \ {r} /\ r \in LiveOf(m)
  BY <1>0, <1>1, <1>2 DEF LiveOf, ModuleOf
<1>4. \A n \in Modules \ {m} : LiveOf(n)' = LiveOf(n)
  BY <1>0, <1>2 DEF LiveOf, ModuleOf
<1>5. clients'[m] = clients[m] - 1
      /\ \A n \in Modules \ {m} : clients'[n] = clients[n]
  BY <1>0, <1>1 DEF request_list_remove, DropClient, LastClient, Inv, TypeOK
<1>6. Cardinality(LiveOf(m)') = Cardinality(LiveOf(m)) - 1
  BY <1>3, LiveOfFinite, FS_RemoveElement
<1>7. ClientsCount'
  BY <1>1, <1>4, <1>5, <1>6 DEF Counts, ClientsCount
<1>8. Cardinality(LiveOf(m)') \in Nat
  <2>1. IsFiniteSet(LiveOf(m)')
    BY <1>3, LiveOfFinite, FS_Subset
  <2> QED BY <2>1, FS_CardinalityType
<1>9. clients'[m] \in Nat
  BY <1>1, <1>7, <1>8 DEF ClientsCount
<1>10. clients' \in [Modules -> Nat]
  <2>1. clients' = [clients EXCEPT ![m] = clients[m] - 1]
    BY <1>0 DEF request_list_remove, DropClient, LastClient
  <2> QED BY <1>1, <1>5, <1>9, <2>1 DEF Inv, TypeOK
<1>11. NoStaleCode'
  <2>1. CASE clients[m] = 1
    <3>1. \A n \in Modules : open'[n] => n # m /\ open[n]
      BY <1>0, <1>1, <2>1 DEF request_list_remove, DropClient, LastClient, module_unload, Inv, TypeOK
    <3>2. \A w \in Vars : loaded'[w] => Parent[w] # m /\ loaded[w]
      BY <1>0, <2>1 DEF request_list_remove, DropClient, LastClient, module_unload
    <3>3. \A w \in Vars : Parent[w] # m => sym'[w] = sym[w]
      BY <1>0, <2>1 DEF request_list_remove, DropClient, LastClient, module_unload
    <3> QED BY <1>5, <3>1, <3>2, <3>3, ModulesAssumption
            DEF Counts, NoStaleCode, ModulesAssumption
  <2>2. CASE clients[m] # 1
    <3>1. open' = open /\ loaded' = loaded /\ sym' = sym
      BY <1>0, <2>2 DEF request_list_remove, DropClient, LastClient
    <3>2. clients'[m] > 0
      BY <1>1, <1>5, <1>9, <2>2 DEF Inv, TypeOK
    <3> QED BY <1>5, <3>1, <3>2, ModulesAssumption
            DEF Counts, NoStaleCode, ModulesAssumption
  <2> QED BY <2>1, <2>2
<1>12. RequestedIsLoaded'
  <2>1. CASE clients[m] = 1
    <3>1. clients'[m] = 0
      BY <1>5, <2>1
    <3>2. LiveOf(m)' = {}
      BY <1>1, <1>3, <1>7, <3>1, LiveOfFinite, FS_Subset, FS_EmptySet
      DEF ClientsCount
    <3>3. \A x \in Reqs : Live(x)' => ModuleOf(x) # m
      BY <1>2, <3>2 DEF LiveOf, ModuleOf
    <3>4. \A w \in Vars : Parent[w] # m /\ loaded[w] => loaded'[w]
      BY <1>0, <2>1 DEF request_list_remove, DropClient, LastClient, module_unload
    <3> QED BY <1>2, <3>3, <3>4
            DEF Counts, RequestedIsLoaded, Inv, LiveOK, ModuleOf
  <2>2. CASE clients[m] # 1
    <3>1. loaded' = loaded
      BY <1>0, <2>2 DEF request_list_remove, DropClient, LastClient
    <3> QED BY <1>2, <3>1 DEF Counts, RequestedIsLoaded
  <2> QED BY <2>1, <2>2
<1> QED BY <1>7, <1>10, <1>11, <1>12 DEF Counts

LEMMA RemoveInv ==
  ASSUME Inv, NEW r \in Reqs, NEW q, Removable(r), SameNodes(q),
         request_list_remove(q, r)
  PROVE  LiveOK' /\ NextOK'
<1>1. NextOf(r) \in Reqs \cup {None}
      /\ (NextOf(r) # None => req[NextOf(r)].var \in Vars)
  BY NextOfType
<1>2. \A x \in Reqs : req[x].next \in Reqs \cup {None}
  BY DEF Inv, TypeOK, Request
<1>3. LiveOK'
  BY RemovedNode DEF Inv, LiveOK, Live
<1>4. NextOK'
  BY <1>1, <1>2, RemovedNode DEF Inv, NextOK
<1> QED BY <1>3, <1>4
-----------------------------------------------------------------------------
(* Steps that neither add nor remove a request.                            *)

LEMMA KeepsList ==
  ASSUME Inv, Counts,
         \A x \in Reqs : req'[x].live = req[x].live,
         \A x \in Reqs : Live(x) => req'[x].var = req[x].var,
         UNCHANGED <<list, moduleVars>>
  PROVE  ListIsLive' /\ Counts'
<1>1. \A x \in Reqs : Live(x)' <=> Live(x)
  BY DEF Live
<1>2. ListIsLive'
  BY <1>1 DEF Inv, ListIsLive, InList
<1>3. \A m : LiveOf(m)' = LiveOf(m)
  BY <1>1 DEF LiveOf, ModuleOf
<1>4. ClientsCount'
  BY <1>3 DEF Counts, ClientsCount, moduleVars
<1>5. NoStaleCode' /\ RequestedIsLoaded'
  BY <1>1 DEF Counts, NoStaleCode, RequestedIsLoaded, moduleVars
<1> QED BY <1>2, <1>4, <1>5 DEF Counts

LEMMA KeepsNodes ==
  ASSUME Inv, Counts, SameNodes(req'), UNCHANGED <<list, moduleVars>>
  PROVE  LiveOK' /\ NextOK' /\ ListIsLive' /\ Counts'
<1>1. \A x \in Reqs : req[x].next \in Reqs \cup {None}
  BY DEF Inv, TypeOK, Request
<1>2. LiveOK' /\ NextOK'
  BY <1>1 DEF SameNodes, Inv, LiveOK, NextOK, Live
<1> QED BY <1>2, KeepsList DEF SameNodes

All == Inv /\ Counts /\ ReqConnAlive

LEMMA UnchangedNodes ==
  ASSUME Inv, UNCHANGED req
  PROVE  SameNodes(req')
  BY DEF Inv, TypeOK, SameNodes

(* The tail of an iteration of the request thread.                         *)
LEMMA UpdateStatInv ==
  ASSUME All, AtRequest, NEW sends \in BOOLEAN, NEW rm \in BOOLEAN,
         UpdateStat(sends, rm), sum' \in [Vars -> Sums], crashed' = crashed
  PROVE  All'
<1> DEFINE q == [req EXCEPT ![cur].answered = @ \/ sends, ![cur].remove = rm,
                            ![cur].first = FALSE]
<1>1. cur \in Reqs /\ req[cur].var \in Vars /\ phase = "walk"
  BY DEF AtRequest, All, Inv, TypeOK, CurOK
<1>2. SameNodes(q)
  <2>1. req[cur] \in Request
    BY <1>1 DEF All, Inv, TypeOK
  <2>2. [req[cur] EXCEPT !.answered = @ \/ sends, !.remove = rm, !.first = FALSE]
           \in Request
    BY <2>1 DEF Request
  <2> QED BY <1>1, <2>1, <2>2 DEF SameNodes, All, Inv, TypeOK, Request
<1>3. NextOf(cur) \in Reqs \cup {None}
      /\ (NextOf(cur) # None => req[NextOf(cur)].var \in Vars)
  BY <1>1, NextOfType DEF All
<1>4. cur' = NextOf(cur) /\ phase' = phase /\ conns' = conns /\ dropping' = dropping
  BY DEF UpdateStat, mainVars
<1>5. age' \in [Vars -> Nat] /\ \A v \in Vars : age'[v] <= Timeout[v]
  <2>1. age' = [age EXCEPT ![req[cur].var] = 0]
    BY DEF UpdateStat
  <2>2. age \in [Vars -> Nat] /\ \A v \in Vars : age[v] <= Timeout[v]
    BY DEF All, Inv, TypeOK
  <2>3. \A v \in Vars : Timeout[v] \in Nat
    BY ModulesAssumption DEF ModulesAssumption
  <2> QED BY <1>1, <2>1, <2>2, <2>3
<1> HIDE DEF q
<1>6. CASE rm
  <2>1. Removable(cur) /\ request_list_remove(q, cur)
    BY <1>6 DEF UpdateStat, q
  <2>2. LiveOK' /\ NextOK'
    BY <1>1, <1>2, <2>1, RemoveInv DEF All
  <2>3. list' \in Seq(Reqs) /\ ListIsLive'
    BY <1>1, <1>2, <2>1, RemoveList DEF All, Removable, LastClient
  <2>4. clients' \in [Modules -> Nat] /\ Counts'
    BY <1>1, <1>2, <2>1, RemoveCounts DEF All
  <2>5. /\ open' \in [Modules -> BOOLEAN]
        /\ loaded' \in [Vars -> BOOLEAN]
        /\ sym' \in [Vars -> {"null", "mapped", "gone"}]
    BY <1>1, <2>1, RemoveModules DEF All
  <2>6. /\ req' \in [Reqs -> Request]
        /\ \A x \in Reqs : req'[x].var = req[x].var
        /\ \A x \in Reqs : Live(x)' => Live(x) /\ req'[x].conn = req[x].conn
    BY <1>1, <1>2, <2>1, RemovedNode DEF All, Live
  <2>7. CurOK'
    BY <1>1, <1>3, <1>4, <2>6 DEF CurOK
  <2>8. TypeOK'
    BY <1>3, <1>4, <1>5, <2>3, <2>4, <2>5, <2>6 DEF All, Inv, TypeOK
  <2>9. ReqConnAlive'
    BY <1>4, <2>6 DEF All, ReqConnAlive
  <2> QED BY <2>2, <2>3, <2>4, <2>7, <2>8, <2>9 DEF All, Inv
<1>7. CASE ~rm
  <2>1. req' = q /\ UNCHANGED <<list, moduleVars>>
    BY <1>7 DEF UpdateStat, q
  <2>2. LiveOK' /\ NextOK' /\ ListIsLive' /\ Counts'
    BY <1>2, <2>1, KeepsNodes DEF All
  <2>3. CurOK'
    BY <1>1, <1>2, <1>3, <1>4, <2>1 DEF CurOK, SameNodes
  <2>4. TypeOK'
    BY <1>2, <1>3, <1>4, <1>5, <2>1 DEF All, Inv, TypeOK, SameNodes, moduleVars
  <2>5. ReqConnAlive'
    BY <1>2, <1>4, <2>1 DEF All, ReqConnAlive, SameNodes, Live
  <2> QED BY <2>2, <2>3, <2>4, <2>5 DEF All, Inv
<1> QED BY <1>6, <1>7
-----------------------------------------------------------------------------
LEMMA NextInv == All /\ [Next]_vars => All'
<1> SUFFICES ASSUME All, [Next]_vars PROVE All'
  OBVIOUS
<1> USE DEF All
<1>1. ASSUME UNCHANGED <<req, list, moduleVars>>, TypeOK', CurOK', ReqConnAlive'
      PROVE  All'
  BY <1>1, UnchangedNodes, KeepsNodes DEF Inv
<1>2. CASE UNCHANGED vars
  <2>1. TypeOK' /\ CurOK' /\ ReqConnAlive'
    BY <1>2 DEF vars, Inv, TypeOK, CurOK, ReqConnAlive, Live
  <2> QED BY <1>1, <1>2, <2>1 DEF vars, moduleVars
<1>3. ASSUME NEW c \in Conns, Connect(c), UNCHANGED crashed
      PROVE  All'
  <2>1. TypeOK' /\ CurOK' /\ ReqConnAlive'
    BY <1>3 DEF Connect, Inv, TypeOK, CurOK, ReqConnAlive, Live, threadVars,
                moduleVars
  <2> QED BY <1>1, <1>3, <2>1 DEF Connect
<1>4. ASSUME NEW c \in Conns, DropBegin(c), UNCHANGED crashed
      PROVE  All'
  <2>1. TypeOK' /\ CurOK' /\ ReqConnAlive'
    BY <1>4, NoneAssumption
    DEF DropBegin, Inv, TypeOK, CurOK, ReqConnAlive, Live, threadVars, moduleVars,
        NoneAssumption
  <2> QED BY <1>1, <1>4, <2>1 DEF DropBegin
<1>5. ASSUME NEW c \in Conns, NEW v \in Vars, NEW once \in BOOLEAN,
             NEW r \in Reqs, NEW ok \in BOOLEAN,
             AddRequest(c, v, once, r, ok), UNCHANGED crashed
      PROVE  All'
  <2>1. /\ request_list_add(r, c, v, once, ok)
        /\ UNCHANGED <<mainVars, threadVars, crashed>>
        /\ c \in conns /\ ~Live(r)
    BY <1>5 DEF AddRequest
  <2>2. Inv' /\ Counts'
    BY <2>1, AddInv
  <2>3. ReqConnAlive'
    BY <2>1 DEF request_list_add, AddClient, ReqConnAlive, Live, mainVars, Inv, TypeOK
  <2> QED BY <2>2, <2>3
<1>6. ASSUME DropRequest, UNCHANGED crashed
      PROVE  All'
  <2>1. PICK i \in 1..Len(list) :
           Removable(list[i]) /\ request_list_remove(req, list[i])
    BY <1>6 DEF DropRequest
  <2>2. list[i] \in Reqs /\ SameNodes(req)
    BY <2>1 DEF Inv, TypeOK, SameNodes
  <2>3. LiveOK' /\ NextOK'
    BY <2>1, <2>2, RemoveInv
  <2>4. list' \in Seq(Reqs) /\ ListIsLive'
    BY <2>1, <2>2, RemoveList DEF Removable, LastClient
  <2>5. clients' \in [Modules -> Nat] /\ Counts'
    BY <2>1, <2>2, RemoveCounts
  <2>6. /\ open' \in [Modules -> BOOLEAN]
        /\ loaded' \in [Vars -> BOOLEAN]
        /\ sym' \in [Vars -> {"null", "mapped", "gone"}]
    BY <2>1, <2>2, RemoveModules
  <2>7. /\ req' \in [Reqs -> Request]
        /\ \A x \in Reqs : req'[x].var = req[x].var
        /\ \A x \in Reqs : Live(x)' => Live(x) /\ req'[x].conn = req[x].conn
    BY <2>1, <2>2, RemovedNode DEF Live
  <2>8. CurOK'
    BY <1>6, <2>7 DEF DropRequest, CurOK, Inv, TypeOK, threadVars
  <2>9. TypeOK'
    BY <1>6, <2>4, <2>5, <2>6, <2>7 DEF DropRequest, mainVars, threadVars, Inv, TypeOK
  <2>10. ReqConnAlive'
    BY <1>6, <2>7 DEF DropRequest, mainVars, ReqConnAlive
  <2> QED BY <2>3, <2>4, <2>5, <2>8, <2>9, <2>10 DEF Inv
<1>7. ASSUME DropEnd, UNCHANGED crashed
      PROVE  All'
  <2>1. \A r \in Reqs : Live(r) => req[r].conn # dropping
    BY <1>7 DEF DropEnd, Inv, ListIsLive, InList
  <2>2. TypeOK' /\ CurOK' /\ ReqConnAlive'
    BY <1>7, <2>1 DEF DropEnd, Inv, TypeOK, CurOK, ReqConnAlive, Live, threadVars,
                      moduleVars
  <2> QED BY <1>1, <1>7, <2>2 DEF DropEnd
<1>8. ASSUME age' \in [Vars -> Nat], \A v \in Vars : age'[v] <= Timeout[v],
             UNCHANGED <<mainVars, req, list, moduleVars, sum, crashed>>,
             phase' \in {"cron", "walk"}, cur' \in Reqs \cup {None}, CurOK'
      PROVE  All'
  <2>1. TypeOK' /\ ReqConnAlive'
    BY <1>8 DEF Inv, TypeOK, ReqConnAlive, Live, mainVars, moduleVars
  <2> QED BY <1>1, <1>8, <2>1
<1>9. ASSUME CronExec, UNCHANGED crashed
      PROVE  All'
  <2>1. cur' = Head1 /\ phase' = "walk" /\ UNCHANGED req
    BY <1>9 DEF CronExec
  <2>2. Head1 # None => Head1 \in Reqs /\ Live(Head1)
    BY DEF Head1, Inv, TypeOK, ListIsLive, InList
  <2>3. CurOK' /\ cur' \in Reqs \cup {None}
    BY <2>1, <2>2 DEF CurOK, Inv, LiveOK
  <2>4. age' \in [Vars -> Nat] /\ \A v \in Vars : age'[v] <= Timeout[v]
    BY <1>9, ModulesAssumption DEF CronExec, Inv, TypeOK, ModulesAssumption
  <2> QED BY <1>8, <1>9, <2>1, <2>3, <2>4 DEF CronExec
<1>10. ASSUME Skip, UNCHANGED crashed
       PROVE  All'
  <2>1. cur \in Reqs /\ phase = "walk"
    BY <1>10 DEF Skip, AtRequest, Inv, TypeOK
  <2>2. CurOK' /\ cur' \in Reqs \cup {None}
    BY <1>10, <2>1, NextOfType DEF Skip, CurOK
  <2> QED BY <1>8, <1>10, <2>1, <2>2 DEF Skip, Inv, TypeOK
<1>11. ASSUME Handle, UNCHANGED crashed
       PROVE  All'
  <2>1. PICK x \in Values[req[cur].var], sent \in BOOLEAN : HandleValue(x, sent)
    BY <1>11 DEF Handle
  <2>2. AtRequest /\ cur \in Reqs /\ req[cur].var \in Vars
    BY <1>11 DEF Handle, AtRequest, Inv, TypeOK, CurOK
  <2>3. get_str_sum(x) \in Sums
    BY <2>1, <2>2 DEF Sums, AllValues
  <2>4. sum' \in [Vars -> Sums]
    BY <2>1, <2>3 DEF HandleValue, Sends, Inv, TypeOK
  <2>5. req[cur] \in Request
    BY <2>2 DEF Inv, TypeOK
  <2>6. PICK sends \in BOOLEAN, rm \in BOOLEAN : UpdateStat(sends, rm)
    BY <2>1, <2>5 DEF HandleValue, Sends, Request
  <2> QED BY <1>11, <2>2, <2>4, <2>6, UpdateStatInv
<1>12. ASSUME HandleSilently, UNCHANGED crashed
       PROVE  All'
  <2>1. AtRequest /\ UpdateStat(FALSE, req[cur].remove) /\ sum' = sum
    BY <1>12 DEF HandleSilently
  <2>2. req[cur].remove \in BOOLEAN
    BY <2>1 DEF AtRequest, Inv, TypeOK, Request
  <2> QED BY <1>12, <2>1, <2>2, UpdateStatInv DEF Inv, TypeOK
<1>13. \A v \in Vars : Older(v) \in Nat /\ Older(v) <= Timeout[v]
  BY ModulesAssumption DEF Older, Inv, TypeOK, ModulesAssumption
<1>14. ASSUME Tick, UNCHANGED crashed
       PROVE  All'
  <2>1. CurOK' /\ cur' \in Reqs \cup {None}
    BY <1>14 DEF Tick, threadVars, CurOK, Inv, TypeOK
  <2> QED BY <1>8, <1>13, <1>14, <2>1 DEF Tick, threadVars, Inv, TypeOK
<1>15. ASSUME Sleep, UNCHANGED crashed
       PROVE  All'
  <2>1. /\ req' = [r \in Reqs |-> IF Live(r) THEN req[r] ELSE Blank]
        /\ age' = [v \in Vars |-> Older(v)]
        /\ phase' = "cron" /\ cur' = None
        /\ UNCHANGED <<mainVars, list, moduleVars, sum>>
    BY <1>15 DEF Sleep
  <2>2. Blank \in Request
    BY DEF Blank, Request
  <2>3. /\ \A x \in Reqs : req'[x].live = req[x].live
        /\ \A x \in Reqs : Live(x) => req'[x] = req[x]
        /\ \A x \in Reqs : ~Live(x) => req'[x].next = None
    <3>1. Blank.live = FALSE /\ Blank.next = None
      BY DEF Blank
    <3>2. \A x \in Reqs : req[x].live \in BOOLEAN
      BY DEF Inv, TypeOK, Request
    <3>3. \A x \in Reqs : Live(x) => req'[x] = req[x]
      BY <2>1
    <3>4. \A x \in Reqs : ~Live(x) => req'[x] = Blank
      BY <2>1
    <3> QED BY <3>1, <3>2, <3>3, <3>4 DEF Live
  <2>4. ListIsLive' /\ Counts'
    BY <2>1, <2>3, KeepsList
  <2>5. LiveOK' /\ NextOK' /\ CurOK' /\ ReqConnAlive'
    BY <2>1, <2>3 DEF Inv, LiveOK, NextOK, CurOK, ReqConnAlive, Live, mainVars
  <2>6. req' \in [Reqs -> Request]
    BY <2>1, <2>2 DEF Inv, TypeOK
  <2>7. TypeOK'
    BY <1>13, <1>15, <2>1, <2>6 DEF Inv, TypeOK, mainVars, moduleVars
  <2> QED BY <2>4, <2>5, <2>7 DEF Inv
<1>16. ASSUME Crash
       PROVE  All'
  <2>1. TypeOK' /\ CurOK' /\ ReqConnAlive'
    BY <1>16 DEF Crash, Inv, TypeOK, CurOK, ReqConnAlive, Live, mainVars,
                 threadVars, moduleVars
  <2> QED BY <1>1, <1>16, <2>1 DEF Crash
<1> QED BY <1>2, <1>3, <1>4, <1>5, <1>6, <1>7, <1>9, <1>10, <1>11, <1>12, <1>14,
          <1>15, <1>16 DEF Next, Environment, Drop, Thread
-----------------------------------------------------------------------------
(* The request thread and the main thread, interleaved in any way, keep    *)
(* every structure in its type.                                            *)
THEOREM TypeCorrect == Spec => []TypeOK
<1>1. Init => All
  BY InitInv DEF All
<1>2. All => TypeOK
  BY DEF All, Inv
<1> QED BY <1>1, <1>2, NextInv, PTL DEF Spec

(* module.clients is the number of requests on the module's variables.     *)
THEOREM ClientsCounted == Spec => []ClientsCount
<1>1. Init => All
  BY InitInv DEF All
<1>2. All => ClientsCount
  BY DEF All, Counts
<1> QED BY <1>1, <1>2, NextInv, PTL DEF Spec

(* No unload leaves a loaded variable with a pointer into unmapped code.   *)
THEOREM CodeIsMapped == Spec => []NoStaleCode
<1>1. Init => All
  BY InitInv DEF All
<1>2. All => NoStaleCode
  BY DEF All, Counts
<1> QED BY <1>1, <1>2, NextInv, PTL DEF Spec

(* The variable of a request on the list is loaded.                        *)
THEOREM RequestsAreLoaded == Spec => []RequestedIsLoaded
<1>1. Init => All
  BY InitInv DEF All
<1>2. All => RequestedIsLoaded
  BY DEF All, Counts
<1> QED BY <1>1, <1>2, NextInv, PTL DEF Spec

(* The list holds the allocated nodes, each once.                          *)
THEOREM ListHoldsTheLive == Spec => []ListIsLive
<1>1. Init => All
  BY InitInv DEF All
<1>2. All => ListIsLive
  BY DEF All, Inv
<1> QED BY <1>1, <1>2, NextInv, PTL DEF Spec

(* No node on the list points to a connection that has been freed.         *)
THEOREM ConnectionsOutliveRequests == Spec => []ReqConnAlive
<1>1. Init => All
  BY InitInv DEF All
<1>2. All => ReqConnAlive
  BY DEF All
<1> QED BY <1>1, <1>2, NextInv, PTL DEF Spec
-----------------------------------------------------------------------------
(* Who leaves and why.                                                     *)

(* An iteration ends the life of no node but its own, and hands a value    *)
(* out for it when it sends one.                                           *)
LEMMA UpdateStatLeaves ==
  ASSUME All, AtRequest, NEW sends \in BOOLEAN, NEW rm \in BOOLEAN,
         UpdateStat(sends, rm), NEW r \in Reqs, Live(r), ~req'[r].live
  PROVE  r = cur /\ (sends => req'[r].answered)
<1> DEFINE q == [req EXCEPT ![cur].answered = @ \/ sends, ![cur].remove = rm,
                            ![cur].first = FALSE]
<1>1. cur \in Reqs /\ req \in [Reqs -> Request]
  BY DEF AtRequest, All, Inv, TypeOK
<1>2. q \in [Reqs -> Request] /\ \A x \in Reqs : q[x].live = req[x].live
  <2>1. req[cur] \in Request
    BY <1>1
  <2>2. [req[cur] EXCEPT !.answered = @ \/ sends, !.remove = rm, !.first = FALSE]
           \in Request
    BY <2>1 DEF Request
  <2> QED
    BY <1>1, <2>1, <2>2 DEF Request
<1>3. sends => q[cur].answered
  BY <1>1 DEF Request
<1> HIDE DEF q
<1>4. CASE ~rm
  BY <1>2, <1>4 DEF UpdateStat, q, Live
<1>5. CASE rm
  <2>1. request_list_remove(q, cur)
    BY <1>5 DEF UpdateStat, q
  <2>2. req' = [q EXCEPT ![cur].live = FALSE, ![cur].conn = None,
                         ![cur].next = NextOf(cur)]
    BY <2>1 DEF request_list_remove, DropClient, LastClient
  <2>3. r = cur
    BY <1>1, <1>2, <2>2 DEF Live
  <2>4. req'[cur].answered = q[cur].answered
    BY <1>1, <1>2, <2>2 DEF Request
  <2> QED
    BY <1>3, <2>3, <2>4
<1> QED
  BY <1>4, <1>5

(* The request that leaves, and the two ways in which it may.              *)
LEMMA LeavesAnswered ==
  ASSUME All, [Next]_vars, NEW r \in Reqs, Live(r), req[r].remove, CallsMethod(r),
         ~req'[r].live, dropping = None \/ dropping # req[r].conn
  PROVE  req'[r].answered
<1> USE DEF All
<1>1. req \in [Reqs -> Request]
  BY DEF Inv, TypeOK
<1>2. CASE Handle
  <2>1. PICK x \in Values[req[cur].var], sent \in BOOLEAN : HandleValue(x, sent)
    BY <1>2 DEF Handle
  <2>2. AtRequest /\ cur \in Reqs
    BY <1>2 DEF Handle, AtRequest, Inv, TypeOK
  <2>3. PICK rm \in BOOLEAN : UpdateStat(Sends(cur, x), rm)
    BY <1>1, <2>1, <2>2 DEF HandleValue, Sends, Request
  <2>4. Sends(cur, x) \in BOOLEAN
    BY <1>1, <2>2 DEF Sends, Request
  <2>5. r = cur /\ (Sends(cur, x) => req'[r].answered)
    BY <2>2, <2>3, <2>4, UpdateStatLeaves
  <2> QED
    BY <2>5 DEF Sends
<1>3. CASE HandleSilently
  <2>1. AtRequest /\ ~CallsMethod(cur) /\ UpdateStat(FALSE, req[cur].remove)
    BY <1>3 DEF HandleSilently
  <2>2. req[cur].remove \in BOOLEAN
    BY <1>1, <2>1 DEF AtRequest, Inv, TypeOK, Request
  <2>3. r = cur
    BY <2>1, <2>2, UpdateStatLeaves
  <2> QED
    BY <2>1, <2>3
<1>4. CASE DropRequest
  <2>1. PICK i \in 1..Len(list) : /\ IsFirstOf(dropping, i)
                                  /\ request_list_remove(req, list[i])
    BY <1>4 DEF DropRequest
  <2>2. list[i] \in Reqs /\ req[list[i]].conn = dropping /\ dropping # None
    BY <1>4, <2>1 DEF DropRequest, IsFirstOf, Inv, TypeOK
  <2>3. req' = [req EXCEPT ![list[i]].live = FALSE, ![list[i]].conn = None,
                           ![list[i]].next = NextOf(list[i])]
    BY <2>1 DEF request_list_remove, DropClient, LastClient
  <2> QED
    BY <1>1, <2>2, <2>3 DEF Live
<1>5. ASSUME NEW c \in Conns, NEW v \in Vars, NEW once \in BOOLEAN,
             NEW x \in Reqs, NEW ok \in BOOLEAN, AddRequest(c, v, once, x, ok)
      PROVE  FALSE
  <2>1. request_list_add(x, c, v, once, ok) /\ ~Live(x)
    BY <1>5 DEF AddRequest
  <2>2. req'[r] = req[r]
    BY <1>1, <2>1 DEF request_list_add, AddClient, Live
  <2> QED
    BY <2>2 DEF Live
<1>6. CASE Sleep
  BY <1>6 DEF Sleep, Live
<1>7. ASSUME UNCHANGED req
      PROVE  FALSE
  BY <1>7 DEF Live
<1>8. ASSUME NEW c \in Conns, Connect(c) \/ DropBegin(c)
      PROVE  UNCHANGED req
  BY <1>8 DEF Connect, DropBegin
<1>9. DropEnd \/ CronExec \/ Skip \/ Tick \/ Crash \/ UNCHANGED vars => UNCHANGED req
  BY DEF DropEnd, CronExec, Skip, Tick, Crash, vars
<1> QED
  BY <1>2, <1>3, <1>4, <1>5, <1>6, <1>7, <1>8, <1>9
  DEF Next, Environment, Drop, Thread

(* A varonce request whose method is called is not removed unanswered,     *)
(* whatever was sent last and whatever the other thread removes.           *)
THEOREM OnceIsAnswered == Spec => OnceAnswered
<1>1. All /\ [Next]_vars =>
         [\A r \in Reqs :
             /\ Live(r) /\ req[r].remove /\ CallsMethod(r)
             /\ ~req'[r].live
             /\ dropping = None \/ dropping # req[r].conn
             => req'[r].answered]_vars
  BY LeavesAnswered
<1>2. Init => All
  BY InitInv DEF All
<1> QED
  BY <1>1, <1>2, NextInv, PTL DEF Spec, OnceAnswered
=============================================================================
