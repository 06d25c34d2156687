------------------------ MODULE RequestThreadsProofs ------------------------
(* Proofs about module RequestThreads, for every number of connections,    *)
(* cells, modules and variables.                                           *)
EXTENDS RequestThreads, FiniteSetTheorems, SequenceTheorems,
        WellFoundedInduction, TLAPS

(* s is the list, read from rl_start along next.                           *)
Along(s) ==
    /\ s \in Seq(Reqs)
    /\ \A i, j \in 1..Len(s) : s[i] = s[j] => i = j
    /\ rl_start = IF s = <<>> THEN None ELSE s[1]
    /\ \A i \in 1..Len(s) : req[s[i]].next = IF i = Len(s) THEN None ELSE s[i + 1]

(* While clients only come, and every module can be opened, nothing is     *)
(* removed: the request thread walks a list that main extends.             *)
OnlyArrivals == Leave = FALSE /\ Onces \subseteq {FALSE} /\ Unreliable = {}

Adding == {"link", "tail", "load", "open", "init", "initted", "sym", "symmed", "inc",
           "incremented"}
Walking == {"check", "call", "stat"}

Cell == [live : BOOLEAN, conn : Conns \cup {None}, var : Vars \cup {None},
         remove : BOOLEAN, first : BOOLEAN, next : Reqs \cup {None},
         answered : BOOLEAN, prev : Reqs \cup {None}]
Thread(pcs) == [pc : pcs, node : Reqs \cup {None}, val : Nat, next : Reqs \cup {None}]

Types ==
    /\ conns \subseteq Conns /\ dropping = None
    /\ req \in [Reqs -> Cell]
    /\ clients \in [Modules -> Nat] /\ open \in [Modules -> BOOLEAN]
    /\ loaded \in [Vars -> BOOLEAN] /\ sym \in [Vars -> {"null", "mapped"}]
    /\ proc = [t \in Threads |-> proc[t]]
    /\ proc["main"] \in Thread({"idle"} \cup Adding)
    /\ proc["request"] \in Thread({"cron", "walk"} \cup Walking)
    /\ crashed = FALSE

(* Whatever a thread holds or can reach is a live node.                    *)
Nodes ==
    /\ \A r \in Reqs : ~req[r].remove /\ (req[r].live => req[r].var \in Vars)
    /\ \A t \in Threads : Node(t) # None => req[Node(t)].live
    /\ proc["request"].next # None => req[proc["request"].next].live
    /\ proc["main"].pc \in Adding => Node("main") # None
    /\ proc["request"].pc \in Walking => Node("request") # None
    /\ proc["main"].pc = "link" =>
          req[Node("main")].next = None /\ req[Node("main")].prev = None

(* The list as it is linked, and how far the node that is being added is.  *)
LastOf(s) == IF s = <<>> THEN None ELSE s[Len(s)]
Members(s) == {s[i] : i \in 1..Len(s)}
LiveCells == {r \in Reqs : req[r].live}
Mirrored(s) ==
    \A i \in 1..Len(s) : req[s[i]].prev = IF i = 1 THEN None ELSE s[i - 1]
Linked(s) ==
    /\ Along(s) /\ Mirrored(s)
    /\ CASE proc["main"].pc = "link" ->
              Members(s) = LiveCells \ {Node("main")} /\ rl_end = LastOf(s)
         [] proc["main"].pc = "tail" ->
              /\ Members(s) = LiveCells
              /\ s # <<>> /\ s[Len(s)] = Node("main")
              /\ rl_end = IF Len(s) = 1 THEN None ELSE s[Len(s) - 1]
         [] OTHER -> Members(s) = LiveCells /\ rl_end = LastOf(s)

(* A symbol is there before the flag that admits callers to it.            *)
Mapped ==
    /\ \A v \in Vars : loaded[v] => sym[v] = "mapped"
    /\ \A m \in Modules : clients[m] # 0 => open[m]
    /\ proc["main"].pc \in Adding \ {"link", "tail", "load", "open"} => open[ModAt("main")]
    /\ proc["main"].pc = "initted" => \A v \in Siblings : sym[v] = "mapped"
    /\ proc["main"].pc = "symmed" /\ proc["main"].val = 1 =>
          sym[VarAt("main")] = "mapped"
    /\ proc["request"].pc = "call" => sym[VarAt("request")] = "mapped"

Growing == Types /\ Nodes /\ (\E s : Linked(s)) /\ Mapped
-----------------------------------------------------------------------------
(* The list that Chain reads.                                              *)

(* What holds of every natural number holds of the least that it fails of. *)
LEMMA LeastNat ==
  ASSUME NEW T \in SUBSET Nat, T # {}
  PROVE  \E x \in T : \A y \in T : x <= y
<1> DEFINE Below == {ss \in Nat \X Nat : ss[1] < ss[2]}
<1>1. IsWellFoundedOn(Below, Nat)
  BY NatLessThanWellFounded DEF OpToRel
<1>2. PICK x \in T : \A y \in T : ~ (<<y, x>> \in Below)
  <2> HIDE DEF Below
  <2> QED
    BY <1>1, WFMin
<1>3. \A y \in T : x \in Nat /\ y \in Nat /\ (y < x => <<y, x>> \in Below)
  OBVIOUS
<1>4. \A y \in T : ~(y < x)
  <2> HIDE DEF Below
  <2> QED
    BY <1>2, <1>3
<1> QED
  BY <1>3, <1>4

LEMMA ShortEnough ==
  ASSUME NEW s \in Seq(Reqs), \A i, j \in 1..Len(s) : s[i] = s[j] => i = j
  PROVE  Len(s) <= Cardinality(Reqs) /\ Cardinality(Reqs) \in Nat
<1>1. s \in Injection(1..Len(s), Reqs)
  BY DEF Injection, IsInjective
<1>2. Cardinality(1..Len(s)) = Len(s)
  BY FS_Interval
<1> QED
  BY <1>1, <1>2, FS_Injection, FS_CardinalityType, CellsAssumption

LEMMA ChainAlong ==
  ASSUME NEW s, Along(s)
  PROVE  Chain = s
<1> DEFINE K == Cardinality(Reqs)
     Step(g, n) == IF n = 0 THEN <<>>
          ELSE LET s0 == g[n - 1]
                   p == IF s0 = <<>> THEN rl_start ELSE req[s0[Len(s0)]].next
               IN IF Len(s0) < n - 1 \/ p = None THEN s0 ELSE Append(s0, p)
     f == CHOOSE g : g = [n \in 0..K |-> Step(g, n)]
     Upto(n) == IF n <= Len(s) THEN SubSeq(s, 1, n) ELSE s
     h == [n \in 0..K |-> Upto(n)]
<1>1. Chain = f[K]
  BY DEF Chain
<1>2. K \in Nat /\ Len(s) \in Nat /\ Len(s) <= K
  BY ShortEnough DEF Along
<1>a. ASSUME NEW g, NEW n \in 0..K, NEW s0, n # 0, g[n - 1] = s0
      PROVE  Step(g, n) =
               LET p == IF s0 = <<>> THEN rl_start ELSE req[s0[Len(s0)]].next
               IN IF Len(s0) < n - 1 \/ p = None THEN s0 ELSE Append(s0, p)
  BY <1>a
<1>3. ASSUME NEW g, NEW n \in 0..K, n # 0 => g[n - 1] = Upto(n - 1)
      PROVE  Step(g, n) = Upto(n)
  <2>1. CASE n = 0
    BY <1>2, <2>1 DEF Along
  <2>2. CASE n # 0 /\ n <= Len(s)
    <3> DEFINE s0 == Upto(n - 1)
    <3>1. s0 = SubSeq(s, 1, n - 1) /\ Len(s0) = n - 1 /\ s0 \in Seq(Reqs)
      BY <1>2, <2>2 DEF Along
    <3>2. Append(s0, s[n]) = SubSeq(s, 1, n)
      BY <1>2, <2>2, <3>1 DEF Along
    <3>3. (IF s0 = <<>> THEN rl_start ELSE req[s0[Len(s0)]].next) = s[n]
      BY <1>2, <2>2, <3>1 DEF Along
    <3>4. s[n] # None
      BY <1>2, <2>2, CellsAssumption DEF Along
    <3>5. Upto(n) = SubSeq(s, 1, n)
      BY <2>2
    <3>6. g[n - 1] = s0
      BY <1>3, <2>2
    <3> HIDE DEF s0, Upto, Step
    <3> DEFINE p == IF s0 = <<>> THEN rl_start ELSE req[s0[Len(s0)]].next
    <3>7. Step(g, n) = IF Len(s0) < n - 1 \/ p = None THEN s0 ELSE Append(s0, p)
      BY <1>a, <2>2, <3>6
    <3>8. p = s[n]
      BY <3>3
    <3> HIDE DEF p
    <3>9. Step(g, n) = Append(s0, s[n])
      BY <1>2, <3>1, <3>4, <3>7, <3>8
    <3> QED
      BY <3>2, <3>5, <3>9
  <2>3. CASE n # 0 /\ n > Len(s)
    <3>1. Upto(n - 1) = s
      BY <1>2, <2>3 DEF Along
    <3>2. (IF s = <<>> THEN rl_start ELSE req[s[Len(s)]].next) = None
      BY <1>2 DEF Along
    <3>3. Upto(n) = s
      BY <2>3
    <3>4. g[n - 1] = s
      BY <1>3, <2>3, <3>1
    <3> HIDE DEF Upto, Step
    <3> QED
      BY <1>a, <2>3, <3>2, <3>3, <3>4
  <2> QED
    BY <1>2, <2>1, <2>2, <2>3
<1> HIDE DEF Upto, Step
<1>4. h = [n \in 0..K |-> Step(h, n)]
  BY <1>2, <1>3
<1>5. f = [n \in 0..K |-> Step(f, n)]
  <2> HIDE DEF h
  <2> QED
    BY <1>4
<1> HIDE DEF f, h
<1>6. \A n \in 0..K : f[n] = Upto(n)
  <2> DEFINE T == {n \in 0..K : f[n] # Upto(n)}
  <2> SUFFICES ASSUME T # {} PROVE FALSE
    OBVIOUS
  <2>1. PICK n \in T : \A m \in T : n <= m
    <3>1. T \in SUBSET Nat
      BY <1>2
    <3> HIDE DEF T
    <3> QED
      BY <3>1, LeastNat
  <2>2. n # 0 => f[n - 1] = Upto(n - 1)
    BY <1>2, <2>1
  <2> QED
    BY <1>3, <1>5, <2>1, <2>2
<1>7. Upto(K) = s
  BY <1>2 DEF Upto, Along
<1> QED
  BY <1>1, <1>2, <1>6, <1>7
-----------------------------------------------------------------------------
(* Steps while clients only come.                                          *)

Arrive ==
    \/ \E c \in Conns : Connect(c)
    \/ \E c \in Conns, v \in Vars, r \in Reqs : AddBegin(c, v, FALSE, r)
    \/ AddLink \/ AddTail \/ AddTest \/ AddLoad(TRUE)
    \/ AddSymbols("init", "initted", Siblings) \/ AddLoaded("initted", "sym", Siblings)
    \/ AddSymbols("sym", "symmed", Missing) \/ AddLoaded("symmed", "inc", Resolved)
    \/ AddCount \/ AddEnd
Walk ==
    \/ WalkBegin \/ IterBegin \/ IterCheck \/ IterStat \/ Sleep
    \/ \E x \in UNION {Values[v] : v \in Vars} : IterCall(x, TRUE)

LEMMA OnlyTheseSteps ==
  ASSUME OnlyArrivals, Growing, Next
  PROVE  Arrive \/ Walk
<1> USE DEF OnlyArrivals, Growing, Types, Thread, Adding, Walking, At
<1>1. proc["main"].pc \in {"idle"} \cup Adding
      /\ proc["request"].pc \in {"cron", "walk"} \cup Walking
  OBVIOUS
<1>2. ASSUME NEW t \in Threads, Remove(t)
      PROVE  FALSE
  BY <1>1, <1>2 DEF Remove, Threads, RemoveCount, RemoveCounted, RemoveUnload,
                    RemoveUnloaded, RemoveUnlink, RemoveEnds, RemoveEnd
<1>3. ASSUME Crash
      PROVE  FALSE
  <2>1. PICK t \in Threads : BadAccess(t)
    BY <1>3 DEF Crash
  <2>2. CASE t = "main"
    BY <1>1, <2>1, <2>2 DEF BadAccess
  <2>3. CASE t = "request"
    BY <1>1, <2>1, <2>3 DEF BadAccess, Nodes, Mapped, Walking, Threads, Node
  <2> QED
    BY <2>2, <2>3 DEF Threads
<1>4. ASSUME NEW c \in Conns, DropBegin(c)
      PROVE  FALSE
  BY <1>4 DEF DropBegin
<1>5. ~DropFind /\ ~DropEnd
  BY DEF DropFind, DropEnd
<1>6. ASSUME NEW ok \in BOOLEAN, AddLoad(ok)
      PROVE  AddLoad(TRUE)
  BY <1>6 DEF AddLoad
<1>7. CASE Main
  <2>1. ASSUME NEW c \in Conns, NEW v \in Vars, NEW once \in Onces, NEW r \in Reqs,
               AddBegin(c, v, once, r)
        PROVE  Arrive
    <3>1. once = FALSE
      OBVIOUS
    <3> QED
      BY <2>1, <3>1 DEF Arrive
  <2>2. CASE AddResolve
    BY <2>2 DEF AddResolve, Arrive
  <2>3. ASSUME NEW ok \in BOOLEAN, AddLoad(ok)
        PROVE  Arrive
    BY <1>6, <2>3 DEF Arrive
  <2>4. ASSUME NEW c \in Conns, Connect(c)
        PROVE  Arrive
    BY <2>4 DEF Arrive
  <2>5. CASE AddLink \/ AddTail \/ AddTest \/ AddCount \/ AddEnd
    BY <2>5 DEF Arrive
  <2> QED
    BY <1>2, <1>4, <1>5, <1>7, <2>1, <2>2, <2>3, <2>4, <2>5 DEF Main, Threads
<1>8. CASE RequestThread
  BY <1>2, <1>8 DEF RequestThread, Walk, Threads
<1> QED
  BY <1>3, <1>7, <1>8 DEF Next

LEMMA ArriveTypes ==
  ASSUME OnlyArrivals, Growing, Arrive
  PROVE  Types'
<1> USE DEF Growing, Types, Thread, Adding, Threads, Goto, Keep, connVars, listVars,
            modVars, symVars
<1>1. ASSUME NEW c \in Conns, Connect(c)
      PROVE  Types'
  BY <1>1 DEF Connect
<1>2. ASSUME NEW c \in Conns, NEW v \in Vars, NEW r \in Reqs, AddBegin(c, v, FALSE, r)
      PROVE  Types'
  <2>1. req' \in [Reqs -> Cell]
    BY <1>2 DEF AddBegin, Blank, Cell
  <2> QED
    BY <1>2, <2>1 DEF AddBegin
<1>3. CASE AddLink
  <2>1. Node("main") \in Reqs /\ \A s : Linked(s) => rl_end \in Reqs \cup {None}
    BY <1>3, CellsAssumption DEF AddLink, At, Nodes, Node, Linked, LastOf, Along
  <2>2. req' \in [Reqs -> Cell]
    BY <1>3, <2>1 DEF AddLink, Cell
  <2> QED
    BY <1>3, <2>2 DEF AddLink, At
<1>4. CASE AddTail
  BY <1>4 DEF AddTail, At
<1>5. CASE AddTest \/ AddLoad(TRUE)
  <2>1. CASE AddTest
    <3>1. PICK next \in {"open", "sym"} : proc' = [proc EXCEPT !["main"].pc = next]
      BY <2>1 DEF AddTest
    <3>2. UNCHANGED <<conns, dropping, req, clients, open, loaded, sym, crashed>>
      BY <2>1 DEF AddTest
    <3> QED
      BY <3>1, <3>2
  <2>2. CASE AddLoad(TRUE)
    <3> DEFINE m == ModAt("main")
    <3>1. /\ proc' = [proc EXCEPT !["main"].pc = "init"]
          /\ open' = [open EXCEPT ![m] = TRUE] /\ clients' = [clients EXCEPT ![m] = 0]
          /\ loaded' = [v \in Vars |-> Parent[v] # m /\ loaded[v]]
          /\ UNCHANGED <<conns, dropping, req, sym, crashed>>
      BY <2>2 DEF AddLoad
    <3> HIDE DEF m
    <3>2. open' \in [Modules -> BOOLEAN] /\ clients' \in [Modules -> Nat]
      BY <3>1
    <3>3. loaded' \in [Vars -> BOOLEAN]
      BY <3>1, Zenon
    <3> QED
      BY <3>1, <3>2, <3>3
  <2> QED
    BY <1>5, <2>1, <2>2
<1>6. ASSUME NEW pc, NEW next \in Adding, NEW vs \in SUBSET Vars,
             AddSymbols(pc, next, vs), \A v \in vs : open[Parent[v]]
      PROVE  Types'
  <2>1. Cardinality(vs) \in Nat
    BY VarsAssumption, FS_CardinalityType, FS_Subset
  <2>2. sym' \in [Vars -> {"null", "mapped"}]
    BY <1>6 DEF AddSymbols, Looked
  <2> QED
    BY <1>6, <2>1, <2>2 DEF AddSymbols, At
<1>7. ASSUME NEW pc, NEW next \in Adding, NEW vs, AddLoaded(pc, next, vs)
      PROVE  Types'
  BY <1>7 DEF AddLoaded, At
<1>8. CASE AddCount
  <2>1. ModAt("main") \in Modules
    BY <1>8, VarsAssumption DEF AddCount, At, Nodes, ModAt, VarAt, Node
  <2> QED
    BY <1>8, <2>1 DEF AddCount, At
<1>9. CASE AddEnd
  <2>1. clients' \in [Modules -> Nat]
    <3>1. clients' = [clients EXCEPT ![ModAt("main")] = proc["main"].val + 1]
      BY <1>9 DEF AddEnd
    <3>2. proc["main"].val + 1 \in Nat
      OBVIOUS
    <3> QED
      BY <3>1, <3>2
  <2>2. proc' = [proc EXCEPT !["main"] = Idle("idle")] /\ Idle("idle") \in Thread({"idle"})
    BY <1>9 DEF AddEnd, Idle
  <2> QED
    BY <1>9, <2>1, <2>2 DEF AddEnd
<1>10. proc["main"].pc \in {"init", "sym"} =>
          Siblings \subseteq Vars /\ Missing \subseteq Vars
          /\ (\A v \in Siblings : open[Parent[v]]) /\ \A v \in Missing : open[Parent[v]]
  BY DEF Nodes, Mapped, Siblings, Missing, ModAt, VarAt, Node
<1> QED
  BY <1>1, <1>2, <1>3, <1>4, <1>5, <1>6, <1>7, <1>8, <1>9, <1>10
  DEF Arrive, AddSymbols, At

LEMMA WalkTypes ==
  ASSUME OnlyArrivals, Growing, Walk
  PROVE  Types'
<1> USE DEF Growing, Types, Thread, Walking, Threads, Goto, Keep, connVars, listVars,
            modVars, symVars
<1>1. rl_start \in Reqs \cup {None}
  BY DEF Linked, Along
<1>2. CASE WalkBegin
  BY <1>1, <1>2 DEF WalkBegin, Idle, At
<1>3. CASE IterBegin
  BY <1>3 DEF IterBegin, At, Node, Cell
<1>4. CASE IterCheck
  BY <1>4 DEF IterCheck, At
<1>5. CASE IterStat
  <2>1. Node("request") \in Reqs /\ ~req[Node("request")].remove
    BY <1>5 DEF IterStat, At, Nodes, Node
  <2>2. req' = [req EXCEPT ![Node("request")].first = FALSE]
    BY <1>5 DEF IterStat
  <2>3. req' \in [Reqs -> Cell]
    <3>1. req[Node("request")] \in Cell
      BY <2>1
    <3>2. \A c \in Cell : [c EXCEPT !.first = FALSE] \in Cell
      BY DEF Cell
    <3> QED
      BY <2>1, <2>2, <3>1, <3>2
  <2>4. proc' = [proc EXCEPT !["request"] =
                    [Idle("walk") EXCEPT !.node = proc["request"].next]]
    BY <1>5, <2>1 DEF IterStat, Return
  <2>5. [Idle("walk") EXCEPT !.node = proc["request"].next] \in Thread({"walk"})
    BY DEF Idle
  <2> QED
    BY <1>5, <2>3, <2>4, <2>5 DEF IterStat
<1>6. CASE Sleep
  <2>1. Blank \in Cell
    BY DEF Blank, Cell
  <2> QED
    BY <1>6, <2>1 DEF Sleep, At
<1>7. ASSUME NEW x, IterCall(x, TRUE)
      PROVE  Types'
  <2>1. req' \in [Reqs -> Cell]
    <3>1. PICK n, y, sends, a, b :
              /\ n = Node("request") /\ y = req[n]
              /\ sends = (R!get_str_sum(x) # sum[y.var] \/ y.remove)
              /\ a = (y.answered \/ sends) /\ b = (y.remove \/ (sends /\ ~TRUE))
      OBVIOUS
    <3>2. req' = [req EXCEPT ![n].answered = a, ![n].remove = b]
      BY <1>7, <3>1 DEF IterCall, VarAt
    <3>3. \A r \in Reqs : req[r] \in Cell
      OBVIOUS
    <3>4. y \in Cell => a \in BOOLEAN /\ b \in BOOLEAN
      BY <3>1 DEF Cell
    <3>5. y \in Cell => [y EXCEPT !.answered = a, !.remove = b] \in Cell
      BY <3>4 DEF Cell
    <3>6. req' = [req EXCEPT ![n] = [y EXCEPT !.answered = a, !.remove = b]]
      BY <3>1, <3>2
    <3> QED
      BY <3>1, <3>3, <3>5, <3>6
  <2> QED
    BY <1>7, <2>1 DEF IterCall, At
<1> QED
  BY <1>2, <1>3, <1>4, <1>5, <1>6, <1>7 DEF Walk

(* What a step does to the cells: it makes a new one, moves pointers, sets *)
(* marks, or forgets cells that are free.                                  *)
LEMMA AddBeginCells ==
  ASSUME Types, NEW c, NEW v \in Vars, NEW r \in Reqs, AddBegin(c, v, FALSE, r)
  PROVE  /\ \A x \in Reqs \ {r} : req'[x] = req[x]
         /\ req'[r].live /\ req'[r].var = v /\ ~req'[r].remove
         /\ req'[r].next = None /\ req'[r].prev = None /\ ~req[r].live
         /\ proc'["main"].node = r /\ proc'["main"].pc = "link"
         /\ proc'["request"] = proc["request"]
         /\ proc["main"].pc = "idle"
         /\ UNCHANGED <<rl_start, rl_end>>
  BY DEF Types, AddBegin, Blank, Threads, Thread, At, Keep

LEMMA AddLinkCells ==
  ASSUME Types, Nodes, rl_end \in Reqs \cup {None}, rl_end # Node("main"), AddLink
  PROVE  /\ \A x \in Reqs : /\ req'[x].live = req[x].live
                            /\ req'[x].var = req[x].var
                            /\ req'[x].remove = req[x].remove
                            /\ x # rl_end => req'[x].next = req[x].next
                            /\ x # Node("main") => req'[x].prev = req[x].prev
         /\ req'[Node("main")].prev = rl_end
         /\ rl_end # None => req'[rl_end].next = Node("main")
         /\ rl_start' = IF rl_end = None THEN Node("main") ELSE rl_start
         /\ rl_end' = rl_end
         /\ proc["main"].pc = "link" /\ proc'["main"] = [proc["main"] EXCEPT !.pc = "tail"]
         /\ proc'["request"] = proc["request"]
<1> USE DEF Types, Thread, Threads
<1>1. /\ proc["main"].pc = "link" /\ proc'["main"] = [proc["main"] EXCEPT !.pc = "tail"]
      /\ proc'["request"] = proc["request"] /\ rl_end' = rl_end
      /\ rl_start' = IF rl_end = None THEN Node("main") ELSE rl_start
  BY DEF AddLink, At, Goto, Keep
<1>2. Node("main") \in Reqs /\ req[Node("main")].prev = None
  BY <1>1 DEF Nodes, Adding, Node
<1>3. CASE rl_end = None
  BY <1>1, <1>2, <1>3, CellsAssumption DEF AddLink
<1>4. CASE rl_end # None
  <2>1. req' = [req EXCEPT ![rl_end].next = Node("main"), ![Node("main")].prev = rl_end]
    BY <1>4 DEF AddLink
  <2> QED
    BY <1>1, <1>2, <1>4, <2>1 DEF Cell
<1> QED
  BY <1>3, <1>4

(* The other steps of main leave the cells alone.                          *)
LEMMA OtherCells ==
  ASSUME Types,
         \/ AddTail \/ AddTest \/ AddLoad(TRUE) \/ AddCount
         \/ AddSymbols("init", "initted", Siblings) \/ AddLoaded("initted", "sym", Siblings)
         \/ AddSymbols("sym", "symmed", Missing) \/ AddLoaded("symmed", "inc", Resolved)
  PROVE  /\ req' = req /\ rl_start' = rl_start
         /\ proc'["request"] = proc["request"]
         /\ proc["main"].pc \in Adding /\ proc'["main"].pc \in Adding \ {"link", "tail"}
         /\ proc'["main"].node = proc["main"].node
  BY DEF Types, Thread, Threads, AddTail, AddTest, AddLoad, AddCount, AddSymbols, AddLoaded,
         Keep, listVars, modVars, symVars, Goto, At, Adding

LEMMA WalkCells ==
  ASSUME Types, Nodes, Walk
  PROVE  /\ \A x \in Reqs : /\ req[x].live => req'[x].var = req[x].var
                            /\ req[x].live => req'[x].next = req[x].next
                            /\ req[x].live => req'[x].prev = req[x].prev
                            /\ req'[x].live = req[x].live
                            /\ ~req'[x].remove
         /\ UNCHANGED <<rl_start, rl_end, clients, open, loaded, sym, conns, dropping>>
         /\ proc'["main"] = proc["main"]
<1> USE DEF Types, Thread, Threads, Keep, listVars, modVars, symVars, connVars
<1>1. CASE Sleep
  <2>1. \A x \in Reqs : req'[x] = IF req[x].live \/ x = Node("main") THEN req[x] ELSE Blank
    BY <1>1 DEF Sleep
  <2> QED
    BY <1>1, <2>1 DEF Sleep, Nodes, Blank, Cell, Goto, At
<1>2. CASE WalkBegin \/ IterBegin \/ IterCheck
  BY <1>2 DEF WalkBegin, IterBegin, IterCheck, Nodes, Goto, At
<1>3. CASE IterStat
  <2>1. req' = [req EXCEPT ![Node("request")].first = FALSE]
        /\ UNCHANGED <<rl_start, rl_end, modVars, conns, dropping>>
    BY <1>3 DEF IterStat
  <2>2. proc'["main"] = proc["main"]
    BY <1>3 DEF IterStat, Goto, Return
  <2> QED
    BY <2>1, <2>2 DEF Cell, Nodes
<1>4. ASSUME NEW x, IterCall(x, TRUE)
      PROVE  /\ \A y \in Reqs : /\ req'[y].var = req[y].var
                                /\ req'[y].next = req[y].next
                                /\ req'[y].prev = req[y].prev
                                /\ req'[y].live = req[y].live
                                /\ ~req'[y].remove
             /\ UNCHANGED <<rl_start, rl_end, clients, open, symVars, conns, dropping>>
             /\ proc'["main"] = proc["main"]
  BY <1>4 DEF IterCall, Cell, Nodes, Goto, At
<1> QED
  BY <1>1, <1>2, <1>3, <1>4 DEF Walk
-----------------------------------------------------------------------------
(* The list while clients only come.                                       *)

LEMMA LinkedFacts ==
  ASSUME NEW s, Linked(s)
  PROVE  /\ s \in Seq(Reqs) /\ Members(s) \subseteq LiveCells
         /\ \A i \in 1..Len(s) : s[i] \in Members(s)
         /\ rl_start \in LiveCells \cup {None} /\ rl_end \in LiveCells \cup {None}
         /\ \A i \in 1..Len(s) : req[s[i]].next \in LiveCells \cup {None}
<1>1. s \in Seq(Reqs) /\ Members(s) \subseteq LiveCells
  BY DEF Linked, Along
<1>2. \A i \in 1..Len(s) : s[i] \in Members(s)
  BY DEF Members
<1>3. rl_end \in LiveCells \cup {None}
  <2>1. LastOf(s) \in LiveCells \cup {None}
    BY <1>1, <1>2 DEF LastOf
  <2>2. CASE proc["main"].pc = "link"
    BY <2>1, <2>2 DEF Linked
  <2>3. CASE proc["main"].pc = "tail"
    <3>1. s # <<>> /\ rl_end = IF Len(s) = 1 THEN None ELSE s[Len(s) - 1]
      BY <2>3 DEF Linked
    <3>2. Len(s) \in Nat /\ Len(s) # 0
      BY <1>1, <3>1
    <3>3. Len(s) # 1 => Len(s) - 1 \in 1..Len(s)
      BY <3>2
    <3> QED
      BY <1>1, <1>2, <3>1, <3>3
  <2>4. CASE proc["main"].pc \notin {"link", "tail"}
    BY <2>1, <2>4 DEF Linked
  <2> QED
    BY <2>2, <2>3, <2>4
<1>4. rl_start \in LiveCells \cup {None}
  BY <1>1, <1>2 DEF Linked, Along
<1>5. \A i \in 1..Len(s) : req[s[i]].next \in LiveCells \cup {None}
  BY <1>1, <1>2 DEF Linked, Along
<1> QED
  BY <1>1, <1>2, <1>3, <1>4, <1>5

(* A step that moves no pointer of a live cell.                            *)
LEMMA LinkedKept ==
  ASSUME NEW s, Linked(s),
         \A x \in Reqs : /\ req'[x].live = req[x].live
                         /\ req[x].live => req'[x].next = req[x].next
                         /\ req[x].live => req'[x].prev = req[x].prev,
         UNCHANGED <<rl_start, rl_end>>,
         \/ {proc["main"].pc, proc'["main"].pc} \cap {"link", "tail"} = {}
         \/ proc'["main"] = proc["main"]
  PROVE  Linked(s)'
<1>1. s \in Seq(Reqs) /\ \A i \in 1..Len(s) : s[i] \in Reqs /\ req[s[i]].live
  BY LinkedFacts DEF LiveCells
<1>2. LiveCells' = LiveCells
  BY DEF LiveCells
<1>3. Along(s)' /\ Mirrored(s)'
  BY <1>1 DEF Linked, Along, Mirrored
<1>4. Members(s)' = Members(s) /\ LastOf(s)' = LastOf(s)
  BY DEF Members, LastOf
<1> QED
  BY <1>2, <1>3, <1>4 DEF Linked, Node

LEMMA AddLinkLinked ==
  ASSUME Types, Nodes, NEW s, Linked(s), AddLink,
         NEW z, z = Append(s, Node("main"))
  PROVE  Linked(z)'
<1> DEFINE n == Node("main")
<1>1. proc["main"].pc = "link" /\ Members(s) = LiveCells \ {n} /\ rl_end = LastOf(s)
  BY DEF AddLink, At, Linked
<1>2. n \in Reqs /\ req[n].live /\ req[n].next = None /\ n # None
  BY <1>1, CellsAssumption DEF Nodes, Adding, Types, Thread, Node, Threads
<1>3. s \in Seq(Reqs) /\ \A i \in 1..Len(s) : s[i] \in Reqs /\ s[i] # n /\ s[i] # None
  BY <1>1, LinkedFacts, CellsAssumption DEF LiveCells
<1>4. rl_end \in Reqs \cup {None} /\ rl_end # n
  BY <1>1, <1>2, <1>3 DEF LastOf
<1>5. /\ \A x \in Reqs : /\ req'[x].live = req[x].live
                         /\ x # rl_end => req'[x].next = req[x].next
                         /\ x # n => req'[x].prev = req[x].prev
      /\ req'[n].prev = rl_end /\ (rl_end # None => req'[rl_end].next = n)
      /\ rl_start' = (IF rl_end = None THEN n ELSE rl_start) /\ rl_end' = rl_end
      /\ proc'["main"] = [proc["main"] EXCEPT !.pc = "tail"]
  BY <1>4, AddLinkCells
<1>6. z \in Seq(Reqs) /\ Len(z) = Len(s) + 1 /\ z[Len(s) + 1] = n /\ z # <<>>
      /\ \A i \in 1..Len(s) : z[i] = s[i]
  BY <1>2, <1>3
<1>7. Node("main")' = n /\ proc'["main"].pc = "tail"
  BY <1>5 DEF Node, Types, Thread
<1> HIDE DEF n
<1>8. \A i, j \in 1..Len(z) : z[i] = z[j] => i = j
  BY <1>3, <1>6 DEF Linked, Along
<1>9. rl_start' = z[1]
  BY <1>1, <1>3, <1>5, <1>6 DEF Linked, Along, LastOf
<1>10. \A i \in 1..Len(z) : req'[z[i]].next = IF i = Len(z) THEN None ELSE z[i + 1]
  <2>1. ASSUME NEW i \in 1..Len(s)
        PROVE  req'[s[i]].next = z[i + 1]
    <3>1. CASE i = Len(s)
      BY <1>1, <1>3, <1>5, <1>6, <3>1 DEF LastOf
    <3>2. CASE i # Len(s)
      <4>1. s[i] # rl_end /\ s[i] \in Reqs
        BY <1>1, <1>3, <3>2 DEF LastOf, Linked, Along
      <4> QED
        BY <1>3, <1>5, <1>6, <3>2, <4>1 DEF Linked, Along
    <3> QED
      BY <3>1, <3>2
  <2>2. req'[n].next = None
    BY <1>2, <1>4, <1>5
  <2> QED
    BY <1>3, <1>6, <2>1, <2>2
<1>11. Along(z)'
  BY <1>6, <1>8, <1>9, <1>10 DEF Along
<1>12. Mirrored(z)'
  <2>1. \A i \in 1..Len(s) : req'[s[i]].prev = IF i = 1 THEN None ELSE s[i - 1]
    BY <1>3, <1>5 DEF Linked, Mirrored
  <2>2. req'[n].prev = IF Len(z) = 1 THEN None ELSE z[Len(z) - 1]
    BY <1>1, <1>3, <1>5, <1>6 DEF LastOf
  <2> QED
    BY <1>3, <1>6, <2>1, <2>2 DEF Mirrored
<1>13. LiveCells' = LiveCells
  BY <1>5 DEF LiveCells
<1>14. Members(z)' = LiveCells
  <2>1. Members(z) = Members(s) \cup {n}
    BY <1>3, <1>6 DEF Members
  <2> QED
    BY <1>1, <1>2, <2>1 DEF Members, LiveCells
<1>15. rl_end' = IF Len(z) = 1 THEN None ELSE z[Len(z) - 1]
  BY <1>1, <1>3, <1>5, <1>6 DEF LastOf
<1>16. Members(z)' = LiveCells' /\ z # <<>> /\ z[Len(z)] = Node("main")'
  BY <1>6, <1>7, <1>13, <1>14
<1> QED
  BY <1>7, <1>11, <1>12, <1>15, <1>16 DEF Linked

LEMMA AddBeginLinked ==
  ASSUME Types, NEW s, Linked(s), NEW c, NEW v \in Vars, NEW r \in Reqs,
         AddBegin(c, v, FALSE, r)
  PROVE  Linked(s)'
<1>1. /\ \A x \in Reqs \ {r} : req'[x] = req[x]
      /\ req'[r].live /\ ~req[r].live
      /\ Node("main")' = r /\ proc'["main"].pc = "link"
      /\ proc["main"].pc = "idle" /\ UNCHANGED <<rl_start, rl_end>>
  BY DEF Types, AddBegin, Blank, Threads, Thread, At, Keep, Node
<1>2. Members(s) = LiveCells /\ rl_end = LastOf(s)
  BY <1>1 DEF Linked
<1>3. s \in Seq(Reqs) /\ \A i \in 1..Len(s) : s[i] \in Reqs \ {r}
  BY <1>1, LinkedFacts DEF LiveCells
<1>4. Along(s)' /\ Mirrored(s)'
  BY <1>1, <1>3 DEF Linked, Along, Mirrored
<1>5. LiveCells' \ {r} = LiveCells
  BY <1>1 DEF LiveCells
<1>6. Members(s)' = Members(s) /\ LastOf(s)' = LastOf(s)
  BY DEF Members, LastOf
<1> QED
  BY <1>1, <1>2, <1>4, <1>5, <1>6 DEF Linked

LEMMA AddTailLinked ==
  ASSUME Types, NEW s, Linked(s), AddTail
  PROVE  Linked(s)'
<1>1. req' = req /\ rl_start' = rl_start /\ rl_end' = Node("main")
      /\ proc["main"].pc = "tail" /\ proc'["main"].pc = "load"
  BY DEF AddTail, At, Goto, Keep, Types, Thread, Threads
<1>2. Members(s) = LiveCells /\ s # <<>> /\ s[Len(s)] = Node("main")
  BY <1>1 DEF Linked
<1>3. Along(s)' /\ Mirrored(s)' /\ LiveCells' = LiveCells
  BY <1>1 DEF Linked, Along, Mirrored, LiveCells
<1>4. Members(s)' = Members(s) /\ LastOf(s)' = s[Len(s)]
  BY <1>2 DEF Members, LastOf
<1> QED
  BY <1>1, <1>2, <1>3, <1>4 DEF Linked

LEMMA EndIsBefore ==
  ASSUME Growing, AddLink
  PROVE  rl_end \in Reqs \cup {None} /\ rl_end # Node("main")
<1>1. PICK s : Linked(s)
  BY DEF Growing
<1>2. Members(s) = LiveCells \ {Node("main")} /\ rl_end = LastOf(s)
  BY <1>1 DEF AddLink, At, Linked
<1>3. Node("main") # None
  BY DEF AddLink, At, Growing, Nodes, Adding
<1> QED
  BY <1>1, <1>2, <1>3, LinkedFacts DEF LastOf, LiveCells

LEMMA StillLinked ==
  ASSUME OnlyArrivals, Growing, Arrive \/ Walk
  PROVE  (\E s : Linked(s))'
<1> USE DEF Growing
<1>1. PICK s : Linked(s)
  OBVIOUS
<1>2. ASSUME NEW c, NEW v \in Vars, NEW r \in Reqs, AddBegin(c, v, FALSE, r)
      PROVE  \E z : Linked(z)'
  BY <1>1, <1>2, AddBeginLinked
<1>3. CASE AddLink
  BY <1>1, <1>3, AddLinkLinked
<1>4. CASE AddTail
  BY <1>1, <1>4, AddTailLinked
<1>5. CASE \/ AddTest \/ AddLoad(TRUE) \/ AddCount
           \/ AddSymbols("init", "initted", Siblings) \/ AddLoaded("initted", "sym", Siblings)
           \/ AddSymbols("sym", "symmed", Missing) \/ AddLoaded("symmed", "inc", Resolved)
  <2>1. req' = req /\ rl_start' = rl_start /\ proc'["main"].pc \notin {"link", "tail"}
    BY <1>5, OtherCells
  <2>2. rl_end' = rl_end /\ proc["main"].pc \notin {"link", "tail"}
    BY <1>5 DEF AddTest, AddLoad, AddCount, AddSymbols, AddLoaded, Keep, listVars, At
  <2> QED
    BY <1>1, <2>1, <2>2, LinkedKept
<1>6. CASE AddEnd \/ \E c \in Conns : Connect(c)
  <2>1. UNCHANGED listVars /\ {proc["main"].pc, proc'["main"].pc} \cap {"link", "tail"} = {}
    BY <1>6 DEF AddEnd, Connect, Keep, At, Idle, Types, Thread, Threads
  <2> QED
    BY <1>1, <2>1, LinkedKept DEF listVars
<1>7. CASE Walk
  BY <1>1, <1>7, WalkCells, LinkedKept
<1> QED
  BY <1>2, <1>3, <1>4, <1>5, <1>6, <1>7 DEF Arrive
-----------------------------------------------------------------------------
(* The nodes the threads hold.                                             *)

LEMMA ArriveNodes ==
  ASSUME OnlyArrivals, Growing, Arrive
  PROVE  Nodes'
<1> USE DEF Growing, Threads
<1>1. ASSUME NEW c \in Conns, Connect(c)
      PROVE  Nodes'
  BY <1>1 DEF Connect, Keep, listVars, Nodes, Node
<1>2. ASSUME NEW c, NEW v \in Vars, NEW r \in Reqs, AddBegin(c, v, FALSE, r)
      PROVE  Nodes'
  <2>1. /\ \A x \in Reqs \ {r} : req'[x] = req[x]
        /\ req'[r].live /\ req'[r].var = v /\ ~req'[r].remove
        /\ req'[r].next = None /\ req'[r].prev = None /\ ~req[r].live
        /\ proc'["main"].node = r /\ proc'["main"].pc = "link"
        /\ proc'["request"] = proc["request"]
    BY <1>2 DEF Types, AddBegin, Blank, Threads, Thread, At, Keep
  <2>2. proc["request"].node \in Reqs \cup {None} /\ proc["request"].next \in Reqs \cup {None}
    BY DEF Types, Thread
  <2> QED
    BY <2>1, <2>2, CellsAssumption DEF Nodes, Node
<1>3. CASE AddLink
  <2>1. rl_end \in Reqs \cup {None} /\ rl_end # Node("main")
    BY <1>3, EndIsBefore
  <2>2. /\ \A x \in Reqs : req'[x].live = req[x].live /\ req'[x].var = req[x].var
                            /\ req'[x].remove = req[x].remove
        /\ proc["main"].pc = "link" /\ proc'["main"] = [proc["main"] EXCEPT !.pc = "tail"]
        /\ proc'["request"] = proc["request"]
    BY <1>3, <2>1, AddLinkCells
  <2>3. \A t \in Threads : proc[t].node \in Reqs \cup {None}
                          /\ proc'[t].node = proc[t].node
    BY <2>2 DEF Types, Thread
  <2>4. proc["request"].next \in Reqs \cup {None} /\ proc'["main"].pc = "tail"
    BY <2>2 DEF Types, Thread
  <2> QED
    BY <2>2, <2>3, <2>4 DEF Nodes, Node, Adding
<1>4. CASE \/ AddTail \/ AddTest \/ AddLoad(TRUE) \/ AddCount
           \/ AddSymbols("init", "initted", Siblings) \/ AddLoaded("initted", "sym", Siblings)
           \/ AddSymbols("sym", "symmed", Missing) \/ AddLoaded("symmed", "inc", Resolved)
  BY <1>4, OtherCells DEF Nodes, Node
<1>5. CASE AddEnd
  BY <1>5 DEF AddEnd, Keep, listVars, Idle, Nodes, Node, Adding, Types, Thread
<1> QED
  BY <1>1, <1>2, <1>3, <1>4, <1>5 DEF Arrive

LEMMA WalkNodes ==
  ASSUME OnlyArrivals, Growing, Walk
  PROVE  Nodes'
<1> USE DEF Growing, Threads
<1>1. /\ \A x \in Reqs : /\ req[x].live => req'[x].var = req[x].var
                         /\ req[x].live => req'[x].next = req[x].next
                         /\ req[x].live => req'[x].prev = req[x].prev
                         /\ req'[x].live = req[x].live
                         /\ ~req'[x].remove
      /\ proc'["main"] = proc["main"]
  BY WalkCells
<1>2. \A t \in Threads : proc[t].node \in Reqs \cup {None}
  BY DEF Types, Thread
<1>3. PICK s : Linked(s)
  OBVIOUS
<1>4. rl_start \in LiveCells \cup {None}
  BY <1>3, LinkedFacts
<1>5. \A x \in LiveCells : req[x].next \in LiveCells \cup {None}
  <2>1. CASE proc["main"].pc = "link"
    BY <1>3, <2>1, LinkedFacts DEF Linked, Members, Nodes
  <2>2. CASE proc["main"].pc # "link"
    <3>1. Members(s) = LiveCells
      BY <1>3, <2>2 DEF Linked
    <3> QED
      BY <1>3, <3>1, LinkedFacts DEF Members
  <2> QED
    BY <2>1, <2>2
<1>6. /\ proc'["request"].node # None => req[proc'["request"].node].live
      /\ proc'["request"].next # None => req[proc'["request"].next].live
      /\ proc'["request"].pc \in Walking => proc'["request"].node # None
      /\ proc'["request"].node \in Reqs \cup {None}
      /\ proc'["request"].next \in Reqs \cup {None}
  <2> USE DEF Node, Nodes, Types, Thread, Walking, At, Goto
  <2>1. CASE WalkBegin
    BY <1>4, <2>1 DEF WalkBegin, Idle, LiveCells
  <2>2. CASE IterBegin
    BY <1>5, <2>2 DEF IterBegin, LiveCells
  <2>3. CASE IterCheck \/ Sleep
    BY <2>3 DEF IterCheck, Sleep
  <2>4. CASE IterStat
    <3>1. Node("request") \in Reqs /\ ~req[Node("request")].remove
      BY <2>4 DEF IterStat
    <3>2. proc' = [proc EXCEPT !["request"] =
                      [Idle("walk") EXCEPT !.node = proc["request"].next]]
      BY <2>4, <3>1 DEF IterStat, Return
    <3> QED
      BY <3>2 DEF Idle
  <2>5. ASSUME NEW x, IterCall(x, TRUE)
        PROVE  proc' = [proc EXCEPT !["request"].pc = "stat"]
               /\ proc["request"].pc = "call"
    BY <2>5 DEF IterCall
  <2>6. CASE \E x : IterCall(x, TRUE)
    <3>1. proc' = [proc EXCEPT !["request"].pc = "stat"] /\ proc["request"].pc = "call"
      BY <2>5, <2>6
    <3> QED
      BY <3>1
  <2> QED
    BY <2>1, <2>2, <2>3, <2>4, <2>6 DEF Walk
<1>7. \A r \in Reqs : req'[r].live => req'[r].var \in Vars /\ ~req'[r].remove
  BY <1>1 DEF Nodes
<1>8. /\ \A t \in Threads : proc'[t].node # None => req'[proc'[t].node].live
      /\ proc'["request"].next # None => req'[proc'["request"].next].live
  BY <1>1, <1>2, <1>6 DEF Nodes, Node
<1>9. /\ proc'["main"].pc \in Adding => proc'["main"].node # None
      /\ proc'["main"].pc = "link" =>
            req'[proc'["main"].node].next = None /\ req'[proc'["main"].node].prev = None
  BY <1>1, <1>2 DEF Nodes, Node, Adding
<1> QED
  BY <1>1, <1>6, <1>7, <1>8, <1>9 DEF Nodes, Node
-----------------------------------------------------------------------------
(* The symbols.                                                            *)

(* The nodes both threads hold keep their variable.                        *)
LEMMA SameVar ==
  ASSUME Growing,
         \A x \in Reqs : req[x].live => req'[x].var = req[x].var,
         NEW t \in Threads, proc'[t].node = proc[t].node,
         proc[t].pc \in Adding \cup Walking
  PROVE  /\ VarAt(t)' = VarAt(t) /\ VarAt(t) \in Vars
         /\ ModAt(t)' = ModAt(t) /\ ModAt(t) \in Modules
<1>1. proc[t].node \in Reqs /\ req[proc[t].node].live
  BY DEF Growing, Types, Thread, Nodes, Adding, Walking, Threads, Node
<1>2. VarAt(t)' = VarAt(t) /\ VarAt(t) \in Vars
  BY <1>1 DEF Growing, Nodes, VarAt, Node
<1> QED
  BY <1>2, VarsAssumption DEF ModAt

LEMMA ArriveMapped ==
  ASSUME OnlyArrivals, Growing, Arrive
  PROVE  Mapped'
<1> USE DEF Growing, Threads
<1>1. ASSUME NEW c \in Conns, Connect(c)
      PROVE  Mapped'
  BY <1>1 DEF Connect, Keep, modVars, symVars, listVars, Mapped, Siblings, Node, ModAt, VarAt
<1>2. ASSUME NEW c, NEW v \in Vars, NEW r \in Reqs, AddBegin(c, v, FALSE, r)
      PROVE  Mapped'
  <2>1. /\ \A x \in Reqs \ {r} : req'[x] = req[x]
        /\ ~req[r].live /\ proc'["main"].pc = "link"
        /\ proc'["request"] = proc["request"] /\ UNCHANGED modVars
    BY <1>2 DEF Types, AddBegin, Blank, Thread, At, Keep
  <2>2. proc["request"].pc = "call" => VarAt("request")' = VarAt("request")
    BY <2>1, SameVar DEF Walking
  <2> QED
    BY <2>1, <2>2 DEF Mapped, modVars, symVars
<1>3. CASE AddLink
  <2>1. rl_end \in Reqs \cup {None} /\ rl_end # Node("main")
    BY <1>3, EndIsBefore
  <2>2. /\ \A x \in Reqs : req'[x].var = req[x].var
        /\ proc["main"].pc = "link" /\ proc'["main"] = [proc["main"] EXCEPT !.pc = "tail"]
        /\ proc'["request"] = proc["request"]
    BY <1>3, <2>1, AddLinkCells
  <2>3. UNCHANGED modVars
    BY <1>3 DEF AddLink, Keep
  <2>4. proc'["main"].pc = "tail"
    BY <2>2 DEF Types, Thread
  <2>5. proc["request"].pc = "call" => VarAt("request")' = VarAt("request")
    BY <2>2, SameVar DEF Walking
  <2> QED
    BY <2>2, <2>3, <2>4, <2>5 DEF Mapped, modVars, symVars
<1>4. ASSUME proc["main"].pc \in Adding, proc'["main"].node = proc["main"].node,
             proc'["request"] = proc["request"], req' = req
      PROVE  /\ ModAt("main")' = ModAt("main") /\ VarAt("main")' = VarAt("main")
             /\ VarAt("main") \in Vars /\ ModAt("main") \in Modules
             /\ Siblings' = Siblings /\ VarAt("request")' = VarAt("request")
             /\ (proc["request"].pc = "call" => VarAt("request") \in Vars)
  <2>1. VarAt("request")' = VarAt("request")
    BY <1>4 DEF VarAt, Node
  <2>2. proc["request"].pc = "call" => VarAt("request") \in Vars
    BY <1>4, SameVar DEF Walking
  <2> QED
    BY <1>4, <2>1, <2>2, SameVar DEF Siblings
<1>5. CASE \/ AddTail \/ AddTest \/ AddLoad(TRUE) \/ AddCount
           \/ AddSymbols("init", "initted", Siblings) \/ AddLoaded("initted", "sym", Siblings)
           \/ AddSymbols("sym", "symmed", Missing) \/ AddLoaded("symmed", "inc", Resolved)
  <2>0. /\ req' = req /\ proc'["request"] = proc["request"]
        /\ proc["main"].pc \in Adding /\ proc'["main"].node = proc["main"].node
    BY <1>5, OtherCells
  <2>1. /\ ModAt("main")' = ModAt("main") /\ VarAt("main")' = VarAt("main")
        /\ VarAt("main") \in Vars /\ ModAt("main") \in Modules
        /\ Siblings' = Siblings /\ VarAt("request")' = VarAt("request")
        /\ (proc["request"].pc = "call" => VarAt("request") \in Vars)
    BY <1>4, <2>0
  <2>2. CASE AddTail
    <3>1. UNCHANGED modVars /\ proc'["main"].pc = "load"
      BY <2>2 DEF AddTail, Keep, Goto, Types, Thread
    <3> QED
      BY <2>0, <2>1, <3>1 DEF Mapped, modVars, symVars
  <2>3. CASE AddTest
    <3>1. UNCHANGED modVars /\ proc'["main"].pc \in {"open", "sym"}
          /\ (proc'["main"].pc = "sym" => clients[ModAt("main")] # 0)
      BY <2>3 DEF AddTest, Keep, Goto, Types, Thread
    <3> QED
      BY <2>0, <2>1, <3>1 DEF Mapped, modVars, symVars
  <2>9. CASE AddLoad(TRUE)
    <3>1. /\ sym' = sym /\ proc'["main"].pc = "init"
          /\ open' = [open EXCEPT ![ModAt("main")] = TRUE]
          /\ clients' = [clients EXCEPT ![ModAt("main")] = 0]
          /\ loaded' = [v \in Vars |-> Parent[v] # ModAt("main") /\ loaded[v]]
      BY <2>9 DEF AddLoad, Keep, Goto, Types, Thread
    <3>2. \A v \in Vars : loaded'[v] => sym'[v] = "mapped"
      BY <3>1 DEF Mapped
    <3>3. \A m \in Modules : clients'[m] # 0 => open'[m]
      BY <2>1, <3>1 DEF Mapped, Types
    <3>4. open'[ModAt("main")]
      BY <2>1, <3>1 DEF Types
    <3> QED
      BY <2>0, <2>1, <3>1, <3>2, <3>3, <3>4 DEF Mapped
  <2>4. CASE AddSymbols("init", "initted", Siblings)
    <3>1. /\ clients' = clients /\ open' = open /\ loaded' = loaded
          /\ proc'["main"].pc = "initted" /\ proc["main"].pc = "init"
          /\ sym' = [v \in Vars |-> IF v \in Siblings THEN Looked(Parent[v]) ELSE sym[v]]
      BY <2>4 DEF AddSymbols, Keep, Types, Thread, At
    <3>2. \A v \in Vars : sym'[v] = IF v \in Siblings THEN "mapped" ELSE sym[v]
      BY <3>1 DEF Mapped, Siblings, Looked, Adding
    <3>3. \A v \in Siblings : v \in Vars
      BY DEF Siblings
    <3> QED
      BY <2>0, <2>1, <3>1, <3>2, <3>3 DEF Mapped, Adding
  <2>5. CASE AddLoaded("initted", "sym", Siblings)
    <3>1. /\ clients' = clients /\ open' = open /\ sym' = sym
          /\ proc'["main"].pc = "sym" /\ proc["main"].pc = "initted"
          /\ loaded' = [v \in Vars |-> v \in Siblings \/ loaded[v]]
      BY <2>5 DEF AddLoaded, Keep, Goto, Types, Thread, At
    <3> QED
      BY <2>0, <2>1, <3>1 DEF Mapped, Adding
  <2>6. CASE AddSymbols("sym", "symmed", Missing)
    <3>1. /\ clients' = clients /\ open' = open /\ loaded' = loaded
          /\ proc'["main"].pc = "symmed" /\ proc["main"].pc = "sym"
          /\ sym' = [v \in Vars |-> IF v \in Missing THEN Looked(Parent[v]) ELSE sym[v]]
      BY <2>6 DEF AddSymbols, Keep, Types, Thread, At
    <3>2. \A v \in Vars : sym'[v] = IF v \in Missing THEN "mapped" ELSE sym[v]
      BY <3>1 DEF Mapped, Missing, Looked, Adding, ModAt
    <3>3. sym'[VarAt("main")] = "mapped"
      BY <2>1, <3>2 DEF Mapped, Missing
    <3> QED
      BY <2>0, <2>1, <3>1, <3>2, <3>3 DEF Mapped, Adding
  <2>7. CASE AddLoaded("symmed", "inc", Resolved)
    <3>1. /\ clients' = clients /\ open' = open /\ sym' = sym
          /\ proc'["main"].pc = "inc" /\ proc["main"].pc = "symmed"
          /\ loaded' = [v \in Vars |-> v \in Resolved \/ loaded[v]]
      BY <2>7 DEF AddLoaded, Keep, Goto, Types, Thread, At
    <3> QED
      BY <2>0, <2>1, <3>1 DEF Mapped, Adding, Resolved
  <2>8. CASE AddCount
    <3>1. UNCHANGED modVars /\ proc'["main"].pc = "incremented" /\ proc["main"].pc = "inc"
      BY <2>8 DEF AddCount, Keep, At, Types, Thread
    <3> QED
      BY <2>0, <2>1, <3>1 DEF Mapped, Adding, modVars, symVars
  <2> QED
    BY <1>5, <2>2, <2>3, <2>4, <2>5, <2>6, <2>7, <2>8, <2>9
<1>6. CASE AddEnd
  <2>1. /\ UNCHANGED <<req, open, loaded, sym>> /\ proc["main"].pc = "incremented"
        /\ proc'["main"].pc = "idle" /\ proc'["request"] = proc["request"]
        /\ clients' = [clients EXCEPT ![ModAt("main")] = proc["main"].val + 1]
    BY <1>6 DEF AddEnd, Keep, listVars, symVars, At, Idle, Types, Thread
  <2>2. VarAt("request")' = VarAt("request")
    BY <2>1 DEF VarAt, Node
  <2>3. open[ModAt("main")]
    BY <2>1 DEF Mapped, Adding
  <2>4. \A m \in Modules : clients'[m] # 0 => open'[m]
    BY <2>1, <2>3 DEF Mapped, Types
  <2> QED
    BY <2>1, <2>2, <2>4 DEF Mapped, Adding
<1> QED
  BY <1>1, <1>2, <1>3, <1>5, <1>6 DEF Arrive

LEMMA WalkMapped ==
  ASSUME OnlyArrivals, Growing, Walk
  PROVE  Mapped'
<1> USE DEF Growing, Threads
<1>1. /\ \A x \in Reqs : req[x].live => req'[x].var = req[x].var
      /\ UNCHANGED <<clients, open, loaded, sym>> /\ proc'["main"] = proc["main"]
  BY WalkCells
<1>2. proc["main"].pc \in Adding =>
         ModAt("main")' = ModAt("main") /\ VarAt("main")' = VarAt("main")
         /\ Siblings' = Siblings
  BY <1>1, SameVar DEF Siblings
<1>3. proc'["request"].pc = "call" => sym'[VarAt("request")'] = "mapped"
  <2>1. CASE IterCheck
    <3>1. /\ proc["request"].pc = "check" /\ proc'["request"].node = proc["request"].node
          /\ (proc'["request"].pc = "call" => loaded[VarAt("request")])
      BY <2>1 DEF IterCheck, Goto, At, Types, Thread
    <3>2. VarAt("request")' = VarAt("request") /\ VarAt("request") \in Vars
      BY <1>1, <3>1, SameVar DEF Walking
    <3> QED
      BY <1>1, <3>1, <3>2 DEF Mapped
  <2>2. CASE WalkBegin \/ IterBegin \/ Sleep \/ IterStat
    <3>1. IterStat => ~req[Node("request")].remove
      BY DEF IterStat, At, Nodes, Types, Thread, Walking, Node
    <3>2. CASE WalkBegin \/ IterBegin \/ Sleep
      <4>1. CASE WalkBegin
        BY <4>1 DEF WalkBegin, Idle, Types
      <4>2. CASE IterBegin
        BY <4>2 DEF IterBegin, Types, Thread
      <4>3. CASE Sleep
        <5>1. proc' = [proc EXCEPT !["request"].pc = "cron"]
          BY <4>3 DEF Sleep, Goto
        <5> QED
          BY <5>1 DEF Types, Thread
      <4> QED
        BY <3>2, <4>1, <4>2, <4>3
    <3>3. CASE IterStat
      <4>1. proc' = [proc EXCEPT !["request"] =
                        [Idle("walk") EXCEPT !.node = proc["request"].next]]
        BY <3>1, <3>3 DEF IterStat, Return
      <4> QED
        BY <4>1 DEF Idle, Types
    <3> QED
      BY <2>2, <3>2, <3>3
  <2>3. ASSUME NEW x, IterCall(x, TRUE)
        PROVE  proc'["request"].pc = "stat"
    BY <2>3 DEF IterCall, Goto, Types, Thread
  <2> QED
    BY <2>1, <2>2, <2>3 DEF Walk
<1> QED
  BY <1>1, <1>2, <1>3 DEF Mapped, Adding
-----------------------------------------------------------------------------
(* The invariant and what it is for.                                       *)

LEMMA InitGrowing ==
  ASSUME Init
  PROVE  Growing
<1> USE DEF Init, Blank, Idle, Threads
<1>1. Types
  BY DEF Types, Cell, Thread
<1>2. Nodes
  BY DEF Nodes, Node, Adding, Walking
<1>3. Linked(<<>>)
  BY DEF Linked, Along, Mirrored, Members, LastOf, LiveCells
<1>4. Mapped
  BY DEF Mapped, Adding
<1> QED
  BY <1>1, <1>2, <1>3, <1>4 DEF Growing

LEMMA StutterGrowing ==
  ASSUME Growing, UNCHANGED vars
  PROVE  Growing'
<1>1. UNCHANGED <<conns, dropping, req, rl_start, rl_end, clients, open, loaded, sym,
                  crashed, proc>>
  BY DEF vars, connVars, listVars, modVars, symVars
<1>2. Types'
  BY <1>1 DEF Growing, Types, Thread
<1>3. Nodes'
  BY <1>1 DEF Growing, Nodes, Node
<1>4. (\E s : Linked(s))'
  BY <1>1 DEF Growing, Linked, Along, Mirrored, Members, LastOf, LiveCells, Node
<1>5. Mapped'
  BY <1>1 DEF Growing, Mapped, Siblings, Node, ModAt, VarAt
<1> QED
  BY <1>2, <1>3, <1>4, <1>5 DEF Growing

(* While clients only come, Growing is an invariant of the two threads.    *)
THEOREM GrowingInvariant == OnlyArrivals /\ Spec => []Growing
<1> SUFFICES ASSUME OnlyArrivals PROVE Spec => []Growing
  OBVIOUS
<1>1. Init => Growing
  BY InitGrowing
<1>2. Growing /\ [Next]_vars => Growing'
  <2> SUFFICES ASSUME Growing, [Next]_vars PROVE Growing'
    OBVIOUS
  <2>1. CASE Next
    <3>1. Arrive \/ Walk
      BY <2>1, OnlyTheseSteps
    <3>2. Types' /\ Nodes'
      BY <3>1, ArriveTypes, WalkTypes, ArriveNodes, WalkNodes
    <3>3. Mapped'
      BY <3>1, ArriveMapped, WalkMapped
    <3>4. (\E s : Linked(s))'
      BY <3>1, StillLinked
    <3> QED
      BY <3>2, <3>3, <3>4 DEF Growing
  <2>2. CASE UNCHANGED vars
    BY <2>2, StutterGrowing
  <2> QED
    BY <2>1, <2>2
<1> QED
  BY <1>1, <1>2, PTL DEF Spec

(* While clients only come, the request thread walking as it pleases, the  *)
(* chain from rl_start is the set of the requests, the prev pointers       *)
(* mirror it and rl_end is its last node (request_list_add).               *)
THEOREM ListLinked == OnlyArrivals /\ Spec => []ListIsLinked
<1>1. Growing => ListIsLinked
  <2> SUFFICES ASSUME Growing, ~At("main", "link"), ~At("main", "tail")
               PROVE  /\ {Chain[i] : i \in 1..Len(Chain)} = {r \in Reqs : req[r].live}
                      /\ \A i \in 1..Len(Chain) :
                            req[Chain[i]].prev = IF i = 1 THEN None ELSE Chain[i - 1]
                      /\ rl_end = IF Chain = <<>> THEN None ELSE Chain[Len(Chain)]
    BY DEF ListIsLinked
  <2>1. PICK s : Linked(s)
    BY DEF Growing
  <2>2. Chain = s
    BY <2>1, ChainAlong DEF Linked
  <2>3. proc["main"].pc # "link" /\ proc["main"].pc # "tail"
    BY DEF At, Growing, Types
  <2>4. Members(s) = LiveCells /\ rl_end = LastOf(s) /\ Mirrored(s)
    BY <2>1, <2>3 DEF Linked
  <2> QED
    BY <2>2, <2>4 DEF Members, LiveCells, LastOf, Mirrored
<1> QED
  BY <1>1, GrowingInvariant, PTL

(* While clients only come, the request thread calls mapped code: the      *)
(* loaded flag it checks is set after the symbol is there.                 *)
THEOREM CallsMapped == OnlyArrivals /\ Spec => []CallIsMapped
<1>1. Growing => CallIsMapped
  BY DEF Growing, Mapped, CallIsMapped, At
<1> QED
  BY <1>1, GrowingInvariant, PTL

(* While clients only come, no access to a freed node, to an unmapped      *)
(* symbol or to a closed module ends the program.                          *)
THEOREM NeverCrashes == OnlyArrivals /\ Spec => []~crashed
<1>1. Growing => ~crashed
  BY DEF Growing, Types
<1> QED
  BY <1>1, GrowingInvariant, PTL
=============================================================================
