--------------------------- MODULE RequestThreads ---------------------------
(***************************************************************************)
(* The two threads of donky at the grain of their reads and writes of the  *)
(* shared structures.  request_list_add and request_list_remove of         *)
(* request.c, module_load, module_var_cron_init, module_var_loadsym and    *)
(* module_unload of module.c, and an iteration of request_handler_exec are *)
(* split where the other thread can see the difference; the list is the    *)
(* doubly linked one.                                                      *)
(*                                                                         *)
(* The code takes no lock: Exclusive = FALSE is the program.  With         *)
(* Exclusive = TRUE a call runs alone, and the module then implements      *)
(* Requests, where each call is one step.                                  *)
(*                                                                         *)
(* Every variable is a text whose timeout is zero: it is always due.       *)
(***************************************************************************)
EXTENDS Integers, Sequences, FiniteSets

CONSTANTS
    Conns, Reqs, Modules, Vars, None, Parent, Values,   \* as in Requests
    Unreliable,  \* as in Requests
    Exclusive,   \* TRUE: the calls of the two threads do not overlap
    Onces,       \* which commands clients use: var (FALSE), varonce (TRUE)
    Leave        \* whether clients leave and sends to them fail

VARIABLES
    conns, dropping,             \* as in Requests
    req,                         \* as in Requests, and the prev pointer
    rl_start, rl_end,            \* the ends of the list
    clients, open, loaded, sym, sum, crashed,   \* as in Requests
    proc,                        \* proc[t]: where thread t is
    before                       \* the shared state when a call began alone

Threads == {"main", "request"}
Other(t) == IF t = "main" THEN "request" ELSE "main"

listVars == <<req, rl_start, rl_end>>
symVars  == <<loaded, sym>>
modVars  == <<clients, open, symVars, sum>>
connVars == <<conns, dropping>>
vars == <<connVars, listVars, modVars, crashed, proc, before>>

ASSUME CellsAssumption ==
    None \notin Conns /\ None \notin Reqs /\ IsFiniteSet(Reqs)
ASSUME VarsAssumption ==
    Parent \in [Vars -> Modules] /\ IsFiniteSet(Vars) /\ Unreliable \subseteq Modules
ASSUME SwitchesAssumption ==
    Exclusive \in BOOLEAN /\ Leave \in BOOLEAN /\ Onces \subseteq BOOLEAN

(* The list as a sequence, read from rl_start along next.                  *)
Chain ==
    LET upto[n \in 0..Cardinality(Reqs)] ==
          IF n = 0 THEN <<>>
          ELSE LET s == upto[n - 1]
                   p == IF s = <<>> THEN rl_start ELSE req[s[Len(s)]].next
               IN IF Len(s) < n - 1 \/ p = None THEN s ELSE Append(s, p)
    IN upto[Cardinality(Reqs)]

Blank == [live |-> FALSE, conn |-> None, var |-> None, remove |-> FALSE,
          first |-> FALSE, next |-> None, answered |-> FALSE, prev |-> None]

(* A thread: its position pc, its node, the counter or pointer it read     *)
(* (val, next), and the cursor of the walk.                                *)
Idle(pc) == [pc |-> pc, node |-> None, val |-> 0, next |-> None]

Init ==
    /\ conns = {} /\ dropping = None
    /\ req = [r \in Reqs |-> Blank]
    /\ rl_start = None /\ rl_end = None
    /\ clients = [m \in Modules |-> 0]
    /\ open = [m \in Modules |-> FALSE]
    /\ loaded = [v \in Vars |-> FALSE]
    /\ sym = [v \in Vars |-> "null"]
    /\ sum = [v \in Vars |-> 0]
    /\ crashed = FALSE
    /\ proc = [t \in Threads |-> Idle(IF t = "main" THEN "idle" ELSE "cron")]
    /\ before = <<>>
-----------------------------------------------------------------------------
At(t, pc) == ~crashed /\ proc[t].pc = pc
Node(t) == proc[t].node
VarAt(t) == req[Node(t)].var
ModAt(t) == Parent[VarAt(t)]
Goto(t, pc) == proc' = [proc EXCEPT ![t].pc = pc]

(* Between calls main waits for input or looks for the next request of the *)
(* connection it drops, and the request thread has a cursor.               *)
Resting == {"idle", "cron", "walk"}
InCall(t) == proc[t].pc \notin Resting

Shared == [req |-> req, list |-> Chain, clients |-> clients, open |-> open,
           loaded |-> loaded, sym |-> sym, sum |-> sum,
           cur |-> Node("request")]

(* What Requests sees: the state, or while a call runs alone the state in  *)
(* which it began.  The next pointer of a node on the list is the list's.  *)
Seen == IF \E t \in Threads : InCall(t) THEN before ELSE Shared
SeenNode(n) == [n EXCEPT !.next = IF n.live THEN None ELSE @]

R == INSTANCE Requests WITH
        Kind <- [v \in Vars |-> "str"], Timeout <- [v \in Vars |-> 0],
        age <- [v \in Vars |-> 0],
        req <- [r \in Reqs |-> LET n == Seen.req[r] IN
                  [f \in DOMAIN n \ {"prev"} |-> SeenNode(n)[f]]],
        list <- Seen.list, clients <- Seen.clients, open <- Seen.open,
        loaded <- Seen.loaded, sym <- Seen.sym, sum <- Seen.sum,
        cur <- Seen.cur,
        phase <- IF proc["request"].pc = "cron" THEN "cron" ELSE "walk"

Begin(t) ==
    /\ Exclusive => ~InCall(Other(t))
    /\ before' = IF Exclusive THEN Shared ELSE <<>>
Continue == UNCHANGED before
End == before' = <<>>
Keep(vs) == UNCHANGED <<vs, crashed>>
-----------------------------------------------------------------------------
(* The main thread: connections.                                           *)

Connect(c) ==
    /\ At("main", "idle") /\ dropping = None
    /\ c \notin conns
    /\ conns' = conns \cup {c}
    /\ Keep(<<dropping, listVars, modVars, proc, before>>)

DropBegin(c) ==
    /\ At("main", "idle") /\ dropping = None /\ Leave
    /\ c \in conns
    /\ conns' = conns \ {c} /\ dropping' = c
    /\ Keep(<<listVars, modVars, proc, before>>)

(* request_list_find_by_conn, then a call of request_list_remove.          *)
FirstOf(c) == {r \in Reqs : \E i \in 1..Len(Chain) :
                  /\ Chain[i] = r /\ req[r].conn = c
                  /\ \A j \in 1..(i - 1) : req[Chain[j]].conn # c}

DropFind ==
    /\ At("main", "idle") /\ dropping # None
    /\ \E r \in FirstOf(dropping) :
          proc' = [proc EXCEPT !["main"].pc = "dec", !["main"].node = r]
    /\ Begin("main")
    /\ Keep(<<connVars, listVars, modVars>>)

DropEnd ==
    /\ At("main", "idle") /\ dropping # None
    /\ Exclusive => ~InCall("request")
    /\ FirstOf(dropping) = {}
    /\ dropping' = None
    /\ Keep(<<conns, listVars, modVars, proc, before>>)
-----------------------------------------------------------------------------
(* The main thread: request_list_add.                                      *)

AddBegin(c, v, once, r) ==
    /\ At("main", "idle") /\ dropping = None
    /\ c \in conns /\ ~req[r].live
    /\ req' = [req EXCEPT ![r] = [Blank EXCEPT !.live = TRUE, !.conn = c,
                  !.var = v, !.remove = once, !.first = TRUE]]
    /\ proc' = [proc EXCEPT !["main"].pc = "link", !["main"].node = r]
    /\ Begin("main")
    /\ Keep(<<connVars, rl_start, rl_end, modVars>>)

(* The node is reachable from its predecessor before rl_end is moved.      *)
AddLink ==
    /\ At("main", "link")
    /\ LET n == Node("main") IN
       IF rl_end = None
       THEN rl_start' = n /\ UNCHANGED req
       ELSE /\ req' = [req EXCEPT ![rl_end].next = n, ![n].prev = rl_end]
            /\ UNCHANGED rl_start
    /\ Goto("main", "tail") /\ Continue
    /\ Keep(<<connVars, rl_end, modVars>>)

(* The faulty one leaves rl_end at the first node.                         *)
AddTailOnce ==
    /\ At("main", "tail")
    /\ rl_end' = IF rl_end = None THEN Node("main") ELSE rl_end
    /\ Goto("main", "load") /\ Continue
    /\ Keep(<<connVars, req, rl_start, modVars>>)
AddTail ==
    /\ At("main", "tail")
    /\ rl_end' = Node("main")
    /\ Goto("main", "load") /\ Continue
    /\ Keep(<<connVars, req, rl_start, modVars>>)

(* The counter is read ...                                                 *)
AddTest ==
    /\ At("main", "load")
    /\ Goto("main", IF clients[ModAt("main")] = 0 THEN "open" ELSE "sym")
    /\ Continue
    /\ Keep(<<connVars, listVars, modVars>>)

(* ... and module_load writes it: dlopen, module_add and module_init, or   *)
(* nothing at all.                                                         *)
AddLoad(ok) ==
    /\ At("main", "open")
    /\ LET m == ModAt("main") IN
       IF ok
       THEN /\ open' = [open EXCEPT ![m] = TRUE]
            /\ clients' = [clients EXCEPT ![m] = 0]
            /\ loaded' = [v \in Vars |-> Parent[v] # m /\ loaded[v]]
            /\ sum' = [v \in Vars |-> IF Parent[v] = m THEN 0 ELSE sum[v]]
       ELSE m \in Unreliable /\ UNCHANGED <<open, clients, loaded, sum>>
    /\ Goto("main", "init") /\ Continue
    /\ Keep(<<connVars, listVars, sym>>)

(* A symbol is stored before the loaded flag is set: of every variable of  *)
(* the module (module_var_cron_init), then of this one if it is not loaded *)
(* (module_var_loadsym).                                                   *)
Looked(m) == IF open[m] THEN "mapped" ELSE "null"

AddSymbols(pc, next, vs) ==
    /\ At("main", pc)
    /\ sym' = [v \in Vars |-> IF v \in vs THEN Looked(Parent[v]) ELSE sym[v]]
    /\ proc' = [proc EXCEPT !["main"].pc = next, !["main"].val = Cardinality(vs)]
    /\ Continue
    /\ Keep(<<connVars, listVars, clients, open, loaded, sum>>)

AddLoaded(pc, next, vs) ==
    /\ At("main", pc)
    /\ loaded' = [v \in Vars |-> v \in vs \/ loaded[v]]
    /\ Goto("main", next) /\ Continue
    /\ Keep(<<connVars, listVars, clients, open, sym, sum>>)

Siblings == {v \in Vars : Parent[v] = ModAt("main")}
Missing == IF loaded[VarAt("main")] THEN {} ELSE {VarAt("main")}
Resolved == IF proc["main"].val = 1 THEN {VarAt("main")} ELSE {}

(* The faulty one sets the flag of the module's variables too early.       *)
AddResolveFlagFirst ==
    \/ AddLoaded("init", "initted", Siblings)
    \/ AddSymbols("initted", "sym", Siblings)
    \/ AddSymbols("sym", "symmed", Missing)
    \/ AddLoaded("symmed", "inc", Resolved)
AddResolve ==
    \/ AddSymbols("init", "initted", Siblings)
    \/ AddLoaded("initted", "sym", Siblings)
    \/ AddSymbols("sym", "symmed", Missing)
    \/ AddLoaded("symmed", "inc", Resolved)

(* clients++ is a read and a write.                                        *)
AddCount ==
    /\ At("main", "inc")
    /\ proc' = [proc EXCEPT !["main"].val = clients[ModAt("main")],
                            !["main"].pc = "incremented"]
    /\ Continue
    /\ Keep(<<connVars, listVars, modVars>>)

(* The faulty one only notes that the module has a client.                 *)
AddEndNoted ==
    /\ At("main", "incremented")
    /\ clients' = [clients EXCEPT ![ModAt("main")] = 1]
    /\ proc' = [proc EXCEPT !["main"] = Idle("idle")]
    /\ End
    /\ Keep(<<connVars, listVars, open, symVars, sum>>)
AddEnd ==
    /\ At("main", "incremented")
    /\ clients' = [clients EXCEPT ![ModAt("main")] = proc["main"].val + 1]
    /\ proc' = [proc EXCEPT !["main"] = Idle("idle")]
    /\ End
    /\ Keep(<<connVars, listVars, open, symVars, sum>>)
-----------------------------------------------------------------------------
(* request_list_remove, by either thread.                                  *)

(* clients-- is a read and a write.                                        *)
RemoveCount(t) ==
    /\ At(t, "dec")
    /\ req[Node(t)].live
    /\ proc' = [proc EXCEPT ![t].val = clients[ModAt(t)], ![t].pc = "decremented"]
    /\ Continue
    /\ Keep(<<connVars, listVars, modVars>>)

RemoveCounted(t) ==
    /\ At(t, "decremented")
    /\ clients' = [clients EXCEPT ![ModAt(t)] = proc[t].val - 1]
    /\ Goto(t, "last") /\ Continue
    /\ Keep(<<connVars, listVars, open, symVars, sum>>)

(* module_unload: destroy and dlclose ...                                  *)
RemoveUnload(t) ==
    /\ At(t, "last")
    /\ LET m == ModAt(t) IN
       IF clients[m] # 0
       THEN Goto(t, "unlink") /\ UNCHANGED modVars
       ELSE /\ open[m]
            /\ open' = [open EXCEPT ![m] = FALSE]
            /\ sym' = [v \in Vars |->
                          IF Parent[v] = m /\ sym[v] = "mapped" THEN "gone"
                                                                ELSE sym[v]]
            /\ Goto(t, "unloaded") /\ UNCHANGED <<clients, loaded, sum>>
    /\ Continue
    /\ Keep(<<connVars, listVars>>)

(* ... and then the flags that keep callers away, which the faulty one     *)
(* leaves set.                                                             *)
RemoveUnloadedUnflagged(t) ==
    /\ At(t, "unloaded")
    /\ clients' = [clients EXCEPT ![ModAt(t)] = 0]
    /\ Goto(t, "unlink") /\ Continue
    /\ Keep(<<connVars, listVars, open, symVars, sum>>)
RemoveUnloaded(t) ==
    /\ At(t, "unloaded")
    /\ clients' = [clients EXCEPT ![ModAt(t)] = 0]
    /\ loaded' = [v \in Vars |-> Parent[v] # ModAt(t) /\ loaded[v]]
    /\ Goto(t, "unlink") /\ Continue
    /\ Keep(<<connVars, listVars, open, sym, sum>>)

RemoveUnlink(t) ==
    /\ At(t, "unlink")
    /\ LET p == req[Node(t)].prev
           n == req[Node(t)].next
       IN req' = [r \in Reqs |-> [req[r] EXCEPT
                     !.next = IF r = p THEN n ELSE @,
                     !.prev = IF r = n THEN p ELSE @]]
    /\ Goto(t, "ends") /\ Continue
    /\ Keep(<<connVars, rl_start, rl_end, modVars>>)

RemoveEnds(t) ==
    /\ At(t, "ends")
    /\ rl_start' = IF rl_start = Node(t) THEN req[Node(t)].next ELSE rl_start
    /\ rl_end' = IF rl_end = Node(t) THEN req[Node(t)].prev ELSE rl_end
    /\ Goto(t, "free") /\ Continue
    /\ Keep(<<connVars, req, modVars>>)

(* Main goes back to its loop, the request thread to the node after.       *)
Return(t) ==
    proc' = [proc EXCEPT ![t] =
                IF t = "main" THEN Idle("idle")
                ELSE [Idle("walk") EXCEPT !.node = proc[t].next]]

RemoveEnd(t) ==
    /\ At(t, "free")
    /\ req[Node(t)].live
    /\ req' = [req EXCEPT ![Node(t)].live = FALSE, ![Node(t)].conn = None,
                          ![Node(t)].prev = None]
    /\ Return(t)
    /\ End
    /\ Keep(<<connVars, rl_start, rl_end, modVars>>)

Remove(t) ==
    \/ RemoveCount(t) \/ RemoveCounted(t) \/ RemoveUnload(t)
    \/ RemoveUnloaded(t) \/ RemoveUnlink(t) \/ RemoveEnds(t) \/ RemoveEnd(t)
-----------------------------------------------------------------------------
(* The request thread.                                                     *)

WalkBegin ==
    /\ At("request", "cron")
    /\ Exclusive => ~InCall("main")
    /\ proc' = [proc EXCEPT !["request"] = [Idle("walk") EXCEPT !.node = rl_start]]
    /\ Keep(<<connVars, listVars, modVars, before>>)

(* next = cur->next is read first.                                         *)
IterBegin ==
    /\ At("request", "walk") /\ Node("request") # None
    /\ proc' = [proc EXCEPT !["request"].next = req[Node("request")].next,
                            !["request"].pc = "check"]
    /\ Begin("request")
    /\ Keep(<<connVars, listVars, modVars>>)

IterCheck ==
    /\ At("request", "check")
    /\ Goto("request", IF loaded[VarAt("request")] THEN "call" ELSE "stat")
    /\ Continue
    /\ Keep(<<connVars, listVars, modVars>>)

IterCall(x, sent) ==
    LET n == Node("request")
        v == VarAt("request")
        sends == R!get_str_sum(x) # sum[v] \/ req[n].remove
    IN /\ At("request", "call") /\ sym[v] = "mapped"
       /\ sum' = IF sends THEN [sum EXCEPT ![v] = R!get_str_sum(x)] ELSE sum
       /\ req' = [req EXCEPT ![n].answered = @ \/ sends,
                             ![n].remove = @ \/ (sends /\ ~sent)]
       /\ Goto("request", "stat") /\ Continue
       /\ Keep(<<connVars, rl_start, rl_end, clients, open, symVars>>)

(* UPDATESTAT.                                                             *)
IterStat ==
    /\ At("request", "stat")
    /\ LET n == Node("request") IN
       /\ req' = [req EXCEPT ![n].first = FALSE]
       /\ IF req[n].remove THEN Goto("request", "dec") /\ Continue
                           ELSE Return("request") /\ End
    /\ Keep(<<connVars, rl_start, rl_end, modVars>>)

(* The end of the walk.  Freed cells are forgotten unless main holds one.  *)
Sleep ==
    /\ At("request", "walk") /\ Node("request") = None
    /\ Exclusive => ~InCall("main")
    /\ req' = [r \in Reqs |-> IF req[r].live \/ r = Node("main") THEN req[r] ELSE Blank]
    /\ Goto("request", "cron")
    /\ Keep(<<connVars, rl_start, rl_end, modVars, before>>)

(* Undefined behaviour that ends the process, as in Requests.  A read of a *)
(* freed node may also go unnoticed.                                       *)
BadAccess(t) ==
    \/ proc[t].pc = "walk" /\ Node(t) # None /\ ~req[Node(t)].live
    \/ proc[t].pc = "call" /\ (sym[VarAt(t)] # "mapped" \/ ~req[Node(t)].live)
    \/ proc[t].pc \in {"dec", "free"} /\ ~req[Node(t)].live
    \/ proc[t].pc = "last" /\ clients[ModAt(t)] = 0 /\ ~open[ModAt(t)]

Crash ==
    /\ ~crashed
    /\ \E t \in Threads : BadAccess(t)
    /\ crashed' = TRUE
    /\ UNCHANGED <<connVars, listVars, modVars, proc, before>>
-----------------------------------------------------------------------------
Main ==
    \/ \E c \in Conns : Connect(c) \/ DropBegin(c)
    \/ \E c \in Conns, v \in Vars, once \in Onces, r \in Reqs : AddBegin(c, v, once, r)
    \/ DropFind \/ DropEnd
    \/ AddLink \/ AddTail \/ AddTest \/ AddResolve \/ AddCount \/ AddEnd
    \/ \E ok \in BOOLEAN : AddLoad(ok)
    \/ Remove("main")

RequestThread ==
    \/ WalkBegin \/ IterBegin \/ IterCheck \/ IterStat \/ Sleep
    \/ \E x \in UNION {Values[v] : v \in Vars}, sent \in {TRUE, ~Leave} :
          At("request", "call") /\ x \in Values[VarAt("request")] /\ IterCall(x, sent)
    \/ Remove("request")

Next == Main \/ RequestThread \/ Crash
Spec == Init /\ [][Next]_vars
-----------------------------------------------------------------------------
LiveOf(m) == {r \in Reqs : req[r].live /\ Parent[req[r].var] = m}
AtRest == \A t \in Threads : ~InCall(t)

(* Calls that do not overlap have the effect of single steps: the threads  *)
(* then implement Requests, and everything proved of it holds of them.     *)
Implements == R!Spec

(* module.h: "How many clients are using this module?"  Between calls the  *)
(* counter is the number of requests on the module.                        *)
CountAtRest ==
    AtRest /\ ~crashed =>
        \A m \in Modules : clients[m] = Cardinality(LiveOf(m))

(* request.c: "Check that we have a symbol for the module var method."     *)
(* What the thread calls after the check is mapped code.                   *)
CallIsMapped == At("request", "call") => sym[VarAt("request")] = "mapped"

(* The walk cannot miss a node: from the moment rl_end is moved to it, and *)
(* whatever the request thread does, every node lies on the chain from     *)
(* rl_start, the prev pointers mirror it, and rl_end is its last node.     *)
ListIsLinked ==
    ~At("main", "link") /\ ~At("main", "tail") =>
        /\ {Chain[i] : i \in 1..Len(Chain)} = {r \in Reqs : req[r].live}
        /\ \A i \in 1..Len(Chain) :
              req[Chain[i]].prev = IF i = 1 THEN None ELSE Chain[i - 1]
        /\ rl_end = IF Chain = <<>> THEN None ELSE Chain[Len(Chain)]
=============================================================================
