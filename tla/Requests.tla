------------------------------ MODULE Requests ------------------------------
(***************************************************************************)
(* The request list of donky and the modules it keeps loaded: request.c    *)
(* and module.c.                                                           *)
(*                                                                         *)
(* Two threads share these structures and take no lock.  The main thread   *)
(* (donky_loop) adds a request for a client's `var' or `varonce' line and  *)
(* removes the requests of a client it drops; the request thread           *)
(* (request_handler_exec) runs the due cron methods, walks the list, calls *)
(* the method of each due variable, sends the value, and sleeps.           *)
(*                                                                         *)
(* Grain: one call of request_list_add, one call of request_list_remove    *)
(* and one iteration of the request thread's loop are each one step, and   *)
(* the steps of the two threads interleave.  Module RequestThreads splits  *)
(* these steps.                                                            *)
(***************************************************************************)
EXTENDS Integers, Sequences, FiniteSets
LOCAL INSTANCE SequencesExt

CONSTANTS
    Conns,       \* connections: donky_conn nodes
    Reqs,        \* memory cells for request_list nodes (bounds malloc)
    Modules,     \* shared objects in LIBDIR
    Vars,        \* module variables registered at start-up
    None,        \* the NULL pointer
    Parent,      \* Parent[v]: the module of variable v
    Kind,        \* Kind[v]: "str", "bar" or "cron" (graphs are bars)
    Timeout,     \* Timeout[v]: the variable's timeout in sleeps of the thread
    Values,      \* Values[v]: what the method of v may return, as sequences
                 \* of character codes; the integer n of a bar is <<n>>
    Unreliable   \* modules whose file dlopen may fail to open again

(* get_str_sum: the sum of a value's characters.  (sendcrlf's buffer holds *)
(* 2048 of them: the unsigned int does not wrap.)                          *)
get_str_sum(x) == FoldLeft(LAMBDA a, b : a + b, 0, x)

Kinds == {"str", "bar", "cron"}
AllValues == UNION {Values[v] : v \in Vars}
Sums == {0} \cup {get_str_sum(x) : x \in AllValues}

ASSUME NoneAssumption == None \notin Conns /\ None \notin Reqs

ASSUME ModulesAssumption ==
    /\ Parent \in [Vars -> Modules]
    /\ Kind \in [Vars -> Kinds]
    /\ Timeout \in [Vars -> Nat]
    /\ Unreliable \subseteq Modules

ASSUME ReqsAssumption == IsFiniteSet(Reqs)

VARIABLES
    conns,       \* connections on the connection list
    dropping,    \* the connection donky_conn_drop is working on, or None
    req,         \* req[r]: the contents of cell r
    list,        \* the list from rl_start to rl_end, as a sequence of cells
    phase,       \* the request thread: in "cron" or in the "walk"
    cur,         \* the request thread's cursor
    clients,     \* clients[m]: module.clients
    open,        \* open[m]: module.handle and module.destroy are set
    loaded,      \* loaded[v]: module_var.loaded
    sym,         \* sym[v]: what module_var.syms points to
    age,         \* age[v]: time since last_update, capped at Timeout[v]
    sum,         \* sum[v]: module_var.sum
    crashed      \* the process has died of undefined behaviour

mainVars   == <<conns, dropping>>
threadVars == <<phase, cur>>
moduleVars == <<clients, open, loaded, sym>>
vars == <<conns, dropping, req, list, phase, cur,
          clients, open, loaded, sym, age, sum, crashed>>

(* A cell of the heap.  free() overwrites the first words of a node (id    *)
(* and conn); the others keep their contents until the cell is reused or   *)
(* no cursor can reach it (see Sleep).  answered is history: a value has   *)
(* been handed to sendcrlf for this request.                               *)
Request ==
    [live : BOOLEAN, conn : Conns \cup {None}, var : Vars \cup {None},
     remove : BOOLEAN, first : BOOLEAN, next : Reqs \cup {None},
     answered : BOOLEAN]

Blank == [live |-> FALSE, conn |-> None, var |-> None, remove |-> FALSE,
          first |-> FALSE, next |-> None, answered |-> FALSE]

VarsOf(m) == {v \in Vars : Parent[v] = m}
ModuleOf(r) == Parent[req[r].var]
Live(r) == req[r].live
LiveOf(m) == {r \in Reqs : Live(r) /\ ModuleOf(r) = m}

TypeOK ==
    /\ conns \subseteq Conns
    /\ dropping \in Conns \cup {None}
    /\ req \in [Reqs -> Request]
    /\ list \in Seq(Reqs)
    /\ phase \in {"cron", "walk"}
    /\ cur \in Reqs \cup {None}
    /\ clients \in [Modules -> Nat]
    /\ open \in [Modules -> BOOLEAN]
    /\ loaded \in [Vars -> BOOLEAN]
    /\ sym \in [Vars -> {"null", "mapped", "gone"}]
    /\ age \in [Vars -> Nat]
    /\ \A v \in Vars : age[v] <= Timeout[v]
    /\ sum \in [Vars -> Sums]
    /\ crashed \in BOOLEAN

(* module_load_all has registered every variable and unloaded every module *)
(* again; module_var_add left last_update and sum at zero, so every        *)
(* variable looks as old as its timeout.                                   *)
Init ==
    /\ conns = {}
    /\ dropping = None
    /\ req = [r \in Reqs |-> Blank]
    /\ list = <<>>
    /\ phase = "cron"
    /\ cur = None
    /\ clients = [m \in Modules |-> 0]
    /\ open = [m \in Modules |-> FALSE]
    /\ loaded = [v \in Vars |-> FALSE]
    /\ sym = [v \in Vars |-> "null"]
    /\ age = [v \in Vars |-> Timeout[v]]
    /\ sum = [v \in Vars |-> 0]
    /\ crashed = FALSE
-----------------------------------------------------------------------------
(* The list.                                                               *)

InList(r) == \E i \in 1..Len(list) : list[i] = r
Position(r) == CHOOSE i \in 1..Len(list) : list[i] = r

(* The nodes but the i-th; the faulty one leaves rl_end's node where it is. *)
WithoutButLast(i) ==
    IF i = Len(list) THEN list
    ELSE SubSeq(list, 1, i - 1) \o SubSeq(list, i + 1, Len(list))
Without(i) == SubSeq(list, 1, i - 1) \o SubSeq(list, i + 1, Len(list))

Head1 == IF list = <<>> THEN None ELSE list[1]

(* cur->next: of a node on the list, its successor; of a freed node, what  *)
(* the pointer was when the node was freed.                                *)
NextOf(r) ==
    IF ~Live(r) THEN req[r].next
    ELSE IF Position(r) = Len(list) THEN None
    ELSE list[Position(r) + 1]

(* The first request of connection c that request_list_find_by_conn meets. *)
IsFirstOf(c, i) ==
    /\ i \in 1..Len(list)
    /\ req[list[i]].conn = c
    /\ \A j \in 1..(i - 1) : req[list[j]].conn # c
-----------------------------------------------------------------------------
(* Modules.                                                                *)

(* module_load when dlopen succeeds: module_add stores the handle and      *)
(* zeroes clients, module_init registers the variables afresh.             *)
module_load(m, ok) ==
    IF ok
    THEN /\ open' = [open EXCEPT ![m] = TRUE]
         /\ age' = [v \in Vars |-> IF Parent[v] = m THEN Timeout[v] ELSE age[v]]
         /\ sum' = [v \in Vars |-> IF Parent[v] = m THEN 0 ELSE sum[v]]
    ELSE UNCHANGED <<open, age, sum>>

(* module_var_cron_init (for every variable of the module) and             *)
(* module_var_loadsym (for one): the symbol is looked up in the module's   *)
(* handle, and loaded is set whatever dlsym returned.                      *)
resolve(vs, mapped) ==
    /\ loaded' = [v \in Vars |-> v \in vs \/ loaded[v]]
    /\ sym' = [v \in Vars |->
                  IF v \notin vs THEN sym[v]
                  ELSE IF mapped THEN "mapped" ELSE "null"]

(* module_unload: calls destroy, which must not be NULL, and unmaps.  The  *)
(* faulty one leaves the loaded flags set.                                 *)
module_unload_unflagged(m) ==
    /\ open' = [open EXCEPT ![m] = FALSE]
    /\ sym' = [v \in Vars |->
                  IF Parent[v] = m /\ sym[v] = "mapped" THEN "gone" ELSE sym[v]]
    /\ UNCHANGED loaded
module_unload(m) ==
    /\ open' = [open EXCEPT ![m] = FALSE]
    /\ loaded' = [v \in Vars |-> Parent[v] # m /\ loaded[v]]
    /\ sym' = [v \in Vars |->
                  IF Parent[v] = m /\ sym[v] = "mapped" THEN "gone" ELSE sym[v]]
-----------------------------------------------------------------------------
(* Requests.                                                               *)

(* A module counts its clients; the faulty ones only note that it has some *)
(* and only notice when the last one goes.                                 *)
NoteClient(m) == clients' = [clients EXCEPT ![m] = 1]
AddClient(m) == clients' = [clients EXCEPT ![m] = @ + 1]
ForgetLast(m) == clients' = [clients EXCEPT ![m] = IF @ = 1 THEN 0 ELSE @]
DropClient(m) == clients' = [clients EXCEPT ![m] = @ - 1]

(* The decrement reaches zero; the faulty test is off by one.              *)
AlmostLastClient(m) == clients[m] <= 2
LastClient(m) == clients[m] = 1

request_list_add(r, c, v, once, ok) ==
    LET m == Parent[v] IN
    /\ req' = [req EXCEPT ![r] =
                  [live |-> TRUE, conn |-> c, var |-> v, remove |-> once,
                   first |-> TRUE, next |-> None, answered |-> FALSE]]
    /\ list' = Append(list, r)
    /\ IF clients[m] = 0
       THEN /\ module_load(m, ok)
            /\ resolve(VarsOf(m), ok \/ open[m])
       ELSE /\ resolve(IF loaded[v] THEN {} ELSE {v}, open[m])
            /\ UNCHANGED <<open, age, sum>>
    /\ AddClient(m)

(* Removing a node frees it, which must happen once, and unloads its       *)
(* module with the last client, which must be loaded.                      *)
Removable(r) == Live(r) /\ (LastClient(ModuleOf(r)) => open[ModuleOf(r)])

(* q is req with the caller's own assignments to the node.                 *)
request_list_remove(q, r) ==
    LET m == ModuleOf(r) IN
    /\ DropClient(m)
    /\ IF LastClient(m) THEN module_unload(m)
                        ELSE UNCHANGED <<open, loaded, sym>>
    /\ list' = Without(Position(r))
    /\ req' = [q EXCEPT ![r].live = FALSE, ![r].conn = None,
                      ![r].next = NextOf(r)]
-----------------------------------------------------------------------------
(* The main thread.                                                        *)

Connect(c) ==
    /\ dropping = None
    /\ c \notin conns
    /\ conns' = conns \cup {c}
    /\ UNCHANGED <<dropping, req, list, threadVars, moduleVars, age, sum>>

(* A var (once = FALSE) or varonce line naming a known variable.           *)
AddRequest(c, v, once, r, ok) ==
    /\ dropping = None
    /\ c \in conns
    /\ ~Live(r)
    /\ ok \/ (clients[Parent[v]] = 0 /\ Parent[v] \in Unreliable)
    /\ request_list_add(r, c, v, once, ok)
    /\ UNCHANGED <<mainVars, threadVars>>

(* donky_conn_drop unlinks the connection and closes its socket ...        *)
DropBegin(c) ==
    /\ dropping = None
    /\ c \in conns
    /\ conns' = conns \ {c}
    /\ dropping' = c
    /\ UNCHANGED <<req, list, threadVars, moduleVars, age, sum>>

(* ... removes its requests one after another ...                          *)
DropRequest ==
    /\ dropping # None
    /\ \E i \in 1..Len(list) :
          /\ IsFirstOf(dropping, i)
          /\ Removable(list[i])
          /\ request_list_remove(req, list[i])
    /\ UNCHANGED <<mainVars, threadVars, age, sum>>

(* ... and frees the node when request_list_find_by_conn finds no more.    *)
(* The faulty ones free it at once, or wait for the whole list to empty.   *)
DropEndAtOnce ==
    /\ dropping # None
    /\ dropping' = None
    /\ UNCHANGED <<conns, req, list, threadVars, moduleVars, age, sum>>
DropEndWhenEmpty ==
    /\ dropping # None
    /\ list = <<>>
    /\ dropping' = None
    /\ UNCHANGED <<conns, req, list, threadVars, moduleVars, age, sum>>
DropEnd ==
    /\ dropping # None
    /\ \A i \in 1..Len(list) : req[list[i]].conn # dropping
    /\ dropping' = None
    /\ UNCHANGED <<conns, req, list, threadVars, moduleVars, age, sum>>

Drop == ~crashed /\ (DropRequest \/ DropEnd) /\ UNCHANGED crashed
-----------------------------------------------------------------------------
(* The request thread.                                                     *)

DueCrons == {v \in Vars : Kind[v] = "cron" /\ age[v] = Timeout[v] /\ loaded[v]}

(* module_var_cron_exec, then cur = rl_start.                              *)
CronExec ==
    /\ phase = "cron"
    /\ \A v \in DueCrons : sym[v] = "mapped"
    /\ age' = [v \in Vars |-> IF v \in DueCrons THEN 0 ELSE age[v]]
    /\ phase' = "walk"
    /\ cur' = Head1
    /\ UNCHANGED <<mainVars, req, list, moduleVars, sum>>

AtRequest == phase = "walk" /\ cur # None

Due(r) ==
    \/ age[req[r].var] = Timeout[req[r].var]
    \/ req[r].remove
    \/ req[r].first

(* "Keep going cuz this one hasn't timed out."                             *)
Skip ==
    /\ AtRequest
    /\ ~Due(cur)
    /\ cur' = NextOf(cur)
    /\ UNCHANGED <<mainVars, req, list, phase, moduleVars, age, sum>>

(* UPDATESTAT: the tail of an iteration that sent a value or did not, and  *)
(* leaves the remove flag rm.                                              *)
UpdateStat(sends, rm) ==
    LET q == [req EXCEPT ![cur].answered = @ \/ sends, ![cur].remove = rm,
                         ![cur].first = FALSE]
    IN /\ age' = [age EXCEPT ![req[cur].var] = 0]
       /\ IF rm
          THEN Removable(cur) /\ request_list_remove(q, cur)
          ELSE req' = q /\ UNCHANGED <<list, moduleVars>>
       /\ cur' = NextOf(cur)
       /\ UNCHANGED <<mainVars, phase>>

CallsMethod(r) == Due(r) /\ loaded[req[r].var] /\ Kind[req[r].var] # "cron"

(* A value is sent when its checksum is not the last one sent, and always  *)
(* to a varonce request, which the faulty test forgets.                    *)
SendsChanges(r, x) == get_str_sum(x) # sum[req[r].var]
Sends(r, x) == get_str_sum(x) # sum[req[r].var] \/ req[r].remove

(* The method returns x; the send, when there is one, succeeds or not.     *)
HandleValue(x, sent) ==
    /\ sum' = IF Sends(cur, x) THEN [sum EXCEPT ![req[cur].var] = get_str_sum(x)]
                               ELSE sum
    /\ UpdateStat(Sends(cur, x), req[cur].remove \/ (Sends(cur, x) /\ ~sent))

Handle ==
    /\ AtRequest
    /\ CallsMethod(cur)
    /\ sym[req[cur].var] = "mapped"
    /\ \E x \in Values[req[cur].var], sent \in BOOLEAN : HandleValue(x, sent)

(* A variable that is not loaded, or a cron job, sends nothing.  The       *)
(* faulty one goes on to the next node before UPDATESTAT.                  *)
HandleSilentlyInPlace ==
    /\ AtRequest
    /\ Due(cur)
    /\ ~CallsMethod(cur)
    /\ cur' = NextOf(cur)
    /\ UNCHANGED <<mainVars, req, list, phase, moduleVars, age, sum>>
HandleSilently ==
    /\ AtRequest
    /\ Due(cur)
    /\ ~CallsMethod(cur)
    /\ UpdateStat(FALSE, req[cur].remove)
    /\ UNCHANGED sum

Older(v) == IF age[v] < Timeout[v] THEN age[v] + 1 ELSE age[v]

(* The end of the walk and the nanosleep.  No cursor can reach a freed     *)
(* cell any more: what it held is forgotten.                               *)
Sleep ==
    /\ phase = "walk"
    /\ cur = None
    /\ phase' = "cron"
    /\ age' = [v \in Vars |-> Older(v)]
    /\ req' = [r \in Reqs |-> IF Live(r) THEN req[r] ELSE Blank]
    /\ UNCHANGED <<mainVars, list, cur, moduleVars, sum>>

(* Time also passes while the thread is at work.                           *)
Tick ==
    /\ AtRequest
    /\ age' = [v \in Vars |-> Older(v)]
    /\ UNCHANGED <<mainVars, req, list, threadVars, moduleVars, sum>>

(* Undefined behaviour that ends the process: a cursor that reads a freed  *)
(* node (which may also go unnoticed: the other actions allow it), a call  *)
(* through a pointer that is NULL or into unmapped code, a node freed      *)
(* twice, and the unloading of a module that failed to load.               *)
BadCall ==
    \/ phase = "cron" /\ \E v \in DueCrons : sym[v] # "mapped"
    \/ AtRequest /\ CallsMethod(cur) /\ sym[req[cur].var] # "mapped"
DanglingCursor == AtRequest /\ ~Live(cur)
BadRemove ==
    \/ AtRequest /\ Due(cur) /\ req[cur].remove /\ ~Removable(cur)
    \/ /\ dropping # None
       /\ \E i \in 1..Len(list) :
             IsFirstOf(dropping, i) /\ ~Removable(list[i])

Crash ==
    /\ ~crashed
    /\ BadCall \/ DanglingCursor \/ BadRemove
    /\ crashed' = TRUE
    /\ UNCHANGED <<mainVars, req, list, threadVars, moduleVars, age, sum>>

Thread ==
    /\ ~crashed
    /\ CronExec \/ Skip \/ Handle \/ HandleSilently \/ Sleep
    /\ UNCHANGED crashed
-----------------------------------------------------------------------------
Environment ==
    /\ ~crashed
    /\ \/ Tick
       \/ \E c \in Conns : Connect(c) \/ DropBegin(c)
       \/ \E c \in Conns, v \in Vars, once \in BOOLEAN, r \in Reqs, ok \in BOOLEAN :
             AddRequest(c, v, once, r, ok)
    /\ UNCHANGED crashed

Next == Environment \/ Drop \/ Thread \/ Crash

(* The scheduler runs both threads: a drop that was begun is finished, and *)
(* the request thread keeps taking its steps.  Clients owe nothing.        *)
Fairness == WF_vars(Drop) /\ WF_vars(Thread \/ Crash)

Spec == Init /\ [][Next]_vars
FairSpec == Spec /\ Fairness
-----------------------------------------------------------------------------
(* module.h: "How many clients are using this module?"  While calls are    *)
(* not split, the counter is the number of requests on the module.         *)
ClientsCount == \A m \in Modules : clients[m] = Cardinality(LiveOf(m))

(* The connection list, the list of requests and the cells agree: the list *)
(* holds the allocated cells, each once, and the connection of each one    *)
(* has not been freed, so cur->conn->sock may be read.                     *)
ListIsLive ==
    /\ \A r \in Reqs : Live(r) <=> InList(r)
    /\ \A i, j \in 1..Len(list) : list[i] = list[j] => i = j

ReqConnAlive ==
    \A r \in Reqs :
        Live(r) => req[r].conn \in Conns
                   /\ (req[r].conn \in conns \/ req[r].conn = dropping)

(* A module is mapped only while it has clients, and every symbol the      *)
(* thread would call then points into mapped code or was never resolved:   *)
(* no unload leaves a callable pointer behind.                             *)
NoStaleCode ==
    /\ \A m \in Modules : open[m] => clients[m] > 0
    /\ \A v \in Vars : loaded[v] => sym[v] # "gone" /\ clients[Parent[v]] > 0

(* A request on the list never waits for a symbol: its variable is loaded. *)
RequestedIsLoaded == \A r \in Reqs : Live(r) => loaded[req[r].var]

(* A varonce request whose method is called is answered before it leaves,  *)
(* even when its value has the checksum of the value sent last.            *)
OnceAnswered ==
    [][\A r \in Reqs :
          /\ Live(r) /\ req[r].remove /\ CallsMethod(r)
          /\ ~req'[r].live
          /\ dropping = None \/ dropping # req[r].conn
          => req'[r].answered]_vars

(* PROTOCOL, section 3: for a var line "you would receive" the value.  The *)
(* thread's first visit to a request whose method it calls answers it.     *)
FirstAnswer ==
    \A r \in Reqs :
        Live(r) /\ ~req[r].first /\ Kind[req[r].var] # "cron" => req[r].answered

(* A varonce request leaves the list, unless the process dies first, when  *)
(* the thread's walks come to an end or no drop ever frees the node under  *)
(* its cursor.  Without either it need not: a cursor that was led past the *)
(* request through a freed and reused node never comes back to it while    *)
(* clients keep adding varonce requests as fast as the thread answers.     *)
WalksEnd == []<>(phase = "cron")
NeverDiverted == []~DanglingCursor
OnceLeaves ==
    WalksEnd \/ NeverDiverted =>
        \A r \in Reqs : Live(r) /\ req[r].remove ~> ~Live(r) \/ crashed

(* A drop that was begun comes to an end: the loop of donky_conn_drop over *)
(* the connection's requests terminates whatever the request thread does.  *)
DropEnds == dropping # None ~> dropping = None \/ crashed
=============================================================================
