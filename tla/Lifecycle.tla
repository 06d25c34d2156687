----------------------------- MODULE Lifecycle -----------------------------
(***************************************************************************)
(* The life of the process: main.c, and what it calls to start, to reload  *)
(* and to exit.  Every run of donky parses the configuration, loads all    *)
(* modules, listens, starts the request thread and serves, until a signal  *)
(* sets a flag; then everything is cleared, while the request thread is    *)
(* still at work, and the next run begins or the process ends.             *)
(*                                                                         *)
(* Grain: one function of main.c's clean-up, one handler of the daemon and *)
(* one part of the request thread's loop are each one step.                *)
(***************************************************************************)
EXTENDS Registry

CONSTANTS
    Files,       \* what the configuration file may contain
    NoFile,      \* whether there may be none to open
    Orders,      \* what module_load_all may find: objects in some order
    Daemon, GlobalSleep,   \* the section "daemon" and its key "global_sleep"
    Conns,       \* clients
    MaxReqs      \* bound: requests on the list

ASSUME LifecycleAssumption ==
    /\ Files \subseteq Seq(Line)
    /\ Orders \subseteq Seq(Objects)
    /\ {Daemon, GlobalSleep} \subseteq Names
    /\ NoFile \in BOOLEAN
    /\ MaxReqs \in Nat

VARIABLES
    donky_exit, donky_reload,   \* the flags of main.c
    pc,          \* where the main thread is
    file,        \* the file parse_cfg has read
    cfg,         \* the configuration list, or Null
    reg,         \* the lists of module.c
    conns,       \* connected clients on the connection list
    hung,        \* those among them that have closed their end
    linger,      \* the kernel still holds a connection that donky closed
                 \* first: the port cannot be bound without SO_REUSEADDR
    reqs,        \* the request list
    start,       \* the node rl_start pointed to when request_list_clear read
                 \* it: "unread", "none", "live" or "freed"
    thread,      \* where the request thread is
    tspec,       \* how long it sleeps, in thousandths of a second
    stray,       \* its cursor in the variables points into freed memory
    lost,        \* so does its cursor in the requests, or the saved next one
    launched,    \* thread_is_launched
    cancelled,   \* pthread_cancel was called
    hupped,      \* history: SIGHUP came and the file was not read since
    crashed

flags == <<donky_exit, donky_reload, hupped>>
config == <<file, cfg>>
clients == <<conns, hung, linger>>
threadVars == <<thread, tspec, stray, lost, cancelled>>
vars == <<flags, pc, config, reg, clients, reqs, start, threadVars, launched, crashed>>

Request == [conn : Conns, var : Names, once : BOOLEAN]

Serving == {"check", "select", "serve"}
Cleaning == {"drop_conns", "clear_cfg", "clear_module", "cancel", "join",
             "free_requests"}

TypeOK ==
    /\ {donky_exit, donky_reload, linger, stray, lost, launched, cancelled,
        hupped, crashed} \subseteq BOOLEAN
    /\ tspec \in Int
    /\ pc \in Serving \cup Cleaning
              \cup {"parse", "load", "listen", "start", "again", "exited"}
    /\ cfg = Null \/ cfg \in Seq(Section)
    /\ reg.mods \in Seq(Module) /\ reg.vars \in Seq(ModuleVar)
    /\ hung \subseteq conns /\ conns \subseteq Conns
    /\ reqs \in Seq(Request) /\ Len(reqs) <= MaxReqs
    /\ start \in {"unread", "none", "live", "freed"}
    /\ thread \in {"none", "begin", "cron", "walk", "sleep", "ended"}

Init ==
    /\ donky_exit = FALSE /\ donky_reload = FALSE /\ hupped = FALSE
    /\ pc = "parse"
    /\ file = <<>> /\ cfg = Null
    /\ reg = NoModules
    /\ conns = {} /\ hung = {} /\ linger = FALSE
    /\ reqs = <<>> /\ start = "unread"
    /\ thread = "none" /\ tspec = 0 /\ stray = FALSE /\ lost = FALSE
    /\ launched = FALSE /\ cancelled = FALSE
    /\ crashed = FALSE
-----------------------------------------------------------------------------
(* initialize_stuff, up to the loop.                                       *)

(* parse_cfg; without a file the process exits.                            *)
Parse ==
    /\ pc = "parse"
    /\ \E f \in Files : file' = f /\ cfg' = parse_cfg(f)
    /\ pc' = "load"
    /\ hupped' = FALSE
    /\ UNCHANGED <<donky_exit, donky_reload, reg, clients, reqs, start,
                   threadVars, launched>>

NoConfiguration ==
    /\ pc = "parse" /\ NoFile
    /\ pc' = "exited"
    /\ UNCHANGED <<flags, config, reg, clients, reqs, start, threadVars, launched>>

(* The faulty one negates the reload flag here, and not before parse_cfg.  *)
LoadNegates ==
    /\ pc = "load"
    /\ \E order \in Orders : reg' = module_load_all(cfg, order)
    /\ pc' = "listen" /\ donky_reload' = FALSE
    /\ UNCHANGED <<donky_exit, hupped, config, clients, reqs, start,
                   threadVars, launched>>
Load ==
    /\ pc = "load"
    /\ \E order \in Orders : reg' = module_load_all(cfg, order)
    /\ pc' = "listen"
    /\ UNCHANGED <<flags, config, clients, reqs, start, threadVars, launched>>

(* create_tcp_listener sets SO_REUSEADDR after bind, so that bind fails    *)
(* while a connection lingers; it may fail anyway, as may gethostbyname,   *)
(* socket and listen.  donky_loop then skips its own clean-up.             *)
Listen ==
    /\ pc = "listen"
    /\ \/ ~linger /\ pc' = "start" /\ UNCHANGED donky_exit
       \/ pc' = "clear_cfg" /\ donky_exit' = TRUE
    /\ UNCHANGED <<donky_reload, hupped, config, reg, clients, reqs, start,
                   threadVars, launched>>

(* request_handler_start, whose result is ignored.                         *)
StartThread ==
    /\ pc = "start"
    /\ \/ thread' = "begin" /\ launched' = TRUE
       \/ UNCHANGED <<thread, launched>>
    /\ pc' = "check"
    /\ UNCHANGED <<flags, config, reg, clients, reqs, start, tspec, stray,
                   lost, cancelled>>
-----------------------------------------------------------------------------
(* donky_loop.  Requests has the request list and Daemon the connections   *)
(* in detail; here a handler is one step.                                  *)

(* The faulty one heeds only the other flag.                               *)
CheckReload ==
    /\ pc = "check"
    /\ pc' = IF donky_reload THEN "drop_conns" ELSE "select"
    /\ UNCHANGED <<flags, config, reg, clients, reqs, start, threadVars, launched>>
Check ==
    /\ pc = "check"
    /\ pc' = IF donky_exit \/ donky_reload THEN "drop_conns" ELSE "select"
    /\ UNCHANGED <<flags, config, reg, clients, reqs, start, threadVars, launched>>

(* select returns because a client has done something.                     *)
Activity ==
    /\ pc = "select"
    /\ pc' = "serve"
    /\ UNCHANGED <<flags, config, reg, clients, reqs, start, threadVars, launched>>

Accept(c) ==
    /\ pc = "serve"
    /\ c \notin conns
    /\ conns' = conns \cup {c}
    /\ UNCHANGED <<flags, pc, config, reg, hung, linger, reqs, start,
                   threadVars, launched>>

(* request_list_add for the i-th variable.                                 *)
Subscribe(c, i, once) ==
    /\ pc = "serve"
    /\ c \in conns /\ i \in DOMAIN reg.vars
    /\ Len(reqs) < MaxReqs
    /\ reqs' = Append(reqs, [conn |-> c, var |-> reg.vars[i].name, once |-> once])
    /\ reg' = AddClient(reg, cfg, i)
    /\ UNCHANGED <<flags, pc, config, clients, start, threadVars, launched>>

(* request_list_remove of the requests at positions s.                     *)
Dropped(r, q) ==
    LET v == module_var_find_by_name(r.vars, q.var)
    IN IF v = 0 THEN r ELSE DropClient(r, v)
Removed(s) ==
    FoldLeftDomain(LAMBDA acc, i : IF i \in s THEN Dropped(acc, reqs[i]) ELSE acc,
                   reg, reqs)
Others(s) ==
    FoldLeftDomain(LAMBDA acc, i : IF i \in s THEN acc ELSE Append(acc, reqs[i]),
                   <<>>, reqs)

(* donky_conn_drop, after a hang-up or a bye line; it is the end that      *)
(* closes first that lingers.  The request thread in the midst of a walk   *)
(* may stand at one of the nodes that are freed, or may have saved one as  *)
(* the next.  The faulty one leaves the requests.                          *)
DropAlone(c) ==
    /\ pc = "serve"
    /\ c \in conns
    /\ conns' = conns \ {c} /\ hung' = hung \ {c}
    /\ linger' = (linger \/ c \notin hung)
    /\ UNCHANGED <<flags, pc, config, reg, reqs, start, threadVars, launched>>
Drop(c) ==
    /\ pc = "serve"
    /\ c \in conns
    /\ conns' = conns \ {c} /\ hung' = hung \ {c}
    /\ linger' = (linger \/ c \notin hung)
    /\ LET s == {i \in DOMAIN reqs : reqs[i].conn = c}
       IN /\ reqs' = Others(s) /\ reg' = Removed(s)
          /\ lost' \in {lost, lost \/ (thread = "walk" /\ s # {})}
    /\ UNCHANGED <<flags, pc, config, start, thread, tspec, stray, cancelled,
                   launched>>

EndServe ==
    /\ pc = "serve"
    /\ pc' = "check"
    /\ UNCHANGED <<flags, config, reg, clients, reqs, start, threadVars, launched>>
-----------------------------------------------------------------------------
(* The clean-up, in the order of the code.                                 *)

(* clean_dis_shiz: donky_conn_clear closes every socket, the listener's    *)
(* too, and frees the nodes; the requests keep their pointers to them.     *)
DropConns ==
    /\ pc = "drop_conns"
    /\ conns' = {} /\ hung' = {}
    /\ linger' = (linger \/ conns \ hung # {})
    /\ pc' = "clear_cfg"
    /\ UNCHANGED <<flags, config, reg, reqs, start, threadVars, launched>>

ClearCfg ==
    /\ pc = "clear_cfg"
    /\ cfg' = Null
    /\ pc' = "clear_module"
    /\ UNCHANGED <<flags, file, reg, clients, reqs, start, threadVars, launched>>

(* clear_module calls destroy and dlclose for what is open, and frees all. *)
ClearModule ==
    /\ pc = "clear_module"
    /\ reg' = NoModules
    /\ stray' = (thread = "cron")
    /\ pc' = "cancel"
    /\ UNCHANGED <<flags, config, clients, reqs, start, thread, tspec, lost,
                   cancelled, launched>>

(* request_list_clear reads rl_start, then request_handler_stop cancels    *)
(* the thread ...                                                          *)
Cancel ==
    /\ pc = "cancel"
    /\ start' = IF reqs = <<>> THEN "none" ELSE "live"
    /\ cancelled' = launched
    /\ pc' = IF launched THEN "join" ELSE "free_requests"
    /\ UNCHANGED <<flags, config, reg, clients, reqs, thread, tspec, stray,
                   lost, launched>>

(* ... and waits for it ...                                                *)
Join ==
    /\ pc = "join"
    /\ thread = "ended"
    /\ thread' = "none" /\ cancelled' = FALSE /\ tspec' = 0
    /\ pc' = "free_requests"
    /\ UNCHANGED <<flags, config, reg, clients, reqs, start, stray, lost, launched>>

(* ... and the nodes are freed, from the one that was read.  The faulty    *)
(* one leaves thread_is_launched as it is.                                 *)
FreeRequestsLaunched ==
    /\ pc = "free_requests"
    /\ reqs' = <<>> /\ start' = "unread"
    /\ pc' = "again"
    /\ UNCHANGED <<flags, config, reg, clients, threadVars, launched>>
FreeRequests ==
    /\ pc = "free_requests"
    /\ reqs' = <<>> /\ start' = "unread" /\ launched' = FALSE
    /\ pc' = "again"
    /\ UNCHANGED <<flags, config, reg, clients, threadVars>>

(* "We just reloaded, negate the flag."                                    *)
Again ==
    /\ pc = "again"
    /\ IF donky_exit THEN pc' = "exited" /\ UNCHANGED donky_reload
                     ELSE pc' = "parse" /\ donky_reload' = FALSE
    /\ UNCHANGED <<donky_exit, hupped, config, reg, clients, reqs, start,
                   threadVars, launched>>
-----------------------------------------------------------------------------
(* request_handler_exec.                                                   *)

(* request_handler_sleep_setup looks the configuration up, once.           *)
DEFAULT_GLOBAL_SLEEP == 1000
SleepOf(c) == get_double_key(c, Daemon, GlobalSleep, DEFAULT_GLOBAL_SLEEP)

Begin ==
    /\ thread = "begin"
    /\ cfg # Null
    /\ thread' = "cron" /\ tspec' = SleepOf(cfg)
    /\ UNCHANGED <<flags, pc, config, reg, clients, reqs, start, stray, lost,
                   cancelled, launched>>

CronExec ==
    /\ thread = "cron"
    /\ thread' = "walk" /\ stray' = FALSE
    /\ UNCHANGED <<flags, pc, config, reg, clients, reqs, start, tspec, lost,
                   cancelled, launched>>

(* A walk of the list: the varonce requests leave, and those whose send    *)
(* failed.  A walk that has lost its way may miss some.                    *)
Walk(s) ==
    /\ thread = "walk"
    /\ s \subseteq DOMAIN reqs
    /\ lost \/ \A i \in DOMAIN reqs : reqs[i].once => i \in s
    /\ reqs' = Others(s)
    /\ reg' = Removed(s)
    /\ start' = IF start = "live" /\ 1 \in s THEN "freed" ELSE start
    /\ thread' = "sleep" /\ lost' = FALSE
    /\ UNCHANGED <<flags, pc, config, clients, tspec, stray, cancelled, launched>>

(* nanosleep returns, at once and with an error when the time is negative; *)
(* an error ends the thread.  The faulty one goes when it has nothing left *)
(* to do.                                                                  *)
WakeIfNeeded ==
    /\ thread = "sleep" /\ ~cancelled
    /\ thread' = IF tspec >= 0 /\ reqs # <<>> THEN "cron" ELSE "ended"
    /\ UNCHANGED <<flags, pc, config, reg, clients, reqs, start, tspec, stray,
                   lost, cancelled, launched>>
Wake ==
    /\ thread = "sleep" /\ ~cancelled
    /\ thread' = IF tspec >= 0 THEN IF reg.vars = <<>> THEN "walk" ELSE "cron"
                               ELSE "ended"
    /\ UNCHANGED <<flags, pc, config, reg, clients, reqs, start, tspec, stray,
                   lost, cancelled, launched>>

(* Cancellation points: nanosleep; the sends of a walk; what a cron job    *)
(* sends and receives.                                                     *)
EndCancelled ==
    /\ cancelled
    /\ thread = "sleep" \/ thread = "cron" \/ (thread = "walk" /\ reqs # <<>>)
    /\ thread' = "ended" /\ stray' = FALSE /\ lost' = FALSE
    /\ UNCHANGED <<flags, pc, config, reg, clients, reqs, start, tspec,
                   cancelled, launched>>
-----------------------------------------------------------------------------
(* Signals.  The system delivers one to either thread.                     *)

Handler(sig) ==
    /\ donky_exit' = (donky_exit \/ sig = "TERM")
    /\ donky_reload' = (donky_reload \/ sig = "HUP")
    /\ hupped' = (hupped \/ sig = "HUP")

(* To the main thread: select is interrupted, unless the signal came after *)
(* the flags were tested and before select was entered.                    *)
SignalMain(sig) ==
    /\ Handler(sig)
    /\ pc' = pc \/ (pc = "select" /\ pc' = "drop_conns")
    /\ UNCHANGED <<config, reg, clients, reqs, start, threadVars, launched>>

(* To the request thread: nanosleep is interrupted, and the thread ends.   *)
SignalThread(sig) ==
    /\ thread \notin {"none", "ended"}
    /\ Handler(sig)
    /\ thread' = IF thread = "sleep" THEN "ended" ELSE thread
    /\ UNCHANGED <<pc, config, reg, clients, reqs, start, tspec, stray, lost,
                   cancelled, launched>>

Hangup(c) ==
    /\ c \in conns \ hung
    /\ hung' = hung \cup {c}
    /\ UNCHANGED <<flags, pc, config, reg, conns, linger, reqs, start,
                   threadVars, launched>>

Expire ==
    /\ linger
    /\ linger' = FALSE
    /\ UNCHANGED <<flags, pc, config, reg, conns, hung, reqs, start,
                   threadVars, launched>>

(* Freed memory is used, which may also go unnoticed where the actions     *)
(* above allow it: the list of settings through its NULL pointer, a        *)
(* variable under the cursor of a cron pass, a request under the cursor of *)
(* a walk, the connection or the variable of a request, a node that the    *)
(* thread removed while request_list_clear held it; or a thread is joined  *)
(* that is not there.                                                      *)
Dangling(q) ==
    q.conn \notin conns \/ module_var_find_by_name(reg.vars, q.var) = 0

Crash ==
    /\ ~crashed
    /\ \/ thread = "begin" /\ cfg = Null
       \/ thread = "cron" /\ stray
       \/ thread = "walk" /\ (lost \/ \E i \in DOMAIN reqs : Dangling(reqs[i]))
       \/ pc = "free_requests" /\ start = "freed"
       \/ pc = "join" /\ thread = "none"
    /\ crashed' = TRUE
    /\ UNCHANGED <<flags, pc, config, reg, clients, reqs, start, threadVars, launched>>
-----------------------------------------------------------------------------
Handlers ==
    \E c \in Conns :
        \/ Accept(c) \/ Drop(c)
        \/ \E i \in DOMAIN reg.vars, once \in BOOLEAN : Subscribe(c, i, once)

Begins == Parse \/ NoConfiguration \/ Load \/ Listen \/ StartThread
Ends == Check \/ EndServe \/ DropConns \/ ClearCfg \/ ClearModule
        \/ Cancel \/ Join \/ FreeRequests \/ Again

Main == ~crashed /\ (Begins \/ Handlers \/ Ends) /\ UNCHANGED crashed

Alive == pc # "exited"

Walks == \E s \in SUBSET DOMAIN reqs : Walk(s)
Steps == Begin \/ CronExec \/ Wake \/ EndCancelled

Thread == ~crashed /\ Alive /\ (Steps \/ Walks) /\ UNCHANGED crashed

Environment ==
    /\ ~crashed /\ Alive
    /\ \/ Activity \/ Expire \/ \E c \in Conns : Hangup(c)
       \/ \E sig \in {"HUP", "TERM"} : SignalMain(sig) \/ SignalThread(sig)
    /\ UNCHANGED crashed

Next == Main \/ Thread \/ Environment \/ Crash
Spec == Init /\ [][Next]_vars

(* Both threads run, and a traversal of the connections ends, because the  *)
(* list is finite.  (A walk is stated by the place it leaves: it is always *)
(* possible.  It ends because in the clean-up, where it is waited for,     *)
(* nobody adds requests.)  Nothing is assumed of clients and signals.      *)
Fairness ==
    /\ WF_vars(~crashed /\ Ends /\ UNCHANGED crashed)
    /\ WF_vars(~crashed /\ Alive /\ Steps /\ UNCHANGED crashed)
    /\ WF_thread(~crashed /\ Alive /\ thread = "walk" /\ thread' = "sleep")
    /\ WF_crashed(Crash)
FairSpec == Spec /\ Fairness
-----------------------------------------------------------------------------
(* Of the file that was just read, and not of one before it, the first     *)
(* line for a key counts (cfg.h), and the cfg command answers from it.     *)
LookupIsFirst == pc = "load" => FirstLineCounts(cfg, file)

(* While a run serves, the lists of module.c are whole: every module and   *)
(* every variable has one node, however often it was loaded, every         *)
(* variable has its module, and what has no client is unloaded.            *)
Built == pc \in Serving \cup {"listen", "start"}
RegistryWhole == Built => OneNodeEach(reg) /\ Unloaded(reg)

(* While a run serves, every timeout is the one that the file of this run  *)
(* gives or, without one there, a default its module registers: none       *)
(* survives from an earlier run, and loading a module again keeps them.    *)
TimeoutsHold == Built => TimeoutsAsWritten(reg, file)

(* The request thread belongs to one run: it has been joined before the    *)
(* next file is read, and thread_is_launched is set exactly while there is *)
(* a thread that can be joined.                                            *)
ThreadWithinRun ==
    /\ pc \in {"parse", "load", "listen", "start", "again", "exited"}
          => thread = "none"
    /\ pc # "free_requests" => (launched <=> thread # "none")

(* While main waits for clients and no signal has come, the thread that    *)
(* was started is there and serves them, unless the file that this run has *)
(* read gives a negative global_sleep: it then serves once.                *)
Undisturbed ==
    /\ pc \in Serving /\ launched /\ ~donky_exit /\ ~donky_reload
    /\ SleepOf(parse_cfg(file)) >= 0
ThreadServes == Undisturbed => thread \in {"begin", "cron", "walk", "sleep"}

(* A SIGHUP whose file was not read yet is still flagged while a run       *)
(* serves: clearing the flag at the end of a reload forgets none.          *)
ReloadNotLost == hupped /\ pc \in Serving => donky_reload

(* Outside the clean-up nothing that was freed is within reach, but for    *)
(* the request under the cursor of a walk that a drop came upon: every     *)
(* request on the list has its connection and its variable, and nothing of *)
(* one run, no cursor and no request, is left for the next.                *)
NothingLeftBehind ==
    pc \notin Cleaning =>
        /\ \A i \in DOMAIN reqs : ~Dangling(reqs[i])
        /\ ~stray /\ start = "unread"
        /\ lost => thread = "walk" /\ pc \in Serving

(* A flag that is set while main tests or serves ends the run: the         *)
(* clean-up does not wait for ever for the thread it has cancelled.        *)
FlagHeeded ==
    (donky_exit \/ donky_reload) /\ pc \in {"check", "serve"}
        ~> pc \in {"parse", "exited"} \/ crashed
=============================================================================
