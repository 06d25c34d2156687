# A verification project for donky

donky is a small C daemon. Clients connect over TCP, give a password if one is
configured, and ask for variables (the date, the battery charge, what MPD plays).
Variables are implemented by shared objects that are loaded while somebody uses
them. This directory holds TLA+ models of the daemon, TLC configurations that
check them on small instances, and TLAPS proofs for every instance. Paths below
are relative to the repository; `request.c` stands for `src/request.c`.

## 1. Inventory

The process has two threads. The **main thread** (`donky_loop`, daemon.c)
multiplexes the clients with `select` and runs the line protocol; the **request
thread** (`request_handler_exec`, request.c) runs cron jobs, walks the list of
requests and sends values. They share the list of requests, the list of
connections (through `request->conn`), the modules and their variables, and the
descriptor table. There is no lock in the program. A signal handler may run at any point of
either thread. One **run** of the program lasts from reading the configuration to clearing
everything; `SIGHUP` begins another one in the same process.

| part | state | operations | what is hard | what makes it correct |
|---|---|---|---|---|
| requests (request.c) | `rl_start`/`rl_end`, nodes with `conn`, `var`, `remove`, `is_first` | `request_list_add`, `request_list_remove`, `find_by_conn`, an iteration of the thread | both threads edit the list; the walk keeps a cursor while nodes are freed | the list holds the live nodes; no request outlives its connection; a `varonce` request is answered and then leaves |
| modules (module.c) | `clients`, `handle`, `destroy`; per variable `loaded`, `syms`, `last_update`, `sum`, `timeout` | `module_load_all`, `module_load`, `module_unload`, `module_var_add`, `module_var_loadsym`, `module_var_cron_init`, `module_var_cron_exec`, `clear_module` | code is unmapped with the last client while the other thread may be about to call it; loading may fail | the counter is the number of requests; nothing callable points into unmapped code; one node for each module and variable, with the timeout of today's file |
| main loop (daemon.c) | connection list, `donky_fds`, `donky_fdmax` | `donky_conn_new`, `_read`, `_drop`, `_add`, `_set_fdmax` | nodes are freed during the traversal; descriptors and nodes are reused | `select` watches exactly the connections; `recv` cannot block; a hang-up is noticed |
| protocol (protocol.c) | `is_authed` | authentication, `var`, `varonce`, `bye`, `cfg` | several lines in one buffer, one line in several buffers, a connection that goes away under its own handler | only the client that gave the password is served |
| scrobbler (modules/mpdscrob.c) | `last_*`, `scrob_shaked`, session | `scrob_urself` and what it calls | failures and retries of a remote server; descriptors shared with the main thread | played tracks are submitted, skipped ones are not; one attempt per song after a failure |
| MPD (modules/mpd.c) | `mpd_sock`, `mpdinfo`, `initialized` | `run_cron`, `start_connection`, `pop_currentsong`, `pop_status`, the getters | a connection that dies between two commands, a server that hangs up on silent clients, one `recv` taken for one reply | a pass ends, reads the replies to its own commands, shows nothing of an earlier pass, and repairs the connection |
| start, reload, exit (main.c) | `donky_exit`, `donky_reload`, `thread_is_launched` | signal handlers, `initialize_stuff`, `clean_up_everything` | modules and variables are freed before the request thread is stopped; the port is bound again; a signal in the middle of a reload | no signal is lost, no thread or list of one run reaches the next, the process ends when told to |
| configuration (cfg.c) | sections and settings | `parse_cfg`, lookups, `clear_cfg` | pointers into the lists are kept by modules across a reload | a lookup returns the first setting of the first section with that name |
| free list (mem.c) | pointers to free after a request | `m_strdup`, `m_malloc`, `mem_list_clear` | methods hand out new texts, cached ones and static ones | every text is freed once, after its value was sent |
| battery (modules/battery.c) | `batt_ls` with cached charges | four methods, `batt_cron`, destruction | what is cached is what is handed out; a battery that comes and goes | answers are as old as the last cron job at most |
| sockets, strings (net.c, util.c) | none | `sendcrlf`, `create_tcp_listener`, bounded copies | partial sends, a buffer of 2048 bytes | |
| other modules | cached readings | read a file or run a program, format a value | | |

PROJECT.json lists every part with its status, and every hazard at its line.

## 2. The modules

| module | what it models | against |
|---|---|---|
| `Requests` | requests and modules; a call of a list operation, or an iteration of the thread, is one step; the steps of the two threads interleave | request.c, module.c, part of daemon.c |
| `RequestsProofs` | theorems about `Requests` | |
| `RequestThreads` | the same calls split into their reads and writes, with `prev`/`next` pointers; refines `Requests` when calls do not overlap | request.c, module.c |
| `RequestThreadsProofs` | theorems about `RequestThreads` while requests arrive | |
| `Daemon` | the select loop, the connection list, the line protocol | daemon.c, protocol.c |
| `DaemonProofs` | theorems about `Daemon` | |
| `Cfg` | the lists of settings, the parser, the lookups, the `cfg` command, and a reference definition of a lookup | cfg.c, part of protocol.c |
| `Registry` | the lists of modules and variables, as values; EXTENDS `Cfg`, from which the timeouts come | module.c |
| `Lifecycle` | the runs of the process: signals, reload, the clean-up against the request thread; EXTENDS `Registry` | main.c, cfg.c, module.c, net.c, parts of daemon.c and request.c |
| `LifecycleProofs` | theorems about the control of `Lifecycle` | |
| `RegistryProofs` | theorems about `Cfg` and `Registry`, and the lists of `Lifecycle` | |
| `Mpd` | the cron job of the mpd module against a server | modules/mpd.c |
| `Methods` | what methods return and who frees it: the free list, the battery module, the getters of mpd; EXTENDS `Mpd` | mem.c, modules/battery.c, modules/mpd.c, part of request.c |
| `MethodsProofs` | theorems about `Mpd` within `Methods` | |
| `HeapProofs` | theorems about the free list and the battery module in `Methods` | |
| `Scrobbler` | a call of `scrob_urself`, exchange by exchange, with the descriptor table | modules/mpdscrob.c, part of modules/mpd.c |
| `ScrobblerProofs` | theorems about `Scrobbler` | |
| `MC...` | instances for TLC | |

`Requests`, `Daemon`, `Scrobbler` and `Methods` look at one run of the program from four
sides; `Lifecycle` looks at the succession of runs, with each handler of the others as one
step.

### Requests

| TLA+ | code |
|---|---|
| `conns`, `dropping` | `dc_start` list; the connection inside `donky_conn_drop` |
| `req[r]` | a malloc'ed `struct request_list` in cell `r`; `first` is `is_first` |
| `list` | the nodes from `rl_start` to `rl_end` |
| `phase`, `cur` | the request thread: before `module_var_cron_exec`, or in the walk at `cur` |
| `clients`, `open` | `module.clients`; `module.handle` and `destroy` are not NULL |
| `loaded`, `sym` | `module_var.loaded`, `syms`: NULL, into mapped code, into code that is gone |
| `age`, `sum` | time since `last_update` capped at the timeout; `module_var.sum` |
| `crashed` | undefined behaviour has ended the process |

`AddRequest` is a `var`/`varonce` line with a known variable. A drop is
`DropBegin`, one `DropRequest` per request, `DropEnd`, because the request thread
runs in between; while it lasts `dropping` keeps the connection's node in
existence. `CronExec`, `Skip`, `Handle`, `HandleSilently` and `Sleep` are the
request thread. A freed node keeps its `var`, flags and `next` until its cell is
reused or the walk ends (`free` overwrites the first words, `id` and `conn`), and a thread that
reads it may go on unnoticed (the ordinary actions) or die (`Crash`). `Crash` also
stands for a call through a NULL or stale symbol and for unloading a module whose
load had failed. `answered` is a history field.

Abstractions: a value is a sequence of character codes from a small set; `graph`
variables behave as `bar`; arguments and ids are left out; time is `age`, advanced
by the thread's sleep and by `Tick`. An unknown variable changes nothing and has no
action. A send to a descriptor succeeds or fails.

### RequestThreads

`proc[t]` is where thread `t` is in a call, its node and the counter or pointer
it has read. The order of the steps is the code's: a node is linked before its
module is loaded, a symbol is stored before `loaded` is set, `dlclose` happens
before `loaded` is cleared, `clients++` and `clients--` are a read and a write.
`Exclusive = FALSE` is the program; `Exclusive = TRUE` lets a call begin only when
the other thread is between calls, and is the assumption under which `Requests` is a
correct summary. `before` holds the shared state in which the running call
began: it is what the refinement mapping shows to `Requests` until the call ends.
Variables are texts that are always due (timeout zero), so that time plays no part.

### Daemon

`list` and `conn` are the connection list with the listener as first node;
`fds`, `fdmax` the globals; `ready` the set `select` left; `pc` and `cur` where the
traversal is; `lines` what `strtok` has not returned yet; `peer[f]` the client's end
of descriptor `f`. `Recv(k)` receives the first `k` pending lines, `RecvPiece` a part
of one. `subs[n]` counts the requests of node `n`; `RequestLeaves` is the request
thread removing one. Replies are left out, and so is `cfg`, which changes nothing
(a `cfg` line without arguments is not an input: `sscanf` of NULL is undefined; what it
answers is in `Cfg`). `HandleVar` adds a request or refuses it (an unknown variable, a line without an
id). What follows a `bye` in the buffer is handled with the node that was freed, whose `is_authed` may then
read as anything (`Authed`), until the traversal goes on or the process dies (`Crash`).
`StrtokElsewhere` is the request thread calling `strtok` in mpd.c or mpdscrob.c while the main thread splits
its buffer: what `strtok` returns next to the main thread is then a piece of foreign text, or
nothing, and the rest of the buffer is lost.

### Cfg and Registry

Both are values and operators, in which recursion is a fold of the community modules,
about which one can prove (section 4). A line of the file is a
record of what the scans of `parse_cfg` make of it (`Forms`): a section, `key = value`,
`key = ""`, a key alone, a comment, or nothing. The functions `Canon`, `Integer`, `Double` and `Truth`
give what `strcasecmp`, `atoi`, `atof` and the sets `IS_TRUE`/`IS_FALSE` make of a text. `Promised` is
the reference definition: it speaks of the lines of the file (the first line for a key, in any
section of that name) and never of the lists. cfg.h does not say which line counts when several
set a key; that it is the first is what the code does.

A registry is the pair of the two lists of module.c; a module's `path`, `open` and
`clients`, a variable's `parent`, `timeout` and `loaded` are the fields of the structs. `module_load_all`
takes the objects in the order `readdir` found them; an object in `Foreign` lacks all the symbols
of a module (one that has some of them and not others, which module.c:361 lets pass, is not modelled).
`AddClient` and `DropClient` are the part of `request_list_add` and `request_list_remove` that
changes them (`Requests` has the load that fails).

### Lifecycle

| TLA+ | code |
|---|---|
| `donky_exit`, `donky_reload` | the two flags |
| `pc` | main.c and the functions it calls, in order: parse, load, listen, start, the loop (`check`, `select`, `serve`), and the six steps of the clean-up |
| `cfg`, `reg` | the lists of `Cfg` and `Registry`; `file` is what was read |
| `conns`, `hung`, `linger` | clients; those that closed first; whether the kernel holds a connection that donky closed first |
| `reqs`, `start` | the request list; the `rl_start` that `request_list_clear` has read before it stops the thread |
| `thread`, `tspec`, `launched`, `cancelled` | the request thread, how long it sleeps, `thread_is_launched`, `pthread_cancel` |
| `stray`, `lost` | whether its cursor in the variables, or one of its two in the requests, is dangling |
| `hupped` | history: a `SIGHUP` came and no file was read since |

The grain is one function of the clean-up, one handler of the daemon, one part of the
thread's loop. That is where signals and the cancellation are observed: `select`,
`nanosleep`, sends. Within a handler the detail is in `Requests` and `Daemon`. A signal goes to either
thread (`SignalMain`, `SignalThread`); it may come between the test of the flags and
`select`, and is then noticed with the next activity of a client. `create_tcp_listener`
calls `bind` before it sets `SO_REUSEADDR`, so that `Listen` fails while a connection
lingers. `Crash` is the use of freed memory: in the clean-up, which stops the modules before it stops the
thread that uses them, and in a walk during which a drop frees the node the thread stands at or has saved
(`lost`, request.c:156); it may also go unnoticed. `Wake` is `nanosleep`: with a negative time, which
`request_handler_sleep_setup` takes from the file as it is, it fails at once and the thread ends. (A time that no
`int` holds is not among the inputs.)

### Mpd and Methods

`mpc` is where `run_cron` is; `sock[s]` has the two ends of a connection: what was asked
of the server, what it has sent, whether it has hung up. A reply stands for the lines the module keeps, and
is the song that was playing when it was given. The welcome and every reply come in one piece or in two
(`Hello`, `Answer`), and a `recv` takes any number of the pieces that
have arrived; `torn` is history: it has left a part of a reply. `resolved` is whether
`gethostbyname` found the host, which is tried once. Without it the address is of the family `AF_UNSPEC`,
with which `connect` succeeds and connects nothing (`Connects`). `start_connection` ends its text at
the index that `recv` returned, -1 after an error and 32 for a full buffer (mpd.c:369), both outside the array; this write is
left out.

`heap` is what the texts that are handed out are made of, `later` the free list, `batt` the
list of batteries with the cells of their cached charges, `ret` what a method has returned until it
was sent. A visit of the request thread is a method (`CallBattery`, `CallMpd`) and
`UpdateStat`, which sends and clears the free list. `used` says which of the two modules a
behaviour is about: they share nothing but the free list, and it is empty between two visits, so
that one at a time loses nothing. The main thread unloads a module at any time, also while a text is being
sent (`DestroyBattery`) and in the midst of a pass, which then goes on with fresh statics or ends the process
(`ModuleDestroy`, `"gone"`). A method and the cron job of the battery are one step each: unloading in the midst of a call
is the subject of `RequestThreads`. `heard` and `seen` are history: the songs of the last pass and of the replies it found
left over, and what a battery's file has said since the cron job. /sys is external.

### Scrobbler

`last`, `shaked`, `session` are the statics; `call` the arguments of the running
`scrob_urself`; `sock` and `inner` the socket variables of `scrob_urself` and
`scrob_send_submission`, which the retry makes different; `owner` the descriptor
table, in which the main thread takes and frees numbers at any time. MPD reports any
track at any elapsed time within it, or without its times, when `status` was not answered. The text of a post, MD5 and URL encoding are
abstracted; every track has an artist and a title. `heard` and `failed` are history.

## 3. What is checked

| run | instance | shows |
|---|---|---|
| `requests` | 2 connections, 2 requests, one module with a text and a cron job, `dlopen` may fail, both threads fair | `TypeOK ClientsCount ListIsLive ReqConnAlive NoStaleCode RequestedIsLoaded OnceAnswered OnceLeaves DropEnds` |
| `threads` | 1 connection, 2 requests, calls exclusive | `Implements`: the order of the code's reads and writes has the effect of `Requests` |
| `threads_add` | 2 connections, 3 `var` requests, no lock, nobody leaves | `CountAtRest CallIsMapped ListIsLinked` |
| `daemon` | 2 client nodes, 2 client descriptors, a password, at most 2 lines per client, `bye` in pieces, the main thread fair | `TypeOK SelectWatchesAll RecvNeverBlocks AuthGate HangupIsNoticed` |
| `lifecycle` | 1 client, 2 requests, 2 modules and an object that is none, 3 files, one with a negative `global_sleep`, any signals | `TypeOK RegistryWhole TimeoutsHold LookupIsFirst ThreadWithinRun ThreadServes ReloadNotLost NothingLeftBehind FlagHeeded` |
| `methods` | 2 batteries asked for by 3 spellings, 5 cells; 2 descriptors, 2 songs, replies in pieces; both threads and MPD fair | `TypeOK HeldOnce BattFresh NoOldReply ShowsThisPass NoLiveAbandoned CronReturns Recovers` |
| `scrobbler` | 2 tracks (180 s, 600 s), 2 descriptors | `TypeOK OncePerSong SessionWhole UrselfReturns` |

Bounds. Two request cells give a first and a last node, a walk whose next node is removed
under it, and a module counter of 0, 1 and 2; the third, a middle node, is in `threads_add`,
and the invariants of both runs, but for `CountAtRest`, are proved for every number of cells. `OnceLeaves` holds
for two cells also without its condition (see fairness): only with three can the node that a walk has saved be freed and appended again
behind requests which the walk has not come to. That instance, with one connection and one text (in
`MCRequests.cfg` `Reqs = {r1, r2, r3}`, `Conns = {c1}`, and `Vars <- JustTitle`, `Parent <- OwnerJust`,
`Kind <- KindJust`, `Timeout <- TimeoutJust`, `Values <- SteadyJust`), satisfies every property of the run as well,
and violates `OnceLeaves` when the condition is left out; with the
second connection it is too large for a run. Cells, nodes and
descriptors are reused, so that runs have no bound on their length. One module with
two variables has the sibling that `module_var_cron_init` also resolves; that
modules do not disturb one another is in the theorems, which hold for any number. In `Daemon` two lines per client are enough to
authenticate and then ask, or to ask and leave, within one buffer or two. The `pass` line holds the right password and more words
behind it; a `pass` with a wrong one is, until the client is authenticated, the same as a `var`. A line that comes in
pieces is a `bye` (`Splits`). 0 and 1 requests per connection (0 to 2 in `bye_then_var`) tell
whether there is one to remove. `Pieces` = 3 bounds what may wait on a connection to MPD: a torn reply and another. In
`Scrobbler` the times 0, 90, 240 are below, at half of and beyond the thresholds of
the two tracks; two descriptors are enough for the main thread to take the one
that was just closed. In `lifecycle` two requests are enough for one that leaves and one that stays, on one variable or
two, while everything is cleared; one client is there or not, or has hung up; between the
three files a section is opened twice under another case, a key is set twice, set to nothing,
set before any section or alone on its line, and the timeouts of a variable appear, change and
go. In `methods` a cell is free whenever one is needed (two batteries hold
two each and one text is being sent); the spellings "0" and "00" name one battery, of which
only the first is a directory; with two descriptors a third connection is refused. At most one
foreign line of `strtok` comes into a buffer. `CHECK_DEADLOCK FALSE` is set where `crashed` stops the
model or the clients' bound is used up.

Fairness. `Requests.Fairness` is weak fairness of the two threads: the operating
system schedules both, neither blocks on the other, and a drop or a walk is never
waiting for a client (sends are assumed not to block for ever). `Daemon.FairSpec` is weak fairness
of the main thread, which waits only in `select`. `Scrobbler.FairSpec` is weak fairness
of the running call: it assumes that a server that is asked answers or hangs up, because `recv` has
no timeout. In `Requests` and `Scrobbler` nothing is
assumed of clients, but `OnceLeaves` states a condition: the thread's walks come to an end (`WalksEnd`), or no drop
frees the node under the cursor (`NeverDiverted`). With neither, a diverted cursor follows the nodes
that clients append, and as long as they append `varonce` requests as fast as the thread answers them, the
walk has no end and a request that it was led past stays unanswered.
`Lifecycle.Fairness`: both threads run, and a traversal of the connections ends; the thread that was
cancelled reaches a cancellation point, because each part of its loop ends. No client need ever do
anything, so that `FlagHeeded` begins where the flags are tested next. `Methods.FairSpec`:
weak fairness of a pass that has begun and of `UpdateStat`; strong fairness of `RunCron`,
which is disabled during each visit, because each round of the loop begins with the cron jobs;
MPD answers what it was asked and hangs up on a client that waits and has asked nothing (its
connection timeout). `Recovers` also assumes, in the property, that MPD stays up and keeps its connections, that
its host was found, that a descriptor is left, that the module stays loaded, and that no `recv` has torn a reply.

Where the code departs from what its comments or PROTOCOL say, a run shows a behaviour:

| run | property | what happens |
|---|---|---|
| `first_answer` | `FirstAnswer` | the checksum of the last value is kept per variable (request.c:181,188), so the second client that asks for an unchanged variable receives nothing |
| `count_race` | `CountAtRest` | `clients++` and `clients--` interleave, and the counter no longer is what module.h:29 says |
| `bye_then_var` | `SubscriberAlive` | a `var` behind a `bye` in one buffer leaves a request whose `conn` is the node that `bye` has freed (protocol.c:171); a later client that gets this node also gets the request |
| `submit_unplayed` | `SubmitEarned` | a track skipped at once is submitted, judged by the elapsed time of the one before |
| `close_foreign` | `ClosesItsOwn` | after a refused post the scrobbler closes a number that has become a client's |

Five more departures were met and show in an action or in the condition of a property:

- `DestroyBattery`: `get_battrem` hands out the cached text itself (battery.c:125). When the main thread removes the last
  request for the module while the request thread sends that text, `module_destroy` frees it (battery.c:70). `HeldOnce`
  says what remains true: the text is freed once, and what a method has copied for a visit stays.
- `Answer`, `Hello`: `start_connection`, `pop_status` and `pop_currentsong` call `recv` once and take what it brings for the whole (mpd.c:192,
  234, 368). After a welcome or a reply that came in two pieces each `recv` may take the piece before, and
  a pass may show no song although the connection stays up. `NoOldReply` therefore speaks of connections on which no
  `recv` has torn a reply, and `Recovers` of replies that are not torn.
- `Listen`: net.c:102 sets `SO_REUSEADDR` "needed for reloads and such" after `bind`, where it
  has no effect on it. A reload with a client that donky has closed first ends the process. `FlagHeeded` therefore
  says "read the file or exited".
- `Recovers` needs `resolved`: `init_settings` runs once (mpd.c:152), and a host that was not found then is
  not looked up until the module is loaded again. It also needs a descriptor:
  `start_connection` (mpd.c:353) forgets the old one without closing it.
- `ThreadServes` is about files without a negative `global_sleep` (`Undisturbed`): with one the thread serves
  once and ends, and clients that are accepted afterwards get nothing.

The mutants in PROJECT.json (`..._unflagged`, `AlmostLastClient`, ...) are faulty
variants of definitions, defined next to the right ones and used by no
specification; each property is violated when its variant takes the place of the original.

## 4. What is proved

### Requests

`RequestsProofs` proves for all sets of connections, modules and variables, every
finite set of cells and all timeouts and values, under the named assumptions of
`Requests` (`NoneAssumption`, `ModulesAssumption`, `ReqsAssumption`):

| theorem | statement |
|---|---|
| `TypeCorrect` | `Spec => []TypeOK` |
| `ClientsCounted` | `Spec => []ClientsCount` |
| `CodeIsMapped` | `Spec => []NoStaleCode` |
| `RequestsAreLoaded` | `Spec => []RequestedIsLoaded` |
| `ListHoldsTheLive` | `Spec => []ListIsLive` |
| `ConnectionsOutliveRequests` | `Spec => []ReqConnAlive` |
| `OnceIsAnswered` | `Spec => OnceAnswered` |

They follow from one inductive invariant, `All == Inv /\ Counts /\ ReqConnAlive`.
None of the six invariants is inductive alone. That a removal unlinks the right node needs the
list to hold each live node once (`ListIsLive`), and the walk's cursor to be a cell
with a variable (`CurOK`, `NextOK`, `LiveOK` in `Inv`), since a stale cursor runs the same code.
That unloading leaves nothing stale needs the counter to be the cardinality of the
module's requests, so that it reaches zero exactly with the last one
(`ClientsCount` with `NoStaleCode` and `RequestedIsLoaded`, in `Counts`). The proof has one
lemma per kind of step: `AddInv`, `AddType` for `request_list_add`; `RemoveInv`, built
from `RemovedNode`, `RemoveModules`, `RemoveList` and `RemoveCounts`, for
`request_list_remove`, which both threads call; `UpdateStatInv` for an iteration;
`KeepsList` and `KeepsNodes` for steps that leave the list or the nodes alone.
The action property follows because a step ends the life of one node at most: an
iteration that of its own cursor (`UpdateStatLeaves`), a drop that of a node of the dropped
connection.

What the theorems say of the program rests on the grain of `Requests`: calls of the
two threads do not overlap. The run `threads` checks that the code then does what
`Requests` says; the run `count_race` shows that without a lock it need not.

### RequestThreads

`RequestThreadsProofs` proves for every set of connections, modules and values, every finite set of cells and
variables, and with or without a lock (`CellsAssumption`, `VarsAssumption`, `SwitchesAssumption`):

| theorem | statement |
|---|---|
| `ListLinked` | `OnlyArrivals /\ Spec => []ListIsLinked` |
| `CallsMapped` | `OnlyArrivals /\ Spec => []CallIsMapped` |
| `NeverCrashes` | `OnlyArrivals /\ Spec => []~crashed` |

`OnlyArrivals` is the instance of the run `threads_add` for every size: nobody leaves
(`Leave = FALSE`), clients use `var` alone (`Onces`), every module can be opened
(`Unreliable = {}`). Requests then arrive through `request_list_add` in the main thread while
the request thread walks, and calls overlap at each read and write. The hypothesis is needed:
once something is removed, two threads write `clients` and the pointers (`count_race`). So the theorems say
where the missing lock does no harm: the request thread reads each pointer, flag and symbol while the main
thread writes it. That the counter is right when only one thread writes it is checked (`threads_add`) and not worth a theorem.

The inductive invariant is `Growing`: some sequence of cells follows `next` from `rl_start`
and `prev` back (`Linked`, which has a case for the node that `next` reaches and `rl_end` does not yet);
a symbol is there before the flag that admits callers to it (`Mapped`). The sequence
is the one that `Chain` reads (`ChainAlong`), which is defined by recursion on
the number of cells: what holds of every number is proved by the least one it fails of (`LeastNat`, from
the well-foundedness of the naturals).

### Daemon

`DaemonProofs` proves for every finite set of nodes and descriptors, every password, set of
lines and bound, with pieces of lines and foreign lines of `strtok` (assumptions `NodesAssumption`, `FdsAssumption`,
`LinesAssumption`, `BoundsAssumption`):

| theorem | statement |
|---|---|
| `TypeCorrect` | `Spec => []TypeOK` |
| `EveryConnectionIsWatched` | `Spec => []SelectWatchesAll` |
| `OnlyWhoKnowsThePassword` | `Spec => []AuthGate` |
| `TheMainThreadNeverBlocks` | `Spec => []RecvNeverBlocks` |

The first two follow from `Inv == Table /\ Place /\ Cursor`. `Table` adds to
`SelectWatchesAll` that no node is twice on the list and no two nodes share a socket, without
which removing a node's socket from the set could remove another's; `Cursor` adds that the traversal
stands at a live node or, after a handler freed its own, at one whose remembered successor is live. That the largest
descriptor exists after a drop is `LargestExists`, by well-founded choice of the element with the
fewest above it, since the library's induction over finite sets takes an operator.

`AuthGate` follows from `Served == Inv /\ Gate`, which follows a password from the moment it is said: a
line that will match is earned where it waits (`SentProves`) and where it is handled (`Earned`,
with `MatchProves`: what `%63s` keeps is the password only if the client sent it). A buffer whose own `bye` has
freed the node goes on to write into that node, but the node is off the list until a client is accepted, which cannot
be before the buffer is used up, and `donky_conn_add` then clears it. What such a buffer does to the requests is
another matter: `SubscriberAlive` fails (`bye_then_var`).

`RecvNeverBlocks` follows from `Ahead == Inv /\ ListenerFirst /\ Reached`. What `select`
reported is true of a descriptor as long as its owner is the one it was reported for. A client is
accepted when the traversal stands at the listener, which is the first of the list
(`ListenerFirst`), so before it has closed any descriptor that was reported; and whatever is
still to be visited (`From`) and was reported still has something to receive (`Reached`), although the
node at the cursor may have been freed and give its place to the one it goes on to (`Shifted`).

### Lifecycle

`LifecycleProofs` proves for every configuration, every set of objects, every number of clients and
requests, and signals at any point:

| theorem | statement |
|---|---|
| `ThreadBelongsToItsRun` | `Spec => []ThreadWithinRun` |
| `RunKeepsItsThread` | `Spec => []ThreadServes` |
| `NoReloadIsLost` | `Spec => []ReloadNotLost` |

The invariant `Control` holds the control of the two threads and nothing of the lists. It
strengthens `ReloadNotLost` to all places from the reading of the file on (`HupFlagged`), because the
flag is cleared just before the next file is read and a signal in between must be covered by
that file; and it says that a thread is cancelled only where it is about to be joined (`CancelledOnce`,
`Joined`), because a thread that serves ends only by a cancellation, a signal, or a time to sleep that `nanosleep`
refuses; that time is the one of the file this run has read (`SleepsAsWritten`, `CfgOfFile`).

`RegistryProofs` goes on from there to what a run reads and builds, for every file, every order in
which `readdir` finds the objects, every set of objects, variables and defaults, and any number of
reloads, loads and unloads (`CfgAssumption`, `NullAssumption`, `RegistryAssumption`, `LifecycleAssumption`; the
last says that the orders are sequences of objects):

| theorem | statement |
|---|---|
| `FirstLineAnswers` | `Spec => []LookupIsFirst` |
| `TimeoutsAreWritten` | `Spec => []TimeoutsHold` |
| `NothingIsLeftBehind` | `Spec => []NothingLeftBehind` |
| `ListsStayWhole` | `OwnNames /\ Spec => []RegistryWhole` |
| `LifecycleTypes` | `OwnNames /\ Spec => []TypeOK` |

`parse_cfg`, `module_load_all` and the walks that remove requests are folds, and the induction theorems of the library
cannot be used, because they take an operator. A fold has instead a function of its steps
(`FoldIsThere`, `Folds`), and what holds at each step is the *set* of the numbers of steps after which it
holds (`AlongTheList`, `Iterates`); with those, the proofs go along a list of any length.

For `FirstLineAnswers` the lists that the lines read so far have built are compared with those
lines, section by section and key by key (`ParsedWell`), and from that a lookup in the lists with a
search in the lines (`AnswersWell`). The others follow from `Sane`, which is
`Control` with what the lists hold: `ConfigOK` (the lists are what the file gives), `ListsOK`
(one node for each name, each variable given by an object that registers it, with a module of its own:
`Whole`), `RequestsOK` (a request is for a variable there is), `ClientsOK` and `CursorsOK` (a stray
cursor is that of a cron pass which the clean-up came upon, a lost one that of a walk, and `rl_start` is held only
while the thread is waited for and the nodes are freed). `Whole` is kept by `Grown`,
`Reloaded`, `Shut`, `Added` and `Lost`, one for each thing module.c does to the lists.

That what has no client is unloaded, in `RegistryWhole`, needs the counts: `ClientsCounted` says that a
module counts the requests for its variables. It holds under `OwnNames`: no two modules register
a variable of one name. The modules under src/src/modules do not. The code does
not enforce it: `module_var_add` gives the node of a variable to the module that registered it last
(module.c:91), and the requests that were counted for the other module would be taken off this one's
count. The counts being naturals is also the one part of `TypeOK` that needs it.

### Methods and Mpd

`MethodsProofs` proves for every set of descriptors and songs, a server that answers in one piece or two, hangs
up, closes and restarts at any point, and a main thread that unloads the module at any point:

| theorem | statement |
|---|---|
| `NoConnectionIsAbandoned` | `Spec => []NoLiveAbandoned` |
| `OneReplyPerCommand` | `Spec => []NoOldReply` |
| `NothingOldIsShown` | `Spec => []ShowsThisPass` |

The first follows from `Kept`: a connection is made only where there is none, or one the server
has reset (`OneAtATime`). The second follows from `Asked == Kept /\ Exchange`: as long as no `recv` on the
connection has torn a reply, what is under way on it is nothing, the welcome, or the one
command or its reply, in one piece or in two (`OnTheirWay`). The third follows from `Told == Kept /\ HeardAll /\ Fresh`:
every piece that waits for a pass was found by it or told since it began (`HeardAll`), and `Fresh` says that what a pass
has learnt was among those; before `mpd_free_everythang` nothing is claimed of what
the module remembers (`Learning`).

`HeapProofs` proves of the free list and the battery module, for every set of spellings, any number of
batteries behind them and any charges, with the module unloaded at any time:

| theorem | statement |
|---|---|
| `EveryTextHasOneHolder` | `Spec => []HeldOnce` |
| `AnswersAreFresh` | `Spec => []BattFresh` |
| `TypeCorrect` | `Spec => []TypeOK` |

They follow from `Heaped`. Its part `Nodes` says that the cells in use are those that a battery or
the free list holds, that none is held in two places (`Owned`, `Separate`), that a number has one node, and
that a cached text is one the file has said since the cron job (`Says`). `Sent` ties the answer being
sent to its cell; a copy that a method made is held by the free list, which unloading the module
does not touch. `malloc` must find a cell: `HeapAssumption` gives the heap more cells than twice the number of batteries, and `FreeCellThere` shows by counting that one is free whenever a method asks, since each
battery keeps two texts at most and the free list was cleared after the last visit. A heap that runs
out is not modelled (the code does not test the result of `malloc`). `Counted` adds to `TypeOK` that `run_cron` starts over three
times at most (mpd.c:185).

### Scrobbler

`ScrobblerProofs` proves for every set of tracks, lengths, times and descriptors, whatever the
server answers and the main thread opens and closes:

| theorem | statement |
|---|---|
| `TypeCorrect` | `Spec => []TypeOK` |
| `TriedOncePerSong` | `Spec => []OncePerSong` |
| `SubmittedUnderAWholeSession` | `Spec => []SessionWhole` |

`Spared` follows the track that failed through the call: it is the one being handled, and,
because `scrob_urself` remembers a track also when it could not reach the server, afterwards the last one.
`Whole` says that the flag is up wherever a submission is about to be posted, also
between the attempts of a retry.

### Only model-checked

Liveness (`OnceLeaves`, `DropEnds`, `HangupIsNoticed`, `UrselfReturns`, `FlagHeeded`,
`CronReturns`, `Recovers`): liveness under fairness is outside what TLAPS can do.
Every invariant and action property of a passing run is stated by a theorem, with two exceptions. `CountAtRest` in `threads_add` is
sequential arithmetic there. The refinement `Implements` of the run `threads` is in reach of the provers and open: besides the invariants above it takes, for
`Exclusive = TRUE`, the effect of each call from its first step to its last, with removals.

The theorems about `RequestThreads` are for arrivals only; with removals and no lock `CountAtRest` fails (`count_race`).

## 5. What is not modelled, and the plan

Done: `Requests`, `RequestThreads`, `Daemon`, `Scrobbler`, `Cfg`, `Registry`, `Lifecycle`, `Mpd`, `Methods`,
and the proofs of section 4. Next, in this order:

1. The step simulation behind `Implements`: an invariant that, while a call runs alone, gives the
   shared state as a function of `before` and of where the call is.
2. A composition of `Daemon` with `Requests`, in which descriptors are numbers, for the
   window between `close` and the removal of the requests in `donky_conn_drop`.
3. What a post of the scrobbler contains, for the retry that posts the old session.

Out of scope, and why:

- modules/eeebl.c: its cron job keeps a pointer into the stack frame of `get_cur_bl` and frees it
  the next time (eeebl.c:137); from then on anything is a behaviour of it.
- modules/date, exec, moc, pcpuinfo, scpuinfo, sysinfo, volume, weather, wifi: input and output. Each call reads a file, a process or
  an interface and formats a value; `Requests` models what they return by `Values`.
- util.c and the formatting of net.c: bounded copies, trims and encodings of character arrays, which keep no state.
- modules/extra/md5.c: third-party code.
- `sscanf` itself (a line is what its scans make of it), the command line, the build.
