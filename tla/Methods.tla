------------------------------ MODULE Methods ------------------------------
(***************************************************************************)
(* What a method of a module hands to the request thread, and who frees    *)
(* it: the deferred free list of mem.c, the battery module, and the text   *)
(* and time getters of mpd.  A visit of request_handler_exec calls one     *)
(* method, sends what it returned and clears the list.                     *)
(*                                                                         *)
(* Modules share nothing but that list, which is empty between two visits, *)
(* so a behaviour is about one of them.  A text is what it says; the files *)
(* under /sys are external.  malloc does not fail.                         *)
(***************************************************************************)
EXTENDS Mpd, SequencesExt

CONSTANTS
    Cells,       \* the heap, as far as texts go
    Spellings,   \* what clients write as the number of a battery
    Number,      \* Number[a]: what strtol makes of it
    Batteries,   \* the spellings that name a directory of /sys
    Charges,     \* what a battery's charge_now may say
    Full         \* what charge_full says

ASSUME MethodsAssumption ==
    /\ IsFiniteSet(Cells) /\ None \notin Cells
    /\ Batteries \subseteq Spellings /\ Number \in [Spellings -> Nat]
    /\ Charges \subseteq Nat /\ Full \in Nat \ {0}

VARIABLES
    used,        \* the module that has clients, "mpd" or "battery"
    heap,        \* heap[c]: the text in cell c, None when it is free
    later,       \* mem_start .. mem_end: cells to free after the visit
    batt,        \* batt_ls
    ret,         \* what the method returned, while it is being sent
    charge,      \* charge[a]: what the file of a says, None without one
    seen         \* history: what it has said since batt_cron last ran

methodVars == <<used, heap, later, batt, ret, charge, seen>>
allVars == <<mpdVars, methodVars>>

(* A node of batt_ls: its files are those of the spelling that added it.   *)
Batt == [spelling : Spellings, remaining : Cells \cup {None},
         maximum : Cells \cup {None}]

Percent(x) == (100 * x) \div Full
Numbers == Charges \cup {Full, 0} \cup {Percent(x) : x \in Charges}
Text == Numbers \cup Songs

(* The heap has a cell for both texts of every battery, and one more.      *)
ASSUME HeapAssumption ==
    /\ None \notin Text /\ IsFiniteSet(Spellings)
    /\ 2 * Cardinality({Number[a] : a \in Spellings}) < Cardinality(Cells)

(* What is being sent: a cell, or a text of no cell (NA: "n/a"), and what  *)
(* it was that the method answered of: a node as it was, or None.          *)
NA == None
Nothing == [cell |-> None, text |-> NA, method |-> "none", of |-> None]

TypeOK ==
    /\ MpdTypeOK
    /\ used \in {"mpd", "battery"}
    /\ heap \in [Cells -> Text \cup {None}]
    /\ later \in Seq(Cells)
    /\ batt \in Seq(Batt)
    /\ charge \in [Spellings -> Charges \cup {None}]
    /\ seen \in [Spellings -> SUBSET (Charges \cup {None})]
    /\ ret \in [cell : Cells \cup {None}, text : Text \cup {NA},
                method : {"none", "per", "rem", "max", "bar", "tag", "time"},
                of : Batt \cup {None}]

Init ==
    /\ MpdInit
    /\ used \in {"mpd", "battery"}
    /\ heap = [c \in Cells |-> None] /\ later = <<>> /\ batt = <<>>
    /\ ret = Nothing
    /\ charge \in [Spellings -> Charges \cup {None}]
    /\ \A a \in Spellings \ Batteries : charge[a] = None
    /\ seen = [a \in Spellings |-> {charge[a]}]
-----------------------------------------------------------------------------
(* mem.c                                                                   *)

(* strdup: the heap with the text in a free cell.                          *)
FreeCell(h) == CHOOSE c \in Cells : h[c] = None
Dup(h, text) == [h EXCEPT ![FreeCell(h)] = text]
FreeAll(h, cells) == [c \in Cells |-> IF c \in cells THEN None ELSE h[c]]

(* m_strdup and m_malloc: a new cell that is freed after the visit.  The   *)
(* faulty one does not enter it in the list.                               *)
m_strdup_kept(h, text) == heap' = Dup(h, text) /\ UNCHANGED later
m_strdup(h, text) == heap' = Dup(h, text) /\ later' = Append(later, FreeCell(h))

(* mem_list_clear.  The faulty one does not forget the list.               *)
mem_list_clear_again == heap' = FreeAll(heap, ToSet(later)) /\ UNCHANGED later
mem_list_clear == heap' = FreeAll(heap, ToSet(later)) /\ later' = <<>>
-----------------------------------------------------------------------------
(* battery.c                                                               *)

(* get_charge: the heap with what the file says, and where; NULL without   *)
(* one.                                                                    *)
get_charge(h, text) ==
    IF text = None THEN [heap |-> h, ptr |-> None]
    ELSE [heap |-> Dup(h, text), ptr |-> FreeCell(h)]

(* add_batt: the maximum is read now, from the file of this spelling.      *)
add_batt(a) ==
    LET max == get_charge(heap, IF charge[a] = None THEN None ELSE Full) IN
    [heap |-> max.heap,
     batt |-> Append(batt, [spelling |-> a, remaining |-> None,
                            maximum |-> max.ptr])]

(* prepare_batt: the first node with the number, or a new one, with its    *)
(* remaining charge read unless it still has one.  The faulty one reads it *)
(* every time.                                                             *)
Known(a) == {i \in DOMAIN batt : Number[batt[i].spelling] = Number[a]}
Prepared(a, again) ==
    LET i == IF Known(a) = {} THEN Len(batt) + 1 ELSE Min(Known(a))
        with == IF Known(a) = {} THEN add_batt(a) ELSE [heap |-> heap, batt |-> batt]
        now == get_charge(with.heap, charge[with.batt[i].spelling])
    IN IF with.batt[i].remaining # None /\ ~again
       THEN [heap |-> with.heap, batt |-> with.batt, i |-> i]
       ELSE [heap |-> now.heap, batt |-> [with.batt EXCEPT ![i].remaining = now.ptr],
             i |-> i]
prepare_batt_again(a) == Prepared(a, TRUE)
prepare_batt(a) == Prepared(a, FALSE)

Returns(cell, text, method, of) ==
    ret' = [cell |-> cell, text |-> text, method |-> method, of |-> of]
Node(p) == p.batt[p.i]

(* The text of remaining or maximum is handed out itself, not a copy.  The *)
(* faulty one has it freed after the visit.                                *)
get_batt_freelater(method, p, ptr) ==
    /\ heap' = p.heap
    /\ later' = IF ptr = None THEN later ELSE Append(later, ptr)
    /\ Returns(ptr, IF ptr = None THEN NA ELSE p.heap[ptr], method, Node(p))
get_batt(method, p, ptr) ==
    /\ heap' = p.heap /\ UNCHANGED later
    /\ Returns(ptr, IF ptr = None THEN NA ELSE p.heap[ptr], method, Node(p))

get_battrem(p) == get_batt("rem", p, Node(p).remaining)
get_battmax(p) == get_batt("max", p, Node(p).maximum)

(* The ratio in percent, as a new text or as a number.                     *)
Unknown(b) == b.remaining = None \/ b.maximum = None
Ratio(p) == Percent(p.heap[Node(p).remaining])

get_battper(p) ==
    IF Unknown(Node(p))
    THEN heap' = p.heap /\ UNCHANGED later /\ Returns(None, NA, "per", Node(p))
    ELSE /\ m_strdup(p.heap, Ratio(p))
         /\ Returns(FreeCell(p.heap), Ratio(p), "per", Node(p))
get_battbar(p) ==
    /\ heap' = p.heap /\ UNCHANGED later
    /\ Returns(None, IF Unknown(Node(p)) THEN 0 ELSE Ratio(p), "bar", Node(p))

Visiting == mpc = "idle" /\ ret = Nothing

CallBattery(a) ==
    /\ used = "battery" /\ Visiting
    /\ LET p == prepare_batt(a) IN
       /\ batt' = p.batt
       /\ get_battper(p) \/ get_battrem(p) \/ get_battmax(p) \/ get_battbar(p)
    /\ UNCHANGED <<mpdVars, used, charge, seen>>

(* batt_cron.  The faulty one frees and keeps the pointers, or keeps what  *)
(* it has.                                                                 *)
Remainings == {batt[i].remaining : i \in DOMAIN batt}
Emptied == [i \in DOMAIN batt |-> [batt[i] EXCEPT !.remaining = None]]

batt_cron_dangling == heap' = FreeAll(heap, Remainings) /\ UNCHANGED batt
batt_cron_idle == UNCHANGED <<heap, batt>>
batt_cron == heap' = FreeAll(heap, Remainings) /\ batt' = Emptied

BattCron ==
    /\ used = "battery" /\ Visiting
    /\ batt_cron
    /\ seen' = [a \in Spellings |-> {charge[a]}]
    /\ UNCHANGED <<mpdVars, used, later, ret, charge>>

(* module_destroy, and the init_batt_list of the next module_init.  The    *)
(* main thread unloads the module when it drops the last client, also      *)
(* while the request thread sends what a method has returned.              *)
DestroyBattery ==
    /\ used = "battery"
    /\ heap' = FreeAll(heap, Remainings \cup {batt[i].maximum : i \in DOMAIN batt})
    /\ batt' = <<>>
    /\ UNCHANGED <<mpdVars, used, later, ret, charge, seen>>

(* /sys: a battery drains, charges, or is taken out or put in.             *)
Drains(a, x) ==
    /\ used = "battery" /\ a \in Batteries /\ charge[a] # x
    /\ charge' = [charge EXCEPT ![a] = x]
    /\ seen' = [seen EXCEPT ![a] = @ \cup {x}]
    /\ UNCHANGED <<mpdVars, used, heap, later, batt, ret>>
-----------------------------------------------------------------------------
(* The getters of mpd.c: a tag, from the module's own memory, or a time,   *)
(* which is a new text unless it is zero or not known.                     *)
CallMpd ==
    /\ used = "mpd" /\ Visiting
    /\ \/ /\ UNCHANGED <<heap, later>>
          /\ Returns(None, mpdinfo["currentsong"], "tag", None)
       \/ UNCHANGED <<heap, later>> /\ Returns(None, NA, "time", None)
       \/ /\ mpdinfo["status"] # None
          /\ m_strdup(heap, mpdinfo["status"])
          /\ Returns(FreeCell(heap), mpdinfo["status"], "time", None)
    /\ UNCHANGED <<mpdVars, used, batt, charge, seen>>

(* UPDATESTAT, once the answer is sent.                                    *)
UpdateStat ==
    /\ ret # Nothing
    /\ mem_list_clear
    /\ ret' = Nothing
    /\ UNCHANGED <<mpdVars, used, batt, charge, seen>>
-----------------------------------------------------------------------------
OfMpd(A) == used = "mpd" /\ ret = Nothing /\ A /\ UNCHANGED methodVars
MpdCron == OfMpd(Cron)
MpdDestroy == used = "mpd" /\ ModuleDestroy /\ UNCHANGED methodVars
MpdServer == used = "mpd" /\ Server /\ UNCHANGED methodVars

Next ==
    \/ MpdCron \/ MpdDestroy \/ MpdServer
    \/ CallMpd \/ UpdateStat
    \/ BattCron \/ DestroyBattery
    \/ \E a \in Spellings : CallBattery(a)
    \/ \E a \in Spellings, x \in Charges \cup {None} : Drains(a, x)

Spec == Init /\ [][Next]_allVars

(* The request thread runs, and each round of its loop begins with the     *)
(* cron jobs; MPD answers what it was asked, and hangs up on a client that *)
(* waits without having asked.                                             *)
HangsUpOnWaiting == mpc = "recv" /\ \E s \in Socks : s = mpd_sock /\ HangsUp(s)

FairSpec ==
    /\ Spec
    /\ SF_allVars(OfMpd(RunCron)) /\ WF_allVars(OfMpd(mpc # "idle" /\ Cron))
    /\ WF_allVars(UpdateStat)
    /\ WF_allVars(OfMpd(Answers)) /\ WF_allVars(OfMpd(HangsUpOnWaiting))
-----------------------------------------------------------------------------
(* Every cell in use is held once, by a battery or by the free list: no    *)
(* text leaks and none is freed twice (mem.c:126, battery.c:61 and :84 are *)
(* the three that free).  And what a method has copied for a visit is      *)
(* there until the visit ends, although the module may be unloaded before. *)
Holders(c) ==
    {<<"remaining", i>> : i \in {j \in DOMAIN batt : batt[j].remaining = c}}
    \cup {<<"maximum", i>> : i \in {j \in DOMAIN batt : batt[j].maximum = c}}
    \cup {<<"later", i>> : i \in {j \in DOMAIN later : later[j] = c}}

HeldOnce ==
    \A c \in Cells :
        /\ Cardinality(Holders(c)) = IF heap[c] = None THEN 0 ELSE 1
        /\ ret.cell = c /\ ret.method \in {"per", "time"} => heap[c] = ret.text

(* What a method of the battery answers, its file has said since batt_cron *)
(* last ran, and "n/a" is answered of a file that was missing then, or     *)
(* when the battery was first asked for (battery.c:193, :219).             *)
Shown(x, b) ==
    CASE ret.method = "rem" -> x
      [] ret.method = "max" -> IF b.maximum = None THEN NA ELSE Full
      [] OTHER -> IF x = None \/ b.maximum = None
                  THEN IF ret.method = "bar" THEN 0 ELSE NA
                  ELSE Percent(x)

BattFresh ==
    used = "battery" /\ ret # Nothing =>
        \E x \in seen[ret.of.spelling] : ret.text = Shown(x, ret.of)

(* A connection that is up has no reply outstanding between two passes,    *)
(* so the next pass reads replies to its own commands (mpd.c:192, :234),   *)
(* as long as no recv on it has returned with a part of a reply.           *)
NoOldReply ==
    mpc = "idle" =>
        \A s \in Socks : s = mpd_sock /\ sock[s].peer = "up" /\ ~sock[s].torn
                            => sock[s].asked = <<>> /\ sock[s].inbox = <<>>

(* What the getters show between two passes was playing during the last    *)
(* one, or was told by a reply that this pass found left over: nothing is  *)
(* kept from an earlier pass, although a pass may lose its server anywhere *)
(* (mpd.c:160).                                                            *)
ShowsThisPass ==
    mpc = "idle" => \A c \in Commands : mpdinfo[c] \in heard \cup {None}

(* A connection that the server still keeps is the module's own: what      *)
(* start_connection overwrites has been closed by the server (mpd.c:353).  *)
NoLiveAbandoned ==
    \A s \in Socks : s # mpd_sock /\ sock[s].open => sock[s].peer # "up"

(* A pass returns to the request thread, whatever the server does          *)
(* (mpd.c:185 to :192): at most three new connections, and a recv that     *)
(* the server ends when nothing was asked; unless the module is unloaded   *)
(* under it.                                                               *)
CronReturns == mpc # "idle" ~> mpc \in {"idle", "gone"}

(* Once MPD stays up and keeps its connections, its host was found and a   *)
(* descriptor is free, passes show a song again, without a reload          *)
(* (mpd.c:157, :187), unless a recv has torn a reply: mpd.c:147 says of    *)
(* every pass that it is to "gather MPD status and current song            *)
(* information".                                                           *)
Settled ==
    /\ used = "mpd" /\ mpc # "gone" /\ up /\ resolved
    /\ \E s \in Socks : Unused(s)
Untorn == \A s \in Socks : s = mpd_sock => ~sock[s].torn
Undisturbed == ~Closes /\ ~ModuleDestroy

Recovers ==
    <>[](Settled /\ Untorn) /\ <>[][Undisturbed]_allVars
        => []<>(mpc = "idle" /\ mpdinfo["currentsong"] # None)
=============================================================================
