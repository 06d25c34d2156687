------------------------------ MODULE Registry ------------------------------
(***************************************************************************)
(* The modules and the variables they register: the two lists of module.c, *)
(* as module_load_all builds them from the shared objects in LIBDIR and as *)
(* module_load, module_unload and clear_module change them.  A registry is *)
(* a value; Lifecycle keeps it in variables.                               *)
(*                                                                         *)
(* An object has the three symbols the loader looks for or none of them.   *)
(***************************************************************************)
EXTENDS Cfg

CONSTANTS
    Objects,         \* files in LIBDIR whose name ends in .so
    Foreign,         \* those that have none of the required symbols
    ModuleName,      \* ModuleName[o]: module_name of object o
    Registers,       \* Registers[o]: what module_init registers, in order
    CronSection,     \* the section "cron"
    TimeoutSection   \* the section "timeout"

Declared == [name : Names, kind : {"str", "bar", "cron"}, timeout : Nat]

ASSUME RegistryAssumption ==
    /\ Foreign \subseteq Objects
    /\ ModuleName \in [Objects -> Names]
    /\ Registers \in [Objects -> Seq(Declared)]
    /\ {CronSection, TimeoutSection} \subseteq Names

(* struct module and struct module_var.  open: handle and destroy are set. *)
(* parent is the name of the parent module, which is unique.               *)
Module == [name : Names, path : Objects, open : BOOLEAN, clients : Nat]
ModuleVar == [name : Names, kind : {"str", "bar", "cron"}, parent : Names,
              timeout : Int, loaded : BOOLEAN]

NoModules == [mods |-> <<>>, vars |-> <<>>]
-----------------------------------------------------------------------------
module_find_by_name(mods, n) == FirstWhere(mods, LAMBDA m : m.name = n)
module_var_find_by_name(vs, n) == FirstWhere(vs, LAMBDA v : v.name = n)

(* "User configured timeouts take precedence over module defined default": *)
(* the cron jobs have a section of their own, which the faulty one forgets. *)
UserTimeoutAnywhere(c, d) ==
    get_double_key(c, TimeoutSection, d.name, d.timeout)
UserTimeout(c, d) ==
    get_double_key(c, IF d.kind = "cron" THEN CronSection ELSE TimeoutSection,
                   d.name, d.timeout)

(* A variable that is registered again keeps its node and its place, and   *)
(* belongs to the module that registered it last.                          *)
module_var_add(c, vs, parent, d) ==
    LET n == [name |-> d.name, kind |-> d.kind, parent |-> parent,
              timeout |-> UserTimeout(c, d), loaded |-> FALSE]
        find == module_var_find_by_name(vs, d.name)
    IN IF find = 0 THEN Append(vs, n) ELSE [vs EXCEPT ![find] = n]

(* So does a module.  The faulty one always adds a node.                   *)
module_add_twice(mods, o) ==
    Append(mods, [name |-> ModuleName[o], path |-> o, open |-> TRUE, clients |-> 0])
module_add(mods, o) ==
    LET n == [name |-> ModuleName[o], path |-> o, open |-> TRUE, clients |-> 0]
        find == module_find_by_name(mods, ModuleName[o])
    IN IF find = 0 THEN Append(mods, n) ELSE [mods EXCEPT ![find] = n]

module_init(c, vs, o) ==
    FoldLeft(LAMBDA acc, d : module_var_add(c, acc, ModuleName[o], d),
             vs, Registers[o])

(* module_unload of the module named n.                                    *)
Flagged(vs, n, flag) ==
    [i \in DOMAIN vs |->
        IF vs[i].parent = n THEN [vs[i] EXCEPT !.loaded = flag] ELSE vs[i]]

module_unload(reg, n) ==
    LET i == module_find_by_name(reg.mods, n) IN
    [mods |-> [reg.mods EXCEPT ![i].open = FALSE, ![i].clients = 0],
     vars |-> Flagged(reg.vars, n, FALSE)]

(* module_load once dlopen succeeded and the symbols were there.           *)
Registered(reg, c, o) ==
    [mods |-> module_add(reg.mods, o), vars |-> module_init(c, reg.vars, o)]

(* module_load while first_load is set: the module registers its variables *)
(* and is unloaded at once.                                                *)
FirstLoad(reg, c, o) ==
    IF o \in Foreign THEN reg
    ELSE module_unload(Registered(reg, c, o), ModuleName[o])

(* readdir returns the objects in any order; those that dlopen refuses are *)
(* not in order.                                                           *)
module_load_all(c, order) ==
    FoldLeft(LAMBDA reg, o : FirstLoad(reg, c, o), NoModules, order)
-----------------------------------------------------------------------------
(* What request_list_add does to the modules for a request on the i-th     *)
(* variable: with the first client the module is loaded again, with the    *)
(* timeouts of today's configuration, and all its variables are resolved;  *)
(* later the variable alone.  (Requests has the load that fails.)          *)
AddClient(reg, c, i) ==
    LET n == reg.vars[i].parent
        m == module_find_by_name(reg.mods, n)
        first == reg.mods[m].clients = 0
        reg1 == IF first THEN Registered(reg, c, reg.mods[m].path) ELSE reg
    IN [mods |-> [reg1.mods EXCEPT ![m].clients = @ + 1],
        vars |-> IF first THEN Flagged(reg1.vars, n, TRUE)
                 ELSE [reg1.vars EXCEPT ![i].loaded = TRUE]]

(* And request_list_remove: the module goes with its last client.  The     *)
(* faulty one counts after it has unloaded.                                *)
DropClientLate(reg, i) ==
    LET n == reg.vars[i].parent
        m == module_find_by_name(reg.mods, n)
        reg1 == IF reg.mods[m].clients = 1 THEN module_unload(reg, n) ELSE reg
    IN [reg1 EXCEPT !.mods[m].clients = @ - 1]
DropClient(reg, i) ==
    LET n == reg.vars[i].parent
        m == module_find_by_name(reg.mods, n)
        reg1 == [reg EXCEPT !.mods[m].clients = @ - 1]
    IN IF reg1.mods[m].clients = 0 THEN module_unload(reg1, n) ELSE reg1
-----------------------------------------------------------------------------
(* The lists are whole: one node for each name, every variable has its     *)
(* module, and what a variable's timeout is follows from the file alone:   *)
(* the first line for it in the section of its kind, or the default of the *)
(* object its module was loaded from.                                      *)
OneNodeEach(reg) ==
    /\ \A i, j \in DOMAIN reg.mods : reg.mods[i].name = reg.mods[j].name => i = j
    /\ \A i, j \in DOMAIN reg.vars : reg.vars[i].name = reg.vars[j].name => i = j
    /\ \A v \in ToSet(reg.vars) : \E m \in ToSet(reg.mods) : m.name = v.parent

PromisedTimeout(file, v, default) ==
    LET own == IF v.kind = "cron" THEN CronSection ELSE TimeoutSection
        text == Promised(file, own, v.name)
    IN IF text = Null THEN default ELSE Double[text]

TimeoutsAsWritten(reg, file) ==
    \A v \in ToSet(reg.vars) :
        \E o \in Objects : \E d \in ToSet(Registers[o]) :
            /\ ModuleName[o] = v.parent /\ d.name = v.name /\ d.kind = v.kind
            /\ v.timeout = PromisedTimeout(file, v, d.timeout)

(* While nobody is a client, nothing is loaded.                            *)
Unloaded(reg) ==
    /\ \A m \in ToSet(reg.mods) : m.clients = 0 => ~m.open
    /\ \A v \in ToSet(reg.vars) :
          v.loaded => \E m \in ToSet(reg.mods) : m.name = v.parent /\ m.clients > 0
=============================================================================
