-------------------------- MODULE LifecycleProofs --------------------------
(* Proofs about module Lifecycle, for every configuration, every set of    *)
(* shared objects, every client and every order of signals.  They need     *)
(* only the control of the two threads: nothing about the lists.           *)
EXTENDS Lifecycle, TLAPS

Places == Serving \cup Cleaning
          \cup {"parse", "load", "listen", "start", "again", "exited"}
ThreadPlaces == {"none", "begin", "cron", "walk", "sleep", "ended"}

ControlOK ==
    /\ pc \in Places /\ thread \in ThreadPlaces
    /\ donky_exit \in BOOLEAN /\ donky_reload \in BOOLEAN /\ hupped \in BOOLEAN
    /\ launched \in BOOLEAN /\ cancelled \in BOOLEAN

(* thread_is_launched may still be set in free_requests, where the thread  *)
(* is gone; it is cancelled nowhere but before it is joined.               *)
Joined == pc = "free_requests" => thread = "none"
CancelledOnce == cancelled => pc = "join"

(* A SIGHUP that came after the file was read is flagged from there on.    *)
HupFlagged ==
    hupped /\ pc \in Serving \cup {"load", "listen", "start"} => donky_reload

(* The thread sleeps as the file of its own run says, because it looks the *)
(* configuration up before this run's list is cleared.                     *)
CfgOfFile ==
    pc \in Serving \cup {"load", "listen", "start", "drop_conns"}
        => cfg = parse_cfg(file)
SleepsAsWritten ==
    pc \in Serving /\ thread \in {"cron", "walk", "sleep"}
        => tspec = SleepOf(parse_cfg(file))

Control == ControlOK /\ ThreadWithinRun /\ Joined /\ CancelledOnce
           /\ HupFlagged /\ CfgOfFile /\ SleepsAsWritten /\ ThreadServes
-----------------------------------------------------------------------------
USE DEF Places, ThreadPlaces, Serving, Cleaning, Control, ControlOK,
        ThreadWithinRun, Joined, CancelledOnce, HupFlagged,
        CfgOfFile, SleepsAsWritten, Undisturbed, ThreadServes

LEMMA InitControl == Init => Control
  BY DEF Init

LEMMA BeginsControl == Control /\ Begins => Control'
<1> SUFFICES ASSUME Control, Begins PROVE Control'
  OBVIOUS
<1>1. CASE Parse
  BY <1>1 DEF Parse, threadVars
<1>2. CASE NoConfiguration
  BY <1>2 DEF NoConfiguration, flags, threadVars, config
<1>3. CASE Load
  BY <1>3 DEF Load, flags, threadVars, config
<1>4. CASE Listen
  BY <1>4 DEF Listen, threadVars, config
<1>5. CASE StartThread
  <2>1. /\ pc = "start" /\ pc' = "check"
        /\ UNCHANGED <<donky_exit, donky_reload, hupped, cancelled, file, cfg>>
    BY <1>5 DEF StartThread, flags, config
  <2>2. thread = "none" /\ launched = FALSE
    BY <2>1
  <2>3. \/ thread' = "begin" /\ launched' = TRUE
        \/ thread' = "none" /\ launched' = FALSE
    BY <1>5, <2>2 DEF StartThread
  <2> QED
    BY <2>1, <2>2, <2>3
<1> QED
  BY <1>1, <1>2, <1>3, <1>4, <1>5 DEF Begins

LEMMA HandlersControl == Control /\ Handlers => Control'
<1> SUFFICES ASSUME Control, NEW c \in Conns,
                    \/ Accept(c) \/ Drop(c)
                    \/ \E i \in DOMAIN reg.vars, once \in BOOLEAN :
                          Subscribe(c, i, once)
             PROVE  Control'
  BY DEF Handlers
<1>1. UNCHANGED <<flags, pc, config, thread, tspec, cancelled, launched>>
  BY DEF Accept, Drop, Subscribe, threadVars
<1> QED
  BY <1>1 DEF flags, config

LEMMA EndsControl == Control /\ Ends => Control'
<1> SUFFICES ASSUME Control, Ends PROVE Control'
  OBVIOUS
<1>1. CASE Check
  BY <1>1 DEF Check, flags, threadVars, config
<1>2. CASE EndServe
  BY <1>2 DEF EndServe, flags, threadVars, config
<1>3. CASE DropConns
  BY <1>3 DEF DropConns, flags, threadVars, config
<1>4. CASE ClearCfg
  BY <1>4 DEF ClearCfg, flags, threadVars
<1>5. CASE ClearModule
  BY <1>5 DEF ClearModule, flags, config
<1>6. CASE Cancel
  BY <1>6 DEF Cancel, flags, config
<1>7. CASE Join
  BY <1>7 DEF Join, flags, config
<1>8. CASE FreeRequests
  BY <1>8 DEF FreeRequests, flags, threadVars, config
<1>9. CASE Again
  BY <1>9 DEF Again, threadVars, config
<1> QED
  BY <1>1, <1>2, <1>3, <1>4, <1>5, <1>6, <1>7, <1>8, <1>9 DEF Ends

LEMMA ThreadControl == Control /\ Thread => Control'
<1> SUFFICES ASSUME Control, Steps \/ Walks PROVE Control'
  BY DEF Thread
<1>1. CASE Begin
  BY <1>1 DEF Begin, flags, config
<1>2. CASE CronExec
  BY <1>2 DEF CronExec, flags, config
<1>3. CASE Wake
  BY <1>3 DEF Wake, flags, config
<1>4. CASE EndCancelled
  BY <1>4 DEF EndCancelled, flags, config
<1>5. CASE Walks
  <2>1. PICK s \in SUBSET DOMAIN reqs : Walk(s)
    BY <1>5 DEF Walks
  <2> QED
    BY <2>1 DEF Walk, flags, config
<1> QED
  BY <1>1, <1>2, <1>3, <1>4, <1>5 DEF Steps

LEMMA SignalControl ==
  ASSUME Control, NEW sig \in {"HUP", "TERM"},
         SignalMain(sig) \/ SignalThread(sig)
  PROVE  Control'
<1>1. CASE SignalMain(sig)
  BY <1>1 DEF SignalMain, Handler, threadVars, config
<1>2. CASE SignalThread(sig)
  BY <1>2 DEF SignalThread, Handler, config
<1> QED
  BY <1>1, <1>2

LEMMA EnvironmentControl == Control /\ Environment => Control'
<1> SUFFICES ASSUME Control, Environment PROVE Control'
  OBVIOUS
<1>1. CASE Activity
  BY <1>1 DEF Activity, flags, threadVars, config
<1>2. CASE Expire \/ \E c \in Conns : Hangup(c)
  BY <1>2 DEF Expire, Hangup, flags, threadVars, config
<1>3. CASE \E sig \in {"HUP", "TERM"} : SignalMain(sig) \/ SignalThread(sig)
  BY <1>3, SignalControl
<1> QED
  BY <1>1, <1>2, <1>3 DEF Environment

LEMMA NextControl == Control /\ [Next]_vars => Control'
<1> SUFFICES ASSUME Control, [Next]_vars PROVE Control'
  OBVIOUS
<1>1. CASE Main
  BY <1>1, BeginsControl, HandlersControl, EndsControl DEF Main
<1>2. CASE Thread
  BY <1>2, ThreadControl
<1>3. CASE Environment
  BY <1>3, EnvironmentControl
<1>4. CASE Crash
  BY <1>4 DEF Crash, flags, threadVars, config
<1>5. CASE UNCHANGED vars
  BY <1>5 DEF vars, flags, threadVars, config
<1> QED
  BY <1>1, <1>2, <1>3, <1>4, <1>5 DEF Next

HIDE DEF Control, ControlOK, ThreadWithinRun, Joined, CancelledOnce, HupFlagged,
         CfgOfFile, SleepsAsWritten, Undisturbed, ThreadServes

LEMMA ControlHolds == Spec => []Control
  BY InitControl, NextControl, PTL DEF Spec
-----------------------------------------------------------------------------
(* The request thread of one run is joined before the next one reads its   *)
(* file, and thread_is_launched says whether there is one to join          *)
(* (request.c, request_handler_start and request_handler_stop).            *)
THEOREM ThreadBelongsToItsRun == Spec => []ThreadWithinRun
<1>1. Control => ThreadWithinRun
  BY DEF Control
<1> QED
  BY <1>1, ControlHolds, PTL

(* A run that has a thread, that no signal ends, and whose file gives no   *)
(* negative sleep, keeps it: cancellation in the clean-up and a nanosleep  *)
(* that fails are all that make it leave its loop (request.c,              *)
(* request_handler_exec).                                                  *)
THEOREM RunKeepsItsThread == Spec => []ThreadServes
<1>1. Control => ThreadServes
  BY DEF Control
<1> QED
  BY <1>1, ControlHolds, PTL

(* Wherever a SIGHUP comes, the run that serves with the older file will   *)
(* reload: the flag that initialize_stuff clears is one whose file is yet  *)
(* to be read.                                                             *)
THEOREM NoReloadIsLost == Spec => []ReloadNotLost
<1>1. Control => ReloadNotLost
  BY DEF ReloadNotLost, Control, HupFlagged
<1> QED
  BY <1>1, ControlHolds, PTL
=============================================================================
