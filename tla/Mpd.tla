-------------------------------- MODULE Mpd --------------------------------
(***************************************************************************)
(* The connection of modules/mpd.c to MPD: the cron job run_cron, call by  *)
(* call, against a server that goes down, comes back, hangs up on silent   *)
(* clients and plays on meanwhile.                                         *)
(*                                                                         *)
(* The server, its replies and TCP are external: a reply carries the song  *)
(* that is playing when it is given, and stands for the lines of it that   *)
(* the module keeps.  scrob_urself, which run_cron calls last, is module   *)
(* Scrobbler.                                                              *)
(***************************************************************************)
EXTENDS Integers, Sequences, FiniteSets

CONSTANTS
    Socks,       \* descriptors the process has left for MPD
    Songs,       \* what MPD may play
    None         \* -1 as a descriptor, the empty string as a song

ASSUME MpdAssumption ==
    /\ None \notin Socks /\ None \notin Songs
    /\ IsFiniteSet(Socks)

VARIABLES
    initialized,
    resolved,    \* gethostbyname found mpd_host
    mpd_sock,
    mpdinfo,     \* what the last pass learnt from each command
    mpc,         \* run_cron: where it is; "idle" between two calls, "gone"
                 \* when the process has died in it
    back,        \* where start_connection returns to
    command,     \* the command being sent, "currentsong" or "status"
    tries,       \* how often its send has failed
    sock,        \* sock[s]: the descriptor table and the two ends of s
    up,          \* the server accepts connections
    song,        \* the song it plays
    heard        \* history: the songs played since the pass began, and those
                 \* of the replies that it found left over

cronVars == <<initialized, resolved, mpd_sock, mpdinfo, mpc, back, command, tries>>
serverVars == <<sock, up, song, heard>>
mpdVars == <<cronVars, serverVars>>

Commands == {"currentsong", "status"}

(* A piece of what the server sends: the welcome, or the reply to a        *)
(* command; a reply's first piece may be the whole of it.                  *)
Piece == [to : Commands \cup {"welcome"}, song : Songs \cup {None}]

(* peer: "up"; "closed", it has hung up; "reset", it has also answered a   *)
(* send with a reset, so that the next send fails, or there never was a    *)
(* connection.  torn is history: a recv has returned with a part of a      *)
(* reply.                                                                  *)
Socket == [open : BOOLEAN, peer : {"up", "closed", "reset"},
           asked : Seq(Commands), inbox : Seq(Piece), torn : BOOLEAN]
Opened(peer, pieces) ==
    [open |-> TRUE, peer |-> peer, asked |-> <<>>, inbox |-> pieces, torn |-> FALSE]
Closed == [Opened("closed", <<>>) EXCEPT !.open = FALSE]
Forgotten == [c \in Commands |-> None]

MpdTypeOK ==
    /\ initialized \in BOOLEAN /\ resolved \in BOOLEAN /\ up \in BOOLEAN
    /\ mpd_sock \in Socks \cup {None}
    /\ mpdinfo \in [Commands -> Songs \cup {None}]
    /\ mpc \in {"idle", "connect", "welcome", "clear", "send", "recv", "gone"}
    /\ back \in {"clear", "send", "recv"}
    /\ command \in Commands
    /\ tries \in 0..3
    /\ sock \in [Socks -> Socket]
    /\ song \in Songs /\ heard \subseteq Songs
    /\ \A s \in Socks : s = mpd_sock => sock[s].open

(* The module has been mapped; dlopen gives it fresh statics.              *)
FreshStatics ==
    /\ initialized' = FALSE /\ resolved' = FALSE
    /\ mpd_sock' = None
    /\ mpdinfo' = Forgotten

MpdInit ==
    /\ initialized = FALSE /\ resolved = FALSE
    /\ mpd_sock = None /\ mpdinfo = Forgotten
    /\ mpc = "idle" /\ back = "clear" /\ command = "currentsong" /\ tries = 0
    /\ sock = [s \in Socks |-> Closed]
    /\ up \in BOOLEAN /\ song \in Songs /\ heard = {}
-----------------------------------------------------------------------------
(* run_cron: init_settings the first time only, whether the host is found  *)
(* or not; then a connection if there is none.  The faulty ones always     *)
(* make one, or only the first time.                                       *)
LeftOver ==
    IF mpd_sock = None THEN {}
    ELSE {sock[mpd_sock].inbox[i].song : i \in DOMAIN sock[mpd_sock].inbox} \ {None}

RunCronAnew ==
    /\ mpc = "idle"
    /\ initialized' = TRUE
    /\ IF initialized THEN UNCHANGED resolved ELSE resolved' \in BOOLEAN
    /\ mpc' = "connect" /\ back' = "clear"
    /\ heard' = {song} \cup LeftOver
    /\ UNCHANGED <<mpd_sock, mpdinfo, command, tries, sock, up, song>>
RunCronOnce ==
    /\ mpc = "idle"
    /\ initialized' = TRUE
    /\ IF initialized THEN UNCHANGED resolved ELSE resolved' \in BOOLEAN
    /\ mpc' = IF initialized THEN "clear" ELSE "connect"
    /\ back' = "clear"
    /\ heard' = {song} \cup LeftOver
    /\ UNCHANGED <<mpd_sock, mpdinfo, command, tries, sock, up, song>>
RunCron ==
    /\ mpc = "idle"
    /\ initialized' = TRUE
    /\ IF initialized THEN UNCHANGED resolved ELSE resolved' \in BOOLEAN
    /\ mpc' = IF mpd_sock = None THEN "connect" ELSE "clear"
    /\ back' = "clear"
    /\ heard' = {song} \cup LeftOver
    /\ UNCHANGED <<mpd_sock, mpdinfo, command, tries, sock, up, song>>

(* start_connection: the old descriptor is overwritten, not closed.  While *)
(* the host was not found the address is all zero, of the family           *)
(* AF_UNSPEC, with which connect succeeds and connects nothing.  The       *)
(* faulty one does not wait for the welcome.                               *)
Hello == [to |-> "welcome", song |-> None]
Unused(s) == ~sock[s].open

Connects(s) ==
    /\ Unused(s)
    /\ mpd_sock' = s
    /\ \/ /\ resolved /\ up
          /\ \E pieces \in {<<Hello>>, <<Hello, Hello>>} :
                sock' = [sock EXCEPT ![s] = Opened("up", pieces)]
       \/ ~resolved /\ sock' = [sock EXCEPT ![s] = Opened("reset", <<>>)]

CannotConnect == (resolved /\ ~up) \/ ~\E s \in Socks : Unused(s)

StartConnectionBlind ==
    /\ mpc = "connect"
    /\ \/ \E s \in Socks : Connects(s) /\ mpc' = back
       \/ /\ CannotConnect
          /\ mpd_sock' = None
          /\ mpc' = back
          /\ UNCHANGED sock
    /\ UNCHANGED <<initialized, resolved, mpdinfo, back, command, tries,
                   up, song, heard>>
StartConnection ==
    /\ mpc = "connect"
    /\ \/ \E s \in Socks : Connects(s) /\ mpc' = "welcome"
       \/ /\ CannotConnect
          /\ mpd_sock' = None
          /\ mpc' = back
          /\ UNCHANGED sock
    /\ UNCHANGED <<initialized, resolved, mpdinfo, back, command, tries,
                   up, song, heard>>

(* recv on mpd_sock: the pieces that it takes, which are any number of     *)
(* those that have arrived, none when the server has hung up or there is   *)
(* no connection; otherwise it waits.                                      *)
Received(k) ==
    IF mpd_sock = None THEN k = 0
    ELSE LET s == sock[mpd_sock] IN
         \/ k \in 1..Len(s.inbox)
         \/ k = 0 /\ s.inbox = <<>> /\ s.peer # "up"

Taken(k) ==
    IF k = 0 THEN sock
    ELSE LET s == sock[mpd_sock] IN
         [sock EXCEPT ![mpd_sock] =
            [s EXCEPT !.inbox = SubSeq(s.inbox, k + 1, Len(s.inbox)),
                      !.torn = s.torn \/ k < Len(s.inbox)]]

Pieces == 3      \* bound: the pieces on their way, and the answers awaited
Counts == 0..Pieces

Welcome ==
    /\ mpc = "welcome"
    /\ \E k \in Counts : Received(k) /\ sock' = Taken(k)
    /\ mpc' = back
    /\ UNCHANGED <<initialized, resolved, mpd_sock, mpdinfo, back, command,
                   tries, up, song, heard>>

(* mpd_free_everythang; the faulty one keeps what it has.                  *)
FreeEverythangKeep ==
    /\ mpc = "clear"
    /\ mpc' = IF mpd_sock = None THEN "idle" ELSE "send"
    /\ command' = "currentsong" /\ tries' = 0
    /\ UNCHANGED <<initialized, resolved, mpd_sock, mpdinfo, back, serverVars>>
FreeEverythang ==
    /\ mpc = "clear"
    /\ mpdinfo' = Forgotten
    /\ mpc' = IF mpd_sock = None THEN "idle" ELSE "send"
    /\ command' = "currentsong" /\ tries' = 0
    /\ UNCHANGED <<initialized, resolved, mpd_sock, back, serverVars>>

(* send fails on a descriptor of -1 and after a reset.                     *)
Sendable == IF mpd_sock = None THEN FALSE ELSE sock[mpd_sock].peer # "reset"

(* pop_currentsong and pop_status: the command is sent, to a server that   *)
(* may have hung up already, which the first send does not tell ...        *)
Send ==
    /\ mpc = "send"
    /\ Sendable
    /\ sock' = IF sock[mpd_sock].peer = "up"
               THEN [sock EXCEPT ![mpd_sock].asked = Append(@, command)]
               ELSE [sock EXCEPT ![mpd_sock].peer = "reset"]
    /\ mpc' = "recv"
    /\ UNCHANGED <<initialized, resolved, mpd_sock, mpdinfo, back, command,
                   tries, up, song, heard>>

(* ... and after each of three failures a connection is made; recv follows *)
(* the third one although nothing was asked.  The faulty ones never give   *)
(* up, or try once more.                                                   *)
SendFailsAgain ==
    /\ mpc = "send"
    /\ ~Sendable
    /\ mpc' = "connect" /\ back' = "send"
    /\ UNCHANGED <<initialized, resolved, mpd_sock, mpdinfo, command, tries,
                   serverVars>>
SendFailsOneMore ==
    /\ mpc = "send"
    /\ ~Sendable
    /\ tries' = tries + 1
    /\ mpc' = "connect"
    /\ back' = IF tries' <= 3 THEN "send" ELSE "recv"
    /\ UNCHANGED <<initialized, resolved, mpd_sock, mpdinfo, command, serverVars>>
SendFails ==
    /\ mpc = "send"
    /\ ~Sendable
    /\ tries' = tries + 1
    /\ mpc' = "connect"
    /\ back' = IF tries' < 3 THEN "send" ELSE "recv"
    /\ UNCHANGED <<initialized, resolved, mpd_sock, mpdinfo, command, serverVars>>

(* What the module learns from k pieces: the last one that is about the    *)
(* command; the others it takes no notice of.                              *)
Learnt(k) ==
    LET about == {i \in 1..k : sock[mpd_sock].inbox[i].to = command}
    IN IF about = {} THEN mpdinfo
       ELSE LET i == CHOOSE i \in about : \A j \in about : j <= i
            IN [mpdinfo EXCEPT ![command] = sock[mpd_sock].inbox[i].song]

Recv ==
    /\ mpc = "recv"
    /\ \E k \in Counts :
          Received(k) /\ sock' = Taken(k) /\ mpdinfo' = Learnt(k)
    /\ IF command = "currentsong"
       THEN mpc' = "send" /\ command' = "status"
       ELSE mpc' = "idle" /\ UNCHANGED command
    /\ tries' = 0
    /\ UNCHANGED <<initialized, resolved, mpd_sock, back, up, song, heard>>

(* module_destroy, when the last client of the module goes, and the        *)
(* module_init of the next one.  The main thread unloads it at any time: a *)
(* pass returns into memory that is not mapped, or, when the object has    *)
(* been mapped again at its place, goes on there with fresh statics.       *)
ModuleDestroy ==
    /\ mpc # "gone"
    /\ mpc' = mpc \/ (mpc # "idle" /\ mpc' = "gone")
    /\ sock' = IF mpd_sock = None THEN sock ELSE [sock EXCEPT ![mpd_sock] = Closed]
    /\ FreshStatics
    /\ UNCHANGED <<back, command, tries, up, song, heard>>
-----------------------------------------------------------------------------
(* The server.                                                             *)

Answer(s) ==
    /\ sock[s].open /\ sock[s].peer = "up" /\ sock[s].asked # <<>>
    /\ LET p == [to |-> Head(sock[s].asked), song |-> song] IN
       \E pieces \in {<<p>>, <<p, p>>} :
          /\ Len(pieces) = 2 => Len(sock[s].asked) + Len(sock[s].inbox) + 2 <= Pieces
          /\ sock' = [sock EXCEPT ![s].asked = Tail(@), ![s].inbox = @ \o pieces]
    /\ UNCHANGED <<cronVars, up, song, heard>>

(* The server hangs up on a client that has asked nothing for a while.     *)
HangsUp(s) ==
    /\ sock[s].open /\ sock[s].peer = "up" /\ sock[s].asked = <<>>
    /\ sock' = [sock EXCEPT ![s].peer = "closed"]
    /\ UNCHANGED <<cronVars, up, song, heard>>

Down ==
    /\ up /\ up' = FALSE
    /\ sock' = [s \in Socks |->
                   IF sock[s].peer = "up"
                   THEN [sock[s] EXCEPT !.peer = "closed", !.asked = <<>>]
                   ELSE sock[s]]
    /\ UNCHANGED <<cronVars, song, heard>>

Up ==
    /\ ~up /\ up' = TRUE
    /\ UNCHANGED <<cronVars, sock, song, heard>>

Plays(x) ==
    /\ x # song /\ song' = x
    /\ heard' = IF mpc = "idle" THEN heard ELSE heard \cup {x}
    /\ UNCHANGED <<cronVars, sock, up>>
-----------------------------------------------------------------------------
Cron ==
    \/ RunCron \/ StartConnection \/ Welcome \/ FreeEverythang
    \/ Send \/ SendFails \/ Recv

Answers == \E s \in Socks : Answer(s)
Closes == Down \/ \E s \in Socks : HangsUp(s)
Server == Answers \/ Closes \/ Up \/ \E x \in Songs : Plays(x)

MpdNext == Cron \/ ModuleDestroy \/ Server
MpdSpec == MpdInit /\ [][MpdNext]_mpdVars
=============================================================================
