------------------------------ MODULE Scrobbler ------------------------------
(***************************************************************************)
(* The scrobbler of the mpd module: mpdscrob.c, called by run_cron of      *)
(* mpd.c on the request thread.  A call of scrob_urself compares the track *)
(* MPD reports with the last one and, when it has changed, connects to the *)
(* scrobbler server, shakes hands, submits the last track and announces    *)
(* the new one.  Each exchange with the server is one step.                *)
(*                                                                         *)
(* Descriptors are numbers that the request thread shares with the main    *)
(* thread, which accepts and drops clients at any time.                    *)
(***************************************************************************)
EXTENDS Integers, FiniteSets

CONSTANTS
    Songs,       \* tracks, identified by artist and title
    None,        \* an empty artist and title: MPD plays nothing
    Total,       \* Total[s]: the length of track s in seconds
    Times,       \* the elapsed times MPD may report
    Fds          \* descriptors this process may still open

SCROB_RETRIES == 3
Tracks == Songs \cup {None}

ASSUME SongsAssumption ==
    None \notin Songs /\ Total \in [Songs -> Nat] /\ 0 \in Times /\ Times \subseteq Nat
ASSUME FdsAssumption == Fds \subseteq Nat \ {0} /\ IsFiniteSet(Fds)

VARIABLES
    initialized, enabled,   \* mpd.c's initialized; scrob_enabled
    last,                   \* last_artist and last_title, last_etime, last_ttime
    shaked, session,        \* scrob_shaked; what a handshake has stored
    pc, call,               \* where the thread is; the arguments of scrob_urself
    job, tries,             \* what is being posted, and how many attempts failed
    sock, inner,            \* sock in scrob_urself and in scrob_send_submission
    owner,                  \* owner[f]: who has descriptor f open
    heard,                  \* history: the time last reported for last.song
    failed                  \* history: the track whose connection or handshake failed

settings == <<initialized, enabled>>
shake    == <<shaked, session>>
posting  == <<job, tries, inner>>
history  == <<heard, failed>>
vars == <<settings, last, shake, pc, call, posting, sock, owner, history>>

Report == [song : Tracks, etime : Times \cup {0}, ttime : Nat]
Nothing == [song |-> None, etime |-> 0, ttime |-> 0]
Reported(s, t, tt) == [song |-> s, etime |-> t, ttime |-> tt]

TypeOK ==
    /\ {initialized, enabled, shaked} \subseteq BOOLEAN
    /\ {last, call} \subseteq Report
    /\ session \in {"none", "partial", "whole"}
    /\ pc \in {"idle", "connect", "handshake", "submit", "nowplay", "post",
               "reconnect", "rehandshake", "close"}
    /\ job \in {"none", "submit", "nowplay"} /\ tries \in 0..(SCROB_RETRIES - 1)
    /\ {sock, inner} \subseteq Fds \cup {-1}
    /\ owner \in [Fds -> {"free", "scrob", "client"}]
    /\ heard \in Times /\ failed \subseteq Tracks

(* The module has just been loaded: its statics are zero.                  *)
Init ==
    /\ initialized = FALSE /\ enabled = FALSE
    /\ last = Nothing
    /\ shaked = FALSE /\ session = "none"
    /\ pc = "idle" /\ call = Nothing
    /\ job = "none" /\ tries = 0 /\ inner = -1 /\ sock = -1
    /\ owner = [f \in Fds |-> "free"]
    /\ heard = 0 /\ failed = {}

(* Unloading the module with its last client, and loading it again.        *)
Reload ==
    /\ pc = "idle"
    /\ initialized' = FALSE /\ enabled' = FALSE
    /\ last' = Nothing
    /\ shaked' = FALSE /\ session' = "none"
    /\ heard' = 0 /\ failed' = {}
    /\ UNCHANGED <<pc, call, posting, sock, owner>>
-----------------------------------------------------------------------------
(* Descriptors: the kernel gives the lowest free number.                   *)
Free == {f \in Fds : owner[f] = "free"}
Lowest(f) == f \in Free /\ \A g \in Free : f <= g

Accept == \E f \in Free : Lowest(f) /\ owner' = [owner EXCEPT ![f] = "client"]
Leave == \E f \in Fds : owner[f] = "client" /\ owner' = [owner EXCEPT ![f] = "free"]
MainThread ==
    /\ Accept \/ Leave
    /\ UNCHANGED <<settings, last, shake, pc, call, posting, sock, history>>

(* close: of -1, or of a number already closed, it does nothing.           *)
close(f) == owner' = [g \in Fds |-> IF g = f THEN "free" ELSE owner[g]]
-----------------------------------------------------------------------------
(* run_cron, connected to MPD, calls scrob_urself when it is enabled.  ok: *)
(* the host name resolved when scrob_init ran.                             *)
RunCron(ok) ==
    /\ pc = "idle"
    /\ initialized' = TRUE
    /\ enabled' = IF initialized THEN enabled ELSE ok

NotEnabled(ok) ==
    /\ RunCron(ok) /\ ~enabled'
    /\ UNCHANGED <<last, shake, pc, call, posting, sock, owner, history>>

SameTrack(s, t, ok) ==
    /\ RunCron(ok) /\ enabled'
    /\ s = last.song
    /\ last' = [last EXCEPT !.etime = t]
    /\ heard' = t
    /\ UNCHANGED <<shake, pc, call, posting, sock, owner, failed>>

NewTrack(s, t, tt, ok) ==
    /\ RunCron(ok) /\ enabled'
    /\ s # last.song
    /\ call' = Reported(s, t, tt)
    /\ pc' = "connect"
    /\ UNCHANGED <<last, shake, posting, sock, owner, history>>

Connect ==
    /\ pc = "connect"
    /\ \/ /\ \E f \in Fds : Lowest(f) /\ sock' = f
                            /\ owner' = [owner EXCEPT ![f] = "scrob"]
          /\ pc' = IF shaked THEN "submit" ELSE "handshake"
          /\ failed' = {}
       \/ sock' = -1 /\ pc' = "close" /\ failed' = {call.song} /\ UNCHANGED owner
    /\ UNCHANGED <<settings, last, shake, call, posting, heard>>

(* scrob_handshake: a reply that breaks off after the session id has been  *)
(* stored in part.                                                         *)
Shaken == session' = "whole" /\ shaked' = TRUE
Unshaken == session' \in {session, "partial"} /\ shaked' = FALSE

Handshake ==
    /\ pc = "handshake"
    /\ \/ Shaken /\ pc' = "submit" /\ UNCHANGED failed
       \/ Unshaken /\ pc' = "close" /\ failed' = {call.song}
    /\ UNCHANGED <<settings, last, call, posting, sock, owner, heard>>

(* The last track was played for half its length, or for 240 seconds.      *)
Candidate ==
    last.song # None /\ (last.etime * 2 >= last.ttime \/ last.etime >= 240)

Post(j) == job' = j /\ tries' = 0 /\ inner' = sock /\ pc' = "post"

Submit ==
    /\ pc = "submit"
    /\ \/ Candidate /\ Post("submit")
       \/ ~Candidate /\ pc' = "nowplay" /\ UNCHANGED posting
    /\ UNCHANGED <<settings, last, shake, call, sock, owner, history>>

NowPlay ==
    /\ pc = "nowplay"
    /\ \/ call.song # None /\ Post("nowplay")
       \/ call.song = None /\ pc' = "close" /\ UNCHANGED posting
    /\ UNCHANGED <<settings, last, shake, call, sock, owner, history>>
-----------------------------------------------------------------------------
(* scrob_send_submission.                                                  *)
Return ==
    /\ pc' = IF job = "submit" THEN "nowplay" ELSE "close"
    /\ job' = "none" /\ tries' = 0 /\ inner' = -1

(* "OK", or nothing at all: a connection that is not the server's answers  *)
(* in its own way.                                                         *)
Answered ==
    /\ pc = "post"
    /\ Return
    /\ UNCHANGED <<settings, last, shake, call, sock, owner, history>>

(* "We got something other than OK": close, connect again ...              *)
Refused ==
    /\ pc = "post" /\ inner \in Fds /\ owner[inner] # "free"
    /\ close(inner)
    /\ pc' = "reconnect"
    /\ UNCHANGED <<settings, last, shake, call, posting, sock, history>>

Reconnect ==
    /\ pc = "reconnect"
    /\ \/ /\ \E f \in Fds : Lowest(f) /\ inner' = f
                            /\ owner' = [owner EXCEPT ![f] = "scrob"]
          /\ pc' = "rehandshake"
          /\ UNCHANGED <<job, tries>>
       \/ Return /\ UNCHANGED owner
    /\ UNCHANGED <<settings, last, shake, call, sock, history>>

(* ... and shake hands again.  A failed handshake must be repeated for the *)
(* next track, which the faulty one forgets; the other faulty one does not *)
(* count the attempts.                                                     *)
RehandshakeForgets ==
    /\ pc = "rehandshake"
    /\ \/ session' = "whole" /\ UNCHANGED shaked
          /\ IF tries + 1 < SCROB_RETRIES
             THEN tries' = tries + 1 /\ pc' = "post" /\ UNCHANGED <<job, inner>>
             ELSE Return
       \/ session' \in {session, "partial"} /\ Return /\ UNCHANGED shaked
    /\ UNCHANGED <<settings, last, call, sock, owner, history>>
RehandshakeForever ==
    /\ pc = "rehandshake"
    /\ \/ session' = "whole" /\ pc' = "post" /\ UNCHANGED <<shaked, posting>>
       \/ Unshaken /\ Return
    /\ UNCHANGED <<settings, last, call, sock, owner, history>>
Rehandshake ==
    /\ pc = "rehandshake"
    /\ \/ session' = "whole" /\ UNCHANGED shaked
          /\ IF tries + 1 < SCROB_RETRIES
             THEN tries' = tries + 1 /\ pc' = "post" /\ UNCHANGED <<job, inner>>
             ELSE Return
       \/ Unshaken /\ Return
    /\ UNCHANGED <<settings, last, call, sock, owner, history>>

(* The end of scrob_urself: last_etime keeps its value.  The faulty ones   *)
(* remember the track only when it was announced, or mix up the arguments. *)
CloseUnremembered ==
    /\ pc = "close"
    /\ last' = IF sock = -1 THEN last
               ELSE [last EXCEPT !.song = call.song, !.ttime = call.ttime]
    /\ heard' = call.etime
    /\ close(sock)
    /\ pc' = "idle" /\ call' = Nothing /\ sock' = -1
    /\ UNCHANGED <<settings, shake, posting, failed>>
CloseSwapped ==
    /\ pc = "close"
    /\ last' = [song |-> call.song, etime |-> call.ttime, ttime |-> last.etime]
    /\ heard' = call.etime
    /\ close(sock)
    /\ pc' = "idle" /\ call' = Nothing /\ sock' = -1
    /\ UNCHANGED <<settings, shake, posting, failed>>
Close ==
    /\ pc = "close"
    /\ last' = [last EXCEPT !.song = call.song, !.ttime = call.ttime]
    /\ heard' = call.etime
    /\ close(sock)
    /\ pc' = "idle" /\ call' = Nothing /\ sock' = -1
    /\ UNCHANGED <<settings, shake, posting, failed>>
-----------------------------------------------------------------------------
Urself ==
    \/ Connect \/ Handshake \/ Submit \/ NowPlay
    \/ Answered \/ Refused \/ Reconnect \/ Rehandshake \/ Close

(* A song without its times: currentsong was answered and status was not.  *)
Cron == \E ok \in BOOLEAN :
            \/ NotEnabled(ok)
            \/ \E s \in Tracks : SameTrack(s, 0, ok) \/ NewTrack(s, 0, 0, ok)
            \/ \E s \in Songs, t \in Times :
                  /\ t <= Total[s]
                  /\ SameTrack(s, t, ok) \/ NewTrack(s, t, Total[s], ok)

Next == Urself \/ Cron \/ Reload \/ MainThread
Spec == Init /\ [][Next]_vars

(* The thread runs, and a server that is asked answers or hangs up: the    *)
(* code waits for it without a timeout.                                    *)
FairSpec == Spec /\ WF_vars(Urself)
-----------------------------------------------------------------------------
(* mpdscrob.c: "so that we will only try to connect once per song, as to   *)
(* not spam!"  After a failed connection or handshake the server is left   *)
(* alone until another track is reported.                                  *)
OncePerSong == pc = "connect" => call.song \notin failed

(* Without a new handshake nothing is submitted under a session that broke *)
(* off: the flag is down whenever the stored session is not a whole one,   *)
(* however the exchanges of this and earlier tracks failed.                *)
SessionWhole ==
    /\ shaked => session = "whole"
    /\ pc = "post" /\ job = "submit" => shaked

(* A call returns to the request thread, whatever the server answers.      *)
UrselfReturns == pc # "idle" ~> pc = "idle"

(* mpdscrob.c: "they played half or more of the track, OR 240 seconds or   *)
(* more, that is a candidate for a track to submit".                       *)
SubmitEarned ==
    pc = "post" /\ job = "submit" /\ tries = 0 =>
        heard * 2 >= last.ttime \/ heard >= 240

(* mpdscrob.c: "Close this maw faw."  What scrob_urself closes at its end  *)
(* is not the connection of a client.                                      *)
ClosesItsOwn == pc = "close" /\ sock # -1 => owner[sock] # "client"
=============================================================================
