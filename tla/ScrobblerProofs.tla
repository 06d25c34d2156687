--------------------------- MODULE ScrobblerProofs ---------------------------
(* Proofs about module Scrobbler, for every set of tracks and descriptors, *)
(* all lengths and times.                                                  *)
EXTENDS Scrobbler, TLAPS

(* The track that failed is the one being handled, and then the one that   *)
(* is remembered: between two calls a track that differs from it is new.   *)
Spared ==
    /\ pc \in {"idle", "connect"} => failed \subseteq {last.song}
    /\ pc = "connect" => call.song # last.song
    /\ pc \notin {"idle", "connect"} => failed \subseteq {call.song}

(* A submission is begun with the flag up, and no retry of it goes on with *)
(* the flag down.                                                          *)
Whole ==
    /\ shaked => session = "whole"
    /\ pc = "submit" => shaked
    /\ pc \in {"post", "reconnect", "rehandshake"} /\ job = "submit" => shaked
-----------------------------------------------------------------------------
LEMMA NothingType == Nothing \in Report
  BY SongsAssumption DEF Nothing, Report, Tracks

LEMMA InitTypes == Init => TypeOK
<1> SUFFICES ASSUME Init PROVE TypeOK
  OBVIOUS
<1>1. last = Nothing /\ call = Nothing
  BY DEF Init
<1>2. {last, call} \subseteq Report
  BY <1>1, NothingType
<1>3. owner \in [Fds -> {"free", "scrob", "client"}]
  BY DEF Init
<1>4. heard \in Times /\ failed \subseteq Tracks
  BY SongsAssumption DEF Init
<1>5. tries \in 0..(SCROB_RETRIES - 1)
  BY DEF Init, SCROB_RETRIES
<1>6. {initialized, enabled, shaked} \subseteq BOOLEAN
  BY DEF Init
<1> QED
  BY <1>2, <1>3, <1>4, <1>5, <1>6 DEF Init, TypeOK

LEMMA ReportedType ==
  ASSUME NEW s \in Tracks, NEW t \in Times, NEW tt \in Nat
  PROVE  Reported(s, t, tt) \in Report
  BY SongsAssumption DEF Reported, Report, Tracks

(* The main thread, and each step of the request thread.                   *)
LEMMA NextTypes == TypeOK /\ [Next]_vars => TypeOK'
<1> SUFFICES ASSUME TypeOK, [Next]_vars PROVE TypeOK'
  OBVIOUS
<1> USE DEF TypeOK, settings, shake, posting, history, SCROB_RETRIES
<1>1. ASSUME NEW ok \in BOOLEAN, NEW s \in Tracks, NEW t \in Times, NEW tt \in Nat,
             SameTrack(s, t, ok) \/ NewTrack(s, t, tt, ok)
      PROVE  TypeOK'
  <2>1. CASE SameTrack(s, t, ok)
    BY <1>1, <2>1 DEF SameTrack, RunCron, Report
  <2>2. CASE NewTrack(s, t, tt, ok)
    BY <1>1, <2>2, ReportedType DEF NewTrack, RunCron
  <2> QED
    BY <1>1, <2>1, <2>2
<1>2. ASSUME NEW ok \in BOOLEAN, NotEnabled(ok)
      PROVE  TypeOK'
  BY <1>2 DEF NotEnabled, RunCron
<1>3. CASE Cron
  BY <1>1, <1>2, <1>3, SongsAssumption DEF Cron, Tracks
<1>4. CASE Reload
  BY <1>4, NothingType, SongsAssumption DEF Reload
<1>5. CASE MainThread
  BY <1>5 DEF MainThread, Accept, Leave, Free
<1>6. CASE Connect
  BY <1>6 DEF Connect, Lowest, Free, Report
<1>7. CASE Handshake
  BY <1>7 DEF Handshake, Shaken, Unshaken, Report
<1>8. CASE Submit
  BY <1>8 DEF Submit, Post
<1>9. CASE NowPlay
  BY <1>9 DEF NowPlay, Post
<1>10. CASE Answered
  BY <1>10 DEF Answered, Return
<1>11. CASE Refused
  BY <1>11 DEF Refused, close
<1>12. CASE Reconnect
  BY <1>12 DEF Reconnect, Lowest, Free, Return
<1>13. CASE Rehandshake
  <2>1. CASE pc' = "post"
    BY <1>13, <2>1 DEF Rehandshake, Unshaken, Return
  <2>2. CASE pc' # "post"
    <3>1. Return
      BY <1>13, <2>2 DEF Rehandshake
    <3>2. session' \in {session, "partial", "whole"} /\ shaked' \in BOOLEAN
      BY <1>13 DEF Rehandshake, Unshaken
    <3> QED
      BY <1>13, <3>1, <3>2 DEF Rehandshake, Return
  <2> QED
    BY <2>1, <2>2
<1>14. CASE Close
  <2>1. last' \in Report /\ call' \in Report /\ heard' \in Times
    BY <1>14, SongsAssumption DEF Close, Report, Nothing, Tracks
  <2> QED
    BY <1>14, <2>1 DEF Close, close
<1>15. CASE UNCHANGED vars
  BY <1>15 DEF vars
<1> QED
  BY <1>3, <1>4, <1>5, <1>6, <1>7, <1>8, <1>9, <1>10, <1>11, <1>12, <1>13, <1>14,
     <1>15 DEF Next, Urself

(* The statics, the descriptors and the place of the request thread keep   *)
(* their types, whatever the server answers and the main thread opens.     *)
THEOREM TypeCorrect == Spec => []TypeOK
  BY InitTypes, NextTypes, PTL DEF Spec
-----------------------------------------------------------------------------
LEMMA NextSpared == TypeOK /\ Spared /\ [Next]_vars => Spared'
<1> SUFFICES ASSUME TypeOK, Spared, [Next]_vars PROVE Spared'
  OBVIOUS
<1> USE DEF Spared, settings, shake, posting, history
<1>1. ASSUME NEW ok, NEW s, NEW t, SameTrack(s, t, ok)
      PROVE  Spared'
  BY <1>1 DEF SameTrack, RunCron, TypeOK, Report
<1>2. ASSUME NEW ok, NEW s, NEW t, NEW tt, NewTrack(s, t, tt, ok)
      PROVE  Spared'
  BY <1>2 DEF NewTrack, RunCron, Reported
<1>3. ASSUME NEW ok, NotEnabled(ok)
      PROVE  Spared'
  BY <1>3 DEF NotEnabled, RunCron
<1>4. CASE Cron
  BY <1>1, <1>2, <1>3, <1>4 DEF Cron
<1>5. CASE Reload \/ MainThread \/ UNCHANGED vars
  BY <1>5 DEF Reload, MainThread, vars
<1>6. CASE Connect \/ Handshake \/ Submit \/ NowPlay
  BY <1>6 DEF Connect, Handshake, Submit, NowPlay, Post
<1>7. CASE Answered \/ Refused \/ Reconnect \/ Rehandshake
  BY <1>7 DEF Answered, Refused, Reconnect, Rehandshake, Return
<1>8. CASE Close
  <2>1. last'.song = call.song
    BY <1>8 DEF Close, TypeOK, Report
  <2> QED
    BY <1>8, <2>1 DEF Close
<1> QED
  BY <1>4, <1>5, <1>6, <1>7, <1>8 DEF Next, Urself

(* scrob_urself remembers the track also when it could not reach the       *)
(* server, so it never connects twice for a track without another one in   *)
(* between (mpdscrob.c: "once per song, as to not spam!").                 *)
THEOREM TriedOncePerSong == Spec => []OncePerSong
<1>1. Spared => OncePerSong
  BY DEF Spared, OncePerSong
<1>2. Init => Spared
  BY DEF Init, Spared
<1> QED
  BY <1>1, <1>2, NextSpared, TypeCorrect, PTL DEF Spec
-----------------------------------------------------------------------------
LEMMA NextWhole == Whole /\ [Next]_vars => Whole'
<1> SUFFICES ASSUME Whole, [Next]_vars PROVE Whole'
  OBVIOUS
<1> USE DEF Whole, settings, shake, posting, history
<1>1. CASE Cron
  BY <1>1 DEF Cron, SameTrack, NewTrack, NotEnabled, RunCron
<1>2. CASE Reload \/ MainThread \/ UNCHANGED vars
  BY <1>2 DEF Reload, MainThread, vars
<1>3. CASE Connect \/ Handshake
  BY <1>3 DEF Connect, Handshake, Shaken, Unshaken
<1>4. CASE Submit \/ NowPlay
  BY <1>4 DEF Submit, NowPlay, Post
<1>5. CASE Answered \/ Refused \/ Reconnect
  BY <1>5 DEF Answered, Refused, Reconnect, Return
<1>6. CASE Rehandshake
  BY <1>6 DEF Rehandshake, Unshaken, Return
<1>7. CASE Close
  BY <1>7 DEF Close
<1> QED
  BY <1>1, <1>2, <1>3, <1>4, <1>5, <1>6, <1>7 DEF Next, Urself

(* However the exchanges of this and earlier tracks failed, nothing is     *)
(* submitted under a session that broke off without a new handshake.       *)
THEOREM SubmittedUnderAWholeSession == Spec => []SessionWhole
<1>1. Whole => SessionWhole
  BY DEF Whole, SessionWhole
<1>2. Init => Whole
  BY DEF Init, Whole
<1> QED
  BY <1>1, <1>2, NextWhole, PTL DEF Spec
=============================================================================
