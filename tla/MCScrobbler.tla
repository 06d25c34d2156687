---------------------------- MODULE MCScrobbler ----------------------------
(* Instances of Scrobbler for TLC: a track of three minutes and one of     *)
(* ten, which 240 seconds of play make a candidate.                        *)
EXTENDS Scrobbler

TwoSongs == {"short", "long"}
Lengths == [short |-> 180, long |-> 600]
=============================================================================
