------------------------------ MODULE MCDaemon ------------------------------
(* Instances of Daemon for TLC.  Descriptor 3 is the listener's.           *)
EXTENDS Daemon, TLC

CONSTANTS n1, n2

OneWord == <<"sesame">>
TwoWords == <<"open", "sesame">>

AllWords == {"open", "sesame"}
Say(c, w) == [cmd |-> c, words |-> w]
Dialogue == {Say("pass", OneWord \o TwoWords), Say("var", <<>>), Say("bye", <<>>)}
ByeInPieces == {Say("bye", <<>>)}
JustVar == {Say("var", <<>>), Say("bye", <<>>)}
=============================================================================
