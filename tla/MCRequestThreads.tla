-------------------------- MODULE MCRequestThreads --------------------------
(* Instances of RequestThreads for TLC.                                    *)
EXTENDS RequestThreads, TLC

CONSTANTS c1, c2, r1, r2, r3

OneModule == {"mpd"}
Texts == {"title", "artist"}
Owner == [v \in Texts |-> "mpd"]
OneText == [v \in Texts |-> {<<97>>}]
TwoTexts == [v \in Texts |-> {<<>>, <<97>>}]

Interchangeable == Permutations(Reqs) \cup Permutations(Conns)
=============================================================================
