----------------------------- MODULE MCRequests -----------------------------
(* Instances of Requests for TLC: one module with a text variable and a    *)
(* cron job.  The text may be empty: its checksum is then zero, the sum of *)
(* a variable that was never sent.                                         *)
EXTENDS Requests, TLC

CONSTANTS c1, c2, r1, r2, r3

OneModule == {"mpd"}
TextAndCron == {"title", "poll"}
OwnerOne == [v \in TextAndCron |-> "mpd"]
KindOne == [title |-> "str", poll |-> "cron"]
TimeoutOne == [title |-> 1, poll |-> 1]
ValuesOne == [title |-> {<<>>, <<97>>}, poll |-> {}]

(* One variable alone, a text that never changes, for a list of three      *)
(* nodes: with two, the node after a freed and reused one is never on the  *)
(* list, and a cursor cannot be led past a request.                        *)
JustTitle == {"title"}
OwnerJust == [v \in JustTitle |-> "mpd"]
KindJust == [title |-> "str"]
TimeoutJust == [title |-> 1]
SteadyJust == [title |-> {<<97>>}]

(* One text that never changes and never has checksum zero.                *)
SteadyText == [title |-> {<<97>>}, poll |-> {}]
=============================================================================
