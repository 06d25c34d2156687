--------------------------- MODULE MethodsProofs ---------------------------
(* Proofs about the mpd module in module Methods, for any number of        *)
(* descriptors and songs, and a server that may do anything at any time.   *)
EXTENDS Methods, TLAPS

MpdPlaces == {"idle", "connect", "welcome", "clear", "send", "recv", "gone"}

MpdTypes ==
    /\ sock \in [Socks -> Socket] /\ mpd_sock \in Socks \cup {None}
    /\ mpc \in MpdPlaces /\ back \in {"clear", "send", "recv"}
    /\ command \in Commands /\ mpdinfo \in [Commands -> Songs \cup {None}]
    /\ song \in Songs /\ heard \subseteq Songs

(* A connection is made only where there is none that the server keeps,    *)
(* and a process that has died in a pass has closed the one it had.        *)
OneAtATime ==
    /\ mpc = "connect" /\ mpd_sock # None => sock[mpd_sock].peer = "reset"
    /\ mpc = "gone" => mpd_sock = None

Kept == MpdTypes /\ OneAtATime /\ NoLiveAbandoned

(* What is under way on the module's connection, as long as no recv on it  *)
(* has torn a reply: nothing, the welcome, or the command or its reply.    *)
Still(s) == sock[s].asked = <<>> /\ sock[s].inbox = <<>>
Replied(s) == sock[s].asked = <<>> /\ sock[s].inbox # <<>>
OnTheirWay(s) ==
    /\ mpc \in {"idle", "connect", "clear", "send"} => Still(s)
    /\ mpc = "welcome" => Still(s) \/ Replied(s)
    /\ mpc = "recv" =>
          \/ Still(s) \/ Replied(s)
          \/ sock[s].asked = <<command>> /\ sock[s].inbox = <<>>
Exchange ==
    mpd_sock \in Socks =>
        /\ sock[mpd_sock].peer # "up" => sock[mpd_sock].asked = <<>>
        /\ ~sock[mpd_sock].torn => OnTheirWay(mpd_sock)

(* A pass reads replies that it has found left over, and what the server   *)
(* has told since it began.                                                *)
Heard(s) == \A i \in 1..Len(sock[s].inbox) : sock[s].inbox[i].song \in heard \cup {None}
HeardAll == mpc # "idle" /\ mpd_sock \in Socks => Heard(mpd_sock)

(* From the moment that a pass forgets what an earlier one learnt.         *)
Learning == mpc \in {"idle", "send", "recv"}
            \/ (mpc \in {"connect", "welcome"} /\ back # "clear")
Fresh ==
    /\ mpc # "idle" => song \in heard
    /\ Learning => \A c \in Commands : mpdinfo[c] \in heard \cup {None}

Asked == Kept /\ Exchange
Told == Kept /\ HeardAll /\ Fresh
-----------------------------------------------------------------------------
USE DEF MpdPlaces

LEMMA SockFacts ==
  ASSUME MpdTypes, NEW s \in Socks
  PROVE  /\ s # None /\ sock[s] \in Socket
         /\ sock[s].asked \in Seq(Commands) /\ sock[s].inbox \in Seq(Piece)
         /\ sock[s].peer \in {"up", "closed", "reset"} /\ sock[s].open \in BOOLEAN
         /\ sock[s].torn \in BOOLEAN
  BY MpdAssumption DEF MpdTypes, Socket

LEMMA OpenedFacts ==
  ASSUME NEW peer \in {"up", "closed", "reset"}, NEW pieces \in Seq(Piece)
  PROVE  /\ Opened(peer, pieces) \in Socket
         /\ Opened(peer, pieces).asked = <<>> /\ Opened(peer, pieces).inbox = pieces
         /\ Opened(peer, pieces).peer = peer /\ ~Opened(peer, pieces).torn
<1>1. <<>> \in Seq(Commands)
  OBVIOUS
<1> QED
  BY <1>1 DEF Opened, Socket

LEMMA ClosedFacts == Closed \in Socket /\ Closed.open = FALSE
<1>1. <<>> \in Seq(Commands) /\ <<>> \in Seq(Piece)
  OBVIOUS
<1> QED
  BY <1>1 DEF Closed, Opened, Socket

LEMMA InitTold == Init => Asked /\ Told
<1> SUFFICES ASSUME Init PROVE Asked /\ Told
  OBVIOUS
<1>1. Closed \in Socket /\ Closed.open = FALSE
  BY ClosedFacts
<1>2. Forgotten \in [Commands -> Songs \cup {None}] /\ \A c \in Commands : Forgotten[c] = None
  BY DEF Forgotten
<1>3. MpdTypes
  BY <1>1, <1>2 DEF Init, MpdInit, MpdTypes, Commands
<1>4. NoLiveAbandoned
  BY <1>1 DEF Init, MpdInit, NoLiveAbandoned
<1>5. mpd_sock = None /\ mpc = "idle"
  BY DEF Init, MpdInit
<1> QED
  BY <1>2, <1>3, <1>4, <1>5, MpdAssumption
     DEF Init, MpdInit, Asked, Told, Kept, OneAtATime, Exchange, HeardAll, Fresh

(* recv of k pieces leaves the other sockets alone.                        *)
LEMMA TakenFacts ==
  ASSUME MpdTypes, NEW k \in Counts, Received(k)
  PROVE  /\ Taken(k) \in [Socks -> Socket]
         /\ \A s \in Socks : /\ Taken(k)[s].peer = sock[s].peer
                             /\ Taken(k)[s].open = sock[s].open
                             /\ Taken(k)[s].asked = sock[s].asked
                             /\ sock[s].torn => Taken(k)[s].torn
                             /\ s # mpd_sock => Taken(k)[s] = sock[s]
<1>1. CASE k = 0
  BY <1>1 DEF Taken, MpdTypes
<1>2. CASE k # 0
  <2>1. mpd_sock \in Socks
    BY <1>2 DEF Received, MpdTypes
  <2> DEFINE box == sock[mpd_sock].inbox
             rest == SubSeq(box, k + 1, Len(box))
             tears == sock[mpd_sock].torn \/ k < Len(box)
  <2>2. k \in 1..Len(box) /\ box \in Seq(Piece)
    BY <1>2, <2>1, SockFacts, MpdAssumption DEF Received
  <2>3. rest \in Seq(Piece)
    BY <2>2
  <2>4. /\ Taken(k) = [sock EXCEPT ![mpd_sock] =
                          [sock[mpd_sock] EXCEPT !.inbox = rest, !.torn = tears]]
        /\ tears \in BOOLEAN /\ (sock[mpd_sock].torn => tears)
    BY <1>2 DEF Taken
  <2> HIDE DEF rest, tears
  <2>5. Taken(k) \in [Socks -> Socket]
    BY <2>1, <2>3, <2>4 DEF MpdTypes, Socket
  <2> QED
    BY <2>1, <2>4, <2>5 DEF MpdTypes, Socket
<1> QED
  BY <1>1, <1>2

LEMMA LearntFacts ==
  ASSUME MpdTypes, NEW k \in Counts, Received(k)
  PROVE  \A c \in Commands :
            Learnt(k)[c] = mpdinfo[c]
            \/ \E i \in 1..k : mpd_sock \in Socks /\ i \in 1..Len(sock[mpd_sock].inbox)
                               /\ Learnt(k)[c] = sock[mpd_sock].inbox[i].song
<1> DEFINE about == {i \in 1..k : sock[mpd_sock].inbox[i].to = command}
           last(i) == i \in about /\ \A j \in about : j <= i
           i0 == CHOOSE i \in about : \A j \in about : j <= i
<1>1. CASE about = {}
  BY <1>1 DEF Learnt
<1>2. CASE about # {}
  <2>1. k # 0 /\ mpd_sock \in Socks /\ k \in 1..Len(sock[mpd_sock].inbox)
    BY <1>2, MpdAssumption DEF Received, MpdTypes
  <2>2. \E i \in about : \A j \in about : j <= i
    <3>1. about \subseteq 1..k /\ k \in 1..4
      BY <2>1 DEF Counts, Pieces
    <3> HIDE DEF about
    <3>2. about \subseteq {1, 2, 3, 4}
      BY <3>1
    <3>3. CASE 4 \in about
      BY <3>2, <3>3
    <3>4. CASE 4 \notin about /\ 3 \in about
      BY <3>2, <3>4
    <3>5. CASE 4 \notin about /\ 3 \notin about /\ 2 \in about
      BY <3>2, <3>5
    <3>6. CASE 4 \notin about /\ 3 \notin about /\ 2 \notin about
      <4>1. about = {1}
        BY <1>2, <3>2, <3>6
      <4> QED
        BY <4>1
    <3> QED
      BY <3>3, <3>4, <3>5, <3>6
  <2>3. i0 \in about
    BY <2>2
  <2>4. Learnt(k) = [mpdinfo EXCEPT ![command] = sock[mpd_sock].inbox[i0].song]
    BY <1>2 DEF Learnt
  <2> HIDE DEF i0
  <2>5. i0 \in 1..k /\ i0 \in 1..Len(sock[mpd_sock].inbox)
    BY <2>1, <2>3, SockFacts DEF Counts, Pieces
  <2>6. \A c \in Commands :
           Learnt(k)[c] = IF c = command THEN sock[mpd_sock].inbox[i0].song ELSE mpdinfo[c]
    BY <2>4 DEF MpdTypes
  <2> QED
    BY <2>1, <2>5, <2>6
<1> QED
  BY <1>1, <1>2
-----------------------------------------------------------------------------
(* Every step keeps what is known of the connections.                      *)

(* What a new connection holds: the welcome in one piece or two, or none.  *)
LEMMA ConnectsTo ==
  ASSUME MpdTypes, NEW s \in Socks, Connects(s)
  PROVE  \E new \in Socket :
            /\ sock' = [sock EXCEPT ![s] = new] /\ new.asked = <<>>
            /\ \A i \in 1..Len(new.inbox) : new.inbox[i].song = None
<1>1. Hello \in Piece /\ Hello.song = None
  BY DEF Hello, Piece
<1>2. ASSUME NEW peer \in {"up", "closed", "reset"},
             NEW pieces \in {<<>>, <<Hello>>, <<Hello, Hello>>},
             sock' = [sock EXCEPT ![s] = Opened(peer, pieces)]
      PROVE  \E new \in Socket :
                /\ sock' = [sock EXCEPT ![s] = new] /\ new.asked = <<>>
                /\ \A i \in 1..Len(new.inbox) : new.inbox[i].song = None
  <2> HIDE DEF Hello
  <2>1. pieces \in Seq(Piece)
    <3>1. <<>> \in Seq(Piece) /\ <<Hello>> \in Seq(Piece) /\ <<Hello, Hello>> \in Seq(Piece)
      BY <1>1
    <3> QED
      BY <3>1
  <2>2. \A i \in 1..Len(pieces) : pieces[i].song = None
    <3>1. \A i \in 1..Len(pieces) : pieces[i] = Hello
      OBVIOUS
    <3> QED
      BY <1>1, <3>1
  <2> DEFINE new == Opened(peer, pieces)
  <2>3. new \in Socket /\ new.asked = <<>> /\ new.inbox = pieces
    BY <2>1, OpenedFacts
  <2> HIDE DEF new
  <2> QED
    BY <1>2, <2>2, <2>3 DEF new
<1>3. \/ \E pieces \in {<<Hello>>, <<Hello, Hello>>} :
            sock' = [sock EXCEPT ![s] = Opened("up", pieces)]
      \/ sock' = [sock EXCEPT ![s] = Opened("reset", <<>>)]
  BY DEF Connects
<1>4. CASE sock' = [sock EXCEPT ![s] = Opened("reset", <<>>)]
  BY <1>2, <1>4
<1>5. ASSUME NEW pieces \in {<<Hello>>, <<Hello, Hello>>},
             sock' = [sock EXCEPT ![s] = Opened("up", pieces)]
      PROVE  \E new \in Socket :
                /\ sock' = [sock EXCEPT ![s] = new] /\ new.asked = <<>>
                /\ \A i \in 1..Len(new.inbox) : new.inbox[i].song = None
  BY <1>2, <1>5
<1> QED
  BY <1>3, <1>4, <1>5

LEMMA CronKept ==
  ASSUME Kept, Cron
  PROVE  Kept'
<1> USE DEF Kept
<1>1. CASE RunCron
  <2>1. UNCHANGED <<mpd_sock, mpdinfo, command, sock, song>> /\ back' = "clear"
        /\ mpc' = (IF mpd_sock = None THEN "connect" ELSE "clear")
        /\ heard' = {song} \cup LeftOver
    BY <1>1 DEF RunCron
  <2>2. LeftOver \subseteq Songs
    <3> SUFFICES ASSUME mpd_sock \in Socks, NEW i \in DOMAIN sock[mpd_sock].inbox
                 PROVE  sock[mpd_sock].inbox[i].song \in Songs \cup {None}
      BY DEF LeftOver, MpdTypes
    <3>1. sock[mpd_sock].inbox[i] \in Piece
      BY SockFacts
    <3> QED
      BY <3>1 DEF Piece
  <2> QED
    BY <2>1, <2>2 DEF MpdTypes, OneAtATime, NoLiveAbandoned
<1>2. CASE StartConnection
  <2>1. mpc = "connect" /\ UNCHANGED <<mpdinfo, back, command, song, heard>>
    BY <1>2 DEF StartConnection
  <2>2. ASSUME NEW s \in Socks, Connects(s), mpc' = "welcome"
        PROVE  Kept'
    <3>1. PICK new \in Socket : sock' = [sock EXCEPT ![s] = new]
      BY <2>2, ConnectsTo
    <3>2. mpd_sock' = s
      BY <2>2 DEF Connects
    <3>4. MpdTypes'
      BY <2>1, <2>2, <3>1, <3>2 DEF MpdTypes
    <3>5. \A r \in Socks : r # s => sock'[r] = sock[r]
      BY <3>1 DEF MpdTypes
    <3>6. NoLiveAbandoned'
      <4> SUFFICES ASSUME NEW r \in Socks, r # s, sock[r].open
                   PROVE  sock[r].peer # "up"
        BY <3>2, <3>5 DEF NoLiveAbandoned
      <4> QED
        BY <2>1, MpdAssumption DEF NoLiveAbandoned, OneAtATime
    <3> QED
      BY <2>2, <3>4, <3>6 DEF OneAtATime
  <2>3. ASSUME mpd_sock' = None, mpc' = back, UNCHANGED sock PROVE Kept'
    <3>1. NoLiveAbandoned'
      BY <2>1, <2>3, MpdAssumption DEF NoLiveAbandoned, OneAtATime
    <3> QED
      BY <2>1, <2>3, <3>1 DEF MpdTypes, OneAtATime
  <2> QED
    BY <1>2, <2>2, <2>3 DEF StartConnection
<1>3. ASSUME UNCHANGED <<mpd_sock, song, heard>>, sock' \in [Socks -> Socket],
             \A s \in Socks : sock'[s].open = sock[s].open
                              /\ (sock'[s].peer = "up" => sock[s].peer = "up"),
             mpc' \in MpdPlaces, back' \in {"clear", "send", "recv"}, command' \in Commands,
             mpdinfo' \in [Commands -> Songs \cup {None}],
             mpc' # "gone",
             mpc' = "connect" /\ mpd_sock # None => sock'[mpd_sock].peer = "reset"
      PROVE  Kept'
  BY <1>3 DEF MpdTypes, OneAtATime, NoLiveAbandoned
<1>4. CASE Welcome
  <2>1. UNCHANGED <<mpd_sock, mpdinfo, back, command, song, heard>>
        /\ mpc' = back /\ \E k \in Counts : Received(k) /\ sock' = Taken(k)
    BY <1>4 DEF Welcome
  <2> QED
    BY <1>3, <2>1, TakenFacts DEF MpdTypes
<1>5. CASE FreeEverythang
  <2>1. /\ UNCHANGED <<mpd_sock, back, sock, song, heard>> /\ mpdinfo' = Forgotten
        /\ mpc' \in {"idle", "send"} /\ command' = "currentsong"
    BY <1>5 DEF FreeEverythang, serverVars
  <2> QED
    BY <1>3, <2>1 DEF MpdTypes, Forgotten, Commands
<1>6. CASE Send
  <2>1. mpd_sock \in Socks
    BY <1>6 DEF Send, Sendable, MpdTypes
  <2>2. /\ sock' \in [Socks -> Socket]
        /\ \A s \in Socks : sock'[s].open = sock[s].open
                            /\ (sock'[s].peer = "up" => sock[s].peer = "up")
    <3>1. CASE sock[mpd_sock].peer = "up"
      <4> DEFINE more == Append(sock[mpd_sock].asked, command)
      <4>1. more \in Seq(Commands)
        BY <2>1, SockFacts DEF MpdTypes
      <4>2. sock' = [sock EXCEPT ![mpd_sock].asked = more]
        BY <1>6, <3>1 DEF Send
      <4> HIDE DEF more
      <4> QED
        BY <2>1, <4>1, <4>2 DEF MpdTypes, Socket
    <3>2. CASE sock[mpd_sock].peer # "up"
      <4>1. sock' = [sock EXCEPT ![mpd_sock].peer = "reset"]
        BY <1>6, <3>2 DEF Send
      <4> QED
        BY <2>1, <4>1 DEF MpdTypes, Socket
    <3> QED
      BY <3>1, <3>2
  <2>3. UNCHANGED <<mpd_sock, mpdinfo, back, command, song, heard>> /\ mpc' = "recv"
    BY <1>6 DEF Send
  <2> QED
    BY <1>3, <2>2, <2>3 DEF MpdTypes
<1>7. CASE SendFails
  <2>1. UNCHANGED <<mpd_sock, mpdinfo, command, sock, song, heard>> /\ mpc' = "connect"
        /\ back' \in {"send", "recv"} /\ ~Sendable
    BY <1>7 DEF SendFails, serverVars
  <2>2. mpd_sock # None => sock'[mpd_sock].peer = "reset"
    BY <2>1 DEF Sendable
  <2> QED
    BY <1>3, <2>1, <2>2 DEF MpdTypes
<1>8. CASE Recv
  <2>1. PICK k \in Counts : Received(k) /\ sock' = Taken(k) /\ mpdinfo' = Learnt(k)
    BY <1>8 DEF Recv
  <2>2. UNCHANGED <<mpd_sock, back, song, heard>> /\ mpc' \in {"send", "idle"}
        /\ command' \in Commands
    BY <1>8 DEF Recv, MpdTypes, Commands
  <2>3. ASSUME NEW s \in Socks, NEW i \in 1..Len(sock[s].inbox)
        PROVE  sock[s].inbox[i].song \in Songs \cup {None}
    <3>1. sock[s].inbox[i] \in Piece
      BY SockFacts
    <3> QED
      BY <3>1 DEF Piece
  <2>4. mpdinfo' \in [Commands -> Songs \cup {None}]
    <3>1. \A c \in Commands : Learnt(k)[c] \in Songs \cup {None}
      BY <2>1, <2>3, LearntFacts, SockFacts DEF MpdTypes
    <3>2. PICK x : Learnt(k) = mpdinfo \/ Learnt(k) = [mpdinfo EXCEPT ![command] = x]
      BY DEF Learnt
    <3>3. CASE Learnt(k) = mpdinfo
      BY <2>1, <3>3 DEF MpdTypes
    <3>4. CASE Learnt(k) = [mpdinfo EXCEPT ![command] = x]
      <4>1. x \in Songs \cup {None}
        BY <3>1, <3>4 DEF MpdTypes
      <4> QED
        BY <2>1, <3>4, <4>1 DEF MpdTypes
    <3> QED
      BY <3>2, <3>3, <3>4
  <2> QED
    BY <1>3, <2>1, <2>2, <2>4, TakenFacts DEF MpdTypes
<1> QED
  BY <1>1, <1>2, <1>4, <1>5, <1>6, <1>7, <1>8 DEF Cron

LEMMA DestroyKept ==
  ASSUME Kept, ModuleDestroy
  PROVE  Kept'
<1>1. /\ mpc' \in {mpc, "gone"} /\ mpd_sock' = None /\ mpdinfo' = Forgotten
      /\ UNCHANGED <<back, command, song, heard>>
  BY DEF ModuleDestroy, FreshStatics
<1>2. Closed \in Socket /\ Closed.open = FALSE
  BY ClosedFacts
<1>3. /\ sock' \in [Socks -> Socket]
      /\ \A s \in Socks : IF s = mpd_sock THEN sock'[s] = Closed ELSE sock'[s] = sock[s]
  BY <1>2, MpdAssumption DEF ModuleDestroy, Kept, MpdTypes
<1>4. MpdTypes'
  BY <1>1, <1>3 DEF Kept, MpdTypes, Forgotten
<1> QED
  BY <1>1, <1>2, <1>3, <1>4 DEF Kept, OneAtATime, NoLiveAbandoned

LEMMA ServerKept ==
  ASSUME Kept, Server
  PROVE  Kept'
<1>1. UNCHANGED cronVars
  BY DEF Server, Answers, Closes, Answer, HangsUp, Down, Up, Plays
<1>2. ASSUME sock' \in [Socks -> Socket], song' \in Songs, heard' \subseteq Songs,
             \A s \in Socks : /\ sock'[s].open = sock[s].open
                              /\ sock'[s].peer = "up" => sock[s].peer = "up"
                              /\ sock[s].peer = "reset" => sock'[s].peer = "reset"
      PROVE  Kept'
  BY <1>1, <1>2 DEF cronVars, Kept, MpdTypes, OneAtATime, NoLiveAbandoned
<1>3. ASSUME NEW s \in Socks, Answer(s) PROVE Kept'
  <2> DEFINE p == [to |-> Head(sock[s].asked), song |-> song]
             rest == Tail(sock[s].asked)
  <2>1. sock[s].asked \in Seq(Commands) /\ sock[s].asked # <<>>
        /\ sock[s].inbox \in Seq(Piece)
    BY <1>3, SockFacts DEF Answer, Kept
  <2>2. p \in Piece /\ rest \in Seq(Commands)
    BY <2>1 DEF Piece, Kept, MpdTypes
  <2>3. PICK pieces : pieces \in {<<p>>, <<p, p>>}
           /\ sock' = [sock EXCEPT ![s].asked = rest, ![s].inbox = @ \o pieces]
    BY <1>3 DEF Answer
  <2>4. UNCHANGED <<song, heard>>
    BY <1>3 DEF Answer
  <2> DEFINE box == sock[s].inbox \o pieces
  <2>5. box \in Seq(Piece)
    <3> HIDE DEF p
    <3>1. <<p>> \in Seq(Piece) /\ <<p, p>> \in Seq(Piece)
      BY <2>2
    <3>2. pieces \in Seq(Piece)
      BY <2>3, <3>1
    <3> QED
      BY <2>1, <3>2
  <2>6. sock' = [sock EXCEPT ![s] = [sock[s] EXCEPT !.asked = rest, !.inbox = box]]
    BY <2>3 DEF Kept, MpdTypes
  <2> HIDE DEF rest, box
  <2>7. [sock[s] EXCEPT !.asked = rest, !.inbox = box] \in Socket
    BY <2>2, <2>5 DEF Kept, MpdTypes, Socket
  <2> QED
    BY <1>2, <2>4, <2>6, <2>7 DEF Kept, MpdTypes, Socket
<1>4. ASSUME NEW s \in Socks, HangsUp(s) PROVE Kept'
  <2>1. sock' = [sock EXCEPT ![s].peer = "closed"] /\ sock[s].peer = "up"
        /\ UNCHANGED <<song, heard>>
    BY <1>4 DEF HangsUp
  <2> QED
    BY <1>2, <2>1 DEF Kept, MpdTypes, Socket
<1>5. CASE Down
  <2>1. \A s \in Socks : sock'[s] = IF sock[s].peer = "up"
                             THEN [sock[s] EXCEPT !.peer = "closed", !.asked = <<>>]
                             ELSE sock[s]
    BY <1>5 DEF Down
  <2>2. \A s \in Socks : sock'[s] \in Socket
    <3>1. ASSUME NEW s \in Socks
          PROVE  [sock[s] EXCEPT !.peer = "closed", !.asked = <<>>] \in Socket
      <4>1. <<>> \in Seq(Commands) /\ sock[s] \in Socket
        BY DEF Kept, MpdTypes
      <4> QED
        BY <4>1 DEF Socket
    <3> QED
      BY <2>1, <3>1 DEF Kept, MpdTypes
  <2>3. sock' \in [Socks -> Socket] /\ UNCHANGED <<song, heard>>
    BY <1>5, <2>1, <2>2 DEF Down
  <2>4. \A s \in Socks : /\ sock'[s].open = sock[s].open
                         /\ sock'[s].peer = "up" => sock[s].peer = "up"
                         /\ sock[s].peer = "reset" => sock'[s].peer = "reset"
    BY <2>1 DEF Kept, MpdTypes, Socket
  <2> QED
    BY <1>2, <2>3, <2>4 DEF Kept, MpdTypes
<1>6. CASE Up
  BY <1>2, <1>6 DEF Up, Kept, MpdTypes
<1>7. ASSUME NEW x \in Songs, Plays(x) PROVE Kept'
  BY <1>2, <1>7 DEF Plays, Kept, MpdTypes
<1> QED
  BY <1>3, <1>4, <1>5, <1>6, <1>7 DEF Server, Answers, Closes

LEMMA NextKept == Kept /\ [Next]_allVars => Kept'
<1> SUFFICES ASSUME Kept, [Next]_allVars PROVE Kept'
  OBVIOUS
<1>1. CASE UNCHANGED mpdVars
  BY <1>1 DEF mpdVars, cronVars, serverVars, Kept, MpdTypes, OneAtATime, NoLiveAbandoned
<1>2. CASE Cron \/ ModuleDestroy \/ Server
  BY <1>2, CronKept, DestroyKept, ServerKept
<1> QED
  BY <1>1, <1>2 DEF Next, MpdCron, MpdDestroy, MpdServer, OfMpd, CallMpd, UpdateStat,
        BattCron, DestroyBattery, CallBattery, Drains, allVars

(* Whatever the server does, start_connection overwrites a descriptor only *)
(* when the server has given its connection up (mpd.c, pop_currentsong and *)
(* pop_status): the server never keeps a second connection of the module.  *)
THEOREM NoConnectionIsAbandoned == Spec => []NoLiveAbandoned
<1>1. Kept => NoLiveAbandoned
  BY DEF Kept
<1>2. Init => Kept
  BY InitTold DEF Told
<1> QED
  BY <1>1, <1>2, NextKept, PTL DEF Spec
-----------------------------------------------------------------------------
(* What is under way on the connection.                                    *)

(* A recv that tears no reply leaves nothing behind.                       *)
LEMMA LeavesNothing ==
  ASSUME MpdTypes, NEW k \in Counts, Received(k), mpd_sock \in Socks,
         ~Taken(k)[mpd_sock].torn
  PROVE  Taken(k)[mpd_sock].inbox = <<>> /\ ~sock[mpd_sock].torn
<1>1. CASE k = 0
  BY <1>1, MpdAssumption DEF Received, Taken
<1>2. CASE k # 0
  <2> DEFINE box == sock[mpd_sock].inbox
             rest == SubSeq(box, k + 1, Len(box))
             tears == sock[mpd_sock].torn \/ k < Len(box)
  <2>1. k \in 1..Len(box) /\ box \in Seq(Piece)
    BY <1>2, SockFacts, MpdAssumption DEF Received
  <2>2. Taken(k) = [sock EXCEPT ![mpd_sock] =
                      [sock[mpd_sock] EXCEPT !.inbox = rest, !.torn = tears]]
    BY <1>2 DEF Taken
  <2>3. k >= Len(box) => rest = <<>>
    BY <2>1
  <2>4. Taken(k)[mpd_sock].inbox = rest /\ Taken(k)[mpd_sock].torn = tears
    <3> HIDE DEF rest, tears
    <3> QED
      BY <2>2 DEF MpdTypes, Socket
  <2>5. ~tears
    <3> HIDE DEF tears
    <3> QED
      BY <2>4
  <2>6. ~sock[mpd_sock].torn /\ ~(k < Len(box))
    BY <2>5
  <2>7. k >= Len(box)
    BY <2>1, <2>6
  <2> QED
    BY <2>3, <2>4, <2>6, <2>7
<1> QED
  BY <1>1, <1>2

LEMMA CronAsked ==
  ASSUME Asked, Cron
  PROVE  Exchange'
<1> USE DEF Asked, Kept
<1>1. CASE RunCron
  <2>1. UNCHANGED <<mpd_sock, command, sock>> /\ mpc = "idle" /\ mpc' \in {"connect", "clear"}
    BY <1>1 DEF RunCron
  <2> QED
    BY <2>1 DEF Exchange, OnTheirWay, Still
<1>2. CASE StartConnection
  <2>1. ASSUME NEW s \in Socks, Connects(s), mpc' = "welcome" PROVE Exchange'
    <3>1. PICK new \in Socket : sock' = [sock EXCEPT ![s] = new] /\ new.asked = <<>>
      BY <2>1, ConnectsTo
    <3>2. mpd_sock' = s /\ sock'[s].asked = <<>>
      BY <2>1, <3>1 DEF Connects, MpdTypes
    <3> QED
      BY <2>1, <3>2 DEF Exchange, OnTheirWay, Still, Replied
  <2>2. ASSUME mpd_sock' = None PROVE Exchange'
    BY <2>2, MpdAssumption DEF Exchange
  <2> QED
    BY <1>2, <2>1, <2>2 DEF StartConnection
<1>3. CASE Welcome
  <2>1. UNCHANGED <<mpd_sock, command>> /\ mpc = "welcome" /\ mpc' \in {"clear", "send", "recv"}
    BY <1>3 DEF Welcome, MpdTypes
  <2>2. PICK k \in Counts : Received(k) /\ sock' = Taken(k)
    BY <1>3 DEF Welcome
  <2>3. ASSUME mpd_sock \in Socks
        PROVE  /\ sock'[mpd_sock].asked = sock[mpd_sock].asked
               /\ sock'[mpd_sock].peer = sock[mpd_sock].peer
               /\ ~sock'[mpd_sock].torn =>
                     Still(mpd_sock)' /\ sock[mpd_sock].asked = <<>>
    BY <2>1, <2>2, <2>3, LeavesNothing, TakenFacts
       DEF Exchange, OnTheirWay, Still, Replied
  <2> QED
    BY <2>1, <2>3 DEF Exchange, OnTheirWay
<1>4. CASE FreeEverythang
  <2>1. UNCHANGED <<mpd_sock, sock>> /\ mpc = "clear" /\ mpc' \in {"idle", "send"}
    BY <1>4 DEF FreeEverythang, serverVars
  <2> QED
    BY <2>1 DEF Exchange, OnTheirWay, Still
<1>5. CASE Send
  <2>1. mpd_sock \in Socks /\ mpc = "send" /\ mpc' = "recv" /\ UNCHANGED <<mpd_sock, command>>
    BY <1>5 DEF Send, Sendable, MpdTypes
  <2>2. ~sock[mpd_sock].torn => Still(mpd_sock)
    BY <2>1 DEF Exchange, OnTheirWay
  <2>3. CASE sock[mpd_sock].peer = "up"
    <3> DEFINE more == Append(sock[mpd_sock].asked, command)
    <3>1. ~sock[mpd_sock].torn => more = <<command>>
      <4> SUFFICES ASSUME sock[mpd_sock].asked = <<>> PROVE more = <<command>>
        BY <2>2 DEF Still
      <4> QED
        OBVIOUS
    <3>2. sock' = [sock EXCEPT ![mpd_sock].asked = more]
      BY <1>5, <2>3 DEF Send
    <3> HIDE DEF more
    <3>3. /\ sock'[mpd_sock].asked = more /\ sock'[mpd_sock].inbox = sock[mpd_sock].inbox
          /\ sock'[mpd_sock].peer = "up" /\ sock'[mpd_sock].torn = sock[mpd_sock].torn
      BY <2>1, <2>3, <3>2 DEF MpdTypes, Socket
    <3> QED
      BY <2>1, <2>2, <3>1, <3>3 DEF Exchange, OnTheirWay, Still
  <2>4. CASE sock[mpd_sock].peer # "up"
    <3>1. sock' = [sock EXCEPT ![mpd_sock].peer = "reset"]
      BY <1>5, <2>4 DEF Send
    <3>2. /\ sock'[mpd_sock].asked = <<>> /\ sock'[mpd_sock].inbox = sock[mpd_sock].inbox
          /\ sock'[mpd_sock].torn = sock[mpd_sock].torn
      BY <2>1, <2>4, <3>1 DEF MpdTypes, Socket, Exchange
    <3> QED
      BY <2>1, <2>2, <3>2 DEF Exchange, OnTheirWay, Still
  <2> QED
    BY <2>3, <2>4
<1>6. CASE SendFails
  <2>1. UNCHANGED <<mpd_sock, command, sock>> /\ mpc = "send" /\ mpc' = "connect"
    BY <1>6 DEF SendFails, serverVars
  <2> QED
    BY <2>1 DEF Exchange, OnTheirWay, Still
<1>7. CASE Recv
  <2>1. PICK k \in Counts : Received(k) /\ sock' = Taken(k)
    BY <1>7 DEF Recv
  <2>2. mpc = "recv" /\ mpc' \in {"send", "idle"} /\ UNCHANGED mpd_sock
    BY <1>7 DEF Recv
  <2>3. ASSUME mpd_sock \in Socks
        PROVE  /\ sock'[mpd_sock].asked = sock[mpd_sock].asked
               /\ sock'[mpd_sock].peer = sock[mpd_sock].peer
               /\ ~sock'[mpd_sock].torn => Still(mpd_sock)'
    <3>1. sock'[mpd_sock].asked = sock[mpd_sock].asked
          /\ sock'[mpd_sock].peer = sock[mpd_sock].peer
      BY <2>1, <2>3, TakenFacts
    <3>2. ASSUME ~sock'[mpd_sock].torn PROVE Still(mpd_sock)'
      <4>1. sock'[mpd_sock].inbox = <<>> /\ ~sock[mpd_sock].torn
        BY <2>1, <2>3, <3>2, LeavesNothing
      <4>2. sock[mpd_sock].inbox = <<>> => sock[mpd_sock].asked = <<>>
        <5>1. sock[mpd_sock].inbox = <<>> => sock[mpd_sock].peer # "up"
          BY <2>1, <2>3, MpdAssumption DEF Received
        <5> QED
          BY <2>3, <5>1 DEF Exchange
      <4>3. sock[mpd_sock].asked = <<>>
        BY <2>2, <2>3, <4>1, <4>2 DEF Exchange, OnTheirWay, Still, Replied
      <4> QED
        BY <2>2, <3>1, <4>1, <4>3 DEF Still
    <3> QED
      BY <3>1, <3>2
  <2> QED
    BY <2>2, <2>3 DEF Exchange, OnTheirWay
<1> QED
  BY <1>1, <1>2, <1>3, <1>4, <1>5, <1>6, <1>7 DEF Cron

LEMMA ServerAsked ==
  ASSUME Asked, Server
  PROVE  Exchange'
<1> USE DEF Asked, Kept
<1>1. UNCHANGED cronVars
  BY DEF Server, Answers, Closes, Answer, HangsUp, Down, Up, Plays
<1>2. ASSUME mpd_sock \in Socks =>
                /\ sock'[mpd_sock].inbox = sock[mpd_sock].inbox
                /\ sock'[mpd_sock].torn = sock[mpd_sock].torn
                /\ \/ sock'[mpd_sock] = sock[mpd_sock]
                   \/ sock'[mpd_sock].peer # "up" /\ sock'[mpd_sock].asked = <<>>
      PROVE  Exchange'
  BY <1>1, <1>2 DEF cronVars, Exchange, OnTheirWay, Still, Replied
<1>3. ASSUME NEW s \in Socks, Answer(s) PROVE Exchange'
  <2>1. CASE s # mpd_sock
    <3>1. mpd_sock \in Socks => sock'[mpd_sock] = sock[mpd_sock]
      BY <1>3, <2>1 DEF Answer, MpdTypes
    <3> QED
      BY <1>2, <3>1
  <2>2. CASE s = mpd_sock
    <3> DEFINE p == [to |-> Head(sock[s].asked), song |-> song]
               rest == Tail(sock[s].asked)
    <3>1. PICK pieces \in {<<p>>, <<p, p>>} :
             sock' = [sock EXCEPT ![s].asked = rest, ![s].inbox = @ \o pieces]
      BY <1>3 DEF Answer
    <3>2. sock[s].peer = "up" /\ sock[s].asked # <<>>
      BY <1>3 DEF Answer
    <3>3. ~sock[s].torn =>
             mpc = "recv" /\ sock[s].asked = <<command>> /\ sock[s].inbox = <<>>
      BY <2>2, <3>2, MpdAssumption
         DEF Exchange, OnTheirWay, OneAtATime, MpdTypes, Still, Replied
    <3> DEFINE box == sock[s].inbox \o pieces
    <3>4. ~sock[s].torn => rest = <<>> /\ box # <<>>
      <4> HIDE DEF p
      <4>1. sock[s].asked = <<command>> => rest = <<>>
        OBVIOUS
      <4>2. sock[s].inbox = <<>> => box # <<>>
        BY <3>1
      <4> QED
        BY <3>3, <4>1, <4>2
    <3>5. sock' = [sock EXCEPT ![s] = [sock[s] EXCEPT !.asked = rest, !.inbox = box]]
      BY <3>1 DEF MpdTypes
    <3> HIDE DEF rest, box
    <3>6. /\ sock'[s].asked = rest /\ sock'[s].inbox = box
          /\ sock'[s].peer = "up" /\ sock'[s].torn = sock[s].torn
      BY <3>2, <3>5 DEF MpdTypes, Socket
    <3> QED
      BY <1>1, <2>2, <3>3, <3>4, <3>6 DEF cronVars, Exchange, OnTheirWay, Replied
  <2> QED
    BY <2>1, <2>2
<1>4. ASSUME NEW s \in Socks, HangsUp(s) PROVE Exchange'
  <2>1. sock' = [sock EXCEPT ![s].peer = "closed"] /\ sock[s].asked = <<>>
    BY <1>4 DEF HangsUp
  <2>2. mpd_sock \in Socks =>
           /\ sock'[mpd_sock].inbox = sock[mpd_sock].inbox
           /\ sock'[mpd_sock].torn = sock[mpd_sock].torn
           /\ \/ sock'[mpd_sock] = sock[mpd_sock]
              \/ sock'[mpd_sock].peer # "up" /\ sock'[mpd_sock].asked = <<>>
    BY <2>1 DEF MpdTypes, Socket
  <2> QED
    BY <1>2, <2>2
<1>5. CASE Down
  <2>1. \A s \in Socks : sock'[s] = IF sock[s].peer = "up"
                             THEN [sock[s] EXCEPT !.peer = "closed", !.asked = <<>>]
                             ELSE sock[s]
    BY <1>5 DEF Down
  <2>2. mpd_sock \in Socks =>
           /\ sock'[mpd_sock].inbox = sock[mpd_sock].inbox
           /\ sock'[mpd_sock].torn = sock[mpd_sock].torn
           /\ \/ sock'[mpd_sock] = sock[mpd_sock]
              \/ sock'[mpd_sock].peer # "up" /\ sock'[mpd_sock].asked = <<>>
    BY <2>1 DEF MpdTypes, Socket
  <2> QED
    BY <1>2, <2>2
<1>6. CASE Up \/ \E x \in Songs : Plays(x)
  BY <1>2, <1>6 DEF Up, Plays
<1> QED
  BY <1>3, <1>4, <1>5, <1>6 DEF Server, Answers, Closes

LEMMA NextAsked ==
  ASSUME Asked, [Next]_allVars
  PROVE  Asked'
<1>1. Kept'
  BY NextKept DEF Asked
<1>2. CASE UNCHANGED mpdVars
  BY <1>1, <1>2
     DEF mpdVars, cronVars, serverVars, Asked, Exchange, OnTheirWay, Still, Replied
<1>3. CASE ModuleDestroy
  BY <1>1, <1>3, MpdAssumption DEF ModuleDestroy, FreshStatics, Asked, Exchange
<1>4. CASE Cron \/ Server
  BY <1>1, <1>4, CronAsked, ServerAsked DEF Asked
<1> QED
  BY <1>2, <1>3, <1>4 DEF Next, MpdCron, MpdDestroy, MpdServer, OfMpd, CallMpd, UpdateStat,
        BattCron, DestroyBattery, CallBattery, Drains, allVars

(* Until a recv returns with a part of a reply, every pass leaves the      *)
(* connection with nothing outstanding, so that one recv is one reply, to  *)
(* the command just sent.                                                  *)
THEOREM OneReplyPerCommand == Spec => []NoOldReply
<1>1. Asked => NoOldReply
  BY DEF Asked, Kept, Exchange, OnTheirWay, Still, NoOldReply
<1>2. Asked /\ [Next]_allVars => Asked'
  BY NextAsked
<1> QED
  BY <1>1, <1>2, InitTold, PTL DEF Spec
-----------------------------------------------------------------------------
(* What a pass learns, torn replies or not.                                *)

(* A recv takes pieces of songs heard, and leaves such.                    *)
LEMMA ReceivesHeard ==
  ASSUME MpdTypes, NEW k \in Counts, Received(k), mpd_sock \in Socks => Heard(mpd_sock)
  PROVE  /\ mpd_sock \in Socks =>
               \A i \in 1..Len(Taken(k)[mpd_sock].inbox) :
                  Taken(k)[mpd_sock].inbox[i].song \in heard \cup {None}
         /\ \A c \in Commands :
               Learnt(k)[c] = mpdinfo[c] \/ Learnt(k)[c] \in heard \cup {None}
<1>1. ASSUME mpd_sock \in Socks
      PROVE  \A i \in 1..Len(Taken(k)[mpd_sock].inbox) :
                Taken(k)[mpd_sock].inbox[i].song \in heard \cup {None}
  <2>1. CASE k = 0
    BY <1>1, <2>1 DEF Taken, Heard
  <2>2. CASE k # 0
    <3> DEFINE box == sock[mpd_sock].inbox
               rest == SubSeq(box, k + 1, Len(box))
               tears == sock[mpd_sock].torn \/ k < Len(box)
    <3>1. k \in 1..Len(box) /\ box \in Seq(Piece)
      BY <1>1, <2>2, SockFacts, MpdAssumption DEF Received
    <3>2. Taken(k) = [sock EXCEPT ![mpd_sock] =
                        [sock[mpd_sock] EXCEPT !.inbox = rest, !.torn = tears]]
      BY <2>2 DEF Taken
    <3>3. \A i \in 1..Len(rest) : \E j \in 1..Len(box) : rest[i] = box[j]
      <4> SUFFICES ASSUME NEW i \in 1..Len(rest)
                   PROVE  k + i \in 1..Len(box) /\ rest[i] = box[k + i]
        OBVIOUS
      <4> HIDE DEF box
      <4>1. Len(rest) = Len(box) - k
        BY <3>1
      <4> QED
        BY <3>1, <4>1
    <3>4. Taken(k)[mpd_sock].inbox = rest
      <4> HIDE DEF rest, tears
      <4> QED
        BY <1>1, <3>2 DEF MpdTypes, Socket
    <3> HIDE DEF rest
    <3> QED
      BY <1>1, <3>3, <3>4 DEF Heard
  <2> QED
    BY <2>1, <2>2
<1>2. \A c \in Commands : Learnt(k)[c] = mpdinfo[c] \/ Learnt(k)[c] \in heard \cup {None}
  BY LearntFacts DEF Heard
<1> QED
  BY <1>1, <1>2

LEMMA CronTold ==
  ASSUME Told, Cron
  PROVE  (HeardAll /\ Fresh)'
<1> USE DEF Told, Kept
<1>1. CASE RunCron
  <2>1. UNCHANGED <<mpd_sock, sock, song>> /\ back' = "clear"
        /\ mpc' \in {"connect", "clear"} /\ heard' = {song} \cup LeftOver
    BY <1>1 DEF RunCron
  <2>2. ASSUME mpd_sock \in Socks, NEW i \in 1..Len(sock[mpd_sock].inbox)
        PROVE  sock[mpd_sock].inbox[i].song \in LeftOver \cup {None}
    <3>1. i \in DOMAIN sock[mpd_sock].inbox
      BY <2>2, SockFacts
    <3> QED
      BY <2>2, <3>1, MpdAssumption DEF LeftOver
  <2> QED
    BY <2>1, <2>2 DEF HeardAll, Heard, Fresh, Learning
<1>2. CASE StartConnection
  <2>1. mpc = "connect" /\ UNCHANGED <<mpdinfo, back, song, heard>>
        /\ (mpc' = "welcome" \/ mpc' = back)
    BY <1>2 DEF StartConnection
  <2>2. Fresh'
    BY <2>1 DEF MpdTypes, Fresh, Learning
  <2>3. ASSUME NEW s \in Socks, Connects(s) PROVE HeardAll'
    <3>1. PICK new \in Socket :
             /\ sock' = [sock EXCEPT ![s] = new]
             /\ \A i \in 1..Len(new.inbox) : new.inbox[i].song = None
      BY <2>3, ConnectsTo
    <3>2. mpd_sock' = s /\ sock'[s] = new
      BY <2>3, <3>1 DEF Connects, MpdTypes
    <3> QED
      BY <3>1, <3>2 DEF HeardAll, Heard
  <2>4. ASSUME mpd_sock' = None PROVE HeardAll'
    BY <2>4, MpdAssumption DEF HeardAll
  <2> QED
    BY <1>2, <2>2, <2>3, <2>4 DEF StartConnection
<1>3. CASE Welcome
  <2>1. UNCHANGED <<mpd_sock, mpdinfo, back, song, heard>> /\ mpc = "welcome" /\ mpc' = back
    BY <1>3 DEF Welcome
  <2>2. PICK k \in Counts : Received(k) /\ sock' = Taken(k)
    BY <1>3 DEF Welcome
  <2>3. HeardAll'
    BY <2>1, <2>2, ReceivesHeard DEF HeardAll, Heard
  <2> QED
    BY <2>1, <2>3 DEF MpdTypes, Fresh, Learning
<1>4. CASE FreeEverythang
  <2>1. /\ UNCHANGED <<mpd_sock, sock, song, heard>> /\ mpdinfo' = Forgotten /\ mpc = "clear"
    BY <1>4 DEF FreeEverythang, serverVars
  <2>2. \A c \in Commands : mpdinfo'[c] = None
    BY <2>1 DEF Forgotten
  <2> QED
    BY <2>1, <2>2 DEF HeardAll, Heard, Fresh
<1>5. CASE Send
  <2>1. mpd_sock \in Socks /\ mpc = "send" /\ mpc' = "recv"
        /\ UNCHANGED <<mpd_sock, mpdinfo, back, song, heard>>
    BY <1>5 DEF Send, Sendable, MpdTypes
  <2>2. sock'[mpd_sock].inbox = sock[mpd_sock].inbox
    <3> DEFINE more == Append(sock[mpd_sock].asked, command)
    <3>1. \/ sock' = [sock EXCEPT ![mpd_sock].asked = more]
          \/ sock' = [sock EXCEPT ![mpd_sock].peer = "reset"]
      BY <1>5 DEF Send
    <3> HIDE DEF more
    <3> QED
      BY <2>1, <3>1 DEF MpdTypes, Socket
  <2> QED
    BY <2>1, <2>2 DEF HeardAll, Heard, Fresh, Learning
<1>6. CASE SendFails
  <2>1. UNCHANGED <<mpd_sock, mpdinfo, sock, song, heard>> /\ mpc = "send" /\ mpc' = "connect"
    BY <1>6 DEF SendFails, serverVars
  <2> QED
    BY <2>1 DEF HeardAll, Heard, Fresh, Learning
<1>7. CASE Recv
  <2>1. PICK k \in Counts : Received(k) /\ sock' = Taken(k) /\ mpdinfo' = Learnt(k)
    BY <1>7 DEF Recv
  <2>2. mpc = "recv" /\ UNCHANGED <<mpd_sock, song, heard>>
    BY <1>7 DEF Recv
  <2>3. \A c \in Commands : mpdinfo[c] \in heard \cup {None}
    BY <2>2 DEF Fresh, Learning
  <2>4. HeardAll' /\ \A c \in Commands : mpdinfo'[c] \in heard \cup {None}
    BY <2>1, <2>2, <2>3, ReceivesHeard DEF HeardAll, Heard
  <2> QED
    BY <2>2, <2>4 DEF Fresh
<1> QED
  BY <1>1, <1>2, <1>3, <1>4, <1>5, <1>6, <1>7 DEF Cron

LEMMA DestroyTold ==
  ASSUME Told, ModuleDestroy
  PROVE  (HeardAll /\ Fresh)'
<1>1. /\ mpc = "idle" => mpc' = "idle"
      /\ mpd_sock' = None /\ mpdinfo' = Forgotten /\ UNCHANGED <<song, heard>>
  BY DEF ModuleDestroy, FreshStatics
<1> QED
  BY <1>1, MpdAssumption DEF Told, HeardAll, Fresh, Forgotten

LEMMA ServerTold ==
  ASSUME Told, Server
  PROVE  (HeardAll /\ Fresh)'
<1> USE DEF Told, Kept
<1>1. UNCHANGED cronVars
  BY DEF Server, Answers, Closes, Answer, HangsUp, Down, Up, Plays
<1>2. heard \subseteq heard' /\ (mpc # "idle" => song' \in heard')
  BY DEF Server, Answers, Closes, Answer, HangsUp, Down, Up, Plays, Fresh
<1>3. Fresh'
  BY <1>1, <1>2 DEF cronVars, Fresh, Learning
<1>4. ASSUME mpd_sock \in Socks => sock'[mpd_sock].inbox = sock[mpd_sock].inbox
      PROVE  (HeardAll /\ Fresh)'
  BY <1>1, <1>2, <1>3, <1>4 DEF cronVars, HeardAll, Heard
<1>5. ASSUME NEW s \in Socks, Answer(s) PROVE HeardAll'
  <2> DEFINE p == [to |-> Head(sock[s].asked), song |-> song]
             rest == Tail(sock[s].asked)
  <2>1. PICK pieces \in {<<p>>, <<p, p>>} :
           sock' = [sock EXCEPT ![s].asked = rest, ![s].inbox = @ \o pieces]
    BY <1>5 DEF Answer
  <2> DEFINE box == sock[s].inbox \o pieces
  <2>2. p.song = song
    OBVIOUS
  <2>3. \A i \in 1..Len(box) : (i \in 1..Len(sock[s].inbox) /\ box[i] = sock[s].inbox[i])
                               \/ box[i] = p
    <3> HIDE DEF p
    <3>1. sock[s].inbox \in Seq(Piece)
      BY SockFacts
    <3>2. Len(pieces) \in 1..2 /\ \A i \in 1..Len(pieces) : pieces[i] = p
      BY <2>1
    <3>3. pieces \in Seq({p})
      <4>1. <<p>> \in Seq({p}) /\ <<p, p>> \in Seq({p})
        OBVIOUS
      <4> QED
        BY <2>1, <4>1
    <3> QED
      BY <3>1, <3>2, <3>3
  <2>4. sock' = [sock EXCEPT ![s] = [sock[s] EXCEPT !.asked = rest, !.inbox = box]]
    BY <2>1 DEF MpdTypes
  <2> HIDE DEF p, rest, box
  <2>5. sock'[s].inbox = box /\ (mpd_sock # s => sock'[mpd_sock] = sock[mpd_sock])
    BY <2>4 DEF MpdTypes, Socket
  <2> QED
    BY <1>1, <1>2, <1>5, <2>2, <2>3, <2>5 DEF cronVars, Answer, HeardAll, Heard, Fresh
<1>6. ASSUME NEW s \in Socks, HangsUp(s) PROVE (HeardAll /\ Fresh)'
  <2>1. sock' = [sock EXCEPT ![s].peer = "closed"]
    BY <1>6 DEF HangsUp
  <2>2. mpd_sock \in Socks => sock'[mpd_sock].inbox = sock[mpd_sock].inbox
    BY <2>1 DEF MpdTypes, Socket
  <2> QED
    BY <1>4, <2>2
<1>7. CASE Down
  <2>1. \A s \in Socks : sock'[s] = IF sock[s].peer = "up"
                             THEN [sock[s] EXCEPT !.peer = "closed", !.asked = <<>>]
                             ELSE sock[s]
    BY <1>7 DEF Down
  <2>2. mpd_sock \in Socks => sock'[mpd_sock].inbox = sock[mpd_sock].inbox
    BY <2>1 DEF MpdTypes, Socket
  <2> QED
    BY <1>4, <2>2
<1>8. CASE Up \/ \E x \in Songs : Plays(x)
  BY <1>4, <1>8 DEF Up, Plays
<1> QED
  BY <1>3, <1>5, <1>6, <1>7, <1>8 DEF Server, Answers, Closes

LEMMA NextTold ==
  ASSUME Told, [Next]_allVars
  PROVE  Told'
<1>1. Kept'
  BY NextKept DEF Told
<1>2. CASE UNCHANGED mpdVars
  BY <1>1, <1>2
     DEF mpdVars, cronVars, serverVars, Told, HeardAll, Heard, Fresh, Learning
<1>3. CASE Cron \/ ModuleDestroy \/ Server
  BY <1>1, <1>3, CronTold, DestroyTold, ServerTold DEF Told
<1> QED
  BY <1>2, <1>3 DEF Next, MpdCron, MpdDestroy, MpdServer, OfMpd, CallMpd, UpdateStat,
        BattCron, DestroyBattery, CallBattery, Drains, allVars

(* Whatever the server loses, tears or plays on to, the getters show what  *)
(* was playing during the last pass, or what a reply that it found left    *)
(* over told, or nothing: mpd_free_everythang comes before the first       *)
(* command.                                                                *)
THEOREM NothingOldIsShown == Spec => []ShowsThisPass
<1>1. Told => ShowsThisPass
  BY DEF Told, Fresh, Learning, ShowsThisPass
<1>2. Told /\ [Next]_allVars => Told'
  BY NextTold
<1> QED
  BY <1>1, <1>2, InitTold, PTL DEF Spec
=============================================================================
