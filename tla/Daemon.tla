------------------------------- MODULE Daemon -------------------------------
(***************************************************************************)
(* The main thread of donky: the connection list, the descriptor set and   *)
(* the traversal of daemon.c, and the line protocol of protocol.c.  The    *)
(* listening socket is the first node of the connection list.              *)
(*                                                                         *)
(* The requests of a connection are only counted here; Requests says what  *)
(* becomes of them.  Replies are left out, except for what they prove.     *)
(***************************************************************************)
EXTENDS Integers, FiniteSets, SequencesExt

CONSTANTS
    Conns,       \* memory cells for donky_conn nodes, besides the listener's
    Listener,    \* the node of donky_sock
    None,        \* the NULL pointer
    Fds,         \* file descriptors the process may use (numbers)
    ListenFd,    \* donky_sock
    Password,    \* the configured password, a sequence of words, or None
    Words,       \* the words a line is made of
    Lines,       \* what clients send: [cmd, words] records
    Splits,      \* the lines that may arrive in two pieces
    MaxBacklog,  \* bound: connections waiting to be accepted
    MaxSent,     \* bound: lines a client sends
    MaxSubs      \* bound: requests of a connection

Nodes == Conns \cup {Listener}

ASSUME NodesAssumption ==
    Listener \notin Conns /\ None \notin Nodes /\ IsFiniteSet(Conns)
ASSUME FdsAssumption == Fds \subseteq Nat /\ ListenFd \in Fds /\ IsFiniteSet(Fds)
ASSUME LinesAssumption ==
    /\ Lines \subseteq [cmd : {"pass", "var", "cfg", "bye"}, words : Seq(Words)]
    /\ Splits \subseteq Lines
ASSUME BoundsAssumption == {MaxBacklog, MaxSent, MaxSubs} \subseteq Nat

VARIABLES
    list,        \* the list from dc_start to dc_end, as a sequence of nodes
    conn,        \* conn[n]: the contents of node n
    fds, fdmax,  \* donky_fds and donky_fdmax
    ready,       \* the descriptors select reported
    pc, cur,     \* the main thread: where it is, and its cursor
    lines,       \* the lines of the buffer not handled yet
    peer,        \* peer[fd]: the client's end of an accepted socket
    backlog,     \* connections waiting to be accepted
    subs,        \* subs[n]: requests whose conn points to node n
    crashed

mainVars == <<list, conn, fds, fdmax, ready, pc, cur, lines>>
envVars  == <<peer, backlog>>
vars == <<mainVars, envVars, subs, crashed>>

(* A node: live from malloc to free; next is the successor a freed node    *)
(* still points to.                                                        *)
Node == [live : BOOLEAN, sock : Fds, authed : BOOLEAN, next : Nodes \cup {None}]

(* A client: what it sent that has not been received, whether the head of  *)
(* it was received in part, whether it hung up, and presented the password. *)
NoPeer == [inbox |-> <<>>, sent |-> 0, half |-> FALSE, hup |-> FALSE,
           proved |-> FALSE]

Fragment == [cmd |-> "fragment", words |-> <<>>]

TypeOK ==
    /\ list \in Seq(Nodes)
    /\ conn \in [Nodes -> Node]
    /\ fds \subseteq Fds
    /\ fdmax \in Fds \cup {-1}
    /\ ready \subseteq Fds
    /\ pc \in {"select", "walk", "lines", "next"}
    /\ cur \in Nodes \cup {None}
    /\ lines \in Seq(Lines \cup {Fragment})
    /\ backlog \in 0..MaxBacklog
    /\ subs \in [Nodes -> 0..MaxSubs]
    /\ crashed \in BOOLEAN

(* donky_loop up to the first select: the listener alone is on the list.   *)
Init ==
    /\ list = <<Listener>>
    /\ conn = [n \in Nodes |-> [live |-> n = Listener, sock |-> ListenFd,
                                authed |-> FALSE, next |-> None]]
    /\ fds = {ListenFd} /\ fdmax = ListenFd
    /\ ready = {}
    /\ pc = "select" /\ cur = None
    /\ lines = <<>>
    /\ peer = [f \in Fds |-> NoPeer]
    /\ backlog = 0
    /\ subs = [n \in Nodes |-> 0]
    /\ crashed = FALSE
-----------------------------------------------------------------------------
Live(n) == conn[n].live
SockOf(n) == conn[n].sock
OpenFds == {SockOf(n) : n \in {m \in Nodes : Live(m)}}

Position(n) == CHOOSE i \in 1..Len(list) : list[i] = n
Successor(n) == IF Position(n) = Len(list) THEN None ELSE list[Position(n) + 1]
NextOf(n) == IF Live(n) THEN Successor(n) ELSE conn[n].next
Without(n) == SubSeq(list, 1, Position(n) - 1)
              \o SubSeq(list, Position(n) + 1, Len(list))

(* donky_conn_set_fdmax: the largest descriptor of the nodes s, or -1.     *)
set_fdmax(s) ==
    IF s = {} THEN -1
    ELSE CHOOSE f \in {SockOf(n) : n \in s} : \A n \in s : SockOf(n) <= f

(* donky_conn_add, and the fdmax update of donky_conn_new.  The faulty     *)
(* ones store select's nfds, trust a reused cell, or forget fdmax.         *)
donky_conn_add_nfds(n, f) ==
    /\ conn' = [conn EXCEPT ![n] = [live |-> TRUE, sock |-> f, authed |-> FALSE,
                                    next |-> None]]
    /\ list' = Append(list, n)
    /\ fds' = fds \cup {f}
    /\ fdmax' = IF f > fdmax THEN f + 1 ELSE fdmax
donky_conn_add_dirty(n, f) ==
    /\ conn' = [conn EXCEPT ![n].live = TRUE, ![n].sock = f, ![n].next = None]
    /\ list' = Append(list, n)
    /\ fds' = fds \cup {f}
    /\ fdmax' = IF f > fdmax THEN f ELSE fdmax
donky_conn_add_low(n, f) ==
    /\ conn' = [conn EXCEPT ![n] = [live |-> TRUE, sock |-> f, authed |-> FALSE,
                                    next |-> None]]
    /\ list' = Append(list, n)
    /\ fds' = fds \cup {f}
    /\ UNCHANGED fdmax
donky_conn_add(n, f) ==
    /\ conn' = [conn EXCEPT ![n] = [live |-> TRUE, sock |-> f, authed |-> FALSE,
                                    next |-> None]]
    /\ list' = Append(list, n)
    /\ fds' = fds \cup {f}
    /\ fdmax' = IF f > fdmax THEN f ELSE fdmax

(* donky_conn_drop of a node that is on the list: unlink, recompute fdmax  *)
(* over the nodes that remain, close, remove the requests, free.  The      *)
(* faulty one recomputes it before unlinking.                              *)
donky_conn_drop_early(n) ==
    /\ list' = Without(n)
    /\ fdmax' = IF SockOf(n) = fdmax THEN set_fdmax(ToSet(list)) ELSE fdmax
    /\ fds' = fds \ {SockOf(n)}
    /\ subs' = [subs EXCEPT ![n] = 0]
    /\ conn' = [conn EXCEPT ![n].live = FALSE, ![n].next = Successor(n)]
    /\ peer' = [peer EXCEPT ![SockOf(n)] = NoPeer]
donky_conn_drop(n) ==
    /\ list' = Without(n)
    /\ fdmax' = IF SockOf(n) = fdmax THEN set_fdmax(ToSet(Without(n))) ELSE fdmax
    /\ fds' = fds \ {SockOf(n)}
    /\ subs' = [subs EXCEPT ![n] = 0]
    /\ conn' = [conn EXCEPT ![n].live = FALSE, ![n].next = Successor(n)]
    /\ peer' = [peer EXCEPT ![SockOf(n)] = NoPeer]
-----------------------------------------------------------------------------
(* The clients.                                                            *)

PeerConnect ==
    /\ backlog < MaxBacklog
    /\ backlog' = backlog + 1
    /\ UNCHANGED <<mainVars, peer, subs>>

Accepted == OpenFds \ {ListenFd}

(* The line is the password, to which the client may have added words.     *)
Proves(line) ==
    line.cmd = "pass" /\ Password # None /\ IsPrefix(Password, line.words)

PeerSend(f, line) ==
    /\ f \in Accepted
    /\ ~peer[f].hup /\ peer[f].sent < MaxSent
    /\ peer' = [peer EXCEPT
          ![f].inbox = Append(@, line), ![f].sent = @ + 1,
          ![f].proved = @ \/ Proves(line)]
    /\ UNCHANGED <<mainVars, backlog, subs>>

PeerHangup(f) ==
    /\ f \in Accepted
    /\ ~peer[f].hup
    /\ peer' = [peer EXCEPT ![f].hup = TRUE]
    /\ UNCHANGED <<mainVars, backlog, subs>>

(* The request thread removes a request of a connection.                   *)
RequestLeaves(n) ==
    /\ subs[n] > 0
    /\ subs' = [subs EXCEPT ![n] = @ - 1]
    /\ UNCHANGED <<mainVars, envVars>>
-----------------------------------------------------------------------------
(* donky_loop.                                                             *)

Pending(f) ==
    \/ f = ListenFd /\ backlog > 0
    \/ f \in Accepted /\ (peer[f].inbox # <<>> \/ peer[f].hup)

(* select blocks until a descriptor of the set, up to fdmax, is readable.  *)
(* The faulty one then asks the set it passed, not the one it got back.    *)
SelectUnheeded ==
    /\ pc = "select"
    /\ ready' = fds
    /\ \E f \in fds : f <= fdmax /\ Pending(f)
    /\ cur' = list[1]
    /\ pc' = "walk"
    /\ UNCHANGED <<list, conn, fds, fdmax, lines, envVars, subs>>
Select ==
    /\ pc = "select"
    /\ ready' = {f \in fds : f <= fdmax /\ Pending(f)}
    /\ ready' # {}
    /\ cur' = list[1]
    /\ pc' = "walk"
    /\ UNCHANGED <<list, conn, fds, fdmax, lines, envVars, subs>>

NotReady ==
    /\ pc = "walk" /\ cur # None
    /\ SockOf(cur) \notin ready
    /\ cur' = NextOf(cur)
    /\ UNCHANGED <<list, conn, fds, fdmax, ready, pc, lines, envVars, subs>>

EndOfWalk ==
    /\ pc = "walk" /\ cur = None
    /\ pc' = "select" /\ ready' = {}
    /\ conn' = [n \in Nodes |-> IF Live(n) THEN conn[n]
                                 ELSE [conn[n] EXCEPT !.next = None]]
    /\ UNCHANGED <<list, fds, fdmax, cur, lines, envVars, subs>>

(* donky_conn_new: accept takes any free descriptor, or fails.             *)
Accept(n, f) ==
    /\ pc = "walk" /\ cur = Listener /\ ListenFd \in ready
    /\ n \in Conns /\ ~Live(n)
    /\ f \in Fds \ OpenFds
    /\ backlog > 0
    /\ donky_conn_add(n, f)
    /\ backlog' = backlog - 1
    /\ peer' = [peer EXCEPT ![f] = NoPeer]
    /\ pc' = "next"
    /\ UNCHANGED <<ready, cur, lines, subs>>

AcceptFails ==
    /\ pc = "walk" /\ cur = Listener /\ ListenFd \in ready
    /\ pc' = "next"
    /\ UNCHANGED <<list, conn, fds, fdmax, ready, cur, lines, envVars, subs>>

ReadyClient == pc = "walk" /\ cur \in Conns /\ SockOf(cur) \in ready

(* donky_conn_read: recv returns the first k lines that are pending ...    *)
Recv(k) ==
    LET f == SockOf(cur)
        box == peer[f].inbox
        whole == SubSeq(box, 1, k)
    IN /\ ReadyClient
       /\ k \in 1..Len(box)
       /\ lines' = IF peer[f].half THEN <<Fragment>> \o Tail(whole) ELSE whole
       /\ peer' = [peer EXCEPT ![f].inbox = SubSeq(box, k + 1, Len(box)),
                               ![f].half = FALSE]
       /\ pc' = "lines"
       /\ UNCHANGED <<list, conn, fds, fdmax, ready, cur, backlog, subs>>

(* ... or the first piece of a line alone, which is then taken for a line. *)
RecvPiece ==
    LET f == SockOf(cur) IN
    /\ ReadyClient
    /\ peer[f].inbox # <<>> /\ ~peer[f].half
    /\ Head(peer[f].inbox) \in Splits
    /\ lines' = <<Fragment>>
    /\ peer' = [peer EXCEPT ![f].half = TRUE]
    /\ pc' = "lines"
    /\ UNCHANGED <<list, conn, fds, fdmax, ready, cur, backlog, subs>>

(* ... or zero, or an error, when the client hung up.                      *)
RecvHangup ==
    /\ ReadyClient
    /\ peer[SockOf(cur)].hup
    /\ donky_conn_drop(cur)
    /\ pc' = "next"
    /\ UNCHANGED <<ready, cur, lines, backlog>>

(* cur = cur->next, of a node that the handler may have freed.             *)
Advance ==
    \/ /\ pc = "next"
       /\ cur' = NextOf(cur)
       /\ pc' = "walk"
       /\ UNCHANGED <<list, conn, fds, fdmax, ready, lines, envVars, subs>>
    \/ /\ pc = "lines" /\ lines = <<>>
       /\ pc' = "next"
       /\ UNCHANGED <<list, conn, fds, fdmax, ready, cur, lines, envVars, subs>>
-----------------------------------------------------------------------------
(* protocol_handle, of the head of lines.                                  *)

Line == Head(lines)
Handling == pc = "lines" /\ lines # <<>>

(* What cur->is_authed reads as: of a freed node, anything.                *)
Authed(n) == IF Live(n) THEN {conn[n].authed} ELSE BOOLEAN

(* protocol_handle_auth: "%63s" keeps the first word of what was sent.     *)
Matches(line) ==
    line.cmd = "pass" /\ line.words # <<>> /\ <<line.words[1]>> = Password

HandleAuth ==
    /\ Handling /\ Password # None
    /\ FALSE \in Authed(cur)
    /\ conn' = [conn EXCEPT ![cur].authed = @ \/ Matches(Line)]
    /\ lines' = Tail(lines)
    /\ UNCHANGED <<list, fds, fdmax, ready, pc, cur, envVars, subs>>

(* protocol_handle_command, once the connection is authenticated; without  *)
(* a password the first line authenticates it.                             *)
Command == Handling /\ (Password = None \/ TRUE \in Authed(cur))

(* request_list_add takes the request, or refuses it: the variable is not  *)
(* known, or the line has no id.                                           *)
HandleVar ==
    /\ Command /\ Line.cmd = "var"
    /\ \/ subs[cur] < MaxSubs /\ subs' = [subs EXCEPT ![cur] = @ + 1]
       \/ UNCHANGED subs
    /\ conn' = [conn EXCEPT ![cur].authed = TRUE]
    /\ lines' = Tail(lines)
    /\ UNCHANGED <<list, fds, fdmax, ready, pc, cur, envVars>>

HandleBye ==
    /\ Command /\ Line.cmd = "bye"
    /\ Live(cur)
    /\ donky_conn_drop(cur)
    /\ lines' = Tail(lines)
    /\ UNCHANGED <<ready, pc, cur, backlog>>

(* cfg, a line without the arguments it needs, an unknown command.         *)
HandleOther ==
    /\ Command /\ Line.cmd \notin {"var", "bye"}
    /\ conn' = [conn EXCEPT ![cur].authed = TRUE]
    /\ lines' = Tail(lines)
    /\ UNCHANGED <<list, fds, fdmax, ready, pc, cur, envVars, subs>>

(* strtok keeps one cursor for the process, and the modules use it in the  *)
(* request thread: the line after this one is then one of theirs, or there *)
(* is none.  Bound: one foreign line in a buffer.                          *)
StrtokElsewhere ==
    /\ Handling
    /\ Fragment \notin ToSet(lines)
    /\ lines' \in {<<Line>>, <<Line, Fragment>>}
    /\ UNCHANGED <<list, conn, fds, fdmax, ready, pc, cur, envVars, subs>>

(* The main thread reads a connection it has freed, which may also go      *)
(* unnoticed, or frees it a second time.                                   *)
Crash ==
    /\ ~crashed
    /\ \/ pc = "next" /\ ~Live(cur)
       \/ Handling /\ ~Live(cur)
    /\ crashed' = TRUE
    /\ UNCHANGED <<mainVars, envVars, subs>>
-----------------------------------------------------------------------------
Main ==
    /\ ~crashed
    /\ \/ Select \/ NotReady \/ EndOfWalk \/ Advance
       \/ AcceptFails \/ \E n \in Conns, f \in Fds : Accept(n, f)
       \/ RecvPiece \/ RecvHangup \/ \E k \in 1..MaxSent : Recv(k)
       \/ HandleAuth \/ HandleVar \/ HandleBye \/ HandleOther
    /\ UNCHANGED crashed

Environment ==
    /\ ~crashed
    /\ \/ PeerConnect
       \/ \E f \in Fds : PeerHangup(f) \/ \E line \in Lines : PeerSend(f, line)
       \/ \E n \in Nodes : RequestLeaves(n)
       \/ StrtokElsewhere
    /\ UNCHANGED crashed

Next == Main \/ Environment \/ Crash
Spec == Init /\ [][Next]_vars

(* The main thread runs.                                                   *)
FairSpec == Spec /\ WF_vars(Main \/ Crash)
-----------------------------------------------------------------------------
(* Outside a handler the list, the descriptor set and fdmax agree, so that *)
(* select watches every connection and nothing else.                       *)
SelectWatchesAll ==
    /\ fds = {SockOf(n) : n \in ToSet(list)}
    /\ ToSet(list) = {n \in Nodes : Live(n)}
    /\ \A f \in fds : f <= fdmax
    /\ fdmax \in fds

(* recv is called only when it cannot block: a descriptor that select      *)
(* reported still belongs to the connection it was reported for, although  *)
(* connections come and go during the traversal.                           *)
RecvNeverBlocks ==
    ReadyClient => peer[SockOf(cur)].inbox # <<>> \/ peer[SockOf(cur)].hup

(* With a password, only a client that presented it on this connection is  *)
(* authenticated; an earlier client's proof does not pass to the next user *)
(* of its node or of its descriptor, whatever is handled for a node that   *)
(* its own bye has freed.                                                  *)
AuthGate ==
    Password # None =>
        \A n \in Conns : Live(n) /\ conn[n].authed => peer[SockOf(n)].proved

(* PROTOCOL, section 6: bye "will disconnect you and allow for the server  *)
(* to perform any cleanups immediately".  No request is left whose conn    *)
(* points to a connection that has been freed.                             *)
SubscriberAlive == \A n \in Nodes : subs[n] > 0 => Live(n)

(* A connection whose client hung up is dropped, whatever the others do.   *)
HangupIsNoticed ==
    \A f \in Fds \ {ListenFd} : peer[f].hup ~> ~peer[f].hup \/ crashed
=============================================================================
