------------------------------ MODULE X11Link ------------------------------
(***************************************************************************)
(* The x11 backend: controllers (backend/x11/callbacks.c) that send each   *)
(* event to xmbrecv (xmbrecv/main.c) over TCP (shared/socket.c) and wait   *)
(* for its answer, and xmbrecv, which hands the events to its X server.    *)
(*                                                                         *)
(* xmbrecv serves one connection at a time, until it ends; the others wait *)
(* in the listen queue.  It answers before xlib_sync() pushes the event    *)
(* out of Xlib's buffer.  It does not ignore SIGPIPE, as the controller    *)
(* does.                                                                   *)
(*                                                                         *)
(* A command is the number of the user's event, counted per controller.    *)
(* What the event is does not matter to the link, and send_dgram() treats  *)
(* every answer alike.                                                     *)
(***************************************************************************)
EXTENDS Integers, Sequences

CONSTANTS
    Clients,    \* controllers
    NConns,     \* bound on the connections that exist at a time
    Backlog,    \* connections the listen queue holds: 2 for sock_bind(.., 1)
    MaxEvents   \* bound on the events of a user

ASSUME ConnsAssumption == NConns \in Nat /\ Backlog \in Nat \ {0}
ASSUME EventsAssumption == MaxEvents \in Nat

None  == 0
Conns == 1..NConns
Cmds  == [from : Clients, no : 1..MaxEvents]
Answers == [val : {"OK", "EXLIB"}, to : Cmds]
Connections == [copen : BOOLEAN, sopen : BOOLEAN, reset : BOOLEAN,
                in : Seq(Cmds), out : Seq(Answers)]

VARIABLES
    cpc,       \* where each controller is
    cfd,       \* sock->fd of each controller
    no,        \* the number of the user's last event
    conn,      \* the connections
    backlog,   \* those accept() has not returned yet
    spc,       \* where xmbrecv is
    client,    \* the connection it serves
    resp,      \* the answer it is about to send, if any
    xbuf,      \* the event in Xlib's buffer, if any
    done,      \* history: the last event of each user the X server got
    answered,  \* history: the last event of each user answered RESP_OK
    lost,      \* history: the events xmbrecv was killed with in the buffer
    piped      \* history: xmbrecv was killed by SIGPIPE

controllers == <<cpc, cfd, no>>
xmbrecv     == <<spc, client, resp, xbuf>>
history     == <<done, answered, lost, piped>>
vars        == <<controllers, conn, backlog, xmbrecv, history>>

\* A connection: whether the ends are open, the bytes on their way to xmbrecv
\* and back, and whether xmbrecv's end was told that the other one is gone.
Closed == [copen |-> FALSE, sopen |-> FALSE, in |-> <<>>, out |-> <<>>, reset |-> FALSE]
Fresh(s) == [copen |-> TRUE, sopen |-> TRUE, in |-> s, out |-> <<>>, reset |-> FALSE]
Free  == {k \in Conns : ~conn[k].copen /\ ~conn[k].sopen}

\* What is left of a connection when one of its ends is closed.  Closing an
\* end with unread bytes tells the other one at once.
CloseClient(k) ==
    IF conn[k].sopen
    THEN [conn[k] EXCEPT !.copen = FALSE, !.out = <<>>,
                         !.reset = @ \/ conn[k].out # <<>>]
    ELSE Closed
CloseServer(k) ==
    IF conn[k].copen THEN [conn[k] EXCEPT !.sopen = FALSE, !.in = <<>>] ELSE Closed

TypeOK ==
    /\ cpc \in [Clients -> {"off", "idle", "connect", "recv"}]
    /\ cfd \in [Clients -> Conns \cup {None}]
    /\ no \in [Clients -> 0..MaxEvents]
    /\ conn \in [Conns -> Connections]
    /\ backlog \in Seq(Conns) /\ Len(backlog) <= Backlog
    /\ spc \in {"down", "accept", "recv", "send", "sync"}
    /\ client \in Conns \cup {None}
    /\ resp \in Seq(Answers)
    /\ xbuf \in Seq(Cmds) /\ Len(xbuf) <= 1
    /\ done \in [Clients -> 0..MaxEvents] /\ answered \in [Clients -> 0..MaxEvents]
    /\ lost \subseteq Cmds /\ piped \in BOOLEAN

Init ==
    /\ cpc = [c \in Clients |-> "off"] /\ cfd = [c \in Clients |-> None]
    /\ no = [c \in Clients |-> 0]
    /\ conn = [k \in Conns |-> Closed] /\ backlog = <<>>
    /\ spc = "down" /\ client = None /\ resp = <<>> /\ xbuf = <<>>
    /\ done = [c \in Clients |-> 0] /\ answered = [c \in Clients |-> 0]
    /\ lost = {} /\ piped = FALSE

-----------------------------------------------------------------------------
(* The controllers.                                                        *)

Cmd(c) == [from |-> c, no |-> no[c]]

\* sock_close() of the controller's end.
ClientCloses(c) ==
    /\ conn' = IF cfd[c] = None THEN conn ELSE [conn EXCEPT ![cfd[c]] = CloseClient(cfd[c])]
    /\ cfd' = [cfd EXCEPT ![c] = None]

\* connect() of sock_init() and sock_connect() puts a connection into the
\* listen queue, if there is room.
Connects(c, s) ==
    /\ spc # "down" /\ Len(backlog) < Backlog
    /\ \E k \in Free :
          /\ \A j \in Free : k <= j
          /\ conn' = [conn EXCEPT ![k] = Fresh(s)]
          /\ cfd' = [cfd EXCEPT ![c] = k]
          /\ backlog' = Append(backlog, k)

\* connect() is refused, or gives up after a time on a listen queue that is full.
ConnectFails ==
    /\ spc = "down" \/ Len(backlog) = Backlog
    /\ UNCHANGED <<cfd, conn, backlog>>

\* backend_create_x11(); the program ends when there is no connection.
Start(c) ==
    /\ cpc[c] = "off"
    /\ Connects(c, <<>>)
    /\ cpc' = [cpc EXCEPT ![c] = "idle"]
    /\ UNCHANGED <<no, xmbrecv, history>>

\* be_key(), be_button(), be_move(): send_dgram() up to sock_connect(), or to
\* sock_recv() when there is a connection.  What is sent to a closed end is lost.
UserEvent(c) ==
    /\ cpc[c] = "idle" /\ no[c] < MaxEvents
    /\ no' = [no EXCEPT ![c] = @ + 1]
    /\ IF cfd[c] = None
       THEN cpc' = [cpc EXCEPT ![c] = "connect"] /\ UNCHANGED conn
       ELSE /\ cpc' = [cpc EXCEPT ![c] = "recv"]
            /\ conn' = IF conn[cfd[c]].sopen
                       THEN [conn EXCEPT ![cfd[c]].in = Append(@, Cmd(c)')]
                       ELSE conn
    /\ UNCHANGED <<cfd, backlog, xmbrecv, history>>

\* send_dgram(): sock_connect() and sock_send().
Connect(c) ==
    /\ cpc[c] = "connect"
    /\ \/ Connects(c, <<Cmd(c)>>) /\ cpc' = [cpc EXCEPT ![c] = "recv"]
       \/ ConnectFails /\ cpc' = [cpc EXCEPT ![c] = "idle"]
    /\ UNCHANGED <<no, xmbrecv, history>>

\* Mutant of Receive: the answer is not waited for.
Receive_NoWait(c) ==
    /\ cpc[c] = "recv"
    /\ cpc' = [cpc EXCEPT ![c] = "idle"]
    /\ UNCHANGED <<cfd, no, conn, backlog, xmbrecv, history>>

\* send_dgram(): sock_recv() returns an answer, without any timeout.
Receive(c) ==
    /\ cpc[c] = "recv" /\ conn[cfd[c]].out # <<>>
    /\ LET a == Head(conn[cfd[c]].out) IN
       answered' = IF a.val = "OK" THEN [answered EXCEPT ![c] = no[c]] ELSE answered
    /\ conn' = [conn EXCEPT ![cfd[c]].out = Tail(@)]
    /\ cpc' = [cpc EXCEPT ![c] = "idle"]
    /\ UNCHANGED <<cfd, no, backlog, xmbrecv, done, lost, piped>>

\* Mutant of ReceiveFails: the end of the connection is not told from an
\* answer that is still to come.
ReceiveFails_WaitsOn(c) ==
    /\ cpc[c] = "recv" /\ conn[cfd[c]].out = <<>> /\ ~conn[cfd[c]].sopen
    /\ UNCHANGED vars

\* send_dgram(): the connection is lost; the event is forgotten.
ReceiveFails(c) ==
    /\ cpc[c] = "recv" /\ conn[cfd[c]].out = <<>> /\ ~conn[cfd[c]].sopen
    /\ ClientCloses(c)
    /\ cpc' = [cpc EXCEPT ![c] = "idle"]
    /\ UNCHANGED <<no, backlog, xmbrecv, history>>

\* be_stop(), when the window is unmapped.
Stop(c) ==
    /\ cpc[c] = "idle" /\ cfd[c] # None
    /\ ClientCloses(c)
    /\ UNCHANGED <<cpc, no, backlog, xmbrecv, history>>

\* The program ends with be_destroy(), or is killed anywhere.
Quit(c) ==
    /\ cpc[c] # "off"
    /\ cpc' = [cpc EXCEPT ![c] = "off"]
    /\ ClientCloses(c)
    /\ UNCHANGED <<no, backlog, xmbrecv, history>>

-----------------------------------------------------------------------------
(* xmbrecv: main() and handle_client().                                    *)

\* Mutant of Accept: the connection that came last is served first.
Accept_Newest ==
    /\ spc = "accept" /\ backlog # <<>>
    /\ client' = backlog[Len(backlog)]
    /\ backlog' = SubSeq(backlog, 1, Len(backlog) - 1)
    /\ spc' = "recv"
    /\ UNCHANGED <<controllers, conn, resp, xbuf, history>>

\* sock_accept()
Accept ==
    /\ spc = "accept" /\ backlog # <<>>
    /\ client' = Head(backlog) /\ backlog' = Tail(backlog)
    /\ spc' = "recv"
    /\ UNCHANGED <<controllers, conn, resp, xbuf, history>>

\* Mutant of HandleClient: the result of the X call is not looked at.
HandleClient_ResultIgnored ==
    /\ spc = "recv" /\ conn[client].in # <<>>
    /\ LET d == Head(conn[client].in) IN
       /\ resp' = <<[val |-> "OK", to |-> d]>>
       /\ xbuf' = Append(xbuf, d) \/ xbuf' = xbuf
    /\ conn' = [conn EXCEPT ![client].in = Tail(@)]
    /\ spc' = "send"
    /\ UNCHANGED <<controllers, backlog, client, history>>

\* sock_recv() and xlib_key(), xlib_cursor_click() or xlib_cursor_move(), which
\* put an event into Xlib's buffer or fail.
HandleClient ==
    /\ spc = "recv" /\ conn[client].in # <<>>
    /\ LET d == Head(conn[client].in) IN
       \/ resp' = <<[val |-> "OK", to |-> d]>> /\ xbuf' = Append(xbuf, d)
       \/ resp' = <<[val |-> "EXLIB", to |-> d]>> /\ UNCHANGED xbuf
    /\ conn' = [conn EXCEPT ![client].in = Tail(@)]
    /\ spc' = "send"
    /\ UNCHANGED <<controllers, backlog, client, history>>

\* Mutant of ClientGone: the connection is not given up.
ClientGone_Continue ==
    /\ spc = "recv" /\ conn[client].in = <<>> /\ ~conn[client].copen
    /\ spc' = "send"
    /\ UNCHANGED <<controllers, conn, backlog, client, resp, xbuf, history>>

\* sock_recv() fails: the end of the connection.
ClientGone ==
    /\ spc = "recv" /\ conn[client].in = <<>> /\ ~conn[client].copen
    /\ conn' = [conn EXCEPT ![client] = CloseServer(client)]
    /\ client' = None /\ spc' = "accept"
    /\ UNCHANGED <<controllers, backlog, resp, xbuf, history>>

\* The process is gone, and with it its ends of the connections.  An event in
\* the buffer may have left it or not.
Dies ==
    /\ spc' = "down" /\ client' = None /\ resp' = <<>> /\ xbuf' = <<>>
    /\ conn' = [k \in Conns |-> IF conn[k].sopen THEN CloseServer(k) ELSE conn[k]]
    /\ backlog' = <<>>
    /\ \/ lost' = lost \cup {xbuf[i] : i \in DOMAIN xbuf} /\ UNCHANGED done
       \/ /\ spc = "sync" /\ xbuf # <<>>
          /\ done' = [done EXCEPT ![xbuf[1].from] = xbuf[1].no]
          /\ UNCHANGED lost
    /\ UNCHANGED <<controllers, answered>>

\* sock_send().  The first answer to an end that is closed goes through and
\* comes back as a reset, the next one raises SIGPIPE.
Answer ==
    /\ spc = "send"
    /\ \/ /\ ~conn[client].reset
          /\ conn' = IF conn[client].copen
                     THEN [conn EXCEPT ![client].out = @ \o resp]
                     ELSE [conn EXCEPT ![client].reset = TRUE]
          /\ spc' = "sync"
          /\ UNCHANGED <<backlog, client, resp, xbuf, done, lost, piped>>
       \/ /\ conn[client].reset
          /\ Dies
          /\ piped' = TRUE
    /\ UNCHANGED <<controllers, answered>>

\* Mutant of Sync: the event stays in the buffer until the next one.
Sync_Forgotten ==
    /\ spc = "sync"
    /\ resp' = <<>> /\ spc' = "recv"
    /\ UNCHANGED <<controllers, conn, backlog, client, xbuf, history>>

\* xlib_sync()
Sync ==
    /\ spc = "sync"
    /\ IF xbuf # <<>> THEN done' = [done EXCEPT ![xbuf[1].from] = xbuf[1].no]
                      ELSE UNCHANGED done
    /\ xbuf' = <<>> /\ resp' = <<>>
    /\ spc' = "recv"
    /\ UNCHANGED <<controllers, conn, backlog, client, answered, lost, piped>>

\* xmbrecv.service: killall -9.
Killed ==
    /\ spc # "down"
    /\ Dies
    /\ UNCHANGED piped

\* xmbrecv.service: ExecStart; main() up to its loop.
Started ==
    /\ spc = "down"
    /\ spc' = "accept"
    /\ UNCHANGED <<controllers, conn, backlog, client, resp, xbuf, history>>

-----------------------------------------------------------------------------
Program(c) == Connect(c) \/ Receive(c) \/ ReceiveFails(c)
Server     == Accept \/ HandleClient \/ ClientGone \/ Answer \/ Sync

Next ==
    \/ \E c \in Clients : Start(c) \/ UserEvent(c) \/ Program(c) \/ Stop(c) \/ Quit(c)
    \/ Server \/ Killed \/ Started

Spec == Init /\ [][Next]_vars

\* The programs run, and whoever has a connection gives it up some day: his
\* window is unmapped, or the program is ended.
FairSpec ==
    /\ Spec /\ WF_vars(Server)
    /\ \A c \in Clients : WF_vars(Program(c)) /\ SF_vars(Stop(c))

-----------------------------------------------------------------------------
(* Properties.                                                             *)

\* xmbrecv does not die of a controller that goes away, wherever that happens:
\* it has learned of a reset before it would answer a second time.
NoSigpipe == ~piped

\* The answer a controller reads is the answer to the event it waits for:
\* whatever became of events before, nothing of them is left on the
\* connection, and xmbrecv works on at most that one event.
AnswersInStep ==
    \A c \in Clients : cfd[c] # None =>
        LET k == conn[cfd[c]] IN
        /\ Len(k.in) + Len(k.out) <= (IF cpc[c] = "recv" THEN 1 ELSE 0)
        /\ \A i \in DOMAIN k.out : k.out[i].to = Cmd(c)

\* The X server gets the events of a user in their order and none twice, also
\* when the program was restarted and events of the old connection wait in
\* the listen queue together with the new one.
ExecutedInOrder == \A i \in DOMAIN xbuf : xbuf[i].no > done[xbuf[i].from]

\* An event answered RESP_OK has reached the X server, or is in the buffer it
\* leaves next, unless xmbrecv was killed between its answer and xlib_sync().
AnsweredExecuted ==
    \A c \in Clients :
        LET d == [from |-> c, no |-> answered[c]]
        IN  answered[c] <= done[c] \/ d \in lost \/ \E i \in DOMAIN xbuf : xbuf[i] = d

\* The link is one that delivers: xmbrecv executes the events of a user in
\* their order and none twice, whatever connections of his are served when,
\* and RESP_OK means that.
Deliveries == INSTANCE Delivery
              WITH Users <- Clients, sent <- no, taken <- xbuf, executed <- done,
                   confirmed <- answered
Delivers == Deliveries!Spec

\* send_dgram() returns, although nothing in it has a timeout and xmbrecv
\* serves others first.
EventsReturn ==
    \A c \in Clients : cpc[c] \in {"connect", "recv"} ~> cpc[c] \in {"idle", "off"}
=============================================================================
