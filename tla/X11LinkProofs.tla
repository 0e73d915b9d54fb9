--------------------------- MODULE X11LinkProofs ---------------------------
(* Proofs about X11Link, for any number of controllers, of connections and *)
(* of events, and any length of the listen queue.                          *)
EXTENDS X11Link, SequenceTheorems, TLAPS

USE ConnsAssumption, EventsAssumption DEF None, Conns

-----------------------------------------------------------------------------
(* Types.                                                                  *)

\* Where a program is tells what it has: a controller waits for an answer on a
\* connection and connects when it has none, xmbrecv handles an event of one
\* connection and has an event in the buffer only until xlib_sync().
Places ==
    /\ \A c \in Clients :
          /\ cpc[c] = "recv" => cfd[c] \in Conns
          /\ cpc[c] \in {"off", "connect"} => cfd[c] = None
          /\ cpc[c] \in {"recv", "connect"} => no[c] >= 1
    /\ spc \in {"recv", "send", "sync"} => client \in Conns
    /\ spc \in {"down", "accept"} => client = None
    /\ spc \notin {"send", "sync"} => xbuf = <<>>
    /\ spc = "down" => backlog = <<>>

Typed == TypeOK /\ Places

LEMMA ConnectionFields ==
  ASSUME NEW r \in Connections
  PROVE  /\ r.in \in Seq(Cmds) /\ r.out \in Seq(Answers)
         /\ \A s \in Seq(Cmds) : [r EXCEPT !.in = s] \in Connections
         /\ \A s \in Seq(Answers) : [r EXCEPT !.out = s] \in Connections
         /\ [r EXCEPT !.reset = TRUE] \in Connections
BY DEF Connections

LEMMA ConnectionTypes ==
  /\ Closed \in Connections
  /\ \A s \in Seq(Cmds) : Fresh(s) \in Connections
  /\ \A k \in Conns : conn[k] \in Connections
        => CloseClient(k) \in Connections /\ CloseServer(k) \in Connections
<1>1. Closed \in Connections
  BY DEF Closed, Connections
<1>2. ASSUME NEW s \in Seq(Cmds) PROVE Fresh(s) \in Connections
  BY DEF Fresh, Connections
<1>3. ASSUME NEW r \in Connections
      PROVE  /\ [r EXCEPT !.copen = FALSE, !.out = <<>>, !.reset = @ \/ r.out # <<>>] \in Connections
             /\ [r EXCEPT !.sopen = FALSE, !.in = <<>>] \in Connections
  <2>1. <<>> \in Seq(Cmds) /\ <<>> \in Seq(Answers)
    OBVIOUS
  <2>2. (r.reset \/ r.out # <<>>) \in BOOLEAN
    OBVIOUS
  <2> QED
    BY <2>1, <2>2 DEF Connections
<1>4. ASSUME NEW k \in Conns, conn[k] \in Connections
      PROVE  CloseClient(k) \in Connections /\ CloseServer(k) \in Connections
  BY <1>1, <1>3, <1>4 DEF CloseClient, CloseServer
<1> QED
  BY <1>1, <1>2, <1>4

LEMMA TypedInit == Init => Typed
<1> SUFFICES ASSUME Init PROVE Typed
  OBVIOUS
<1>1. conn \in [Conns -> Connections] /\ backlog \in Seq(Conns) /\ Len(backlog) <= Backlog
  BY ConnectionTypes DEF Init
<1>2. resp \in Seq(Answers) /\ xbuf \in Seq(Cmds) /\ Len(xbuf) <= 1
  BY DEF Init
<1>3. /\ cpc \in [Clients -> {"off", "idle", "connect", "recv"}]
      /\ cfd \in [Clients -> Conns \cup {None}] /\ no \in [Clients -> 0..MaxEvents]
      /\ done \in [Clients -> 0..MaxEvents] /\ answered \in [Clients -> 0..MaxEvents]
  BY DEF Init
<1>4. lost \subseteq Cmds /\ piped \in BOOLEAN
  BY DEF Init
<1>5. Places
  BY DEF Init, Places
<1> QED
  BY <1>1, <1>2, <1>3, <1>4, <1>5 DEF Init, Typed, TypeOK

\* What all steps that close a controller's end have in common.
LEMMA ClosesType ==
  ASSUME TypeOK, NEW c \in Clients, ClientCloses(c)
  PROVE  /\ conn' \in [Conns -> Connections] /\ cfd' \in [Clients -> Conns \cup {None}]
         /\ cfd'[c] = None /\ \A d \in Clients \ {c} : cfd'[d] = cfd[d]
  BY ConnectionTypes DEF ClientCloses, TypeOK

LEMMA ConnectsType ==
  ASSUME TypeOK, NEW c \in Clients, NEW s \in Seq(Cmds), Connects(c, s)
  PROVE  /\ conn' \in [Conns -> Connections] /\ cfd' \in [Clients -> Conns \cup {None}]
         /\ backlog' \in Seq(Conns) /\ Len(backlog') <= Backlog
         /\ cfd'[c] \in Conns /\ \A d \in Clients \ {c} : cfd'[d] = cfd[d]
         /\ spc # "down"
<1>1. PICK k \in Conns : /\ conn' = [conn EXCEPT ![k] = Fresh(s)]
                         /\ cfd' = [cfd EXCEPT ![c] = k]
                         /\ backlog' = Append(backlog, k)
  BY DEF Connects, Free
<1>2. Len(backlog) < Backlog /\ spc # "down"
  BY DEF Connects
<1> QED
  BY <1>1, <1>2, ConnectionTypes DEF TypeOK

LEMMA BufferedType ==
  ASSUME Typed, xbuf # <<>>
  PROVE  xbuf[1].from \in Clients /\ xbuf[1].no \in 0..MaxEvents
<1>1. xbuf \in Seq(Cmds) /\ xbuf[1] \in Cmds
  BY DEF Typed, TypeOK
<1> QED
  BY <1>1 DEF Cmds

LEMMA BufferIs ==
  ASSUME Typed
  PROVE  /\ xbuf = <<>> => {xbuf[i] : i \in DOMAIN xbuf} = {}
         /\ xbuf # <<>> => /\ xbuf[1] \in Cmds /\ xbuf = <<xbuf[1]>>
                          /\ {xbuf[i] : i \in DOMAIN xbuf} = {xbuf[1]}
<1>1. xbuf \in Seq(Cmds) /\ Len(xbuf) \in {0, 1}
  <2>1. xbuf \in Seq(Cmds) /\ Len(xbuf) \in Nat /\ Len(xbuf) <= 1
    BY DEF Typed, TypeOK
  <2>2. \A n \in Nat : n <= 1 => n \in {0, 1}
    OBVIOUS
  <2> QED
    BY <2>1, <2>2
<1>2. CASE xbuf # <<>>
  <2>1. Len(xbuf) = 1 /\ DOMAIN xbuf = {1}
    BY <1>1, <1>2
  <2> QED
    BY <1>1, <1>2, <2>1
<1> QED
  BY <1>2

LEMMA DiesType ==
  ASSUME Typed, Dies, piped' \in BOOLEAN
  PROVE  Typed'
<1>1. conn' \in [Conns -> Connections]
  BY ConnectionTypes DEF Dies, Typed, TypeOK
<1>2. done' \in [Clients -> 0..MaxEvents] /\ lost' \subseteq Cmds
  <2>1. xbuf # <<>> => xbuf[1].from \in Clients /\ xbuf[1].no \in 0..MaxEvents
    BY BufferedType
  <2>2. {xbuf[i] : i \in DOMAIN xbuf} \subseteq Cmds
    BY BufferIs
  <2> QED
    BY <2>1, <2>2 DEF Dies, Typed, TypeOK
<1>3. resp' \in Seq(Answers) /\ xbuf' \in Seq(Cmds) /\ Len(xbuf') <= 1
      /\ backlog' \in Seq(Conns) /\ Len(backlog') <= Backlog
  BY DEF Dies
<1>4. Places'
  BY DEF Dies, Typed, Places, controllers
<1> QED
  BY <1>1, <1>2, <1>3, <1>4 DEF Dies, Typed, TypeOK, controllers

LEMMA TypedStep == Typed /\ [Next]_vars => Typed'
<1> SUFFICES ASSUME Typed, [Next]_vars PROVE Typed'
  OBVIOUS
<1> USE DEF Typed
<1>1. ASSUME NEW c \in Clients, Start(c) PROVE Typed'
  <2>1. Connects(c, <<>>) /\ <<>> \in Seq(Cmds)
    BY <1>1 DEF Start
  <2> QED
    BY <1>1, <2>1, ConnectsType DEF Start, TypeOK, Places, xmbrecv, history
<1>2. ASSUME NEW c \in Clients, UserEvent(c) PROVE Typed'
  <2>1. no' \in [Clients -> 0..MaxEvents] /\ no'[c] \in 1..MaxEvents
        /\ \A d \in Clients \ {c} : no'[d] = no[d]
    BY <1>2 DEF UserEvent, TypeOK
  <2>2. Cmd(c)' \in Cmds
    BY <2>1 DEF Cmd, Cmds
  <2>3. conn' \in [Conns -> Connections]
    <3>1. CASE UNCHANGED conn
      BY <3>1 DEF TypeOK
    <3>2. CASE cfd[c] \in Conns /\ conn' = [conn EXCEPT ![cfd[c]].in = Append(@, Cmd(c)')]
      <4>1. conn[cfd[c]] \in Connections
        BY <3>2 DEF TypeOK
      <4>2. Append(conn[cfd[c]].in, Cmd(c)') \in Seq(Cmds)
        <5>1. \A d \in Cmds : Append(conn[cfd[c]].in, d) \in Seq(Cmds)
          BY <4>1, ConnectionFields, AppendProperties
        <5> QED
          BY <2>2, <5>1
      <4>3. [conn[cfd[c]] EXCEPT !.in = Append(@, Cmd(c)')] \in Connections
        BY <4>1, <4>2, ConnectionFields
      <4> QED
        BY <3>2, <4>3 DEF TypeOK
    <3> QED
      BY <1>2, <3>1, <3>2 DEF UserEvent, TypeOK
  <2>4. cfd[c] = None => cpc' = [cpc EXCEPT ![c] = "connect"]
    BY <1>2 DEF UserEvent
  <2>5. cfd[c] # None => cpc' = [cpc EXCEPT ![c] = "recv"]
    BY <1>2 DEF UserEvent
  <2>6. Places'
    BY <1>2, <2>1, <2>4, <2>5 DEF UserEvent, TypeOK, Places, xmbrecv
  <2> QED
    BY <1>2, <2>1, <2>3, <2>4, <2>5, <2>6 DEF UserEvent, TypeOK, xmbrecv, history
<1>3. ASSUME NEW c \in Clients, Connect(c) PROVE Typed'
  <2>1. CASE Connects(c, <<Cmd(c)>>) /\ cpc' = [cpc EXCEPT ![c] = "recv"]
    <3>1. <<Cmd(c)>> \in Seq(Cmds)
      BY <1>3 DEF Connect, Cmd, Cmds, TypeOK, Places
    <3> QED
      BY <1>3, <2>1, <3>1, ConnectsType DEF Connect, TypeOK, Places, xmbrecv, history
  <2>2. CASE ConnectFails /\ cpc' = [cpc EXCEPT ![c] = "idle"]
    BY <1>3, <2>2 DEF Connect, ConnectFails, TypeOK, Places, xmbrecv, history
  <2> QED
    BY <1>3, <2>1, <2>2 DEF Connect
<1>4. ASSUME NEW c \in Clients, Receive(c) PROVE Typed'
  <2>1. cfd[c] \in Conns /\ conn[cfd[c]] \in Connections
    BY <1>4 DEF Receive, TypeOK, Places
  <2>2. [conn[cfd[c]] EXCEPT !.out = Tail(@)] \in Connections
    <3>1. Tail(conn[cfd[c]].out) \in Seq(Answers)
      BY <1>4, <2>1, ConnectionFields, HeadTailProperties DEF Receive
    <3> QED
      BY <2>1, <3>1, ConnectionFields
  <2>3. conn' \in [Conns -> Connections]
    BY <1>4, <2>1, <2>2 DEF Receive, TypeOK
  <2>4. answered' \in [Clients -> 0..MaxEvents]
    BY <1>4 DEF Receive, TypeOK
  <2> QED
    BY <1>4, <2>3, <2>4 DEF Receive, TypeOK, Places, xmbrecv
<1>5. ASSUME NEW c \in Clients, ReceiveFails(c) \/ Stop(c) \/ Quit(c) PROVE Typed'
  <2>1. ClientCloses(c) /\ UNCHANGED <<no, backlog, xmbrecv, history>>
    BY <1>5 DEF ReceiveFails, Stop, Quit
  <2>2. cpc' \in {cpc, [cpc EXCEPT ![c] = "idle"], [cpc EXCEPT ![c] = "off"]}
    BY <1>5, Zenon DEF ReceiveFails, Stop, Quit
  <2>3. UNCHANGED cpc => cpc[c] = "idle"
    BY <1>5 DEF ReceiveFails, Stop, Quit, TypeOK
  <2>4. /\ cpc' \in [Clients -> {"off", "idle", "connect", "recv"}] /\ cpc'[c] \in {"idle", "off"}
        /\ \A d \in Clients \ {c} : cpc'[d] = cpc[d]
    BY <2>2, <2>3 DEF TypeOK
  <2>5. Places'
    BY <2>1, <2>4, ClosesType DEF TypeOK, Places, xmbrecv
  <2> QED
    BY <2>1, <2>4, <2>5, ClosesType DEF TypeOK, xmbrecv, history
<1>6. ASSUME Accept PROVE Typed'
  <2>1. client' \in Conns /\ backlog' \in Seq(Conns) /\ Len(backlog') <= Backlog
    BY <1>6, HeadTailProperties DEF Accept, TypeOK
  <2> QED
    BY <1>6, <2>1 DEF Accept, TypeOK, Places, controllers, history
<1>7. ASSUME HandleClient PROVE Typed'
  <2>1. client \in Conns /\ conn[client] \in Connections /\ xbuf = <<>>
    BY <1>7 DEF HandleClient, TypeOK, Places
  <2>2. Head(conn[client].in) \in Cmds /\ [conn[client] EXCEPT !.in = Tail(@)] \in Connections
    <3>1. Head(conn[client].in) \in Cmds /\ Tail(conn[client].in) \in Seq(Cmds)
      BY <1>7, <2>1, ConnectionFields, HeadTailProperties DEF HandleClient
    <3> QED
      BY <2>1, <3>1, ConnectionFields
  <2>3. conn' \in [Conns -> Connections]
    BY <1>7, <2>1, <2>2 DEF HandleClient, TypeOK
  <2>4. /\ [val |-> "OK", to |-> Head(conn[client].in)] \in Answers
        /\ [val |-> "EXLIB", to |-> Head(conn[client].in)] \in Answers
    BY <2>2 DEF Answers
  <2>5. resp' \in Seq(Answers)
    <3>1. \/ resp' = <<[val |-> "OK", to |-> Head(conn[client].in)]>>
          \/ resp' = <<[val |-> "EXLIB", to |-> Head(conn[client].in)]>>
      BY <1>7, Zenon DEF HandleClient
    <3>2. \A a \in Answers : <<a>> \in Seq(Answers)
      OBVIOUS
    <3> QED
      BY <2>4, <3>1, <3>2
  <2>6. xbuf' = <<>> \/ xbuf' = Append(<<>>, Head(conn[client].in))
    BY <1>7, <2>1, Zenon DEF HandleClient
  <2>7. xbuf' \in Seq(Cmds) /\ Len(xbuf') <= 1
    <3>1. \A d \in Cmds : Append(<<>>, d) \in Seq(Cmds) /\ Len(Append(<<>>, d)) = 1
      OBVIOUS
    <3>2. xbuf' = <<>> => xbuf' \in Seq(Cmds) /\ Len(xbuf') <= 1
      OBVIOUS
    <3>3. ASSUME NEW d \in Cmds, xbuf' = Append(<<>>, d) PROVE xbuf' \in Seq(Cmds) /\ Len(xbuf') <= 1
      BY <3>1, <3>3
    <3> QED
      BY <2>2, <2>6, <3>2, <3>3, Zenon
  <2> QED
    BY <1>7, <2>1, <2>3, <2>5, <2>7 DEF HandleClient, TypeOK, Places, controllers, history
<1>8. ASSUME ClientGone PROVE Typed'
  <2>1. conn' \in [Conns -> Connections]
    BY <1>8, ConnectionTypes DEF ClientGone, TypeOK, Places
  <2> QED
    BY <1>8, <2>1 DEF ClientGone, TypeOK, Places, controllers, history
<1>9. ASSUME Answer PROVE Typed'
  <2>1. CASE spc' = "sync" /\ UNCHANGED <<backlog, client, resp, xbuf, done, lost, piped>>
    <3>1. client \in Conns /\ conn[client] \in Connections
      BY <1>9 DEF Answer, TypeOK, Places
    <3>2. /\ [conn[client] EXCEPT !.out = @ \o resp] \in Connections
          /\ [conn[client] EXCEPT !.reset = TRUE] \in Connections
      <4>1. conn[client].out \o resp \in Seq(Answers)
        BY <3>1, ConnectionFields, ConcatProperties DEF TypeOK
      <4> QED
        BY <3>1, <4>1, ConnectionFields
    <3>3. conn' \in [Conns -> Connections]
      BY <1>9, <2>1, <3>1, <3>2 DEF Answer, TypeOK, Dies
    <3> QED
      BY <1>9, <2>1, <3>3 DEF Answer, TypeOK, Places, controllers
  <2>2. CASE Dies /\ piped' = TRUE
    BY <2>2, DiesType
  <2> QED
    BY <1>9, <2>1, <2>2 DEF Answer
<1>10. ASSUME Sync PROVE Typed'
  <2>1. done' \in [Clients -> 0..MaxEvents]
    BY <1>10, BufferedType DEF Sync, TypeOK
  <2>2. xbuf' = <<>> /\ resp' = <<>> /\ spc' = "recv"
        /\ UNCHANGED <<controllers, conn, backlog, client, answered, lost, piped>>
    BY <1>10 DEF Sync
  <2>3. xbuf' \in Seq(Cmds) /\ Len(xbuf') <= 1 /\ resp' \in Seq(Answers)
    BY <2>2
  <2> QED
    BY <1>10, <2>1, <2>2, <2>3 DEF Sync, TypeOK, Places, controllers
<1>11. CASE Killed
  BY <1>11, DiesType DEF Killed, TypeOK
<1>12. CASE Started
  BY <1>12 DEF Started, TypeOK, Places, controllers, history
<1>13. CASE UNCHANGED vars
  BY <1>13 DEF vars, controllers, xmbrecv, history, TypeOK, Places
<1> QED
  BY <1>1, <1>2, <1>3, <1>4, <1>5, <1>6, <1>7, <1>8, <1>9, <1>10, <1>11, <1>12, <1>13
     DEF Next, Program, Server

\* Every variable stays in its type; in particular Xlib's buffer never holds
\* two events and the listen queue no more connections than it may.
THEOREM TypeCorrect == Spec => []TypeOK
<1>1. Typed /\ [Next]_vars => Typed'
  BY TypedStep
<1>2. Typed => TypeOK
  BY DEF Typed
<1> QED
  BY <1>1, <1>2, TypedInit, PTL DEF Spec
-----------------------------------------------------------------------------
(* One event at a time.                                                    *)

\* Which ends are open: that of whoever holds the connection, that of the
\* connection xmbrecv serves and those in the listen queue.
Ends ==
    /\ \A c \in Clients : cfd[c] # None => conn[cfd[c]].copen
    /\ \A c, d \in Clients : cfd[c] # None /\ cfd[c] = cfd[d] => c = d
    /\ client # None => conn[client].sopen
    /\ \A i \in 1..Len(backlog) : conn[backlog[i]].sopen /\ backlog[i] # client
    /\ \A i, j \in 1..Len(backlog) : backlog[i] = backlog[j] => i = j

\* xmbrecv has an answer for connection k that is not sent yet.
Answering(k) == spc = "send" /\ client = k

\* Connection r, for which xmbrecv has an answer if a: nothing is under way.
Quiet(r, a) == r.in = <<>> /\ r.out = <<>> /\ ~a

\* A connection carries an event, or xmbrecv handles one, or it carries the
\* answer; and nothing once xmbrecv's end has been reset.
Light(r, a) ==
    /\ Len(r.in) <= 1 /\ Len(r.out) <= 1
    /\ r.in # <<>> => r.out = <<>> /\ ~a /\ r.sopen
    /\ r.out # <<>> => ~a /\ r.copen
    /\ r.reset => ~r.copen /\ Quiet(r, a)

\* What controller c's connection carries is what it waits for.
Awaits(r, a, s, d, p) ==
    /\ r.in # <<>> => r.in[1] = d
    /\ r.out # <<>> => r.out[1].to = d
    /\ a => s[1].to = d
    /\ p # "recv" => Quiet(r, a)

LightAll  == \A k \in Conns : Light(conn[k], Answering(k))
Awaited   == \A c \in Clients : cfd[c] # None =>
                Awaits(conn[cfd[c]], Answering(cfd[c]), resp, Cmd(c), cpc[c])
OneAnswer == spc = "send" => Len(resp) = 1

StepInv == Ends /\ LightAll /\ Awaited /\ OneAnswer /\ ~piped

LEMMA ConnIs ==
  ASSUME TypeOK, NEW k \in Conns
  PROVE  /\ conn[k] \in Connections
         /\ conn[k].in \in Seq(Cmds) /\ Len(conn[k].in) \in Nat
         /\ conn[k].out \in Seq(Answers) /\ Len(conn[k].out) \in Nat
         /\ conn[k].copen \in BOOLEAN /\ conn[k].sopen \in BOOLEAN /\ conn[k].reset \in BOOLEAN
<1>1. conn[k] \in Connections
  BY DEF TypeOK
<1> QED
  BY <1>1 DEF Connections

LEMMA ShortLengths == Len(<<>>) <= 1 /\ \A x : Len(<<x>>) <= 1
OBVIOUS

LEMMA LengthOne ==
  ASSUME NEW S, NEW s \in Seq(S), s # <<>>, Len(s) <= 1
  PROVE  Len(s) = 1
<1>1. Len(s) \in Nat \ {0}
  BY EmptySeq, Zenon
<1>2. \A n \in Nat \ {0} : n <= 1 => n = 1
  OBVIOUS
<1> QED
  BY <1>1, <1>2, Zenon

LEMMA ClosedIs ==
  /\ Closed.copen = FALSE /\ Closed.sopen = FALSE /\ Closed.reset = FALSE
  /\ Closed.in = <<>> /\ Closed.out = <<>>
BY DEF Closed

\* What is left of a connection when an end is closed.
LEMMA ClientEnd ==
  ASSUME TypeOK, NEW k \in Conns, conn[k].in # <<>> => conn[k].sopen
  PROVE  /\ CloseClient(k).sopen = conn[k].sopen /\ CloseClient(k).copen = FALSE
         /\ CloseClient(k).in = conn[k].in /\ CloseClient(k).out = <<>>
         /\ CloseClient(k).reset => (conn[k].reset \/ conn[k].out # <<>>)
<1> conn[k] \in Connections
  BY ConnIs
<1>1. CASE conn[k].sopen
  <2>1. CloseClient(k) =
          [conn[k] EXCEPT !.copen = FALSE, !.out = <<>>, !.reset = @ \/ conn[k].out # <<>>]
    BY <1>1 DEF CloseClient
  <2> QED
    BY <2>1 DEF Connections
<1>2. CASE ~conn[k].sopen
  <2>1. CloseClient(k) = Closed /\ conn[k].sopen = FALSE /\ conn[k].in = <<>>
    BY <1>2 DEF CloseClient, Connections
  <2> QED
    BY <2>1, ClosedIs, Zenon
<1> QED
  BY <1>1, <1>2

LEMMA ServerEnd ==
  ASSUME TypeOK, NEW k \in Conns, conn[k].out # <<>> => conn[k].copen,
         conn[k].reset => ~conn[k].copen
  PROVE  /\ CloseServer(k).sopen = FALSE /\ CloseServer(k).copen = conn[k].copen
         /\ CloseServer(k).in = <<>> /\ CloseServer(k).out = conn[k].out
         /\ ~CloseServer(k).reset
<1> conn[k] \in Connections
  BY ConnIs
<1>1. CASE conn[k].copen
  <2>1. CloseServer(k) = [conn[k] EXCEPT !.sopen = FALSE, !.in = <<>>] /\ ~conn[k].reset
    BY <1>1 DEF CloseServer
  <2> QED
    BY <2>1 DEF Connections
<1>2. CASE ~conn[k].copen
  <2>1. CloseServer(k) = Closed /\ conn[k].copen = FALSE /\ conn[k].out = <<>>
    BY <1>2 DEF CloseServer, Connections
  <2> QED
    BY <2>1, ClosedIs, Zenon
<1> QED
  BY <1>1, <1>2

LEMMA StepInit == Init => StepInv
<1> SUFFICES ASSUME Init PROVE StepInv
  OBVIOUS
<1>1. \A k \in Conns : conn[k] = Closed /\ ~Answering(k)
  BY DEF Init, Answering
<1>2. LightAll
  BY <1>1, ClosedIs DEF LightAll, Light
<1> QED
  BY <1>2 DEF Init, StepInv, Ends, OneAnswer, Awaited

\* A step at one connection: all others are as before, and so is what their
\* controllers wait for.
LEMMA AtOne ==
  ASSUME Typed, StepInv, NEW k \in Conns,
         \A j \in Conns \ {k} : conn'[j] = conn[j] /\ Answering(j)' = Answering(j),
         \A j \in Conns \ {k} : ~Answering(j) \/ resp' = resp,
         \A d \in Clients : \/ cfd'[d] \in {None, k}
                            \/ cfd'[d] = cfd[d] /\ Cmd(d)' = Cmd(d) /\ cpc'[d] = cpc[d],
         \A d \in Clients : cfd'[d] = k =>
             Awaits(conn'[k], Answering(k)', resp', Cmd(d)', cpc'[d]),
         Light(conn'[k], Answering(k)')
  PROVE  LightAll' /\ Awaited'
<1>1. ASSUME NEW j \in Conns PROVE Light(conn'[j], Answering(j)')
  <2>1. CASE j = k
    BY <2>1
  <2>2. CASE j # k
    BY <2>2 DEF StepInv, LightAll
  <2> QED
    BY <2>1, <2>2
<1>2. ASSUME NEW d \in Clients, cfd'[d] # None
      PROVE  Awaits(conn'[cfd'[d]], Answering(cfd[d])', resp', Cmd(d)', cpc'[d])
  <2>1. CASE cfd'[d] = k
    BY <2>1 DEF Answering
  <2>2. CASE cfd'[d] # k
    <3> PICK j \in Conns : j = cfd[d] /\ cfd'[d] = j /\ j # k
      BY <1>2, <2>2 DEF Typed, TypeOK
    <3>1. Awaits(conn[j], Answering(j), resp, Cmd(d), cpc[d])
      BY DEF StepInv, Awaited, Answering
    <3>2. conn'[j] = conn[j] /\ Answering(j)' = Answering(j) /\ (~Answering(j) \/ resp' = resp)
      OBVIOUS
    <3>3. Cmd(d)' = Cmd(d) /\ cpc'[d] = cpc[d]
      BY <1>2, <2>2
    <3>4. Answering(cfd[d])' = Answering(j)'
      BY DEF Answering
    <3> QED
      BY <3>1, <3>2, <3>3, <3>4 DEF Awaits
  <2> QED
    BY <2>1, <2>2
<1> QED
  BY <1>1, <1>2 DEF LightAll, Awaited, Answering

\* A step that closes no end of a connection but those of controllers that give
\* it up.
LEMMA EndsStay ==
  ASSUME Typed, Ends, UNCHANGED <<client, backlog>>,
         \A j \in Conns : conn'[j].sopen = conn[j].sopen,
         \A d \in Clients : \/ cfd'[d] = None
                            \/ cfd'[d] = cfd[d] /\ (cfd[d] \in Conns => conn'[cfd[d]].copen = conn[cfd[d]].copen)
  PROVE  Ends'
<1>1. \A d \in Clients : cfd[d] \in Conns \cup {None}
  BY DEF Typed, TypeOK
<1>2. \A d \in Clients : cfd'[d] # None => conn'[cfd'[d]].copen
  BY <1>1 DEF Ends
<1>3. \A d, e \in Clients : cfd'[d] # None /\ cfd'[d] = cfd'[e] => d = e
  BY DEF Ends
<1>4. client' # None => conn'[client'].sopen
  <2>1. client \in Conns \cup {None}
    BY DEF Typed, TypeOK
  <2> QED
    BY <2>1 DEF Ends
<1>5. \A i \in 1..Len(backlog') : conn'[backlog'[i]].sopen /\ backlog'[i] # client'
  <2>1. \A i \in 1..Len(backlog) : backlog[i] \in Conns
    BY DEF Typed, TypeOK
  <2> QED
    BY <2>1 DEF Ends
<1>6. \A i, j \in 1..Len(backlog') : backlog'[i] = backlog'[j] => i = j
  BY DEF Ends
<1> QED
  BY <1>2, <1>3, <1>4, <1>5, <1>6 DEF Ends

\* An end of the controller that is closed takes its answers with it; nothing
\* is under way in both directions.
LEMMA StepCloses ==
  ASSUME Typed, StepInv, NEW c \in Clients, ClientCloses(c),
         UNCHANGED <<no, backlog, xmbrecv, piped>>,
         \A d \in Clients \ {c} : cpc'[d] = cpc[d]
  PROVE  StepInv'
<1>1. OneAnswer' /\ ~piped'
  BY DEF StepInv, OneAnswer, xmbrecv
<1>2. \A j \in Conns : Answering(j)' = Answering(j) /\ resp' = resp
  BY DEF Answering, xmbrecv
<1>3. \A d \in Clients : Cmd(d)' = Cmd(d)
  BY DEF Cmd
<1>4. CASE cfd[c] = None
  <2>1. UNCHANGED conn /\ cfd' = cfd
    BY <1>4 DEF ClientCloses, Typed, TypeOK
  <2>2. Ends'
    BY <2>1 DEF StepInv, Ends, xmbrecv
  <2>3. LightAll'
    BY <1>2, <2>1 DEF StepInv, LightAll
  <2>4. Awaited'
    <3> SUFFICES ASSUME NEW d \in Clients, cfd'[d] # None
                 PROVE  Awaits(conn'[cfd'[d]], Answering(cfd[d])', resp', Cmd(d)', cpc'[d])
      BY DEF Awaited
    <3>1. d # c /\ cfd'[d] = cfd[d] /\ cfd[d] # None
      BY <1>4, <2>1
    <3>2. Awaits(conn[cfd[d]], Answering(cfd[d]), resp, Cmd(d), cpc[d])
      BY <3>1 DEF StepInv, Awaited
    <3>3. Answering(cfd[d])' = Answering(cfd[d]) /\ resp' = resp
      BY <3>1 DEF Answering, xmbrecv
    <3> QED
      BY <1>3, <2>1, <3>1, <3>2, <3>3
  <2> QED
    BY <1>1, <2>2, <2>3, <2>4 DEF StepInv
<1>5. CASE cfd[c] \in Conns
  <2> PICK k \in Conns : k = cfd[c]
    BY <1>5
  <2>1. conn[k].copen /\ Light(conn[k], Answering(k))
    BY <1>5 DEF StepInv, Ends, LightAll
  <2>2. /\ conn' = [conn EXCEPT ![k] = CloseClient(k)]
        /\ cfd' = [cfd EXCEPT ![c] = None]
    BY <1>5 DEF ClientCloses
  <2>3. /\ cfd'[c] = None
        /\ \A d \in Clients \ {c} : cfd'[d] = cfd[d] /\ cfd[d] # k
    BY <1>5, <2>2 DEF StepInv, Ends, Typed, TypeOK
  <2>4. /\ \A j \in Conns \ {k} : conn'[j] = conn[j]
        /\ conn'[k] = CloseClient(k)
    BY <2>2 DEF Typed, TypeOK
  <2>5. /\ conn'[k].sopen = conn[k].sopen /\ conn'[k].copen = FALSE
        /\ conn'[k].in = conn[k].in /\ conn'[k].out = <<>>
        /\ conn'[k].reset => conn[k].out # <<>>
    BY <2>1, <2>4, ClientEnd DEF Light, Typed
  <2>6. Ends'
    <3>1. \A j \in Conns : conn'[j].sopen = conn[j].sopen
      BY <2>4, <2>5
    <3>2. \A d \in Clients : \/ cfd'[d] = None
                             \/ cfd'[d] = cfd[d] /\ (cfd[d] \in Conns => conn'[cfd[d]].copen = conn[cfd[d]].copen)
      BY <2>3, <2>4
    <3> QED
      BY <3>1, <3>2, EndsStay DEF StepInv, xmbrecv
  <2>7. Light(conn'[k], Answering(k)')
    BY <1>2, <2>1, <2>5 DEF Light, Quiet
  <2>8. LightAll' /\ Awaited'
    BY <1>2, <1>3, <2>3, <2>4, <2>7, AtOne
  <2> QED
    BY <1>1, <2>6, <2>8 DEF StepInv
<1> QED
  BY <1>4, <1>5 DEF Typed, TypeOK

\* A new connection is nobody else's, and neither is it in the listen queue.
LEMMA StepConnects ==
  ASSUME Typed, StepInv, NEW c \in Clients, cfd[c] = None,
         NEW s \in Seq(Cmds), s = <<>> \/ s = <<Cmd(c)>>,
         Connects(c, s), UNCHANGED <<no, xmbrecv, piped>>,
         \A d \in Clients \ {c} : cpc'[d] = cpc[d],
         cpc'[c] # "recv" => s = <<>>
  PROVE  StepInv'
<1>1. PICK k \in Conns : /\ ~conn[k].copen /\ ~conn[k].sopen
                         /\ conn' = [conn EXCEPT ![k] = Fresh(s)]
                         /\ cfd' = [cfd EXCEPT ![c] = k]
                         /\ backlog' = Append(backlog, k)
  BY DEF Connects, Free
<1>2. /\ conn'[k].copen = TRUE /\ conn'[k].sopen = TRUE /\ conn'[k].reset = FALSE
      /\ conn'[k].in = s /\ conn'[k].out = <<>>
  <2>1. conn'[k] = Fresh(s)
    BY <1>1 DEF Typed, TypeOK
  <2> QED
    BY <2>1 DEF Fresh
<1>3. \A j \in Conns \ {k} : conn'[j] = conn[j]
  BY <1>1 DEF Typed, TypeOK
<1>4. /\ \A d \in Clients \ {c} : cfd'[d] = cfd[d] /\ cfd[d] # k
      /\ cfd'[c] = k /\ client # k
      /\ \A i \in 1..Len(backlog) : backlog[i] # k
  <2>1. \A d \in Clients : cfd[d] # k
    BY <1>1 DEF StepInv, Ends
  <2>2. cfd'[c] = k /\ \A d \in Clients \ {c} : cfd'[d] = cfd[d]
    BY <1>1 DEF Typed, TypeOK
  <2>3. client # k /\ \A i \in 1..Len(backlog) : backlog[i] # k
    BY <1>1 DEF StepInv, Ends
  <2> QED
    BY <2>1, <2>2, <2>3
<1>5. /\ backlog \in Seq(Conns) /\ Len(backlog) \in Nat
      /\ Len(backlog') = Len(backlog) + 1 /\ backlog'[Len(backlog) + 1] = k
      /\ \A i \in 1..Len(backlog) : backlog'[i] = backlog[i] /\ backlog[i] \in Conns
  <2>1. backlog \in Seq(Conns) /\ Len(backlog) \in Nat
    BY DEF Typed, TypeOK
  <2>2. \A i \in 1..Len(backlog) : backlog[i] \in Conns
    BY <2>1
  <2> QED
    BY <1>1, <2>1, <2>2, AppendProperties
<1>6. Ends'
  <2>1. ASSUME NEW d \in Clients, cfd'[d] # None PROVE conn'[cfd'[d]].copen
    <3>1. CASE d = c
      BY <1>2, <1>4, <3>1
    <3>2. CASE d # c
      <4>1. cfd'[d] = cfd[d] /\ cfd[d] \in Conns \ {k}
        BY <1>4, <2>1, <3>2 DEF Typed, TypeOK
      <4> QED
        BY <1>3, <4>1 DEF StepInv, Ends
    <3> QED
      BY <3>1, <3>2
  <2>2. \A d, e \in Clients : cfd'[d] # None /\ cfd'[d] = cfd'[e] => d = e
    BY <1>4 DEF StepInv, Ends
  <2>3. client' # None => conn'[client'].sopen
    BY <1>3, <1>4 DEF StepInv, Ends, xmbrecv, Typed, TypeOK
  <2>4. ASSUME NEW i \in 1..Len(backlog')
        PROVE  conn'[backlog'[i]].sopen /\ backlog'[i] # client'
    <3>1. CASE i = Len(backlog) + 1
      BY <1>2, <1>4, <1>5, <3>1 DEF xmbrecv
    <3>2. CASE i \in 1..Len(backlog)
      BY <1>3, <1>4, <1>5, <3>2 DEF StepInv, Ends, xmbrecv
    <3> QED
      BY <1>5, <3>1, <3>2
  <2>5. \A i, j \in 1..Len(backlog') : backlog'[i] = backlog'[j] => i = j
    <3> SUFFICES ASSUME NEW i \in 1..(Len(backlog) + 1), NEW j \in 1..(Len(backlog) + 1),
                        backlog'[i] = backlog'[j]
                 PROVE  i = j
      BY <1>5
    <3>1. i \in 1..Len(backlog) \/ i = Len(backlog) + 1
      BY <1>5
    <3>2. j \in 1..Len(backlog) \/ j = Len(backlog) + 1
      BY <1>5
    <3>3. \A m, n \in 1..Len(backlog) : backlog[m] = backlog[n] => m = n
      BY DEF StepInv, Ends
    <3> QED
      BY <1>4, <1>5, <3>1, <3>2, <3>3
  <2> QED
    BY <2>1, <2>2, <2>3, <2>4, <2>5 DEF Ends
<1>7. \A j \in Conns : Answering(j)' = Answering(j) /\ resp' = resp
  BY DEF Answering, xmbrecv
<1>8. ~Answering(k)' /\ \A d \in Clients : Cmd(d)' = Cmd(d)
  BY <1>4 DEF Answering, xmbrecv, Cmd
<1>9. Light(conn'[k], Answering(k)')
  <2>1. Len(s) <= 1
    BY ShortLengths, Zenon
  <2> QED
    BY <1>2, <1>8, <2>1 DEF Light
<1>10. Awaits(conn'[k], Answering(k)', resp', Cmd(c)', cpc'[c])
  BY <1>2, <1>8 DEF Awaits, Quiet
<1>11. LightAll' /\ Awaited'
  BY <1>3, <1>4, <1>7, <1>8, <1>9, <1>10, AtOne
<1>12. OneAnswer' /\ ~piped'
  BY DEF StepInv, OneAnswer, xmbrecv
<1> QED
  BY <1>6, <1>11, <1>12 DEF StepInv

\* A controller sends when nothing is under way for it.
LEMMA StepUserEvent ==
  ASSUME Typed, StepInv, NEW c \in Clients, UserEvent(c)
  PROVE  StepInv'
<1>1. \A d \in Clients \ {c} : cpc'[d] = cpc[d] /\ Cmd(d)' = Cmd(d)
  BY DEF UserEvent, Cmd, Typed, TypeOK
<1>2. UNCHANGED <<cfd, backlog, xmbrecv, piped>> /\ cpc[c] = "idle"
  BY DEF UserEvent, history
<1>3. \A j \in Conns : Answering(j)' = Answering(j) /\ resp' = resp
  BY <1>2 DEF Answering, xmbrecv
<1>4. OneAnswer' /\ ~piped'
  BY <1>2 DEF StepInv, OneAnswer, xmbrecv
<1>5. CASE cfd[c] = None
  <2>1. UNCHANGED conn
    BY <1>5 DEF UserEvent
  <2>2. Ends'
    BY <1>2, <2>1 DEF StepInv, Ends, xmbrecv
  <2>3. LightAll'
    BY <1>3, <2>1 DEF StepInv, LightAll
  <2>4. Awaited'
    <3> SUFFICES ASSUME NEW d \in Clients, cfd'[d] # None
                 PROVE  Awaits(conn'[cfd'[d]], Answering(cfd[d])', resp', Cmd(d)', cpc'[d])
      BY DEF Awaited
    <3>1. d # c /\ cfd'[d] = cfd[d] /\ cfd[d] # None
      BY <1>2, <1>5
    <3>2. Awaits(conn[cfd[d]], Answering(cfd[d]), resp, Cmd(d), cpc[d])
      BY <3>1 DEF StepInv, Awaited
    <3>3. Answering(cfd[d])' = Answering(cfd[d]) /\ resp' = resp
      BY <1>2 DEF Answering, xmbrecv
    <3> QED
      BY <1>1, <2>1, <3>1, <3>2, <3>3
  <2> QED
    BY <1>4, <2>2, <2>3, <2>4 DEF StepInv
<1>6. CASE cfd[c] \in Conns
  <2> PICK k \in Conns : k = cfd[c]
    BY <1>6
  <2>1. /\ Quiet(conn[k], Answering(k)) /\ Light(conn[k], Answering(k)) /\ conn[k].copen
        /\ conn[k] \in Connections
    BY <1>2, <1>6, ConnIs DEF StepInv, Awaited, Awaits, LightAll, Ends, Typed
  <2>2. cpc'[c] = "recv"
    BY <1>6 DEF UserEvent, Typed, TypeOK
  <2>3. \A j \in Conns \ {k} : conn'[j] = conn[j]
    BY <1>6 DEF UserEvent, Typed, TypeOK
  <2>4. \/ conn'[k] = conn[k]
        \/ conn[k].sopen /\ conn'[k] = [conn[k] EXCEPT !.in = Append(@, Cmd(c)')]
    BY <1>6 DEF UserEvent, Typed, TypeOK
  <2>5. /\ conn'[k].copen = conn[k].copen /\ conn'[k].sopen = conn[k].sopen
        /\ conn'[k].reset = conn[k].reset /\ conn'[k].out = <<>>
        /\ conn'[k].in = <<>> \/ (conn[k].sopen /\ conn'[k].in = Append(<<>>, Cmd(c)'))
    BY <2>1, <2>4 DEF Connections, Quiet
  <2>6. conn'[k].in = <<>> \/ (Len(conn'[k].in) = 1 /\ conn'[k].in[1] = Cmd(c)')
    <3>1. \A x : Len(Append(<<>>, x)) = 1 /\ Append(<<>>, x)[1] = x
      OBVIOUS
    <3> QED
      BY <2>5, <3>1
  <2>7. ~Answering(k)'
    BY <1>3, <2>1 DEF Quiet
  <2>8. Light(conn'[k], Answering(k)')
    <3>1. Len(conn'[k].in) <= 1 /\ Len(conn'[k].out) <= 1
      <4>1. conn'[k].in = <<>> => Len(conn'[k].in) <= 1
        BY ShortLengths, Zenon
      <4>2. Len(conn'[k].in) = 1 => Len(conn'[k].in) <= 1
        OBVIOUS
      <4>3. conn'[k].out = <<>> => Len(conn'[k].out) <= 1
        BY ShortLengths, Zenon
      <4> QED
        BY <2>5, <2>6, <4>1, <4>2, <4>3
    <3>2. conn'[k].in # <<>> => conn'[k].sopen
      BY <2>5
    <3>3. ~conn'[k].reset
      BY <2>1, <2>5 DEF Light
    <3> QED
      BY <2>5, <2>7, <3>1, <3>2, <3>3 DEF Light
  <2>9. Awaits(conn'[k], Answering(k)', resp', Cmd(c)', cpc'[c])
    BY <2>2, <2>5, <2>6, <2>7 DEF Awaits
  <2>10. \A d \in Clients \ {c} : cfd[d] # k
    BY <1>6 DEF StepInv, Ends
  <2>11. LightAll' /\ Awaited'
    BY <1>1, <1>2, <1>3, <2>3, <2>8, <2>9, <2>10, AtOne
  <2>12. Ends'
    <3>1. \A j \in Conns : conn'[j].sopen = conn[j].sopen /\ conn'[j].copen = conn[j].copen
      BY <2>3, <2>5
    <3> QED
      BY <1>2, <3>1, EndsStay DEF StepInv, xmbrecv
  <2> QED
    BY <1>4, <2>11, <2>12 DEF StepInv
<1> QED
  BY <1>5, <1>6 DEF Typed, TypeOK

\* The answer is read, and the connection is quiet.
LEMMA StepReceive ==
  ASSUME Typed, StepInv, NEW c \in Clients, Receive(c)
  PROVE  StepInv'
<1> PICK k \in Conns : k = cfd[c]
  BY DEF Receive, Typed, Places
<1>1. /\ conn[k].out # <<>> /\ conn' = [conn EXCEPT ![k].out = Tail(@)]
      /\ cpc' = [cpc EXCEPT ![c] = "idle"]
      /\ UNCHANGED <<cfd, no, backlog, xmbrecv, piped>>
  BY DEF Receive
<1>2. Light(conn[k], Answering(k)) /\ conn[k] \in Connections /\ conn[k].out \in Seq(Answers)
  BY ConnIs DEF StepInv, LightAll, Typed
<1>3. Tail(conn[k].out) = <<>>
  <2>1. Len(conn[k].out) = 1
    BY <1>1, <1>2, LengthOne DEF Light
  <2>2. Tail(conn[k].out) \in Seq(Answers) /\ Len(Tail(conn[k].out)) = 0
    BY <1>1, <1>2, <2>1, HeadTailProperties
  <2> QED
    BY <2>2, EmptySeq
<1>4. /\ \A j \in Conns \ {k} : conn'[j] = conn[j]
      /\ conn'[k] = [conn[k] EXCEPT !.out = <<>>]
  BY <1>1, <1>3 DEF Typed, TypeOK
<1>5. /\ conn'[k].copen = conn[k].copen /\ conn'[k].sopen = conn[k].sopen
      /\ conn'[k].reset = conn[k].reset /\ conn'[k].out = <<>> /\ conn'[k].in = conn[k].in
  BY <1>2, <1>4 DEF Connections
<1>6. /\ \A j \in Conns : Answering(j)' = Answering(j) /\ resp' = resp
      /\ \A d \in Clients : Cmd(d)' = Cmd(d)
      /\ cfd'[c] = k /\ \A d \in Clients \ {c} : cfd'[d] # k /\ cfd'[d] = cfd[d] /\ cpc'[d] = cpc[d]
  BY <1>1 DEF Answering, xmbrecv, Cmd, StepInv, Ends, Typed, TypeOK
<1>7. conn'[k].in = <<>> /\ conn'[k].out = <<>> /\ ~Answering(k)'
  BY <1>1, <1>2, <1>5, <1>6 DEF Light
<1>8. Light(conn'[k], Answering(k)')
  BY <1>1, <1>2, <1>5, <1>7, ShortLengths DEF Light, Quiet
<1>9. Awaits(conn'[k], Answering(k)', resp', Cmd(c)', cpc'[c])
  BY <1>7 DEF Awaits, Quiet
<1>10. LightAll' /\ Awaited'
  BY <1>4, <1>6, <1>8, <1>9, AtOne
<1>11. Ends'
  <2>1. \A j \in Conns : conn'[j].sopen = conn[j].sopen /\ conn'[j].copen = conn[j].copen
    BY <1>4, <1>5
  <2> QED
    BY <1>1, <2>1, EndsStay DEF StepInv, xmbrecv
<1> QED
  BY <1>1, <1>10, <1>11 DEF StepInv, OneAnswer, xmbrecv

\* xmbrecv has no answer before or after the step, and the connections and the
\* controllers do not change.
LEMMA NoAnswer ==
  ASSUME StepInv, UNCHANGED <<controllers, conn, piped>>, spc # "send", spc' # "send"
  PROVE  LightAll' /\ Awaited' /\ OneAnswer' /\ ~piped'
<1>1. LightAll'
  BY DEF StepInv, LightAll, Answering
<1>2. Awaited'
  <2> SUFFICES ASSUME NEW d \in Clients, cfd'[d] # None
               PROVE  Awaits(conn'[cfd'[d]], Answering(cfd[d])', resp', Cmd(d)', cpc'[d])
    BY DEF Awaited
  <2>1. Awaits(conn[cfd[d]], Answering(cfd[d]), resp, Cmd(d), cpc[d])
    BY DEF StepInv, Awaited, controllers
  <2>2. ~Answering(cfd[d]) /\ ~Answering(cfd[d])' /\ Cmd(d)' = Cmd(d)
    BY DEF Answering, Cmd, controllers
  <2> QED
    BY <2>1, <2>2 DEF Awaits, Quiet, controllers
<1> QED
  BY <1>1, <1>2 DEF StepInv, OneAnswer

\* The connection that came first is served, and no longer waits.
LEMMA StepAccept ==
  ASSUME Typed, StepInv, Accept
  PROVE  StepInv'
<1>1. /\ backlog # <<>> /\ client' = Head(backlog) /\ backlog' = Tail(backlog)
      /\ spc = "accept" /\ spc' = "recv"
      /\ UNCHANGED <<controllers, conn, piped>>
  BY DEF Accept, history
<1>2. LightAll' /\ Awaited' /\ OneAnswer' /\ ~piped'
  BY <1>1, NoAnswer
<1>3. /\ backlog \in Seq(Conns) /\ Len(backlog) \in Nat \ {0}
      /\ client' = backlog[1] /\ Len(backlog') = Len(backlog) - 1
      /\ \A i \in 1..(Len(backlog) - 1) : backlog'[i] = backlog[i + 1]
  BY <1>1, EmptySeq, HeadTailProperties DEF Typed, TypeOK
<1>4. Ends'
  <2>1. /\ \A c \in Clients : cfd'[c] # None => conn'[cfd'[c]].copen
        /\ \A c, d \in Clients : cfd'[c] # None /\ cfd'[c] = cfd'[d] => c = d
    BY <1>1 DEF StepInv, Ends, controllers
  <2>2. client' # None => conn'[client'].sopen
    BY <1>1, <1>3 DEF StepInv, Ends
  <2>3. \A i \in 1..Len(backlog') : conn'[backlog'[i]].sopen /\ backlog'[i] # client'
    <3> SUFFICES ASSUME NEW i \in 1..(Len(backlog) - 1)
                 PROVE  conn'[backlog'[i]].sopen /\ backlog'[i] # client'
      BY <1>3
    <3>1. backlog'[i] = backlog[i + 1] /\ i + 1 \in 1..Len(backlog) /\ 1 \in 1..Len(backlog)
      BY <1>3
    <3>2. backlog[i + 1] # backlog[1]
      BY <3>1 DEF StepInv, Ends
    <3> QED
      BY <1>1, <1>3, <3>1, <3>2 DEF StepInv, Ends
  <2>4. \A i, j \in 1..Len(backlog') : backlog'[i] = backlog'[j] => i = j
    <3> SUFFICES ASSUME NEW i \in 1..(Len(backlog) - 1), NEW j \in 1..(Len(backlog) - 1),
                        backlog'[i] = backlog'[j]
                 PROVE  i = j
      BY <1>3
    <3>1. backlog[i + 1] = backlog[j + 1] /\ i + 1 \in 1..Len(backlog) /\ j + 1 \in 1..Len(backlog)
      BY <1>3
    <3>2. i + 1 = j + 1
      BY <3>1 DEF StepInv, Ends
    <3> QED
      BY <3>2
  <2> QED
    BY <2>1, <2>2, <2>3, <2>4 DEF Ends
<1> QED
  BY <1>2, <1>4 DEF StepInv

\* The event leaves the connection, and its answer is there.
LEMMA StepHandleClient ==
  ASSUME Typed, StepInv, HandleClient
  PROVE  StepInv'
<1> PICK k \in Conns : k = client
  BY DEF HandleClient, Typed, Places
<1>1. /\ spc = "recv" /\ spc' = "send" /\ client' = k
      /\ conn[k].in # <<>> /\ conn' = [conn EXCEPT ![k].in = Tail(@)]
      /\ UNCHANGED <<controllers, backlog, client, piped>>
  BY DEF HandleClient, history
<1>2. PICK v : resp' = <<[val |-> v, to |-> Head(conn[k].in)]>>
  BY DEF HandleClient
<1>3. Light(conn[k], Answering(k)) /\ conn[k] \in Connections /\ conn[k].in \in Seq(Cmds)
  BY ConnIs DEF StepInv, LightAll, Typed
<1>4. Tail(conn[k].in) = <<>> /\ Head(conn[k].in) = conn[k].in[1]
  <2>1. Len(conn[k].in) = 1
    BY <1>1, <1>3, LengthOne DEF Light
  <2>2. Tail(conn[k].in) \in Seq(Cmds) /\ Len(Tail(conn[k].in)) = 0
    BY <1>1, <1>3, <2>1, HeadTailProperties
  <2>3. \A s \in Seq(Cmds) : s # <<>> => Head(s) = s[1]
    OBVIOUS
  <2> QED
    BY <1>1, <1>3, <2>2, <2>3, EmptySeq
<1>5. /\ \A j \in Conns \ {k} : conn'[j] = conn[j]
      /\ conn'[k] = [conn[k] EXCEPT !.in = <<>>]
  BY <1>1, <1>4 DEF Typed, TypeOK
<1>6. /\ conn'[k].copen = conn[k].copen /\ conn'[k].sopen = conn[k].sopen
      /\ conn'[k].reset = conn[k].reset /\ conn'[k].in = <<>> /\ conn'[k].out = conn[k].out
  BY <1>3, <1>5 DEF Connections
<1>7. /\ \A j \in Conns \ {k} : Answering(j)' = Answering(j) /\ ~Answering(j)
      /\ Answering(k)' = TRUE
  BY <1>1 DEF Answering
<1>8. conn'[k].out = <<>> /\ ~conn'[k].reset
  BY <1>1, <1>3, <1>6 DEF Light, Quiet
<1>9. Light(conn'[k], Answering(k)')
  BY <1>6, <1>8, ShortLengths DEF Light
<1>10. resp'[1].to = conn[k].in[1] /\ Len(resp') = 1
  <2>1. \A x : <<x>>[1] = x /\ Len(<<x>>) = 1
    OBVIOUS
  <2>2. [val |-> v, to |-> Head(conn[k].in)].to = Head(conn[k].in)
    OBVIOUS
  <2> QED
    BY <1>2, <1>4, <2>1, <2>2, Zenon
<1>11. ASSUME NEW d \in Clients, cfd'[d] = k
       PROVE  Awaits(conn'[k], Answering(k)', resp', Cmd(d)', cpc'[d])
  <2>1. cfd[d] = k /\ Cmd(d)' = Cmd(d) /\ cpc'[d] = cpc[d]
    BY <1>1, <1>11 DEF controllers, Cmd
  <2>2. Awaits(conn[k], Answering(k), resp, Cmd(d), cpc[d])
    BY <2>1 DEF StepInv, Awaited
  <2> QED
    BY <1>1, <1>6, <1>8, <1>10, <2>1, <2>2 DEF Awaits, Quiet
<1>12. \A d \in Clients : cfd'[d] = cfd[d] /\ Cmd(d)' = Cmd(d) /\ cpc'[d] = cpc[d]
  BY <1>1 DEF controllers, Cmd
<1>13. LightAll' /\ Awaited'
  BY <1>5, <1>7, <1>9, <1>11, <1>12, AtOne
<1>14. Ends'
  <2>1. \A j \in Conns : conn'[j].sopen = conn[j].sopen /\ conn'[j].copen = conn[j].copen
    BY <1>5, <1>6
  <2> QED
    BY <1>1, <1>12, <2>1, EndsStay DEF StepInv
<1> QED
  BY <1>1, <1>10, <1>13, <1>14 DEF StepInv, OneAnswer

\* xmbrecv gives up a connection the controller has given up.
LEMMA StepClientGone ==
  ASSUME Typed, StepInv, ClientGone
  PROVE  StepInv'
<1> PICK k \in Conns : k = client
  BY DEF ClientGone, Typed, Places
<1>1. /\ spc = "recv" /\ spc' = "accept" /\ client' = None /\ ~conn[k].copen
      /\ conn' = [conn EXCEPT ![k] = CloseServer(k)]
      /\ UNCHANGED <<controllers, backlog, resp, xbuf, piped>>
  BY DEF ClientGone, history
<1>2. Light(conn[k], Answering(k))
  BY DEF StepInv, LightAll
<1>3. /\ \A j \in Conns \ {k} : conn'[j] = conn[j]
      /\ conn'[k] = CloseServer(k)
  BY <1>1 DEF Typed, TypeOK
<1>4. /\ conn'[k].sopen = FALSE /\ conn'[k].copen = conn[k].copen
      /\ conn'[k].in = <<>> /\ conn'[k].out = conn[k].out /\ ~conn'[k].reset
  BY <1>2, <1>3, ServerEnd DEF Light, Typed
<1>5. /\ \A j \in Conns : Answering(j)' = Answering(j) /\ resp' = resp
      /\ ~Answering(k)'
  BY <1>1 DEF Answering
<1>6. Light(conn'[k], Answering(k)')
  BY <1>2, <1>4, <1>5, ShortLengths DEF Light
<1>7. /\ \A d \in Clients : cfd'[d] = cfd[d] /\ Cmd(d)' = Cmd(d) /\ cpc'[d] = cpc[d]
      /\ \A d \in Clients : cfd'[d] # k
  BY <1>1 DEF controllers, Cmd, StepInv, Ends
<1>8. LightAll' /\ Awaited'
  BY <1>3, <1>5, <1>6, <1>7, AtOne
<1>9. Ends'
  <2>1. \A d \in Clients : cfd'[d] # None => conn'[cfd'[d]].copen
    <3> SUFFICES ASSUME NEW d \in Clients, cfd[d] # None PROVE conn'[cfd[d]].copen
      BY <1>7
    <3>1. cfd[d] \in Conns \ {k}
      BY <1>7 DEF Typed, TypeOK
    <3> QED
      BY <1>3, <3>1 DEF StepInv, Ends
  <2>2. \A d, e \in Clients : cfd'[d] # None /\ cfd'[d] = cfd'[e] => d = e
    BY <1>7 DEF StepInv, Ends
  <2>3. \A i \in 1..Len(backlog') : conn'[backlog'[i]].sopen /\ backlog'[i] # client'
    <3> SUFFICES ASSUME NEW i \in 1..Len(backlog)
                 PROVE  conn'[backlog[i]].sopen /\ backlog[i] # None
      BY <1>1
    <3>1. backlog[i] \in Conns
      BY DEF Typed, TypeOK
    <3>2. backlog[i] # k /\ conn[backlog[i]].sopen
      BY DEF StepInv, Ends
    <3> QED
      BY <1>3, <3>1, <3>2
  <2>4. \A i, j \in 1..Len(backlog') : backlog'[i] = backlog'[j] => i = j
    BY <1>1 DEF StepInv, Ends
  <2> QED
    BY <1>1, <2>1, <2>2, <2>3, <2>4 DEF Ends
<1> QED
  BY <1>1, <1>8, <1>9 DEF StepInv, OneAnswer

\* The answer is put on the connection xmbrecv serves, and the connection is
\* reset if nobody is there to read it; it was not before, since xmbrecv has
\* an answer only for what came over it.
LEMMA StepAnswer ==
  ASSUME Typed, StepInv, Answer
  PROVE  StepInv'
<1> PICK k \in Conns : k = client
  BY DEF Answer, Typed, Places
<1>1. /\ conn[k].in = <<>> /\ conn[k].out = <<>> /\ ~conn[k].reset
      /\ conn[k] \in Connections /\ Len(resp) = 1 /\ resp \in Seq(Answers)
  <2>1. Answering(k)
    BY DEF Answer, Answering
  <2> QED
    BY <2>1, ConnIs DEF StepInv, LightAll, Light, Quiet, OneAnswer, Answer, Typed, TypeOK
<1>2. /\ spc = "send" /\ spc' = "sync"
      /\ UNCHANGED <<controllers, backlog, client, resp, piped>>
  BY <1>1 DEF Answer
<1>3. conn' = IF conn[k].copen THEN [conn EXCEPT ![k].out = @ \o resp]
                               ELSE [conn EXCEPT ![k].reset = TRUE]
  BY <1>1 DEF Answer
<1>4. conn[k].out \o resp = resp
  BY <1>1
<1>5. /\ \A j \in Conns \ {k} : conn'[j] = conn[j]
      /\ conn'[k] = IF conn[k].copen THEN [conn[k] EXCEPT !.out = resp]
                                     ELSE [conn[k] EXCEPT !.reset = TRUE]
  BY <1>3, <1>4 DEF Typed, TypeOK
<1>6. /\ conn'[k].copen = conn[k].copen /\ conn'[k].sopen = conn[k].sopen
      /\ conn'[k].in = <<>>
      /\ conn[k].copen => conn'[k].out = resp /\ ~conn'[k].reset
      /\ ~conn[k].copen => conn'[k].out = <<>> /\ conn'[k].reset
  BY <1>1, <1>5 DEF Connections
<1>7. /\ \A j \in Conns \ {k} : Answering(j)' = Answering(j) /\ resp' = resp
      /\ ~Answering(k)'
  BY <1>2 DEF Answering
<1>8. Light(conn'[k], Answering(k)')
  BY <1>1, <1>6, <1>7, ShortLengths DEF Light, Quiet
<1>9. ASSUME NEW d \in Clients, cfd'[d] = k
      PROVE  Awaits(conn'[k], Answering(k)', resp', Cmd(d)', cpc'[d])
  <2>1. cfd[d] = k /\ Cmd(d)' = Cmd(d) /\ cpc'[d] = cpc[d]
    BY <1>2, <1>9 DEF controllers, Cmd
  <2>2. Awaits(conn[k], Answering(k), resp, Cmd(d), cpc[d]) /\ Answering(k)
    BY <1>2, <2>1 DEF StepInv, Awaited, Answering
  <2> QED
    BY <1>2, <1>6, <1>7, <2>1, <2>2 DEF Awaits, Quiet
<1>10. \A d \in Clients : cfd'[d] = cfd[d] /\ Cmd(d)' = Cmd(d) /\ cpc'[d] = cpc[d]
  BY <1>2 DEF controllers, Cmd
<1>11. LightAll' /\ Awaited'
  BY <1>5, <1>7, <1>8, <1>9, <1>10, AtOne
<1>12. Ends'
  <2>1. \A j \in Conns : conn'[j].sopen = conn[j].sopen /\ conn'[j].copen = conn[j].copen
    BY <1>5, <1>6
  <2> QED
    BY <1>2, <1>10, <2>1, EndsStay DEF StepInv
<1> QED
  BY <1>2, <1>11, <1>12 DEF StepInv, OneAnswer

\* xmbrecv's ends are gone, with the events that were on their way to it.
LEMMA StepDies ==
  ASSUME Typed, StepInv, Dies, UNCHANGED piped
  PROVE  StepInv'
<1>1. /\ spc' = "down" /\ client' = None /\ backlog' = <<>> /\ UNCHANGED controllers
      /\ conn' = [k \in Conns |-> IF conn[k].sopen THEN CloseServer(k) ELSE conn[k]]
  BY DEF Dies
<1>2. ASSUME NEW k \in Conns
      PROVE  /\ conn'[k].copen = conn[k].copen /\ conn'[k].out = conn[k].out
             /\ conn'[k].in = <<>> /\ (conn'[k].reset => conn[k].reset)
  <2>1. Light(conn[k], Answering(k))
    BY DEF StepInv, LightAll
  <2>2. CASE conn[k].sopen
    <3>1. conn'[k] = CloseServer(k)
      BY <1>1, <2>2
    <3> QED
      BY <2>1, <3>1, ServerEnd DEF Light, Typed
  <2>3. CASE ~conn[k].sopen
    <3>1. conn'[k] = conn[k]
      BY <1>1, <2>3
    <3> QED
      BY <2>1, <2>3, <3>1 DEF Light
  <2> QED
    BY <2>2, <2>3
<1>3. LightAll'
  <2> SUFFICES ASSUME NEW k \in Conns PROVE Light(conn'[k], Answering(k)')
    BY DEF LightAll
  <2>1. Light(conn[k], Answering(k)) /\ ~Answering(k)'
    BY <1>1 DEF StepInv, LightAll, Answering
  <2> QED
    BY <1>2, <2>1, ShortLengths DEF Light, Quiet
<1>4. Awaited'
  <2> SUFFICES ASSUME NEW d \in Clients, cfd'[d] # None
               PROVE  Awaits(conn'[cfd'[d]], Answering(cfd[d])', resp', Cmd(d)', cpc'[d])
    BY DEF Awaited
  <2> PICK k \in Conns : k = cfd[d] /\ cfd'[d] = k
    BY <1>1 DEF controllers, Typed, TypeOK
  <2>1. Awaits(conn[k], Answering(k), resp, Cmd(d), cpc[d])
    BY DEF StepInv, Awaited
  <2>2. ~Answering(cfd[d])' /\ Cmd(d)' = Cmd(d) /\ cpc'[d] = cpc[d]
    BY <1>1 DEF Answering, Cmd, controllers
  <2> QED
    BY <1>2, <2>1, <2>2 DEF Awaits, Quiet
<1>5. Ends'
  <2>1. \A d \in Clients : cfd'[d] # None => conn'[cfd'[d]].copen
    BY <1>1, <1>2 DEF controllers, StepInv, Ends, Typed, TypeOK
  <2>2. \A d, e \in Clients : cfd'[d] # None /\ cfd'[d] = cfd'[e] => d = e
    BY <1>1 DEF controllers, StepInv, Ends
  <2> QED
    BY <1>1, <2>1, <2>2 DEF Ends
<1> QED
  BY <1>1, <1>3, <1>4, <1>5 DEF StepInv, OneAnswer

LEMMA StepKept == Typed /\ StepInv /\ [Next]_vars => StepInv'
<1> SUFFICES ASSUME Typed, StepInv, [Next]_vars PROVE StepInv'
  OBVIOUS
<1>1. ASSUME NEW c \in Clients, Start(c) PROVE StepInv'
  <2>1. /\ Connects(c, <<>>) /\ <<>> \in Seq(Cmds) /\ cfd[c] = None
        /\ cpc' = [cpc EXCEPT ![c] = "idle"] /\ UNCHANGED <<no, xmbrecv, piped>>
    BY <1>1 DEF Start, history, Typed, Places
  <2>2. \A d \in Clients \ {c} : cpc'[d] = cpc[d]
    BY <2>1 DEF Typed, TypeOK
  <2> QED
    BY <2>1, <2>2, StepConnects
<1>2. ASSUME NEW c \in Clients, UserEvent(c) PROVE StepInv'
  BY <1>2, StepUserEvent
<1>3. ASSUME NEW c \in Clients, Connect(c) PROVE StepInv'
  <2>1. /\ cpc[c] = "connect" /\ cfd[c] = None /\ UNCHANGED <<no, xmbrecv, piped>>
        /\ \A d \in Clients \ {c} : cpc'[d] = cpc[d]
    BY <1>3 DEF Connect, history, Typed, TypeOK, Places
  <2>2. CASE Connects(c, <<Cmd(c)>>) /\ cpc' = [cpc EXCEPT ![c] = "recv"]
    <3>1. <<Cmd(c)>> \in Seq(Cmds) /\ cpc'[c] = "recv"
      BY <2>1, <2>2 DEF Cmd, Cmds, Typed, TypeOK, Places
    <3> QED
      BY <2>1, <2>2, <3>1, StepConnects
  <2>3. CASE ConnectFails /\ cpc' = [cpc EXCEPT ![c] = "idle"]
    <3>1. UNCHANGED <<cfd, conn, backlog>>
      BY <2>3 DEF ConnectFails
    <3>2. ClientCloses(c)
      BY <2>1, <3>1 DEF ClientCloses, Typed, TypeOK
    <3> QED
      BY <2>1, <3>1, <3>2, StepCloses
  <2> QED
    BY <1>3, <2>2, <2>3 DEF Connect
<1>4. ASSUME NEW c \in Clients, Receive(c) PROVE StepInv'
  BY <1>4, StepReceive
<1>5. ASSUME NEW c \in Clients, ReceiveFails(c) \/ Stop(c) \/ Quit(c) PROVE StepInv'
  <2>1. ClientCloses(c) /\ UNCHANGED <<no, backlog, xmbrecv, piped>>
    BY <1>5 DEF ReceiveFails, Stop, Quit, history
  <2>2. cpc' \in {cpc, [cpc EXCEPT ![c] = "idle"], [cpc EXCEPT ![c] = "off"]}
    BY <1>5, Zenon DEF ReceiveFails, Stop, Quit
  <2>3. \A d \in Clients \ {c} : cpc'[d] = cpc[d]
    BY <2>2 DEF Typed, TypeOK
  <2> QED
    BY <2>1, <2>3, StepCloses
<1>6. CASE Accept
  BY <1>6, StepAccept
<1>7. CASE HandleClient
  BY <1>7, StepHandleClient
<1>8. CASE ClientGone
  BY <1>8, StepClientGone
<1>9. CASE Answer
  BY <1>9, StepAnswer
<1>10. CASE Sync \/ Started
  <2>1. /\ UNCHANGED <<controllers, conn, backlog, client, piped>>
        /\ spc # "send" /\ spc' # "send"
    BY <1>10 DEF Sync, Started, history
  <2>2. Ends'
    BY <2>1, EndsStay DEF StepInv, controllers
  <2> QED
    BY <2>1, <2>2, NoAnswer DEF StepInv
<1>11. CASE Killed
  BY <1>11, StepDies DEF Killed
<1>12. CASE UNCHANGED vars
  <2>1. UNCHANGED <<cpc, cfd, no, conn, backlog, spc, client, resp, piped>>
    BY <1>12 DEF vars, controllers, xmbrecv, history
  <2> QED
    BY <2>1 DEF StepInv, Ends, LightAll, Awaited, OneAnswer, Answering, Cmd
<1> QED
  BY <1>1, <1>2, <1>3, <1>4, <1>5, <1>6, <1>7, <1>8, <1>9, <1>10, <1>11, <1>12
     DEF Next, Program, Server

LEMMA StepInvariant == Spec => [](Typed /\ StepInv)
<1>1. Typed /\ StepInv /\ [Next]_vars => (Typed /\ StepInv)'
  BY TypedStep, StepKept
<1> QED
  BY <1>1, TypedInit, StepInit, PTL DEF Spec

\* send_dgram() never takes an old answer for the one it waits for, and
\* handle_client() finds nothing behind the event it handles.
THEOREM AnswersAreAwaited == Spec => []AnswersInStep
<1>1. Typed /\ StepInv => AnswersInStep
  <2> SUFFICES ASSUME Typed, StepInv, NEW c \in Clients, cfd[c] # None
               PROVE  /\ Len(conn[cfd[c]].in) + Len(conn[cfd[c]].out)
                           <= (IF cpc[c] = "recv" THEN 1 ELSE 0)
                      /\ \A i \in DOMAIN conn[cfd[c]].out : conn[cfd[c]].out[i].to = Cmd(c)
    BY DEF AnswersInStep
  <2> PICK k \in Conns : k = cfd[c]
    BY DEF Typed, TypeOK
  <2>1. /\ Light(conn[k], Answering(k))
        /\ Awaits(conn[k], Answering(k), resp, Cmd(c), cpc[c])
    BY DEF StepInv, LightAll, Awaited
  <2>2. /\ conn[k].in \in Seq(Cmds) /\ Len(conn[k].in) \in {0, 1}
        /\ conn[k].out \in Seq(Answers) /\ Len(conn[k].out) \in {0, 1}
    <3>1. /\ conn[k].in \in Seq(Cmds) /\ Len(conn[k].in) \in Nat
          /\ conn[k].out \in Seq(Answers) /\ Len(conn[k].out) \in Nat
      BY ConnIs DEF Typed
    <3>2. Len(conn[k].in) <= 1 /\ Len(conn[k].out) <= 1
      BY <2>1 DEF Light
    <3>3. \A n \in Nat : n <= 1 => n \in {0, 1}
      OBVIOUS
    <3> QED
      BY <3>1, <3>2, <3>3, Zenon
  <2>3. (conn[k].in = <<>> => Len(conn[k].in) = 0) /\ (conn[k].out = <<>> => Len(conn[k].out) = 0)
    <3>1. Len(<<>>) = 0
      OBVIOUS
    <3> QED
      BY <3>1, Zenon
  <2>4. CASE cpc[c] # "recv"
    <3>1. conn[k].in = <<>> /\ conn[k].out = <<>>
      BY <2>1, <2>4 DEF Awaits, Quiet
    <3> QED
      BY <2>3, <2>4, <3>1
  <2>5. CASE cpc[c] = "recv"
    <3>1. conn[k].in = <<>> \/ conn[k].out = <<>>
      BY <2>1 DEF Light
    <3>2. Len(conn[k].in) + Len(conn[k].out) <= 1
      <4>1. Len(conn[k].in) = 0 \/ Len(conn[k].out) = 0
        BY <2>3, <3>1, Zenon
      <4>2. \A m, n \in {0, 1} : m = 0 \/ n = 0 => m + n <= 1
        OBVIOUS
      <4> QED
        BY <2>2, <4>1, <4>2, Zenon
    <3>3. ASSUME NEW i \in DOMAIN conn[k].out PROVE conn[k].out[i].to = Cmd(c)
      <4>1. i = 1 /\ conn[k].out # <<>>
        BY <2>2, <3>3
      <4> QED
        BY <2>1, <4>1 DEF Awaits
    <3> QED
      BY <2>5, <3>2, <3>3
  <2> QED
    BY <2>4, <2>5
<1> QED
  BY <1>1, StepInvariant, PTL

\* xmbrecv, which does not ignore SIGPIPE, does not need to: it never answers
\* on a connection it was told is reset.
THEOREM NeverSigpipe == Spec => []NoSigpipe
<1>1. Typed /\ StepInv => NoSigpipe
  BY DEF StepInv, NoSigpipe
<1> QED
  BY <1>1, StepInvariant, PTL

-----------------------------------------------------------------------------
(* In order, and executed when answered.                                   *)

\* What the steps at one connection leave in it.
LEMMA ClosesPipes ==
  ASSUME Typed, StepInv, NEW c \in Clients, ClientCloses(c), NEW j \in Conns
  PROVE  conn'[j].in = conn[j].in /\ (conn'[j].out = conn[j].out \/ conn'[j].out = <<>>)
<1>1. Light(conn[j], Answering(j))
  BY DEF StepInv, LightAll
<1>2. CASE cfd[c] = j
  <2>1. conn'[j] = CloseClient(j)
    BY <1>2 DEF ClientCloses, Typed, TypeOK
  <2> QED
    BY <1>1, <2>1, ClientEnd DEF Light, Typed
<1>3. CASE cfd[c] # j
  BY <1>3 DEF ClientCloses, Typed, TypeOK
<1> QED
  BY <1>2, <1>3

LEMMA ServerPipes ==
  ASSUME Typed, StepInv, NEW j \in Conns
  PROVE  CloseServer(j).in = <<>> /\ CloseServer(j).out = conn[j].out
<1>1. Light(conn[j], Answering(j))
  BY DEF StepInv, LightAll
<1> QED
  BY <1>1, ServerEnd DEF Light, Typed

LEMMA GonePipes ==
  ASSUME Typed, StepInv, ClientGone, NEW j \in Conns
  PROVE  conn'[j].out = conn[j].out /\ (conn'[j].in = conn[j].in \/ conn'[j].in = <<>>)
<1>1. conn'[j] = conn[j] \/ conn'[j] = CloseServer(j)
  BY DEF ClientGone, Typed, TypeOK
<1> QED
  BY <1>1, ServerPipes

LEMMA AnswerPipes ==
  ASSUME Typed, StepInv, Answer, NEW j \in Conns
  PROVE  /\ conn'[j].in = conn[j].in
         /\ conn'[j].out = conn[j].out \/ conn'[j].out = <<>> \/ conn'[j].out = resp
<1> PICK k \in Conns : k = client
  BY DEF Answer, Typed, Places
<1>1. conn[k].out = <<>> /\ ~conn[k].reset /\ conn[k] \in Connections /\ resp \in Seq(Answers)
  <2>1. Answering(k)
    BY DEF Answer, Answering
  <2> QED
    BY <2>1, ConnIs DEF StepInv, LightAll, Light, Quiet, Typed, TypeOK
<1>2. conn' = IF conn[k].copen THEN [conn EXCEPT ![k].out = @ \o resp]
                               ELSE [conn EXCEPT ![k].reset = TRUE]
  BY <1>1 DEF Answer
<1>3. conn[k].out \o resp = resp
  BY <1>1
<1>4. conn'[k] = IF conn[k].copen THEN [conn[k] EXCEPT !.out = resp]
                                  ELSE [conn[k] EXCEPT !.reset = TRUE]
  BY <1>2, <1>3 DEF Typed, TypeOK
<1>5. conn'[k].in = conn[k].in /\ (conn'[k].out = resp \/ conn'[k].out = conn[k].out)
  BY <1>1, <1>4 DEF Connections
<1>6. j # k => conn'[j] = conn[j]
  BY <1>2 DEF Typed, TypeOK
<1> QED
  BY <1>5, <1>6

\* The order in which xmbrecv serves the connections it knows of: the one it
\* has accepted, then those in the listen queue.
Waits(k)     == \E i \in 1..Len(backlog) : backlog[i] = k
InQueue(k)   == k = client \/ Waits(k)
Before(j, k) ==
    \/ j = client /\ Waits(k)
    \/ \E m, n \in 1..Len(backlog) : m < n /\ backlog[m] = j /\ backlog[n] = k

\* The event d is not newer than the user's last one, and older if that one
\* waits for a connection.
Current(d)  == d.no <= no[d.from] /\ (cpc[d.from] = "connect" => d.no < no[d.from])
Buffered(d) == xbuf # <<>> /\ xbuf[1] = d

\* The event d is newer than all of its user that xmbrecv has taken over.
Pending(d) ==
    /\ Current(d) /\ done[d.from] < d.no
    /\ xbuf # <<>> /\ xbuf[1].from = d.from => xbuf[1].no < d.no

\* The connections that are served bring the events of a user in their order,
\* and nothing of a user comes behind the connection he has now.
Ordered ==
    /\ \A c \in Clients : Current([from |-> c, no |-> done[c]])
    /\ xbuf # <<>> => Current(xbuf[1]) /\ done[xbuf[1].from] < xbuf[1].no
    /\ \A k \in Conns : InQueue(k) /\ conn[k].in # <<>> => Pending(conn[k].in[1])
    /\ \A j, k \in Conns : Before(j, k) /\ conn[k].in # <<>> =>
          /\ cfd[conn[k].in[1].from] # j
          /\ conn[j].in # <<>> /\ conn[j].in[1].from = conn[k].in[1].from
                => conn[j].in[1].no < conn[k].in[1].no

\* The event d has reached the X server or is about to, or was lost there.
Executed(d) == d.no <= done[d.from] \/ d \in lost \/ Buffered(d)

\* What is answered RESP_OK, was answered so or is about to be.
Acked ==
    /\ \A k \in Conns : conn[k].out # <<>> /\ conn[k].out[1].val = "OK"
                            => Executed(conn[k].out[1].to)
    /\ spc = "send" /\ resp[1].val = "OK" => Buffered(resp[1].to)
    /\ \A c \in Clients : Executed([from |-> c, no |-> answered[c]])

OrderInv == Ordered /\ Acked

LEMMA FirstIs ==
  ASSUME Typed, NEW k \in Conns
  PROVE  /\ conn[k].in # <<>> => /\ conn[k].in[1] \in Cmds
                                 /\ conn[k].in[1].from \in Clients /\ conn[k].in[1].no \in 1..MaxEvents
         /\ conn[k].out # <<>> => /\ conn[k].out[1] \in Answers /\ conn[k].out[1].to \in Cmds
                                  /\ conn[k].out[1].to.from \in Clients
<1>1. conn[k].in \in Seq(Cmds) /\ conn[k].out \in Seq(Answers)
  BY ConnIs DEF Typed
<1>2. conn[k].in # <<>> => conn[k].in[1] \in Cmds
  BY <1>1
<1>3. conn[k].out # <<>> => conn[k].out[1] \in Answers
  BY <1>1
<1> QED
  BY <1>2, <1>3 DEF Cmds, Answers

\* A step that lets connections go, closes them or takes events off them, and
\* leaves the X server alone.
LEMMA OrderedShrinks ==
  ASSUME Typed, Ordered, UNCHANGED <<no, done, xbuf>>,
         \A k \in Conns : InQueue(k)' => InQueue(k),
         \A j, k \in Conns : Before(j, k)' => Before(j, k),
         \A k \in Conns : conn'[k].in = conn[k].in \/ conn'[k].in = <<>>,
         \A c \in Clients : cfd'[c] = cfd[c] \/ cfd'[c] = None,
         \A c \in Clients : cpc'[c] = "connect" => cpc[c] = "connect"
  PROVE  Ordered'
<1>1. \A d : d.from \in Clients /\ Current(d) => Current(d)'
  BY DEF Current
<1>2. \A d : d.from \in Clients /\ Pending(d) => Pending(d)'
  BY <1>1 DEF Pending
<1>3. \A c \in Clients : Current([from |-> c, no |-> done[c]])'
  BY <1>1 DEF Ordered
<1>4. xbuf' # <<>> => Current(xbuf[1])' /\ (done[xbuf[1].from] < xbuf[1].no)'
  BY BufferedType DEF Ordered, Current
<1>5. ASSUME NEW k \in Conns, InQueue(k)', conn'[k].in # <<>> PROVE Pending(conn[k].in[1])'
  <2> PICK d : d = conn[k].in[1]
    OBVIOUS
  <2>1. InQueue(k) /\ conn'[k].in = conn[k].in /\ conn[k].in # <<>>
    BY <1>5
  <2>2. Pending(d) /\ d.from \in Clients
    BY <2>1, FirstIs DEF Ordered
  <2>3. Pending(d)' /\ conn'[k].in[1] = d
    BY <1>2, <2>1, <2>2
  <2> QED
    BY <2>3 DEF Pending, Current
<1>6. ASSUME NEW j \in Conns, NEW k \in Conns, Before(j, k)', conn'[k].in # <<>>
      PROVE  /\ cfd'[conn'[k].in[1].from] # j
             /\ conn'[j].in # <<>> /\ conn'[j].in[1].from = conn'[k].in[1].from
                   => conn'[j].in[1].no < conn'[k].in[1].no
  <2>1. Before(j, k) /\ conn'[k].in = conn[k].in /\ conn[k].in # <<>>
    BY <1>6
  <2>2. conn[k].in[1].from \in Clients
    BY <2>1, FirstIs
  <2> QED
    BY <2>1, <2>2 DEF Ordered
<1> QED
  BY <1>3, <1>4, <1>5, <1>6 DEF Ordered

\* No connection comes before itself.
LEMMA BeforeIs ==
  ASSUME Typed, Ends
  PROVE  \A j, k : Before(j, k) => InQueue(j) /\ InQueue(k) /\ j # k
<1>1. \A j : j = client => ~Waits(j)
  BY DEF Waits, Ends
<1>2. \A m, n \in 1..Len(backlog) : m < n => backlog[m] # backlog[n]
  <2>1. Len(backlog) \in Nat
    BY DEF Typed, TypeOK
  <2>2. \A m, n \in 1..Len(backlog) : m < n => m # n
    BY <2>1
  <2> QED
    BY <2>2 DEF Ends
<1> QED
  BY <1>1, <1>2 DEF Before, InQueue, Waits

\* A connection that is made comes last.
LEMMA QueueGrows ==
  ASSUME Typed, Ends, NEW k \in Conns, ~conn[k].sopen,
         backlog' = Append(backlog, k), UNCHANGED client
  PROVE  /\ ~InQueue(k)
         /\ \A j \in Conns : InQueue(j)' => InQueue(j) \/ j = k
         /\ \A i, j \in Conns : Before(i, j)' => Before(i, j) \/ (j = k /\ InQueue(i))
<1>1. backlog \in Seq(Conns) /\ Len(backlog) \in Nat
  BY DEF Typed, TypeOK
<1>2. ~InQueue(k)
  BY DEF Ends, InQueue, Waits
<1>3. /\ Len(backlog') = Len(backlog) + 1
      /\ \A i \in 1..Len(backlog) : backlog'[i] = backlog[i]
      /\ backlog'[Len(backlog) + 1] = k
  BY <1>1
<1>4. \A i \in 1..Len(backlog') : i \in 1..Len(backlog) \/ i = Len(backlog) + 1
  BY <1>1, <1>3
<1>5. \A j \in Conns : Waits(j)' => Waits(j) \/ j = k
  BY <1>3, <1>4 DEF Waits
<1>6. ASSUME NEW i \in Conns, NEW j \in Conns, Before(i, j)'
      PROVE  Before(i, j) \/ (j = k /\ InQueue(i))
  <2>1. CASE i = client /\ Waits(j)'
    BY <1>5, <2>1 DEF Before, InQueue
  <2>2. ASSUME NEW m \in 1..Len(backlog'), NEW n \in 1..Len(backlog'), m < n,
               backlog'[m] = i, backlog'[n] = j
        PROVE  Before(i, j) \/ (j = k /\ InQueue(i))
    <3>1. m \in 1..Len(backlog) /\ backlog[m] = i
      BY <1>1, <1>3, <1>4, <2>2
    <3>2. InQueue(i)
      BY <3>1 DEF InQueue, Waits
    <3>3. CASE n \in 1..Len(backlog)
      BY <1>3, <2>2, <3>1, <3>3 DEF Before
    <3>4. CASE n = Len(backlog) + 1
      BY <1>3, <2>2, <3>2, <3>4
    <3> QED
      BY <1>4, <3>3, <3>4
  <2> QED
    BY <1>6, <2>1, <2>2 DEF Before
<1> QED
  BY <1>2, <1>5, <1>6 DEF InQueue

\* The connection that waits longest is accepted.
LEMMA QueueMoves ==
  ASSUME Typed, backlog # <<>>, client' = Head(backlog), backlog' = Tail(backlog)
  PROVE  /\ \A j \in Conns : InQueue(j)' => InQueue(j)
         /\ \A i, j \in Conns : Before(i, j)' => Before(i, j)
<1>1. backlog \in Seq(Conns) /\ Len(backlog) \in Nat \ {0}
  BY EmptySeq DEF Typed, TypeOK
<1>2. /\ client' = backlog[1] /\ 1 \in 1..Len(backlog)
      /\ \A i \in 1..Len(backlog') : /\ backlog'[i] = backlog[i + 1] /\ i + 1 \in 1..Len(backlog)
                                     /\ 1 < i + 1
  BY <1>1, HeadTailProperties
<1>3. \A j \in Conns : Waits(j)' => \E n \in 1..Len(backlog) : 1 < n /\ backlog[n] = j
  BY <1>2 DEF Waits
<1>4. ASSUME NEW i \in Conns, NEW j \in Conns, Before(i, j)' PROVE Before(i, j)
  <2>1. CASE i = client' /\ Waits(j)'
    BY <1>2, <1>3, <2>1 DEF Before
  <2>2. ASSUME NEW m \in 1..Len(backlog'), NEW n \in 1..Len(backlog'), m < n,
               backlog'[m] = i, backlog'[n] = j
        PROVE  Before(i, j)
    <3>1. m + 1 < n + 1
      BY <2>2
    <3> QED
      BY <1>2, <2>2, <3>1 DEF Before
  <2> QED
    BY <1>4, <2>1, <2>2 DEF Before
<1> QED
  BY <1>2, <1>3, <1>4 DEF InQueue, Waits

\* A controller that connects has no newer event under way than the one it
\* sends at once.
LEMMA OrderedConnects ==
  ASSUME Typed, StepInv, Ordered, NEW c \in Clients, NEW s, Connects(c, s),
         s = <<>> \/ (s = <<Cmd(c)>> /\ cpc[c] = "connect"), cpc'[c] # "connect",
         \A d \in Clients \ {c} : cpc'[d] = cpc[d],
         UNCHANGED <<no, done, xbuf, client>>
  PROVE  Ordered'
<1> PICK k \in Conns : /\ ~conn[k].sopen /\ conn' = [conn EXCEPT ![k] = Fresh(s)]
                       /\ cfd' = [cfd EXCEPT ![c] = k] /\ backlog' = Append(backlog, k)
  BY DEF Connects, Free
<1>1. /\ conn'[k].in = s /\ \A j \in Conns \ {k} : conn'[j] = conn[j]
      /\ cfd'[c] = k /\ \A d \in Clients \ {c} : cfd'[d] = cfd[d]
  BY DEF Typed, TypeOK, Fresh
<1>2. /\ ~InQueue(k)
      /\ \A j \in Conns : InQueue(j)' => InQueue(j) \/ j = k
      /\ \A i, j \in Conns : Before(i, j)' => Before(i, j) \/ (j = k /\ InQueue(i))
  BY QueueGrows DEF StepInv
<1>3. \A i, j \in Conns : Before(i, j) => InQueue(i) /\ InQueue(j)
  BY DEF Before, InQueue, Waits
<1>4. \A d : d.from \in Clients /\ Current(d) => Current(d)'
  BY DEF Current
<1>5. \A d : d.from \in Clients /\ Pending(d) => Pending(d)'
  BY <1>4 DEF Pending
<1>6. cpc[c] = "connect" => Pending(Cmd(c))'
  <2>1. cpc[c] = "connect" => done[c] < no[c] /\ (xbuf # <<>> /\ xbuf[1].from = c => xbuf[1].no < no[c])
    BY DEF Ordered, Current
  <2>2. Cmd(c).from = c /\ Cmd(c).no = no[c] /\ no[c] <= no[c]
    BY DEF Cmd, Typed, TypeOK
  <2> QED
    BY <2>1, <2>2 DEF Pending, Current, Cmd
<1>7. \A d \in Clients : Current([from |-> d, no |-> done[d]])'
  BY <1>4 DEF Ordered
<1>8. xbuf' # <<>> => Current(xbuf[1])' /\ (done[xbuf[1].from] < xbuf[1].no)'
  <2> PICK d : d = xbuf[1]
    OBVIOUS
  <2>1. xbuf # <<>> => d.from \in Clients /\ Current(d) /\ done[d.from] < d.no
    BY BufferedType DEF Ordered
  <2> QED
    BY <1>4, <2>1 DEF Current
<1>9. ASSUME NEW j \in Conns, InQueue(j)', conn'[j].in # <<>> PROVE Pending(conn[j].in[1])'
  <2> PICK d : d = conn'[j].in[1]
    OBVIOUS
  <2>1. CASE j = k
    <3>1. s = <<Cmd(c)>> /\ cpc[c] = "connect" /\ Cmd(c)' = Cmd(c)
      BY <1>1, <1>9, <2>1 DEF Cmd
    <3>2. Cmd(c)' = d
      BY <1>1, <2>1, <3>1
    <3>3. Pending(d)'
      BY <1>6, <3>1, <3>2 DEF Pending, Current
    <3> QED
      BY <3>3 DEF Pending, Current
  <2>2. CASE j # k
    <3>1. InQueue(j) /\ conn'[j] = conn[j]
      BY <1>1, <1>2, <1>9, <2>2
    <3>2. Pending(d) /\ d.from \in Clients
      BY <1>9, <3>1, FirstIs DEF Ordered
    <3> QED
      BY <1>5, <3>2 DEF Pending, Current
  <2> QED
    BY <2>1, <2>2
<1>10. ASSUME NEW i \in Conns, NEW j \in Conns, Before(i, j)', conn'[j].in # <<>>
      PROVE  /\ cfd'[conn'[j].in[1].from] # i
             /\ conn'[i].in # <<>> /\ conn'[i].in[1].from = conn'[j].in[1].from
                   => conn'[i].in[1].no < conn'[j].in[1].no
  <2>1. CASE Before(i, j)
    <3>1. i # k /\ j # k
      BY <1>2, <1>3, <2>1
    <3>2. conn'[i] = conn[i] /\ conn'[j] = conn[j] /\ conn[j].in[1].from \in Clients
      BY <1>1, <1>10, <3>1, FirstIs
    <3> QED
      BY <1>1, <1>10, <2>1, <3>1, <3>2 DEF Ordered
  <2>2. CASE j = k /\ InQueue(i)
    <3>1. i # k /\ conn'[i] = conn[i]
      BY <1>1, <1>2, <2>2
    <3>2. s # <<>> /\ conn'[j].in[1].from = c /\ conn'[j].in[1].no = no[c] /\ cpc[c] = "connect"
      BY <1>1, <1>10, <2>2 DEF Cmd
    <3>3. conn[i].in # <<>> => Current(conn[i].in[1])
      BY <2>2 DEF Ordered, Pending
    <3> QED
      BY <1>1, <3>1, <3>2, <3>3 DEF Current
  <2> QED
    BY <1>2, <1>10, <2>1, <2>2
<1> QED
  BY <1>7, <1>8, <1>9, <1>10 DEF Ordered

\* The user's next event is newer than all others.
LEMMA OrderedUserEvent ==
  ASSUME Typed, StepInv, Ordered, NEW c \in Clients, UserEvent(c)
  PROVE  Ordered'
<1>1. /\ no'[c] = no[c] + 1 /\ no[c] \in Nat /\ \A d \in Clients \ {c} : no'[d] = no[d]
      /\ \A d \in Clients \ {c} : cpc'[d] = cpc[d]
      /\ cpc[c] = "idle" /\ UNCHANGED <<cfd, backlog, client, xbuf, done>>
  BY DEF UserEvent, Typed, TypeOK, xmbrecv, history
<1>2. \A j, k : (InQueue(j)' <=> InQueue(j)) /\ (Before(j, k)' <=> Before(j, k))
  BY <1>1 DEF InQueue, Before, Waits
<1>3. \A d : d.from \in Clients /\ d.no \in Int /\ Current(d) =>
                /\ Current(d)' /\ (d.from = c => d.no <= no[c])
  BY <1>1 DEF Current
<1>4. \A d : d.from \in Clients /\ d.no \in Int /\ Pending(d) => Pending(d)'
  BY <1>1, <1>3 DEF Pending
<1>5. \A d \in Clients : done[d] <= no[d] /\ done[d] \in Int
  BY DEF Ordered, Current, Typed, TypeOK
<1>6. xbuf # <<>> => /\ Current(xbuf[1]) /\ xbuf[1].from \in Clients /\ xbuf[1].no \in Int
                     /\ done[xbuf[1].from] < xbuf[1].no
  BY BufferedType DEF Ordered
<1>7. \A d \in Clients : Current([from |-> d, no |-> done[d]])'
  BY <1>1, <1>3, <1>5 DEF Ordered
<1>8. xbuf' # <<>> => Current(xbuf[1])' /\ (done[xbuf[1].from] < xbuf[1].no)'
  <2> PICK d : d = xbuf[1]
    OBVIOUS
  <2> QED
    BY <1>1, <1>3, <1>6 DEF Current
<1>9. CASE cfd[c] = None
  <2>1. UNCHANGED conn
    BY <1>9 DEF UserEvent
  <2>2. ASSUME NEW j \in Conns, InQueue(j)', conn'[j].in # <<>> PROVE Pending(conn[j].in[1])'
    <3> PICK d : d = conn[j].in[1]
      OBVIOUS
    <3>1. Pending(d) /\ d.from \in Clients /\ d.no \in Int
      BY <1>2, <2>1, <2>2, FirstIs DEF Ordered
    <3> QED
      BY <1>4, <2>1, <3>1 DEF Pending, Current
  <2> QED
    BY <1>1, <1>2, <1>7, <1>8, <2>1, <2>2 DEF Ordered
<1>10. CASE cfd[c] # None
  <2> PICK k \in Conns : k = cfd[c]
    BY <1>10 DEF Typed, TypeOK
  <2>1. conn[k].in = <<>> /\ conn[k] \in Connections
    <3>1. Awaits(conn[k], Answering(k), resp, Cmd(c), cpc[c])
      BY <1>10 DEF StepInv, Awaited
    <3> QED
      BY <1>1, <3>1, ConnIs DEF Awaits, Quiet, Typed
  <2>2. /\ \A j \in Conns \ {k} : conn'[j] = conn[j]
        /\ conn'[k].in = <<>> \/ conn'[k].in = <<Cmd(c)'>>
    <3>1. \/ conn' = conn
          \/ conn' = [conn EXCEPT ![k].in = Append(@, Cmd(c)')]
      BY <1>10 DEF UserEvent
    <3>2. \A x : Append(<<>>, x) = <<x>>
      OBVIOUS
    <3>3. CASE conn' = [conn EXCEPT ![k].in = Append(@, Cmd(c)')]
      <4>1. conn'[k] = [conn[k] EXCEPT !.in = Append(@, Cmd(c)')]
        BY <3>3 DEF Typed, TypeOK
      <4>2. conn'[k].in = Append(conn[k].in, Cmd(c)')
        BY <2>1, <4>1 DEF Connections
      <4> QED
        BY <2>1, <3>2, <3>3, <4>2 DEF Typed, TypeOK
    <3> QED
      BY <2>1, <3>1, <3>3
  <2> PICK e : e = Cmd(c)'
    OBVIOUS
  <2>3. e.from = c /\ e.no = no[c] + 1
    BY <1>1 DEF Cmd
  <2>4. Pending(e)'
    <3>1. e.no <= no'[c] /\ cpc'[c] = "recv"
      BY <1>1, <1>10, <2>3 DEF UserEvent, Typed, TypeOK
    <3>2. done[c] < e.no
      BY <1>1, <1>5, <2>3
    <3>3. xbuf # <<>> /\ xbuf[1].from = c => xbuf[1].no < e.no
      BY <1>1, <1>3, <1>6, <2>3
    <3> QED
      BY <1>1, <2>3, <3>1, <3>2, <3>3 DEF Pending, Current
  <2>5. ASSUME NEW j \in Conns, InQueue(j)', conn'[j].in # <<>> PROVE Pending(conn[j].in[1])'
    <3> PICK d : d = conn'[j].in[1]
      OBVIOUS
    <3>1. CASE j = k
      <4>1. d = e
        BY <2>2, <2>5, <3>1
      <4> QED
        BY <2>4, <4>1 DEF Pending, Current
    <3>2. CASE j # k
      <4>1. Pending(d) /\ d.from \in Clients /\ d.no \in Int
        BY <1>2, <2>2, <2>5, <3>2, FirstIs DEF Ordered
      <4> QED
        BY <1>4, <4>1 DEF Pending, Current
    <3> QED
      BY <3>1, <3>2
  <2>6. ASSUME NEW i \in Conns, NEW j \in Conns, Before(i, j)', conn'[j].in # <<>>
        PROVE  /\ cfd'[conn'[j].in[1].from] # i
               /\ conn'[i].in # <<>> /\ conn'[i].in[1].from = conn'[j].in[1].from
                     => conn'[i].in[1].no < conn'[j].in[1].no
    <3>1. Before(i, j) /\ i # j /\ InQueue(i)
      <4>1. Before(i, j)
        BY <1>2, <2>6
      <4>2. i = j => ~Before(i, j)
        BY BeforeIs DEF StepInv
      <4> QED
        BY <4>1, <4>2, BeforeIs DEF StepInv
    <3>2. CASE j = k
      <4>1. conn'[j].in[1] = e /\ conn'[i] = conn[i]
        BY <2>2, <2>6, <3>1, <3>2
      <4>2. cfd'[c] # i
        BY <1>1, <3>1, <3>2
      <4>3. conn[i].in # <<>> /\ conn[i].in[1].from = c => conn[i].in[1].no <= no[c] /\ conn[i].in[1].no \in Int
        BY <1>3, <3>1, FirstIs DEF Ordered, Pending
      <4> QED
        BY <1>1, <2>3, <4>1, <4>2, <4>3
    <3>3. CASE j # k
      <4>1. conn'[j] = conn[j] /\ conn[j].in # <<>> /\ conn[j].in[1].from \in Clients
        BY <2>2, <2>6, <3>3, FirstIs
      <4>2. cfd[conn[j].in[1].from] # i
        BY <3>1, <4>1 DEF Ordered
      <4>3. CASE i = k
        <5>1. conn'[i].in # <<>> => conn'[i].in[1] = e
          BY <2>2, <4>3
        <5>2. conn[j].in[1].from # c
          BY <4>2, <4>3
        <5> QED
          BY <1>1, <2>3, <4>1, <4>2, <5>1, <5>2
      <4>4. CASE i # k
        BY <1>1, <2>2, <3>1, <4>1, <4>4 DEF Ordered
      <4> QED
        BY <4>3, <4>4
    <3> QED
      BY <3>2, <3>3
  <2> QED
    BY <1>7, <1>8, <2>5, <2>6 DEF Ordered
<1> QED
  BY <1>9, <1>10

\* xmbrecv takes the next event: all others of its user that come behind it are
\* newer.
LEMMA OrderedHandles ==
  ASSUME Typed, StepInv, Ordered, HandleClient
  PROVE  Ordered'
<1> PICK k \in Conns : k = client
  BY DEF HandleClient, Typed, Places
<1>1. /\ spc = "recv" /\ xbuf = <<>> /\ conn[k].in # <<>> /\ conn[k] \in Connections
      /\ conn[k].in \in Seq(Cmds) /\ Len(conn[k].in) = 1
  BY ConnIs, LengthOne DEF HandleClient, Typed, Places, StepInv, LightAll, Light
<1> PICK e : e = conn[k].in[1]
  OBVIOUS
<1>2. /\ UNCHANGED <<cpc, cfd, no, backlog, client, done>>
      /\ conn' = [conn EXCEPT ![k].in = Tail(@)]
      /\ xbuf' = <<>> \/ xbuf' = <<e>>
  BY <1>1 DEF HandleClient, controllers, history
<1>3. conn'[k].in = <<>> /\ \A j \in Conns \ {k} : conn'[j] = conn[j]
  <2>1. Tail(conn[k].in) \in Seq(Cmds) /\ Len(Tail(conn[k].in)) = 0
    BY <1>1, HeadTailProperties
  <2>2. Tail(conn[k].in) = <<>>
    BY <2>1, EmptySeq
  <2>3. conn'[k] = [conn[k] EXCEPT !.in = <<>>]
    BY <1>2, <2>2 DEF Typed, TypeOK
  <2> QED
    BY <1>1, <1>2, <2>3 DEF Typed, TypeOK, Connections
<1>4. \A i, j : (InQueue(j)' <=> InQueue(j)) /\ (Before(i, j)' <=> Before(i, j))
  BY <1>2 DEF InQueue, Before, Waits
<1>5. Pending(e) /\ e.from \in Clients /\ e.no \in Int
  BY <1>1, FirstIs DEF Ordered, InQueue
<1>6. \A d : d.from \in Clients /\ Current(d) => Current(d)'
  BY <1>2 DEF Current
<1>7. \A d \in Clients : Current([from |-> d, no |-> done[d]])'
  BY <1>2, <1>6 DEF Ordered
<1>8. xbuf' # <<>> => Current(xbuf[1])' /\ (done[xbuf[1].from] < xbuf[1].no)'
  <2>1. xbuf' # <<>> => xbuf'[1] = e
    BY <1>2
  <2> QED
    BY <1>2, <1>5, <2>1 DEF Pending, Current
<1>9. ASSUME NEW j \in Conns, InQueue(j)', conn'[j].in # <<>> PROVE Pending(conn[j].in[1])'
  <2> PICK d : d = conn[j].in[1]
    OBVIOUS
  <2>1. j # k /\ conn'[j] = conn[j] /\ InQueue(j)
    BY <1>3, <1>4, <1>9
  <2>2. Pending(d) /\ d.from \in Clients
    BY <1>9, <2>1, FirstIs DEF Ordered
  <2>3. Before(k, j)
    BY <2>1 DEF Before, InQueue
  <2>4. d.from = e.from => e.no < d.no
    BY <1>1, <1>9, <2>1, <2>3 DEF Ordered
  <2>5. xbuf' # <<>> => xbuf'[1] = e
    BY <1>2
  <2> QED
    BY <1>2, <2>1, <2>2, <2>4, <2>5 DEF Pending, Current
<1>10. ASSUME NEW i \in Conns, NEW j \in Conns, Before(i, j)', conn'[j].in # <<>>
      PROVE  /\ cfd'[conn'[j].in[1].from] # i
             /\ conn'[i].in # <<>> /\ conn'[i].in[1].from = conn'[j].in[1].from
                   => conn'[i].in[1].no < conn'[j].in[1].no
  <2>1. j # k /\ conn'[j] = conn[j] /\ Before(i, j)
    BY <1>3, <1>4, <1>10
  <2>2. conn'[i].in # <<>> => conn'[i] = conn[i]
    BY <1>3
  <2> QED
    BY <1>2, <1>10, <2>1, <2>2 DEF Ordered
<1> QED
  BY <1>7, <1>8, <1>9, <1>10 DEF Ordered

\* The event in the buffer reaches the X server, or does not and is gone.
LEMMA BufferLeaves ==
  ASSUME Typed, Ordered, UNCHANGED <<no, cpc>>, xbuf' = <<>>,
         \/ UNCHANGED done
         \/ xbuf # <<>> /\ done' = [done EXCEPT ![xbuf[1].from] = xbuf[1].no]
  PROVE  /\ \A c \in Clients : Current([from |-> c, no |-> done[c]])' /\ done[c] <= done'[c]
         /\ \A d : d.from \in Clients /\ Pending(d) => Pending(d)'
<1>1. \A c \in Clients : done[c] \in Int
  BY DEF Typed, TypeOK
<1>2. \A d : d.from \in Clients /\ Current(d) => Current(d)'
  BY DEF Current
<1>3. CASE UNCHANGED done
  BY <1>1, <1>2, <1>3 DEF Ordered, Pending
<1>4. CASE xbuf # <<>> /\ done' = [done EXCEPT ![xbuf[1].from] = xbuf[1].no]
  <2> PICK e : e = xbuf[1]
    OBVIOUS
  <2>1. e.from \in Clients /\ e.no \in Int /\ Current(e) /\ done[e.from] < e.no
    BY <1>4, BufferedType DEF Ordered
  <2>2. done'[e.from] = e.no /\ \A c \in Clients \ {e.from} : done'[c] = done[c]
    BY <1>4, <2>1 DEF Typed, TypeOK
  <2>3. \A c \in Clients : Current([from |-> c, no |-> done[c]])' /\ done[c] <= done'[c]
    BY <1>1, <1>2, <2>1, <2>2 DEF Ordered, Current
  <2>4. \A d : d.from \in Clients /\ Pending(d) => Pending(d)'
    BY <1>2, <1>4, <2>1, <2>2 DEF Pending
  <2> QED
    BY <2>3, <2>4
<1> QED
  BY <1>3, <1>4

LEMMA OrderedSync ==
  ASSUME Typed, Ordered, Sync
  PROVE  Ordered'
<1>1. /\ UNCHANGED <<cpc, cfd, no, conn, backlog, client>> /\ xbuf' = <<>>
      /\ \/ UNCHANGED done
         \/ xbuf # <<>> /\ done' = [done EXCEPT ![xbuf[1].from] = xbuf[1].no]
  BY DEF Sync, controllers
<1>2. /\ \A c \in Clients : Current([from |-> c, no |-> done[c]])'
      /\ \A d : d.from \in Clients /\ Pending(d) => Pending(d)'
  BY <1>1, BufferLeaves
<1>3. \A i, j : (InQueue(j)' <=> InQueue(j)) /\ (Before(i, j)' <=> Before(i, j))
  BY <1>1 DEF InQueue, Before, Waits
<1>4. ASSUME NEW j \in Conns, InQueue(j)', conn'[j].in # <<>> PROVE Pending(conn[j].in[1])'
  <2> PICK d : d = conn[j].in[1]
    OBVIOUS
  <2>1. Pending(d) /\ d.from \in Clients
    BY <1>1, <1>3, <1>4, FirstIs DEF Ordered
  <2> QED
    BY <1>1, <1>2, <2>1 DEF Pending, Current
<1> QED
  BY <1>1, <1>2, <1>3, <1>4 DEF Ordered

LEMMA OrderedDies ==
  ASSUME Typed, Ordered, Dies
  PROVE  Ordered'
<1>1. /\ UNCHANGED <<cpc, cfd, no>> /\ xbuf' = <<>> /\ client' = None /\ backlog' = <<>>
      /\ \/ UNCHANGED done
         \/ xbuf # <<>> /\ done' = [done EXCEPT ![xbuf[1].from] = xbuf[1].no]
  BY DEF Dies, controllers
<1>2. \A i, j \in Conns : ~InQueue(j)' /\ ~Before(i, j)'
  BY <1>1 DEF InQueue, Before, Waits
<1> QED
  BY <1>1, <1>2, BufferLeaves DEF Ordered

LEMMA OrderedStep ==
  ASSUME Typed, StepInv, Ordered, [Next]_vars
  PROVE  Ordered'
<1> USE DEF InQueue, Before, Waits
<1>1. ASSUME NEW c \in Clients, Start(c) PROVE Ordered'
  <2>1. /\ Connects(c, <<>>) /\ cpc'[c] # "connect" /\ \A d \in Clients \ {c} : cpc'[d] = cpc[d]
        /\ UNCHANGED <<no, done, xbuf, client>>
    BY <1>1 DEF Start, xmbrecv, history, Typed, TypeOK
  <2> QED
    BY <2>1, OrderedConnects
<1>2. ASSUME NEW c \in Clients, UserEvent(c) PROVE Ordered'
  BY <1>2, OrderedUserEvent
<1>3. ASSUME NEW c \in Clients, Connect(c) PROVE Ordered'
  <2>1. /\ cpc[c] = "connect" /\ cpc'[c] # "connect" /\ \A d \in Clients \ {c} : cpc'[d] = cpc[d]
        /\ UNCHANGED <<no, done, xbuf, client>>
    BY <1>3 DEF Connect, xmbrecv, history, Typed, TypeOK
  <2>2. CASE Connects(c, <<Cmd(c)>>)
    BY <2>1, <2>2, OrderedConnects
  <2>3. CASE ConnectFails
    BY <2>1, <2>3, OrderedShrinks DEF ConnectFails
  <2> QED
    BY <1>3, <2>2, <2>3 DEF Connect
<1>4. ASSUME NEW c \in Clients, Receive(c) PROVE Ordered'
  <2> PICK k \in Conns : k = cfd[c]
    BY <1>4 DEF Receive, Typed, Places
  <2>1. conn' = [conn EXCEPT ![k].out = Tail(@)] /\ conn[k] \in Connections
    BY <1>4, ConnIs DEF Receive, Typed
  <2>2. \A j \in Conns : conn'[j].in = conn[j].in
    BY <2>1 DEF Typed, TypeOK, Connections
  <2>3. UNCHANGED <<no, done, xbuf, client, backlog, cfd>>
    BY <1>4 DEF Receive, xmbrecv
  <2>4. \A d \in Clients : cpc'[d] = "connect" => cpc[d] = "connect"
    BY <1>4 DEF Receive, Typed, TypeOK
  <2> QED
    BY <2>2, <2>3, <2>4, OrderedShrinks
<1>5. ASSUME NEW c \in Clients, ReceiveFails(c) \/ Stop(c) \/ Quit(c) PROVE Ordered'
  <2>1. ClientCloses(c) /\ UNCHANGED <<no, done, xbuf, client, backlog>>
    BY <1>5 DEF ReceiveFails, Stop, Quit, xmbrecv, history
  <2>2. \A d \in Clients : cpc'[d] = "connect" => cpc[d] = "connect"
    BY <1>5 DEF ReceiveFails, Stop, Quit, Typed, TypeOK
  <2>3. \A d \in Clients : cfd'[d] = cfd[d] \/ cfd'[d] = None
    BY <2>1 DEF ClientCloses, Typed, TypeOK
  <2>4. \A j \in Conns : conn'[j].in = conn[j].in
    BY <2>1, ClosesPipes
  <2> QED
    BY <2>1, <2>2, <2>3, <2>4, OrderedShrinks
<1>6. CASE Accept
  <2>1. UNCHANGED <<no, done, xbuf, conn, cfd, cpc>>
    BY <1>6 DEF Accept, controllers, history
  <2>2. /\ \A j \in Conns : InQueue(j)' => InQueue(j)
        /\ \A j, k \in Conns : Before(j, k)' => Before(j, k)
    BY <1>6, QueueMoves DEF Accept
  <2> QED
    BY <2>1, <2>2, OrderedShrinks
<1>7. CASE HandleClient
  BY <1>7, OrderedHandles
<1>8. CASE ClientGone
  <2>1. UNCHANGED <<no, done, xbuf, cfd, cpc, backlog>> /\ client' = None
    BY <1>8 DEF ClientGone, controllers, history
  <2>2. \A j \in Conns : conn'[j].in = conn[j].in \/ conn'[j].in = <<>>
    BY <1>8, GonePipes
  <2>3. /\ \A j \in Conns : InQueue(j)' => InQueue(j)
        /\ \A j, k \in Conns : Before(j, k)' => Before(j, k)
    BY <2>1
  <2> QED
    BY <2>1, <2>2, <2>3, OrderedShrinks
<1>9. CASE Answer
  <2>1. CASE Dies
    BY <2>1, OrderedDies
  <2>2. CASE UNCHANGED <<controllers, backlog, client, xbuf, done>>
    <3>1. \A j \in Conns : conn'[j].in = conn[j].in
      BY <1>9, AnswerPipes
    <3> QED
      BY <2>2, <3>1, OrderedShrinks DEF controllers
  <2> QED
    BY <1>9, <2>1, <2>2 DEF Answer
<1>10. CASE Sync
  BY <1>10, OrderedSync
<1>11. CASE Killed
  BY <1>11, OrderedDies DEF Killed
<1>12. CASE Started \/ UNCHANGED vars
  <2>1. UNCHANGED <<no, done, xbuf, conn, cfd, cpc, client, backlog>>
    BY <1>12 DEF Started, vars, xmbrecv, controllers, history
  <2> QED
    BY <2>1, OrderedShrinks
<1> QED
  BY <1>1, <1>2, <1>3, <1>4, <1>5, <1>6, <1>7, <1>8, <1>9, <1>10, <1>11, <1>12
     DEF Next, Program, Server

\* What was executed stays so.
LEMMA ExecutedStays ==
  ASSUME Typed, Ordered, NEW d, d.from \in Clients, d.no \in Int, Executed(d),
         \/ UNCHANGED <<done, xbuf, lost>>
         \/ xbuf = <<>> /\ UNCHANGED <<done, lost>>
         \/ Sync
         \/ Dies
  PROVE  Executed(d)'
<1>1. CASE UNCHANGED <<done, xbuf, lost>> \/ (xbuf = <<>> /\ UNCHANGED <<done, lost>>)
  BY <1>1 DEF Executed, Buffered
<1>2. CASE /\ UNCHANGED lost
           /\ xbuf # <<>> /\ done' = [done EXCEPT ![xbuf[1].from] = xbuf[1].no]
  <2> PICK e : e = xbuf[1]
    OBVIOUS
  <2>1. e.from \in Clients /\ e.no \in Int /\ done[e.from] < e.no
    BY <1>2, BufferedType DEF Ordered
  <2>2. done'[e.from] = e.no /\ \A c \in Clients \ {e.from} : done'[c] = done[c]
    BY <1>2, <2>1 DEF Typed, TypeOK
  <2>3. done[d.from] \in Int /\ done'[d.from] \in Int
    <3>1. \A c \in Clients : done[c] \in Int
      BY DEF Typed, TypeOK
    <3> QED
      BY <2>1, <2>2, <3>1
  <2>4. CASE d = e
    BY <2>1, <2>2, <2>4 DEF Executed
  <2>5. CASE d.no <= done[d.from]
    BY <2>1, <2>2, <2>3, <2>5 DEF Executed
  <2> QED
    BY <1>2, <2>4, <2>5 DEF Executed, Buffered
<1>3. CASE lost' = lost \cup {xbuf[i] : i \in DOMAIN xbuf} /\ UNCHANGED done
  BY <1>3, BufferIs DEF Executed, Buffered
<1> QED
  BY <1>1, <1>2, <1>3 DEF Sync, Dies

\* A step that reads no answer and gives none.
LEMMA AckedStays ==
  ASSUME Typed, Ordered, Acked, UNCHANGED answered,
         \A d : d.from \in Clients /\ d.no \in Int /\ Executed(d) => Executed(d)',
         \A k \in Conns : conn'[k].out = conn[k].out \/ conn'[k].out = <<>>,
         spc' = "send" => spc = "send" /\ UNCHANGED <<resp, xbuf>>
  PROVE  Acked'
<1>1. ASSUME NEW k \in Conns, conn'[k].out # <<>>, conn'[k].out[1].val = "OK"
      PROVE  Executed(conn[k].out[1].to)'
  <2> PICK d : d = conn[k].out[1].to
    OBVIOUS
  <2>1. conn'[k].out = conn[k].out /\ conn[k].out # <<>>
    BY <1>1
  <2>2. d.from \in Clients /\ d.no \in Int
    BY <2>1, FirstIs DEF Cmds
  <2>3. Executed(d)
    BY <1>1, <2>1 DEF Acked
  <2>4. Executed(d)' /\ conn'[k].out[1].to = d
    BY <2>1, <2>2, <2>3
  <2> QED
    BY <2>4 DEF Executed, Buffered
<1>2. ASSUME NEW c \in Clients PROVE Executed([from |-> c, no |-> answered[c]])'
  <2> PICK d : d = [from |-> c, no |-> answered[c]]
    OBVIOUS
  <2>1. d.from = c /\ d.no = answered[c] /\ d.no \in Int
    BY DEF Typed, TypeOK
  <2>2. Executed(d)
    BY DEF Acked
  <2>3. Executed(d)'
    BY <2>1, <2>2
  <2>4. d = [from |-> c, no |-> answered'[c]]
    OBVIOUS
  <2> QED
    BY <2>3, <2>4 DEF Executed, Buffered
<1>3. spc' = "send" /\ resp'[1].val = "OK" => Buffered(resp[1].to)'
  BY DEF Acked, Buffered
<1> QED
  BY <1>1, <1>2, <1>3 DEF Acked

\* The controller reads the answer it waits for.
LEMMA AckedReceive ==
  ASSUME Typed, StepInv, Ordered, Acked, NEW c \in Clients, Receive(c)
  PROVE  Acked'
<1> PICK k \in Conns : k = cfd[c]
  BY DEF Receive, Typed, Places
<1>1. /\ conn[k].out # <<>> /\ conn[k].out \in Seq(Answers) /\ Len(conn[k].out) = 1
      /\ conn[k] \in Connections
  BY ConnIs, LengthOne DEF Receive, StepInv, LightAll, Light, Typed
<1>2. /\ UNCHANGED <<done, xbuf, lost, resp, spc>>
      /\ conn' = [conn EXCEPT ![k].out = Tail(@)]
      /\ answered' = IF Head(conn[k].out).val = "OK" THEN [answered EXCEPT ![c] = no[c]] ELSE answered
  BY DEF Receive, xmbrecv
<1>3. \A d : Executed(d)' <=> Executed(d)
  BY <1>2 DEF Executed, Buffered
<1>4. ASSUME NEW j \in Conns, conn'[j].out # <<>>, conn'[j].out[1].val = "OK"
      PROVE  Executed(conn[j].out[1].to)'
  <2>1. j # k
    <3>1. Tail(conn[k].out) \in Seq(Answers) /\ Len(Tail(conn[k].out)) = 0
      BY <1>1, HeadTailProperties
    <3>2. Tail(conn[k].out) = <<>>
      BY <3>1, EmptySeq
    <3>3. conn'[k].out = <<>>
      BY <1>1, <1>2, <3>2 DEF Typed, TypeOK, Connections
    <3> QED
      BY <1>4, <3>3
  <2> PICK d : d = conn[j].out[1].to
    OBVIOUS
  <2>2. conn'[j] = conn[j]
    BY <1>2, <2>1 DEF Typed, TypeOK
  <2>3. Executed(d)
    BY <1>4, <2>2 DEF Acked
  <2> QED
    BY <1>3, <2>2, <2>3 DEF Executed, Buffered
<1>5. ASSUME NEW d \in Clients PROVE Executed([from |-> d, no |-> answered[d]])'
  <2> PICK e : e = [from |-> d, no |-> answered'[d]]
    OBVIOUS
  <2>1. Executed(e)
    <3>1. CASE answered'[d] = answered[d]
      BY <3>1 DEF Acked
    <3>2. CASE answered'[d] # answered[d]
      <4>1. d = c /\ Head(conn[k].out).val = "OK" /\ answered'[d] = no[c]
        BY <1>2, <3>2 DEF Typed, TypeOK
      <4>2. conn[k].out[1].val = "OK" /\ conn[k].out[1].to = Cmd(c)
        <5>1. Head(conn[k].out) = conn[k].out[1]
          BY <1>1
        <5>2. Awaits(conn[k], Answering(k), resp, Cmd(c), cpc[c])
          BY DEF StepInv, Awaited
        <5> QED
          BY <1>1, <4>1, <5>1, <5>2 DEF Awaits
      <4>3. e = Cmd(c)
        BY <4>1 DEF Cmd
      <4> QED
        BY <1>1, <4>2, <4>3 DEF Acked
    <3> QED
      BY <3>1, <3>2
  <2> QED
    BY <1>3, <2>1 DEF Executed, Buffered
<1>6. spc' = "send" /\ resp'[1].val = "OK" => Buffered(resp[1].to)'
  BY <1>2 DEF Acked, Buffered
<1> QED
  BY <1>4, <1>5, <1>6 DEF Acked

\* xmbrecv answers RESP_OK for what it has put into Xlib's buffer, and writes
\* the answer before the buffer is pushed out.
LEMMA AckedHandles ==
  ASSUME Typed, StepInv, Ordered, Acked, HandleClient
  PROVE  Acked'
<1> PICK k \in Conns : k = client
  BY DEF HandleClient, Typed, Places
<1> PICK e : e = Head(conn[k].in)
  OBVIOUS
<1>1. /\ xbuf = <<>> /\ UNCHANGED <<done, lost, answered>>
      /\ conn' = [conn EXCEPT ![k].in = Tail(@)] /\ conn[k] \in Connections
      /\ \/ resp' = <<[val |-> "OK", to |-> e]>> /\ xbuf' = Append(xbuf, e)
         \/ resp' = <<[val |-> "EXLIB", to |-> e]>>
  BY ConnIs DEF HandleClient, Typed, Places, history
<1>2. resp'[1].val = "OK" => Buffered(resp[1].to)'
  <2>1. CASE resp' = <<[val |-> "OK", to |-> e]>> /\ xbuf' = Append(xbuf, e)
    <3>1. xbuf' = <<e>> /\ resp'[1].to = e
      BY <1>1, <2>1
    <3> QED
      BY <3>1 DEF Buffered
  <2>2. CASE resp' = <<[val |-> "EXLIB", to |-> e]>>
    BY <2>2
  <2> QED
    BY <1>1, <2>1, <2>2
<1>3. \A j \in Conns : conn'[j].out = conn[j].out
  BY <1>1 DEF Typed, TypeOK, Connections
<1>4. \A d : d.from \in Clients /\ d.no \in Int /\ Executed(d) => Executed(d)'
  BY <1>1, ExecutedStays
<1>5. ASSUME NEW j \in Conns, conn'[j].out # <<>>, conn'[j].out[1].val = "OK"
      PROVE  Executed(conn[j].out[1].to)'
  <2> PICK d : d = conn[j].out[1].to
    OBVIOUS
  <2>1. d.from \in Clients /\ d.no \in Int /\ Executed(d)
    BY <1>3, <1>5, FirstIs DEF Cmds, Acked
  <2> QED
    BY <1>3, <1>4, <2>1 DEF Executed, Buffered
<1>6. ASSUME NEW c \in Clients PROVE Executed([from |-> c, no |-> answered[c]])'
  <2> PICK d : d = [from |-> c, no |-> answered[c]]
    OBVIOUS
  <2>1. d.from = c /\ d.no \in Int /\ Executed(d)
    BY DEF Typed, TypeOK, Acked
  <2> QED
    BY <1>1, <1>4, <2>1 DEF Executed, Buffered
<1> QED
  BY <1>2, <1>5, <1>6 DEF Acked

LEMMA AckedAnswer ==
  ASSUME Typed, StepInv, Ordered, Acked, Answer, UNCHANGED <<done, xbuf, lost>>, spc' # "send"
  PROVE  Acked'
<1>1. UNCHANGED answered /\ spc = "send"
  BY DEF Answer
<1>2. \A d : Executed(d)' <=> Executed(d)
  BY DEF Executed, Buffered
<1>3. ASSUME NEW j \in Conns, conn'[j].out # <<>>, conn'[j].out[1].val = "OK"
      PROVE  Executed(conn[j].out[1].to)'
  <2> PICK d : d = conn'[j].out[1].to
    OBVIOUS
  <2>1. CASE conn'[j].out = conn[j].out
    BY <1>2, <1>3, <2>1 DEF Acked, Executed, Buffered
  <2>2. CASE conn'[j].out = resp
    <3>1. Executed(d)
      BY <1>1, <1>3, <2>2 DEF Acked, Executed
    <3> QED
      BY <1>2, <3>1 DEF Executed, Buffered
  <2> QED
    BY <1>3, <2>1, <2>2, AnswerPipes
<1>4. ASSUME NEW c \in Clients PROVE Executed([from |-> c, no |-> answered[c]])'
  BY <1>1 DEF Acked, Executed, Buffered
<1> QED
  BY <1>3, <1>4 DEF Acked

LEMMA AckedStep ==
  ASSUME Typed, StepInv, Ordered, Acked, [Next]_vars
  PROVE  Acked'
<1>1. ASSUME NEW c \in Clients, Receive(c) PROVE Acked'
  BY <1>1, AckedReceive
<1>2. CASE HandleClient
  BY <1>2, AckedHandles
<1>3. CASE Answer
  <2>1. CASE ~conn[client].reset
    BY <1>3, <2>1, AckedAnswer DEF Answer
  <2>2. CASE conn[client].reset
    <3>1. Answering(client) /\ client \in Conns
      BY <1>3 DEF Answer, Answering, Typed, Places
    <3> QED
      BY <2>2, <3>1 DEF StepInv, LightAll, Light, Quiet
  <2> QED
    BY <2>1, <2>2
<1>4. CASE /\ \A k \in Conns : conn'[k].out = conn[k].out \/ conn'[k].out = <<>>
           /\ UNCHANGED answered
           /\ spc' = "send" => spc = "send" /\ UNCHANGED <<resp, xbuf>>
           /\ UNCHANGED <<done, xbuf, lost>> \/ Sync \/ Dies
  <2>1. \A d : d.from \in Clients /\ d.no \in Int /\ Executed(d) => Executed(d)'
    BY <1>4, ExecutedStays
  <2> QED
    BY <1>4, <2>1, AckedStays
<1>5. ASSUME NEW c \in Clients, Start(c) \/ Connect(c) PROVE Acked'
  <2>1. \A k \in Conns : conn'[k].out = conn[k].out \/ conn'[k].out = <<>>
    <3>1. UNCHANGED conn \/ \E s : Connects(c, s)
      BY <1>5 DEF Start, Connect, ConnectFails
    <3>2. ASSUME NEW s, Connects(c, s), NEW k \in Conns
          PROVE  conn'[k].out = conn[k].out \/ conn'[k].out = <<>>
      <4> PICK j : conn' = [conn EXCEPT ![j] = Fresh(s)]
        BY <3>2 DEF Connects
      <4>1. conn'[k] = conn[k] \/ conn'[k] = Fresh(s)
        BY DEF Typed, TypeOK
      <4> QED
        BY <4>1 DEF Fresh
    <3> QED
      BY <3>1, <3>2
  <2> QED
    BY <1>4, <1>5, <2>1 DEF Start, Connect, xmbrecv, history
<1>6. ASSUME NEW c \in Clients, UserEvent(c) PROVE Acked'
  <2>1. ASSUME NEW k \in Conns PROVE conn'[k].out = conn[k].out
    <3>1. conn[k] \in Connections
      BY ConnIs DEF Typed
    <3>2. \/ conn'[k] = conn[k]
          \/ conn'[k] = [conn[k] EXCEPT !.in = Append(@, Cmd(c)')]
      BY <1>6 DEF UserEvent, Typed, TypeOK
    <3> QED
      BY <3>1, <3>2 DEF Connections
  <2> QED
    BY <1>4, <1>6, <2>1 DEF UserEvent, xmbrecv, history
<1>7. ASSUME NEW c \in Clients, ReceiveFails(c) \/ Stop(c) \/ Quit(c) PROVE Acked'
  <2>1. ClientCloses(c) /\ UNCHANGED <<answered, spc, resp, done, xbuf, lost>>
    BY <1>7 DEF ReceiveFails, Stop, Quit, xmbrecv, history
  <2> QED
    BY <1>4, <2>1, ClosesPipes
<1>8. CASE ClientGone
  BY <1>4, <1>8, GonePipes DEF ClientGone, history
<1>9. CASE Killed
  <2>1. \A k \in Conns : conn'[k].out = conn[k].out
    BY <1>9, ServerPipes DEF Killed, Dies
  <2> QED
    BY <1>4, <1>9, <2>1 DEF Killed, Dies
<1>10. CASE Accept \/ Sync \/ Started \/ UNCHANGED vars
  <2>1. UNCHANGED <<conn, answered>> /\ (spc' = "send" => spc = "send" /\ UNCHANGED <<resp, xbuf>>)
        /\ (UNCHANGED <<done, xbuf, lost>> \/ Sync)
    BY <1>10 DEF Accept, Sync, Started, vars, xmbrecv, controllers, history
  <2> QED
    BY <1>4, <2>1
<1> QED
  BY <1>1, <1>2, <1>3, <1>5, <1>6, <1>7, <1>8, <1>9, <1>10 DEF Next, Program, Server

LEMMA OrderInvariant == Spec => [](Typed /\ StepInv /\ OrderInv)
<1>1. Init => OrderInv
  <2> SUFFICES ASSUME Init PROVE OrderInv
    OBVIOUS
  <2>1. \A c \in Clients : /\ Current([from |-> c, no |-> done[c]])
                           /\ Executed([from |-> c, no |-> answered[c]])
    <3> SUFFICES ASSUME NEW c \in Clients
                 PROVE  /\ Current([from |-> c, no |-> done[c]])
                        /\ Executed([from |-> c, no |-> answered[c]])
      OBVIOUS
    <3>1. done[c] = 0 /\ answered[c] = 0 /\ no[c] = 0 /\ cpc[c] = "off"
      BY DEF Init
    <3> QED
      BY <3>1 DEF Current, Executed
  <2>2. \A k \in Conns : conn[k].in = <<>> /\ conn[k].out = <<>>
    BY ClosedIs DEF Init
  <2> QED
    BY <2>1, <2>2 DEF Init, OrderInv, Ordered, Acked
<1>2. Typed /\ StepInv /\ OrderInv /\ [Next]_vars => OrderInv'
  BY OrderedStep, AckedStep DEF OrderInv
<1> QED
  BY <1>1, <1>2, StepInvariant, PTL DEF Spec

\* The X server gets the events of a user in their order and none twice, also
\* when old connections of him wait to be served before the one he has now.
THEOREM InOrder == Spec => []ExecutedInOrder
<1>1. Typed /\ OrderInv => ExecutedInOrder
  <2> SUFFICES ASSUME Typed, OrderInv, NEW i \in DOMAIN xbuf
               PROVE  xbuf[i].no > done[xbuf[i].from]
    BY DEF ExecutedInOrder
  <2>1. i = 1 /\ xbuf # <<>>
    BY DEF Typed, TypeOK
  <2>2. xbuf[1].no \in Int /\ done[xbuf[1].from] \in Int
    BY <2>1, BufferedType DEF Typed, TypeOK
  <2> QED
    BY <2>1, <2>2 DEF OrderInv, Ordered
<1> QED
  BY <1>1, OrderInvariant, PTL

\* What send_dgram() got RESP_OK for has reached the X server or will, unless
\* xmbrecv is killed between its answer and xlib_sync().
THEOREM AcksAreExecuted == Spec => []AnsweredExecuted
<1>1. Typed /\ OrderInv => AnsweredExecuted
  <2> SUFFICES ASSUME Typed, OrderInv, NEW c \in Clients, NEW d,
                      d = [from |-> c, no |-> answered[c]],
                      ~(answered[c] <= done[c] \/ d \in lost)
               PROVE  \E i \in DOMAIN xbuf : xbuf[i] = d
    BY DEF AnsweredExecuted
  <2>1. xbuf # <<>> /\ xbuf[1] = d
    BY DEF OrderInv, Acked, Executed, Buffered
  <2>2. 1 \in DOMAIN xbuf
    BY <2>1 DEF Typed, TypeOK
  <2> QED
    BY <2>1, <2>2
<1> QED
  BY <1>1, OrderInvariant, PTL

-----------------------------------------------------------------------------
(* X11Link implements Delivery.                                             *)

\* xmbrecv takes an event that is newer than all it has executed of its user.
LEMMA TakeRefines ==
  ASSUME Typed, OrderInv, HandleClient
  PROVE  \/ \E c \in Clients : Deliveries!Take(c)
         \/ UNCHANGED Deliveries!vars
<1> PICK d : d = conn[client].in[1]
  OBVIOUS
<1>1. client \in Conns /\ conn[client].in # <<>> /\ xbuf = <<>> /\ InQueue(client)
  BY DEF HandleClient, Typed, Places, InQueue
<1>2. d \in Cmds /\ d.from \in Clients /\ d.no \in 1..MaxEvents
  BY <1>1, FirstIs
<1>3. done[d.from] < d.no /\ d.no <= no[d.from]
  BY <1>1 DEF OrderInv, Ordered, Pending, Current
<1>4. done[d.from] \in Nat /\ no[d.from] \in Nat
  BY <1>2 DEF Typed, TypeOK
<1>5. d = [from |-> d.from, no |-> d.no] /\ d.no \in done[d.from]+1..no[d.from]
  BY <1>2, <1>3, <1>4 DEF Cmds
<1>6. Head(conn[client].in) = d
  <2>1. conn[client].in \in Seq(Cmds)
    BY <1>1, ConnIs DEF Typed
  <2> QED
    BY <1>1, <2>1
<1>7. UNCHANGED <<no, done, answered, lost>> /\ (xbuf' = Append(<<>>, d) \/ xbuf' = xbuf)
  BY <1>1, <1>6 DEF HandleClient, controllers, history
<1>8. CASE xbuf' = Append(<<>>, d)
  <2>1. xbuf' = <<[from |-> d.from, no |-> d.no]>>
    BY <1>5, <1>8
  <2> QED
    BY <1>1, <1>2, <1>5, <1>7, <2>1 DEF Deliveries!Take
<1>9. CASE xbuf' = xbuf
  BY <1>7, <1>9 DEF Deliveries!vars
<1> QED
  BY <1>7, <1>8, <1>9

\* What is answered RESP_OK is the event its user waits for, and was executed or
\* is about to be.
LEMMA ConfirmRefines ==
  ASSUME Typed, StepInv, OrderInv, NEW c \in Clients, Receive(c)
  PROVE  Deliveries!Confirm(c) \/ UNCHANGED Deliveries!vars
<1> PICK k \in Conns : k = cfd[c]
  BY DEF Receive, Typed, Places
<1> PICK a : a = conn[k].out[1]
  OBVIOUS
<1>1. conn[k].out # <<>> /\ conn[k].out \in Seq(Answers) /\ a = Head(conn[k].out)
  <2>1. conn[k].out \in Seq(Answers)
    BY ConnIs DEF Typed
  <2> QED
    BY <2>1 DEF Receive
<1>2. /\ UNCHANGED <<no, xbuf, done, lost>>
      /\ answered' = IF a.val = "OK" THEN [answered EXCEPT ![c] = no[c]] ELSE answered
  BY <1>1 DEF Receive, xmbrecv
<1>3. CASE a.val = "OK"
  <2>1. a.to = Cmd(c) /\ a.to = [from |-> c, no |-> no[c]]
    <3>1. Awaits(conn[k], Answering(k), resp, Cmd(c), cpc[c])
      BY DEF StepInv, Awaited
    <3> QED
      BY <1>1, <3>1 DEF Awaits, Receive, Cmd
  <2>2. Executed(a.to)
    BY <1>1, <1>3 DEF OrderInv, Acked
  <2>3. no[c] <= done[c] \/ a.to \in lost \/ (xbuf # <<>> /\ xbuf[1] = a.to)
    BY <2>1, <2>2 DEF Executed, Buffered
  <2>4. no[c] <= done[c] => no[c] = done[c]
    <3>1. Current([from |-> c, no |-> done[c]]) /\ done[c] \in Int /\ no[c] \in Int
      BY DEF OrderInv, Ordered, Typed, TypeOK
    <3> QED
      BY <3>1 DEF Current
  <2>5. xbuf # <<>> => xbuf = <<xbuf[1]>>
    BY BufferIs
  <2> QED
    BY <1>2, <1>3, <2>1, <2>3, <2>4, <2>5 DEF Deliveries!Confirm
<1>4. CASE a.val # "OK"
  BY <1>2, <1>4 DEF Deliveries!vars
<1> QED
  BY <1>3, <1>4

\* xlib_sync() executes what is in the buffer, and the end of xmbrecv loses it
\* or has executed it.
LEMMA ExecuteRefines ==
  ASSUME Typed, Sync \/ Dies
  PROVE  \/ Deliveries!Lose \/ \E c \in Clients : Deliveries!Execute(c)
         \/ UNCHANGED Deliveries!vars
<1>1. /\ UNCHANGED <<no, answered>> /\ xbuf' = <<>>
      /\ \/ UNCHANGED lost /\ xbuf = <<>> /\ UNCHANGED done
         \/ UNCHANGED lost /\ xbuf # <<>> /\ done' = [done EXCEPT ![xbuf[1].from] = xbuf[1].no]
         \/ lost' = lost \cup {xbuf[i] : i \in DOMAIN xbuf} /\ UNCHANGED done
  BY DEF Sync, Dies, controllers
<1>2. CASE xbuf = <<>>
  <2>1. UNCHANGED <<no, xbuf, done, answered, lost>>
    BY <1>1, <1>2, BufferIs
  <2> QED
    BY <2>1 DEF Deliveries!vars
<1>3. CASE xbuf # <<>> /\ UNCHANGED lost /\ done' = [done EXCEPT ![xbuf[1].from] = xbuf[1].no]
  <2>1. xbuf[1].from \in Clients
    BY <1>3, BufferedType
  <2> QED
    BY <1>1, <1>3, <2>1 DEF Deliveries!Execute
<1>4. CASE xbuf # <<>> /\ lost' = lost \cup {xbuf[1]} /\ UNCHANGED done
  BY <1>1, <1>4 DEF Deliveries!Lose
<1> QED
  BY <1>1, <1>2, <1>3, <1>4, BufferIs

\* The x11 link is one that delivers, for any number of controllers, connections
\* and events: the X server gets a user's events in their order and none twice,
\* and RESP_OK means that it got the last one or that xmbrecv was killed with it.
THEOREM LinkDelivers == Spec => Delivers
<1>1. Init => Deliveries!Init
  BY DEF Init, Deliveries!Init
<1>2. Typed /\ StepInv /\ OrderInv /\ [Next]_vars => [Deliveries!Next]_(Deliveries!vars)
  <2> SUFFICES ASSUME Typed, StepInv, OrderInv, [Next]_vars
               PROVE  Deliveries!Next \/ UNCHANGED Deliveries!vars
    OBVIOUS
  <2>1. CASE HandleClient
    BY <2>1, TakeRefines DEF Deliveries!Next
  <2>2. ASSUME NEW c \in Clients, Receive(c) PROVE Deliveries!Next \/ UNCHANGED Deliveries!vars
    BY <2>2, ConfirmRefines DEF Deliveries!Next
  <2>3. CASE Sync \/ Dies
    BY <2>3, ExecuteRefines DEF Deliveries!Next
  <2>4. ASSUME NEW c \in Clients, UserEvent(c) PROVE Deliveries!Next
    <3>1. Deliveries!Send(c)
      BY <2>4 DEF UserEvent, xmbrecv, history, Deliveries!Send
    <3> QED
      BY <3>1 DEF Deliveries!Next
  <2>5. CASE \/ \E c \in Clients : Start(c) \/ Connect(c) \/ ReceiveFails(c) \/ Stop(c) \/ Quit(c)
             \/ Accept \/ ClientGone \/ (Answer /\ ~Dies) \/ Started \/ UNCHANGED vars
    <3>1. UNCHANGED <<no, xbuf, done, answered, lost>>
      BY <2>5 DEF Start, Connect, ReceiveFails, Stop, Quit, Accept, ClientGone, Answer, Started,
                  vars, xmbrecv, controllers, history
    <3> QED
      BY <3>1 DEF Deliveries!vars
  <2> QED
    BY <2>1, <2>2, <2>3, <2>4, <2>5 DEF Next, Program, Server, Killed
<1> QED
  BY <1>1, <1>2, OrderInvariant, PTL DEF Spec, Delivers, Deliveries!Spec
=============================================================================
