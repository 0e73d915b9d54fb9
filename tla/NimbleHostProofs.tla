-------------------------- MODULE NimbleHostProofs --------------------------
(* Proofs about NimbleHost, for any commands of the startup, any connection *)
(* handles and any room in the event queue, and for any number of faults    *)
(* below that of the commands of the startup.                               *)
EXTENDS NimbleHost, SequenceTheorems, TLAPS

USE FaultsAssumption, QueueAssumption

-----------------------------------------------------------------------------
(* The commands of the startup, and the sequences of what waits.            *)

L == Len(Startup)
Labels == AdvCommands \cup {"irks", "feat", "idle", "broken", "onsync", "adv", "init", "create",
                            "start", "none"}

LEMMA StartupIs ==
    /\ L \in Nat /\ L > MaxFaults + 1 /\ DOMAIN Startup = 1..L
    /\ StartupCommands = {Startup[i] : i \in 1..L}
    /\ \A i, j \in 1..L : Startup[i] = Startup[j] => i = j
    /\ \A c \in StartupCommands : c \notin Labels
    /\ Startup[1] = "reset" /\ "reset" \in StartupCommands
    /\ Last(Startup) = Startup[L]
<1>1. L \in Nat /\ L > MaxFaults + 1 /\ DOMAIN Startup = 1..L
  BY StartupAssumption DEF L
<1>2. StartupCommands = {Startup[i] : i \in 1..L}
  BY <1>1 DEF StartupCommands, Range
<1>3. \A i, j \in 1..L : Startup[i] = Startup[j] => i = j
  BY <1>1, StartupAssumption DEF IsInjective
<1>4. \A c \in StartupCommands : c \notin Labels
  BY <1>1, <1>2, StartupAssumption DEF Labels, AdvCommands
<1>5. Startup[1] = "reset"
  BY StartupAssumption
<1>6. 1 \in 1..L
  BY <1>1
<1> QED BY <1>1, <1>2, <1>3, <1>4, <1>5, <1>6 DEF Last, L

LEMMA FollowingIs ==
    ASSUME NEW i \in 1..L
    PROVE  /\ Following(Startup[i]) = Startup[i + 1]
           /\ Startup[i] # Last(Startup) => i + 1 \in 1..L
           /\ Startup[i] = Last(Startup) => i = L

<1>1. (CHOOSE j \in DOMAIN Startup : Startup[j] = Startup[i]) = i
  BY StartupIs
<1>2. Following(Startup[i]) = Startup[i + 1]
  <2>1. Following(Startup[i]) = Startup[1 + i]
    BY <1>1 DEF Following
  <2>2. 1 + i = i + 1
    OBVIOUS
  <2> QED BY <2>1, <2>2
<1>3. Startup[i] # Last(Startup) => i + 1 \in 1..L
  BY StartupIs
<1>4. Startup[i] = Last(Startup) => i = L
  BY StartupIs
<1> QED BY <1>2, <1>3, <1>4

LEMMA AppendIs ==
    ASSUME NEW S, NEW q \in Seq(S), NEW e \in S
    PROVE  /\ Append(q, e) \in Seq(S) /\ Len(Append(q, e)) = Len(q) + 1
           /\ DOMAIN Append(q, e) = 1..(Len(q) + 1) /\ DOMAIN q = 1..Len(q)
           /\ Append(q, e)[Len(q) + 1] = e
           /\ \A i \in DOMAIN q : Append(q, e)[i] = q[i]
<1>1. /\ Append(q, e) \in Seq(S) /\ Len(Append(q, e)) = Len(q) + 1
      /\ Append(q, e)[Len(q) + 1] = e /\ DOMAIN q = 1..Len(q)
      /\ \A i \in 1..Len(q) : Append(q, e)[i] = q[i]
  OBVIOUS
<1>2. DOMAIN Append(q, e) = 1..(Len(q) + 1)
  BY <1>1
<1> QED BY <1>1, <1>2

\* What Put() does to the queue.
LEMMA PutIs ==
    ASSUME NEW S, NEW q \in Seq(S), NEW e \in S
    PROVE  /\ Put(q, e) \in Seq(S) /\ \E i \in DOMAIN Put(q, e) : Put(q, e)[i] = e
           /\ Len(q) <= Len(Put(q, e)) /\ Len(Put(q, e)) <= Len(q) + 1
           /\ \A i \in DOMAIN q : i \in DOMAIN Put(q, e) /\ Put(q, e)[i] = q[i]
           /\ \A i \in DOMAIN Put(q, e) : i \in DOMAIN q \/ Put(q, e)[i] = e
           /\ Len(Put(q, e)) = Len(q) \/ ~Contains(q, e)
<1>1. DOMAIN q = 1..Len(q) /\ Len(q) \in Nat
  OBVIOUS
<1>2. CASE Contains(q, e)
  <2>1. Put(q, e) = q
    BY <1>2 DEF Put
  <2>2. PICK i \in DOMAIN q : q[i] = e
    BY <1>1, <1>2 DEF Contains
  <2>3. Len(q) <= Len(q) + 1 /\ Len(q) <= Len(q)
    BY <1>1
  <2> QED BY <2>1, <2>2, <2>3
<1>3. CASE ~Contains(q, e)
  <2>1. Put(q, e) = Append(q, e)
    BY <1>3 DEF Put
  <2>2. \A n \in Nat : /\ n <= n + 1 /\ n + 1 \in 1..(n + 1)
                       /\ \A i \in 1..(n + 1) : i \in 1..n \/ i = n + 1
                       /\ \A i \in 1..n : i \in 1..(n + 1)
    OBVIOUS
  <2>3. /\ Append(q, e) \in Seq(S) /\ Len(Append(q, e)) = Len(q) + 1
        /\ DOMAIN Append(q, e) = 1..(Len(q) + 1)
        /\ Append(q, e)[Len(q) + 1] = e
        /\ \A i \in DOMAIN q : Append(q, e)[i] = q[i]
    BY AppendIs
  <2>4. \E i \in DOMAIN Append(q, e) : Append(q, e)[i] = e
    BY <1>1, <2>2, <2>3
  <2>5. Len(q) <= Len(Append(q, e)) /\ Len(Append(q, e)) <= Len(q) + 1
    BY <1>1, <2>3
  <2>6. /\ \A i \in DOMAIN q : i \in DOMAIN Append(q, e) /\ Append(q, e)[i] = q[i]
        /\ \A i \in DOMAIN Append(q, e) : i \in DOMAIN q \/ Append(q, e)[i] = e
    BY <1>1, <2>2, <2>3
  <2> QED BY <1>3, <2>1, <2>3, <2>4, <2>5, <2>6
<1> QED BY <1>2, <1>3

LEMMA TailIs ==
    ASSUME NEW S, NEW q \in Seq(S), q # <<>>
    PROVE  /\ Tail(q) \in Seq(S) /\ Len(q) = Len(Tail(q)) + 1 /\ 1 \in DOMAIN q /\ q[1] \in S
           /\ \A i \in DOMAIN Tail(q) : i + 1 \in DOMAIN q /\ Tail(q)[i] = q[i + 1]
           /\ \A i \in DOMAIN q : i # 1 => i - 1 \in DOMAIN Tail(q) /\ Tail(q)[i - 1] = q[i]
<1>1. PICK n \in Nat : Len(q) = n + 1 /\ DOMAIN q = 1..(n + 1)
  <2>1. Len(q) \in Nat /\ Len(q) # 0 /\ DOMAIN q = 1..Len(q)
    OBVIOUS
  <2>2. Len(q) - 1 \in Nat /\ Len(q) = (Len(q) - 1) + 1
    BY <2>1
  <2> QED BY <2>1, <2>2
<1>2. Tail(q) \in Seq(S) /\ Len(Tail(q)) = n /\ DOMAIN Tail(q) = 1..n
  <2>1. Tail(q) \in Seq(S) /\ Len(Tail(q)) = Len(q) - 1
    BY HeadTailProperties
  <2>2. Len(Tail(q)) = n
    BY <1>1, <2>1
  <2>3. DOMAIN Tail(q) = 1..Len(Tail(q))
    BY <2>1
  <2> QED BY <2>1, <2>2, <2>3
<1>3. \A i \in 1..n : Tail(q)[i] = q[i + 1]
  BY <1>2, HeadTailProperties
<1>4. q[1] \in S
  BY <1>1
<1>5. \A i \in 1..(n + 1) : i # 1 => i - 1 \in 1..n /\ (i - 1) + 1 = i
  OBVIOUS
<1> QED BY <1>1, <1>2, <1>3, <1>4, <1>5

(* A sum bounded from both sides. *)
LEMMA SumIs ==
  ASSUME NEW a \in Nat, NEW f \in Nat, NEW g \in Nat, NEW w \in Nat, a <= f + w, g >= f
  PROVE  a <= g + w /\ (a = g + w => a = f + w)
<1>1. a <= g + w
  OBVIOUS
<1>2. ASSUME a = g + w PROVE a = f + w
  <2>1. g = f
    BY <1>2
  <2> QED BY <1>2, <2>1
<1> QED BY <1>1, <1>2


-----------------------------------------------------------------------------
(* Types.                                                                   *)

HostPlaces == Commands \cup {"idle", "broken", "onsync", "adv"}
LoopPlaces == AdvCommands \cup {"init", "create", "start", "adv", "idle"}
PlacesOf(t) == IF t = "host" THEN HostPlaces ELSE LoopPlaces
Places      == HostPlaces \cup LoopPlaces
Acks        == [op : Commands, ok : BOOLEAN] \cup {NoAck}
Ctls        == [adv : BOOLEAN, data : BOOLEAN, links : SUBSET Handles, cmds : Seq(Commands)]

PcTyped   == pc \in [Tasks -> Places] /\ \A t \in Tasks : pc[t] \in PlacesOf(t)
HostTyped == /\ state \in {"bad", "bringup", "good"} /\ reason \in {"none", "hci", "hw"}
             /\ timer \in BOOLEAN
AppTyped  == /\ adv \in BOOLEAN /\ conns \subseteq Handles
             /\ synced \in BOOLEAN /\ ready \in {"no", "initialized", "yes"}
             /\ dataSet \in BOOLEAN /\ connected \in BOOLEAN
             /\ crossed \in BOOLEAN /\ early \in BOOLEAN
CmdTyped  == /\ hci \in Tasks \cup {"none"} /\ ack \in Acks /\ ctl \in Ctls
             /\ faults \in 0..MaxFaults

\* The queue has room for the events of the controller, a reset and the timer.
One(b)  == IF b THEN 1 ELSE 0
Room(q) == /\ q \in Seq(Events)
           /\ Len(q) <= MaxQueue + One(Contains(q, Resetting)) + One(Contains(q, Expired))
QueueTyped == Room(evq)

\* A task that waits for an acknowledgement has come to the command.
Sent == hci # "none" => pc[hci] \in Commands

Typed == PcTyped /\ HostTyped /\ AppTyped /\ CmdTyped /\ QueueTyped /\ Sent

\* An answer to a command that has timed out comes late: there are as many as the
\* controller had faults, and the one that waits for its answer is the last.
Answers == Len(ctl.cmds) + One(ack # NoAck)
Waiting == One(hci # "none")
Counted == /\ Answers <= faults + Waiting
           /\ Answers = faults + Waiting /\ hci # "none" /\ ctl.cmds # <<>> =>
                  ctl.cmds[Len(ctl.cmds)] = pc[hci]

LEMMA PlacesAre ==
    /\ \A c \in Commands : c \in StartupCommands \/ c \in AdvCommands \/ c \in {"irks", "feat"}
    /\ AdvCommands \subseteq LoopPlaces /\ Commands \subseteq HostPlaces
    /\ StartupCommands \subseteq Commands /\ AdvCommands \subseteq Commands
    /\ {"irks", "feat"} \subseteq Commands
    /\ {"idle", "broken", "onsync", "adv"} \subseteq HostPlaces
    /\ {"init", "create", "start", "adv", "idle"} \subseteq LoopPlaces
    /\ HostPlaces = PlacesOf("host") /\ LoopPlaces = PlacesOf("loop")
    /\ "host" \in Tasks /\ "loop" \in Tasks /\ \A t \in Tasks : t = "host" \/ t = "loop"
BY DEF Commands, HostPlaces, LoopPlaces, PlacesOf, Tasks

\* A command in the startup is one of the host task's.
LEMMA LoopCommands ==
    ASSUME PcTyped, NEW t \in Tasks, pc[t] \in Commands, t # "host"
    PROVE  pc[t] \in AdvCommands
<1>1. pc[t] \in LoopPlaces
  BY PlacesAre DEF PcTyped
<1>2. pc[t] \in StartupCommands => pc[t] \notin LoopPlaces
  BY StartupIs DEF LoopPlaces, Labels
<1>3. pc[t] \notin {"irks", "feat"}
  BY <1>1 DEF LoopPlaces, AdvCommands
<1> QED BY <1>1, <1>2, <1>3, PlacesAre

LEMMA GotoIs ==
    ASSUME PcTyped, NEW t \in Tasks, NEW l \in PlacesOf(t), Goto(t, l)
    PROVE  PcTyped' /\ pc'[t] = l /\ \A u \in Tasks : u # t => pc'[u] = pc[u]
<1>1. l \in Places
  BY DEF PlacesOf, Places
<1> QED BY <1>1 DEF Goto, PcTyped

\* What follows a command, by its kind.
LEMMA AfterIs ==
    ASSUME PcTyped, AppTyped, NEW t \in Tasks, pc[t] \in Commands, NEW ok \in BOOLEAN, After(t, ok)
    PROVE  /\ PcTyped' /\ \A u \in Tasks : u # t => pc'[u] = pc[u]
           /\ UNCHANGED <<conns, synced, ready, connected>>
           /\ \/ /\ t = "host" /\ ~ok /\ pc[t] \in StartupCommands /\ pc'[t] = "idle"
                 /\ state' = "bad" /\ timer' = TRUE /\ UNCHANGED <<adv, dataSet>>
              \/ /\ t = "host" /\ ok
                 /\ \E i \in 1..L : i + 1 \in 1..L /\ pc[t] = Startup[i] /\ pc'[t] = Startup[i + 1]
                 /\ UNCHANGED <<state, timer, adv, dataSet>>
              \/ /\ t = "host" /\ ok /\ pc[t] = Startup[L] /\ pc'[t] \in {"irks", "onsync"}
                 /\ state' = "good" /\ timer' = TRUE /\ UNCHANGED <<adv, dataSet>>
              \/ /\ t = "host" /\ pc[t] = "irks" /\ pc'[t] = "onsync"
                 /\ UNCHANGED <<state, timer, adv, dataSet>>
              \/ /\ t = "host" /\ pc[t] = "feat" /\ pc'[t] = "idle"
                 /\ UNCHANGED <<state, timer, adv, dataSet>>
              \/ /\ pc[t] = "data" /\ ok /\ pc'[t] = "adv" /\ dataSet' = TRUE
                 /\ UNCHANGED <<state, timer, adv>>
              \/ /\ pc[t] = "params" /\ ok /\ pc'[t] = "enable" /\ adv' = TRUE
                 /\ UNCHANGED <<state, timer, dataSet>>
              \/ /\ pc[t] \in AdvCommands /\ (pc[t] = "enable" \/ ~ok) /\ pc'[t] = "idle"
                 /\ adv' = (adv /\ (pc[t] # "enable" \/ ok))
                 /\ UNCHANGED <<state, timer, dataSet>>
<1> DEFINE c == pc[t]
<1>1. UNCHANGED <<conns, synced, ready, connected>>
  BY DEF After
<1>2. /\ c = "data" /\ ok => dataSet' = TRUE
      /\ ~(c = "data" /\ ok) => dataSet' = dataSet
  BY DEF After, AppTyped
<1>3. /\ c = "params" /\ ok => adv' = TRUE
      /\ c = "enable" /\ ~ok => adv' = FALSE
      /\ ~(c = "params" /\ ok) /\ ~(c = "enable" /\ ~ok) => adv' = adv
  BY DEF After, AdvAfter, AppTyped
<1>4. /\ c \in StartupCommands /\ ~ok => state' = "bad" /\ timer' = TRUE
      /\ c = Last(Startup) /\ ok => state' = "good" /\ timer' = TRUE
      /\ c \notin StartupCommands \/ (ok /\ c # Last(Startup)) => UNCHANGED <<state, timer>>
  BY StartupIs DEF After
<1>5. c \in StartupCommands \cup {"irks", "feat"} => t = "host"
  BY LoopCommands, StartupIs DEF Labels, AdvCommands
<1>6. c \in StartupCommands => c \notin Labels
  BY StartupIs
<1>7. ASSUME NEW l \in PlacesOf(t), Goto(t, l)
      PROVE  PcTyped' /\ pc'[t] = l /\ \A u \in Tasks : u # t => pc'[u] = pc[u]
  BY <1>7, GotoIs
<1>8. /\ "idle" \in PlacesOf(t) /\ "adv" \in PlacesOf(t) /\ "enable" \in PlacesOf(t)
      /\ t = "host" => "onsync" \in PlacesOf(t) /\ "irks" \in PlacesOf(t) /\ StartupCommands \subseteq PlacesOf(t)
  BY DEF PlacesOf, HostPlaces, LoopPlaces, Commands, AdvCommands
<1>9. CASE ~ok /\ c \in StartupCommands /\ Goto(t, "idle")
  <2>1. UNCHANGED <<adv, dataSet>> /\ state' = "bad" /\ timer' = TRUE
    BY <1>2, <1>3, <1>4, <1>6, <1>9 DEF Labels, AdvCommands
  <2>2. PcTyped' /\ pc'[t] = "idle" /\ \A u \in Tasks : u # t => pc'[u] = pc[u]
    BY <1>7, <1>8, <1>9
  <2> QED BY <1>1, <1>5, <1>9, <2>1, <2>2
<1>10. CASE ~ok /\ c \in {"data", "params"} /\ Goto(t, "idle")
  <2>1. UNCHANGED <<adv, dataSet, state, timer>>
    BY <1>2, <1>3, <1>4, <1>6, <1>10 DEF Labels, AdvCommands
  <2>2. PcTyped' /\ pc'[t] = "idle" /\ \A u \in Tasks : u # t => pc'[u] = pc[u]
    BY <1>7, <1>8, <1>10
  <2>3. c \in AdvCommands /\ adv' = (adv /\ (c # "enable" \/ ok))
    BY <1>10, <2>1 DEF AdvCommands, AppTyped
  <2> QED BY <1>1, <1>10, <2>1, <2>2, <2>3
<1>11. CASE ok /\ c \in StartupCommands \ {Last(Startup)} /\ Goto(t, Following(c))
  <2>1. UNCHANGED <<adv, dataSet, state, timer>>
    BY <1>2, <1>3, <1>4, <1>6, <1>11 DEF Labels, AdvCommands
  <2>2. PICK i \in 1..L : c = Startup[i]
    BY <1>11, StartupIs
  <2>3. Following(c) = Startup[i + 1] /\ i + 1 \in 1..L
    BY <1>11, <2>2, FollowingIs
  <2>4. Startup[i + 1] \in PlacesOf(t)
    BY <1>5, <1>8, <1>11, <2>3, StartupIs
  <2>5. PcTyped' /\ pc'[t] = Startup[i + 1] /\ \A u \in Tasks : u # t => pc'[u] = pc[u]
    BY <1>7, <1>11, <2>3, <2>4
  <2> QED BY <1>1, <1>5, <1>11, <2>1, <2>2, <2>3, <2>5
<1>12. CASE ok /\ c = Last(Startup) /\ \E l \in {"irks", "onsync"} : Goto(t, l)
  <2>1. c \in StartupCommands /\ c = Startup[L]
    BY <1>12, StartupIs
  <2>2. UNCHANGED <<adv, dataSet>> /\ state' = "good" /\ timer' = TRUE
    BY <1>2, <1>3, <1>4, <1>6, <1>12, <2>1 DEF Labels, AdvCommands
  <2>3. PICK l \in {"irks", "onsync"} : Goto(t, l)
    BY <1>12
  <2>4. PcTyped' /\ pc'[t] = l /\ \A u \in Tasks : u # t => pc'[u] = pc[u]
    BY <1>5, <1>7, <1>8, <2>1, <2>3
  <2> QED BY <1>1, <1>5, <1>12, <2>1, <2>2, <2>3, <2>4
<1>13. CASE ok /\ c = "data" /\ Goto(t, "adv")
  <2>1. UNCHANGED <<adv, state, timer>> /\ dataSet' = TRUE
    BY <1>2, <1>3, <1>4, <1>6, <1>13 DEF Labels, AdvCommands
  <2>2. PcTyped' /\ pc'[t] = "adv" /\ \A u \in Tasks : u # t => pc'[u] = pc[u]
    BY <1>7, <1>8, <1>13
  <2> QED BY <1>1, <1>13, <2>1, <2>2
<1>14. CASE ok /\ c = "params" /\ Goto(t, "enable")
  <2>1. UNCHANGED <<dataSet, state, timer>> /\ adv' = TRUE
    BY <1>2, <1>3, <1>4, <1>6, <1>14 DEF Labels, AdvCommands
  <2>2. PcTyped' /\ pc'[t] = "enable" /\ \A u \in Tasks : u # t => pc'[u] = pc[u]
    BY <1>7, <1>8, <1>14
  <2> QED BY <1>1, <1>14, <2>1, <2>2
<1>15. CASE c = "irks" /\ Goto(t, "onsync")
  <2>1. UNCHANGED <<adv, dataSet, state, timer>>
    BY <1>2, <1>3, <1>4, <1>6, <1>15 DEF Labels
  <2>2. PcTyped' /\ pc'[t] = "onsync" /\ \A u \in Tasks : u # t => pc'[u] = pc[u]
    BY <1>5, <1>7, <1>8, <1>15
  <2> QED BY <1>1, <1>5, <1>15, <2>1, <2>2
<1>16. CASE c = "feat" /\ Goto(t, "idle")
  <2>1. UNCHANGED <<adv, dataSet, state, timer>>
    BY <1>2, <1>3, <1>4, <1>6, <1>16 DEF Labels
  <2>2. PcTyped' /\ pc'[t] = "idle" /\ \A u \in Tasks : u # t => pc'[u] = pc[u]
    BY <1>7, <1>8, <1>16
  <2> QED BY <1>1, <1>5, <1>16, <2>1, <2>2
<1>17. CASE c = "enable" /\ Goto(t, "idle")
  <2>1. UNCHANGED <<dataSet, state, timer>>
    BY <1>2, <1>4, <1>6, <1>17 DEF Labels, AdvCommands
  <2>2. PcTyped' /\ pc'[t] = "idle" /\ \A u \in Tasks : u # t => pc'[u] = pc[u]
    BY <1>7, <1>8, <1>17
  <2>3. c \in AdvCommands /\ adv' = (adv /\ (c # "enable" \/ ok))
    BY <1>3, <1>17 DEF AdvCommands, AppTyped
  <2> QED BY <1>1, <1>17, <2>1, <2>2, <2>3
<1>18. \/ ~ok /\ c \in StartupCommands \cup {"data", "params"} /\ Goto(t, "idle")
       \/ ok /\ c \in StartupCommands \ {Last(Startup)} /\ Goto(t, Following(c))
       \/ ok /\ c = Last(Startup) /\ \E l \in {"irks", "onsync"} : Goto(t, l)
       \/ ok /\ c = "data" /\ Goto(t, "adv")
       \/ ok /\ c = "params" /\ Goto(t, "enable")
       \/ c = "irks" /\ Goto(t, "onsync")
       \/ c \in {"feat", "enable"} /\ Goto(t, "idle")
  BY DEF After
<1> HIDE DEF c
<1> QED BY <1>9, <1>10, <1>11, <1>12, <1>13, <1>14, <1>15, <1>16, <1>17, <1>18

LEMMA EventsAre ==
    /\ Resetting \in Events /\ Expired \in Events /\ HwError \in Events
    /\ Resetting # Expired /\ Resetting # HwError /\ Expired # HwError
    /\ \A h \in Handles : Linked(h) \in Events /\ Unlinked(h) \in Events
    /\ Resetting.type = "reset" /\ Expired.type = "timer" /\ HwError.type = "hw"
    /\ \A h : /\ Linked(h).type = "conn" /\ Linked(h).handle = h
              /\ Unlinked(h).type = "disc" /\ Unlinked(h).handle = h
<1>1. /\ Resetting \in Events /\ Expired \in Events /\ HwError \in Events
      /\ \A h \in Handles : Linked(h) \in Events /\ Unlinked(h) \in Events
  BY DEF Events
<1>2. /\ Resetting.type = "reset" /\ Expired.type = "timer" /\ HwError.type = "hw"
      /\ \A h : /\ Linked(h).type = "conn" /\ Linked(h).handle = h
                /\ Unlinked(h).type = "disc" /\ Unlinked(h).handle = h
  BY DEF Resetting, Expired, HwError, Event, Linked, Unlinked
<1> QED BY <1>1, <1>2

\* An event is one of its kind, and a connection's has the handle.
LEMMA EventKinds ==
    ASSUME NEW e \in Events
    PROVE  /\ e.type \in {"reset", "timer", "hw", "conn", "disc"}
           /\ e.type = "reset" => e = Resetting
           /\ e.type = "timer" => e = Expired
           /\ e.type = "hw" => e = HwError
           /\ e.type = "conn" => e.handle \in Handles /\ e = Linked(e.handle)
           /\ e.type = "disc" => e.handle \in Handles /\ e = Unlinked(e.handle)
<1>1. CASE e \in {Resetting, Expired, HwError}
  BY <1>1, EventsAre
<1>2. CASE \E h \in Handles : e = Linked(h)
  BY <1>2, EventsAre
<1>3. CASE \E h \in Handles : e = Unlinked(h)
  BY <1>3, EventsAre
<1> QED BY <1>1, <1>2, <1>3 DEF Events

LEMMA ContainsIs ==
    ASSUME NEW S, NEW q \in Seq(S), NEW e
    PROVE  Contains(q, e) <=> \E i \in DOMAIN q : q[i] = e
<1>1. DOMAIN q = 1..Len(q)
  OBVIOUS
<1> QED BY <1>1 DEF Contains

LEMMA RoomPut ==
    ASSUME NEW q, Room(q), NEW e \in {Resetting, Expired}
    PROVE  Room(Put(q, e)) /\ Contains(Put(q, e), e) /\ (q # <<>> => Put(q, e) # <<>>)
<1>1. q \in Seq(Events) /\ e \in Events /\ Len(q) \in Nat
  BY EventsAre DEF Room
<1>2. /\ Put(q, e) \in Seq(Events) /\ Len(Put(q, e)) \in Nat
      /\ Len(Put(q, e)) <= Len(q) + 1
      /\ Len(Put(q, e)) = Len(q) \/ ~Contains(q, e)
      /\ Len(q) <= Len(Put(q, e))
  <2>1. /\ Put(q, e) \in Seq(Events)
        /\ Len(Put(q, e)) <= Len(q) + 1
        /\ Len(Put(q, e)) = Len(q) \/ ~Contains(q, e)
        /\ Len(q) <= Len(Put(q, e))
    BY <1>1, PutIs
  <2> HIDE DEF Put
  <2>2. \A p \in Seq(Events) : Len(p) \in Nat
    OBVIOUS
  <2> QED BY <2>1, <2>2
<1>3. Contains(Put(q, e), e)
  BY <1>1, <1>2, PutIs, ContainsIs
<1>4. \A f \in Events : Contains(q, f) => Contains(Put(q, e), f)
  <2> SUFFICES ASSUME NEW f \in Events, Contains(q, f) PROVE Contains(Put(q, e), f)
    OBVIOUS
  <2>1. PICK i \in DOMAIN q : q[i] = f
    BY <1>1, ContainsIs
  <2>2. i \in DOMAIN Put(q, e) /\ Put(q, e)[i] = f
    BY <1>1, <2>1, PutIs
  <2> QED BY <1>2, <2>2, ContainsIs
<1> DEFINE r == One(Contains(q, Resetting))
           x == One(Contains(q, Expired))
           s == One(Contains(Put(q, e), Resetting))
           y == One(Contains(Put(q, e), Expired))
<1>5. r \in 0..1 /\ x \in 0..1 /\ s \in 0..1 /\ y \in 0..1 /\ r <= s /\ x <= y
  BY <1>4, EventsAre DEF One
<1>6. /\ e = Resetting => s = 1 /\ (~Contains(q, e) => r = 0)
      /\ e = Expired => y = 1 /\ (~Contains(q, e) => x = 0)
  BY <1>3 DEF One
<1>7. Len(q) <= MaxQueue + r + x
  BY DEF Room
<1> HIDE DEF r, x, s, y
<1>8. Len(Put(q, e)) <= MaxQueue + s + y
  BY <1>1, <1>2, <1>5, <1>6, <1>7
<1>9. Room(Put(q, e))
  BY <1>2, <1>8 DEF Room, s, y
<1>10. q # <<>> => Put(q, e) # <<>>
  <2>1. q # <<>> => Len(q) # 0
    BY <1>1
  <2>2. Put(q, e) = <<>> => Len(Put(q, e)) = 0
    OBVIOUS
  <2> QED BY <1>1, <1>2, <2>1, <2>2
<1> QED BY <1>3, <1>9, <1>10

LEMMA RoomTail ==
    ASSUME NEW q, Room(q), q # <<>>
    PROVE  Room(Tail(q)) /\ q[1] \in Events
<1>1. q \in Seq(Events) /\ Len(q) \in Nat
  BY DEF Room
<1>2. Tail(q) \in Seq(Events) /\ Len(Tail(q)) \in Nat /\ Len(q) = Len(Tail(q)) + 1 /\ q[1] \in Events
  BY <1>1, TailIs
<1>3. \A f \in Events : Contains(q, f) => Contains(Tail(q), f) \/ q[1] = f
  <2> SUFFICES ASSUME NEW f \in Events, Contains(q, f), q[1] # f PROVE Contains(Tail(q), f)
    OBVIOUS
  <2>1. PICK i \in DOMAIN q : q[i] = f
    BY <1>1, ContainsIs
  <2>2. i - 1 \in DOMAIN Tail(q) /\ Tail(q)[i - 1] = f
    BY <1>1, <2>1, TailIs
  <2> QED BY <1>2, <2>2, ContainsIs
<1> DEFINE r == One(Contains(q, Resetting))
           x == One(Contains(q, Expired))
           s == One(Contains(Tail(q), Resetting))
           y == One(Contains(Tail(q), Expired))
<1>5. r \in 0..1 /\ x \in 0..1 /\ s \in 0..1 /\ y \in 0..1
  BY DEF One
<1>6. (r <= s \/ q[1] = Resetting) /\ (x <= y \/ q[1] = Expired)
  BY <1>3, EventsAre DEF One
<1>7. Len(q) <= MaxQueue + r + x
  BY DEF Room
<1> HIDE DEF r, x, s, y
<1>8. Len(Tail(q)) <= MaxQueue + s + y
  BY <1>1, <1>2, <1>5, <1>6, <1>7, EventsAre
<1> QED BY <1>2, <1>8 DEF Room, s, y

LEMMA RoomAppend ==
    ASSUME NEW q, Room(q), Len(q) < MaxQueue, NEW e \in Events
    PROVE  Room(Append(q, e))
<1>1. q \in Seq(Events) /\ Len(q) \in Nat
  BY DEF Room
<1>2. Append(q, e) \in Seq(Events) /\ Len(Append(q, e)) = Len(q) + 1
  BY <1>1
<1> DEFINE s == One(Contains(Append(q, e), Resetting))
           y == One(Contains(Append(q, e), Expired))
<1>3. s \in 0..1 /\ y \in 0..1
  BY DEF One
<1> HIDE DEF s, y
<1>4. Len(Append(q, e)) <= MaxQueue + s + y
  BY <1>1, <1>2, <1>3
<1> QED BY <1>2, <1>4 DEF Room, s, y

\* What the controller makes of a command.
LEMMA ExecutedIs ==
    ASSUME ctl \in Ctls, NEW c \in Commands
    PROVE  /\ Executed(c) \in Ctls /\ Executed(c).cmds = ctl.cmds
           /\ Executed(c).adv = (c = "enable" \/ (c # "reset" /\ ctl.adv))
           /\ Executed(c).data = (c = "data" \/ (c # "reset" /\ ctl.data))
           /\ Executed(c).links = IF c = "reset" THEN {} ELSE ctl.links
<1>1. CASE c = "reset"
  BY <1>1 DEF Executed, Ctls
<1>2. CASE c = "data"
  BY <1>2 DEF Executed, Ctls
<1>3. CASE c = "enable"
  BY <1>3 DEF Executed, Ctls
<1>4. CASE c \notin {"reset", "data", "enable"}
  BY <1>4 DEF Executed, Ctls
<1> QED BY <1>1, <1>2, <1>3, <1>4

-----------------------------------------------------------------------------
(* What the steps of the tasks do, by their results.                        *)

LEMMA QueueIs ==
    ASSUME Room(evq), evq # <<>>
    PROVE  /\ Tail(evq) \in Seq(Events) /\ Room(Tail(evq)) /\ evq[1] \in Events
           /\ evq[1].type = "reset" => evq[1] = Resetting
           /\ evq[1].type = "timer" => evq[1] = Expired
           /\ evq[1].type = "conn" => evq[1].handle \in Handles
           /\ evq[1].type = "disc" => evq[1].handle \in Handles
BY RoomTail, EventKinds DEF Room

LEMMA AdvEntryIs ==
    ASSUME NEW t \in Tasks, NEW s \in BOOLEAN, NEW a \in BOOLEAN, NEW d \in BOOLEAN
    PROVE  /\ AdvEntry(s, a, d) \in PlacesOf(t) /\ AdvEntry(s, a, d) \in {"idle", "adv", "data"}
           /\ AdvEntry(s, a, d) = "adv" => s /\ ~a /\ d
           /\ AdvEntry(s, a, d) = "data" => s /\ ~a /\ ~d
<1>1. /\ AdvEntry(s, a, d) \in {"idle", "adv", "data"}
      /\ AdvEntry(s, a, d) = "adv" => s /\ ~a /\ d
      /\ AdvEntry(s, a, d) = "data" => s /\ ~a /\ ~d
  BY DEF AdvEntry
<1>2. {"idle", "adv", "data"} \subseteq PlacesOf(t)
  BY DEF PlacesOf, HostPlaces, LoopPlaces, Commands, AdvCommands
<1> QED BY <1>1, <1>2

LEMMA TypedStep == Typed /\ [Next]_vars => Typed'
<1> SUFFICES ASSUME Typed, [Next]_vars PROVE Typed'
  OBVIOUS
<1>p. PcTyped /\ HostTyped /\ AppTyped /\ CmdTyped /\ Room(evq) /\ Sent
  BY DEF Typed, QueueTyped
<1>l. /\ "idle" \notin Commands /\ "broken" \notin Commands /\ "onsync" \notin Commands
      /\ "adv" \notin Commands /\ "init" \notin Commands /\ "create" \notin Commands
      /\ "start" \notin Commands
  BY StartupIs DEF Commands, AdvCommands, Labels
<1>r. Room(evq') /\ HostTyped' /\ AppTyped' /\ CmdTyped' /\ PcTyped' /\ Sent' => Typed'
  BY DEF Typed, QueueTyped
<1>g. \A t \in Tasks : \A l \in PlacesOf(t) :
         pc[t] \notin Commands /\ Goto(t, l) /\ UNCHANGED hci => PcTyped' /\ Sent'
  <2> SUFFICES ASSUME NEW t \in Tasks, NEW l \in PlacesOf(t),
                      pc[t] \notin Commands, Goto(t, l), UNCHANGED hci
               PROVE  PcTyped' /\ Sent'
    OBVIOUS
  <2>1. PcTyped' /\ \A u \in Tasks : u # t => pc'[u] = pc[u]
    BY <1>p, GotoIs
  <2>2. hci # "none" => hci \in Tasks /\ hci # t
    BY <1>p DEF Sent, CmdTyped
  <2> QED BY <1>p, <2>1, <2>2 DEF Sent
<1>h. "host" \in Tasks /\ "loop" \in Tasks /\ StartupCommands \subseteq Commands /\ Commands \subseteq HostPlaces
  BY PlacesAre
<1>i. /\ {"idle", "adv", "params"} \subseteq PlacesOf("host") /\ {"idle", "adv", "params"} \subseteq PlacesOf("loop")
      /\ {"broken", "reset", "onsync", "feat"} \subseteq PlacesOf("host")
      /\ {"create", "start"} \subseteq PlacesOf("loop")
  BY StartupIs DEF PlacesOf, HostPlaces, LoopPlaces, Commands, AdvCommands
<1>a. \A t \in Tasks, ok \in BOOLEAN :
         pc[t] \in Commands /\ After(t, ok) =>
            /\ PcTyped' /\ \A u \in Tasks : u # t => pc'[u] = pc[u]
            /\ state' \in {"bad", "good", state} /\ timer' \in {timer, TRUE}
            /\ dataSet' \in BOOLEAN /\ adv' \in BOOLEAN
            /\ UNCHANGED <<conns, synced, ready, connected>>
  <2> SUFFICES ASSUME NEW t \in Tasks, NEW ok \in BOOLEAN, pc[t] \in Commands, After(t, ok)
               PROVE  /\ PcTyped' /\ \A u \in Tasks : u # t => pc'[u] = pc[u]
                      /\ state' \in {"bad", "good", state} /\ timer' \in {timer, TRUE}
                      /\ dataSet' \in BOOLEAN /\ adv' \in BOOLEAN
                      /\ UNCHANGED <<conns, synced, ready, connected>>
    OBVIOUS
  <2>1. PcTyped' /\ (\A u \in Tasks : u # t => pc'[u] = pc[u]) /\ UNCHANGED <<conns, synced, ready, connected>>
    BY <1>p, AfterIs
  <2>2. /\ state' \in {"bad", "good", state} /\ timer' \in {timer, TRUE}
        /\ dataSet' \in BOOLEAN /\ adv' \in BOOLEAN
    BY <1>p DEF After, AdvAfter, AppTyped
  <2> QED BY <2>1, <2>2
<1>q. /\ Room(Put(evq, Resetting)) /\ Room(Put(evq, Expired))
      /\ evq # <<>> => Room(Tail(evq)) /\ Room(Put(Tail(evq), Resetting))
      /\ Len(evq) < MaxQueue =>
            \A e \in Events : Room(Append(evq, e))
  BY <1>p, RoomPut, RoomTail, RoomAppend
<1>1. ASSUME NEW t \in Tasks, AdvStart(t) PROVE Typed'
  <2>1. PcTyped' /\ Sent'
    BY <1>1, <1>g, <1>i, <1>l, PlacesAre DEF AdvStart
  <2> QED BY <1>1, <1>p, <1>r, <2>1 DEF AdvStart, HostTyped, AppTyped, CmdTyped, host, gap, app, marks
<1>2. ASSUME NEW t \in Tasks, Send(t) PROVE Typed'
  <2>1. CASE MaySend(t)
    <3>1. /\ ctl' = [ctl EXCEPT !.cmds = Append(ctl.cmds, pc[t])] /\ hci' = t /\ pc[t] \in Commands
          /\ UNCHANGED <<pc, state, timer, gap, app, reason, evq, ack, marks>>
      BY <1>2, <2>1 DEF Send
    <3>2. Append(ctl.cmds, pc[t]) \in Seq(Commands)
      BY <3>1, <1>p, AppendIs DEF CmdTyped, Ctls
    <3>3. ctl' \in Ctls
      BY <1>p, <3>1, <3>2 DEF CmdTyped, Ctls
    <3> QED BY <1>p, <1>r, <3>1, <3>3 DEF Sent, PcTyped, HostTyped, AppTyped, CmdTyped, gap, app, marks
  <2>2. CASE ~MaySend(t)
    <3>1. /\ After(t, FALSE) /\ pc[t] \in Commands /\ hci = "none"
          /\ UNCHANGED <<hci, ctl, reason, evq, ack, marks>>
      BY <1>2, <2>2 DEF Send
    <3> QED BY <1>p, <1>r, <1>a, <3>1 DEF Sent, HostTyped, AppTyped, CmdTyped, marks
  <2> QED BY <2>1, <2>2
<1>3. ASSUME NEW t \in Tasks, TakeAck(t) PROVE Typed'
  <2> DEFINE ok == ack.op = pc[t] /\ ack.ok
  <2>1. /\ pc[t] \in Commands /\ After(t, ok) /\ hci' = "none" /\ ack' = NoAck
        /\ UNCHANGED <<ctl, marks>>
    BY <1>3, <1>p DEF TakeAck, Sent, Tasks
  <2>2. ok \in BOOLEAN
    BY <1>p DEF CmdTyped, Acks, NoAck
  <2>3. Room(evq') /\ reason' \in {reason, "hci"}
    BY <1>3, <1>p, <1>q DEF TakeAck, ScheduleReset
  <2> HIDE DEF ok
  <2> QED BY <1>p, <1>r, <1>a, <2>1, <2>2, <2>3 DEF Sent, HostTyped, AppTyped, CmdTyped, Acks, marks
<1>4. ASSUME NEW t \in Tasks, AckTimeout(t) PROVE Typed'
  <2>1. /\ pc[t] \in Commands /\ After(t, FALSE) /\ hci' = "none"
        /\ UNCHANGED <<ack, ctl, crossed, early>>
    BY <1>4, <1>p DEF AckTimeout, Sent, Tasks
  <2>2. faults' \in 0..MaxFaults
    BY <1>4, <1>p DEF AckTimeout, CmdTyped
  <2>3. Room(evq') /\ reason' \in {reason, "hci"}
    BY <1>4, <1>p, <1>q DEF AckTimeout, ScheduleReset
  <2> QED BY <1>p, <1>r, <1>a, <2>1, <2>2, <2>3 DEF Sent, HostTyped, AppTyped, CmdTyped, marks
<1>5. CASE ResetBegins
  <2>1. PcTyped' /\ Sent'
    BY <1>5, <1>p, <1>g, <1>i, <1>l, <1>h, AdvEntryIs DEF ResetBegins, Next1, Sent, PcTyped, AppTyped
  <2>2. Room(evq')
    BY <1>5, <1>p, <1>q DEF ResetBegins, Next1, ScheduleReset
  <2>3. HostTyped' /\ AppTyped' /\ CmdTyped'
    BY <1>5, <1>p, QueueIs DEF ResetBegins, Next1, ScheduleReset, GapReset, HostTyped, AppTyped, CmdTyped, host, gap, app, marks
  <2> QED BY <1>r, <2>1, <2>2, <2>3
<1>6. CASE ResetEnds
  <2>1. PcTyped' /\ Sent'
    BY <1>6, <1>p, <1>g, <1>i, <1>l, <1>h, AdvEntryIs DEF ResetEnds, Next1, Sent, PcTyped, AppTyped
  <2>2. Room(evq')
    BY <1>6, <1>p, <1>q DEF ResetEnds, Next1, ScheduleReset
  <2>3. HostTyped' /\ AppTyped' /\ CmdTyped'
    BY <1>6, <1>p, QueueIs DEF ResetEnds, Next1, ScheduleReset, GapReset, HostTyped, AppTyped, CmdTyped, host, gap, app, marks
  <2> QED BY <1>r, <2>1, <2>2, <2>3
<1>7. CASE OnSync
  <2>1. PcTyped' /\ Sent'
    BY <1>7, <1>p, <1>g, <1>i, <1>l, <1>h, AdvEntryIs DEF OnSync, Next1, Sent, PcTyped, AppTyped
  <2>2. Room(evq')
    BY <1>7, <1>p, <1>q DEF OnSync, Next1, ScheduleReset, host
  <2>3. HostTyped' /\ AppTyped' /\ CmdTyped'
    BY <1>7, <1>p, QueueIs DEF OnSync, Next1, ScheduleReset, GapReset, HostTyped, AppTyped, CmdTyped, host, gap, app, marks
  <2> QED BY <1>r, <2>1, <2>2, <2>3
<1>8. CASE ConnComplete
  <2>1. PcTyped' /\ Sent'
    BY <1>8, <1>p, <1>g, <1>i, <1>l, <1>h, AdvEntryIs DEF ConnComplete, Next1, Sent, PcTyped, AppTyped
  <2>2. Room(evq')
    BY <1>8, <1>p, <1>q DEF ConnComplete, Next1, ScheduleReset
  <2>3. AppTyped'
    <3>1. evq[1].handle \in Handles
      BY <1>8, <1>p, QueueIs DEF ConnComplete, Next1
    <3>2. /\ conns' \in {conns, conns \cup {evq[1].handle}} /\ adv' \in {adv, FALSE}
          /\ connected' \in {connected, TRUE}
          /\ UNCHANGED <<host, hci, ack, synced, ready, dataSet, ctl, marks>>
      BY <1>8 DEF ConnComplete, gap
    <3> QED BY <1>p, <3>1, <3>2 DEF AppTyped, marks
  <2>4. HostTyped' /\ CmdTyped'
    BY <1>8, <1>p DEF ConnComplete, HostTyped, CmdTyped, host, marks
  <2> QED BY <1>r, <2>1, <2>2, <2>3, <2>4
<1>9. CASE DisconnComplete
  <2>1. PcTyped' /\ Sent'
    BY <1>9, <1>p, <1>g, <1>i, <1>l, <1>h, AdvEntryIs DEF DisconnComplete, Next1, Sent, PcTyped, AppTyped
  <2>2. Room(evq')
    BY <1>9, <1>p, <1>q DEF DisconnComplete, Next1, ScheduleReset
  <2>3. AppTyped'
    <3>1. /\ conns' \in {conns, conns \ {evq[1].handle}} /\ connected' \in {connected, FALSE}
          /\ UNCHANGED <<host, hci, ack, adv, synced, ready, dataSet, ctl, marks>>
      BY <1>9 DEF DisconnComplete
    <3> QED BY <1>p, <3>1 DEF AppTyped, marks
  <2>4. HostTyped' /\ CmdTyped'
    BY <1>9, <1>p DEF DisconnComplete, HostTyped, CmdTyped, host, marks
  <2> QED BY <1>r, <2>1, <2>2, <2>3, <2>4
<1>10. CASE Initialized
  <2>1. PcTyped' /\ Sent'
    BY <1>10, <1>p, <1>g, <1>i, <1>l, <1>h, AdvEntryIs DEF Initialized, Next1, Sent, PcTyped, AppTyped
  <2>2. Room(evq')
    BY <1>10, <1>p, <1>q DEF Initialized, Next1, ScheduleReset, host
  <2>3. HostTyped' /\ AppTyped' /\ CmdTyped'
    BY <1>10, <1>p, QueueIs DEF Initialized, Next1, ScheduleReset, GapReset, HostTyped, AppTyped, CmdTyped, host, gap, app, marks
  <2> QED BY <1>r, <2>1, <2>2, <2>3
<1>11. CASE CreateAdvertising
  <2>1. PcTyped' /\ Sent'
    BY <1>11, <1>p, <1>g, <1>i, <1>l, <1>h, AdvEntryIs DEF CreateAdvertising, Next1, Sent, PcTyped, AppTyped
  <2>2. Room(evq')
    BY <1>11, <1>p, <1>q DEF CreateAdvertising, Next1, ScheduleReset, host
  <2>3. HostTyped' /\ AppTyped' /\ CmdTyped'
    BY <1>11, <1>p, QueueIs DEF CreateAdvertising, Next1, ScheduleReset, GapReset, HostTyped, AppTyped, CmdTyped, host, gap, app, marks
  <2> QED BY <1>r, <2>1, <2>2, <2>3
<1>12. CASE StartAdvertising
  <2>1. PcTyped' /\ Sent'
    BY <1>12, <1>p, <1>g, <1>i, <1>l, <1>h, AdvEntryIs DEF StartAdvertising, Next1, Sent, PcTyped, AppTyped
  <2>2. Room(evq')
    BY <1>12, <1>p, <1>q DEF StartAdvertising, Next1, ScheduleReset, host
  <2>3. HostTyped' /\ AppTyped' /\ CmdTyped'
    BY <1>12, <1>p, QueueIs DEF StartAdvertising, Next1, ScheduleReset, GapReset, HostTyped, AppTyped, CmdTyped, host, gap, app, marks
  <2> QED BY <1>r, <2>1, <2>2, <2>3
<1>13. CASE TimerIdle
  <2>1. PcTyped' /\ Sent'
    BY <1>13, <1>p DEF TimerIdle, PcTyped, Sent
  <2>2. Room(evq')
    BY <1>13, <1>p, <1>q, EventsAre DEF TimerIdle, Next1, ScheduleReset, CmdTyped, Ctls
  <2>3. HostTyped' /\ AppTyped' /\ CmdTyped'
    BY <1>13, <1>p DEF TimerIdle, Next1, ScheduleReset, HostTyped, AppTyped, CmdTyped, Ctls, host, gap, app, marks
  <2> QED BY <1>r, <2>1, <2>2, <2>3
<1>14. CASE HardwareError
  <2>1. PcTyped' /\ Sent'
    BY <1>14, <1>p DEF HardwareError, PcTyped, Sent
  <2>2. Room(evq')
    BY <1>14, <1>p, <1>q, EventsAre DEF HardwareError, Next1, ScheduleReset, CmdTyped, Ctls
  <2>3. HostTyped' /\ AppTyped' /\ CmdTyped'
    BY <1>14, <1>p DEF HardwareError, Next1, ScheduleReset, HostTyped, AppTyped, CmdTyped, Ctls, host, gap, app, marks
  <2> QED BY <1>r, <2>1, <2>2, <2>3
<1>15. CASE TimerExpires
  <2>1. PcTyped' /\ Sent'
    BY <1>15, <1>p DEF TimerExpires, PcTyped, Sent
  <2>2. Room(evq')
    BY <1>15, <1>p, <1>q, EventsAre DEF TimerExpires, Next1, ScheduleReset, CmdTyped, Ctls
  <2>3. timer' = FALSE /\ UNCHANGED <<state, reason, hci, ack, gap, app, ctl, marks>>
    BY <1>15 DEF TimerExpires
  <2>4. HostTyped' /\ AppTyped' /\ CmdTyped'
    BY <1>p, <2>3 DEF HostTyped, AppTyped, CmdTyped, gap, app, marks
  <2> QED BY <1>r, <2>1, <2>2, <2>3, <2>4
<1>16. CASE CtlConnects
  <2>1. PcTyped' /\ Sent'
    BY <1>16, <1>p DEF CtlConnects, PcTyped, Sent
  <2>2. Room(evq')
    BY <1>16, <1>p, <1>q, EventsAre DEF CtlConnects, Next1, ScheduleReset, CmdTyped, Ctls
  <2>3. PICK h \in Handles : ctl' = [ctl EXCEPT !.adv = FALSE, !.links = ctl.links \cup {h}]
    BY <1>16 DEF CtlConnects
  <2>4. ctl' \in Ctls
    BY <1>p, <2>3 DEF CmdTyped, Ctls
  <2>5. UNCHANGED <<pc, host, hci, ack, gap, app, marks>>
    BY <1>16 DEF CtlConnects
  <2>6. HostTyped' /\ AppTyped' /\ CmdTyped'
    BY <1>p, <2>4, <2>5 DEF HostTyped, AppTyped, CmdTyped, host, gap, app, marks
  <2> QED BY <1>r, <2>1, <2>2, <2>3, <2>4, <2>6
<1>17. CASE CtlDisconnects
  <2>1. PcTyped' /\ Sent'
    BY <1>17, <1>p DEF CtlDisconnects, PcTyped, Sent
  <2>2. Room(evq')
    BY <1>17, <1>p, <1>q, EventsAre DEF CtlDisconnects, Next1, ScheduleReset, CmdTyped, Ctls
  <2>3. HostTyped' /\ AppTyped' /\ CmdTyped'
    BY <1>17, <1>p DEF CtlDisconnects, Next1, ScheduleReset, HostTyped, AppTyped, CmdTyped, Ctls, host, gap, app, marks
  <2> QED BY <1>r, <2>1, <2>2, <2>3
<1>18. CASE CtlFails
  <2>1. PcTyped' /\ Sent'
    BY <1>18, <1>p DEF CtlFails, PcTyped, Sent
  <2>2. Room(evq')
    BY <1>18, <1>p, <1>q, EventsAre DEF CtlFails, Next1, ScheduleReset, CmdTyped, Ctls
  <2>3. HostTyped' /\ AppTyped' /\ CmdTyped'
    BY <1>18, <1>p DEF CtlFails, Next1, ScheduleReset, HostTyped, AppTyped, CmdTyped, Ctls, host, gap, app, marks
  <2> QED BY <1>r, <2>1, <2>2, <2>3
<1>e. ASSUME ctl' \in Ctls, ack' \in Acks, faults' \in 0..MaxFaults, crossed' \in BOOLEAN,
             UNCHANGED <<pc, host, evq, hci, gap, app, early>>
      PROVE  Typed'
  <2>1. Room(evq') /\ PcTyped' /\ Sent'
    BY <1>e, <1>p DEF PcTyped, Sent
  <2>2. HostTyped'
    BY <1>e, <1>p DEF HostTyped, host, gap
  <2>3. AppTyped'
    BY <1>e, <1>p DEF AppTyped, host, gap, app
  <2>4. CmdTyped'
    BY <1>e, <1>p DEF CmdTyped
  <2> QED BY <1>r, <2>1, <2>2, <2>3, <2>4
<1>19. CASE CtlExecutes
  <2> DEFINE c == ctl.cmds[1]
  <2>1. ctl.cmds \in Seq(Commands) /\ ctl.cmds # <<>> /\ c \in Commands /\ Tail(ctl.cmds) \in Seq(Commands)
    BY <1>19, <1>p, TailIs DEF CtlExecutes, CmdTyped, Ctls
  <2>3. Executed(c) \in Ctls /\ Executed(c).cmds = ctl.cmds
    BY <1>p, <2>1, ExecutedIs DEF CmdTyped
  <2>4. [Executed(c) EXCEPT !.cmds = Tail(ctl.cmds)] \in Ctls /\ [ctl EXCEPT !.cmds = Tail(ctl.cmds)] \in Ctls
    BY <1>p, <2>1, <2>3 DEF CmdTyped, Ctls
  <2>5. ctl' \in {[Executed(c) EXCEPT !.cmds = Tail(ctl.cmds)], [ctl EXCEPT !.cmds = Tail(ctl.cmds)]}
    BY <1>19, <2>3 DEF CtlExecutes
  <2>6. ack' \in Acks
    BY <1>19, <1>p, <2>1 DEF CtlExecutes, Answer, Accepted, CmdTyped, Acks
  <2>7. faults' \in 0..MaxFaults /\ crossed' \in BOOLEAN
    BY <1>19, <1>p DEF CtlExecutes, Crosses, CmdTyped, AppTyped, marks
  <2>8. UNCHANGED <<pc, host, evq, hci, gap, app, early>>
    BY <1>19 DEF CtlExecutes
  <2>9. ctl' \in Ctls
    BY <2>4, <2>5
  <2> QED BY <1>e, <2>6, <2>7, <2>8, <2>9
<1>20. CASE CtlRefuses
  <2> DEFINE c == ctl.cmds[1]
  <2>1. ctl.cmds \in Seq(Commands) /\ ctl.cmds # <<>> /\ c \in Commands /\ Tail(ctl.cmds) \in Seq(Commands)
    BY <1>20, <1>p, TailIs DEF CtlRefuses, CmdTyped, Ctls
  <2>3. Executed(c) \in Ctls /\ Executed(c).cmds = ctl.cmds
    BY <1>p, <2>1, ExecutedIs DEF CmdTyped
  <2>4. [Executed(c) EXCEPT !.cmds = Tail(ctl.cmds)] \in Ctls /\ [ctl EXCEPT !.cmds = Tail(ctl.cmds)] \in Ctls
    BY <1>p, <2>1, <2>3 DEF CmdTyped, Ctls
  <2>5. ctl' \in {[Executed(c) EXCEPT !.cmds = Tail(ctl.cmds)], [ctl EXCEPT !.cmds = Tail(ctl.cmds)]}
    BY <1>20, <2>3 DEF CtlRefuses
  <2>6. ack' \in Acks
    BY <1>20, <1>p, <2>1 DEF CtlRefuses, Answer, Accepted, CmdTyped, Acks
  <2>7. faults' \in 0..MaxFaults /\ crossed' \in BOOLEAN
    BY <1>20, <1>p DEF CtlRefuses, Crosses, CmdTyped, AppTyped, marks
  <2>8. UNCHANGED <<pc, host, evq, hci, gap, app, early>>
    BY <1>20 DEF CtlRefuses
  <2>9. ctl' \in Ctls
    BY <2>4, <2>5
  <2> QED BY <1>e, <2>6, <2>7, <2>8, <2>9
<1>21. CASE CtlLoses
  <2> DEFINE c == ctl.cmds[1]
  <2>1. ctl.cmds \in Seq(Commands) /\ ctl.cmds # <<>> /\ c \in Commands /\ Tail(ctl.cmds) \in Seq(Commands)
    BY <1>21, <1>p, TailIs DEF CtlLoses, CmdTyped, Ctls
  <2>3. Executed(c) \in Ctls /\ Executed(c).cmds = ctl.cmds
    BY <1>p, <2>1, ExecutedIs DEF CmdTyped
  <2>4. [Executed(c) EXCEPT !.cmds = Tail(ctl.cmds)] \in Ctls /\ [ctl EXCEPT !.cmds = Tail(ctl.cmds)] \in Ctls
    BY <1>p, <2>1, <2>3 DEF CmdTyped, Ctls
  <2>5. ctl' \in {[Executed(c) EXCEPT !.cmds = Tail(ctl.cmds)], [ctl EXCEPT !.cmds = Tail(ctl.cmds)]}
    BY <1>21, <2>3 DEF CtlLoses
  <2>6. ack' \in Acks
    BY <1>21, <1>p, <2>1 DEF CtlLoses, Answer, Accepted, CmdTyped, Acks
  <2>7. faults' \in 0..MaxFaults /\ crossed' \in BOOLEAN
    <3>1. faults' \in 0..MaxFaults
      BY <1>21, <1>p DEF CtlLoses, CmdTyped
    <3>2. crossed' = crossed \/ crossed' = (crossed \/ Crosses(c))
      BY <1>21 DEF CtlLoses
    <3>3. crossed' \in BOOLEAN
      BY <1>p, <3>2 DEF AppTyped
    <3> QED BY <3>1, <3>3
  <2>8. UNCHANGED <<pc, host, evq, hci, gap, app, early>>
    BY <1>21 DEF CtlLoses
  <2>9. ctl' \in Ctls
    BY <2>4, <2>5
  <2> QED BY <1>e, <2>6, <2>7, <2>8, <2>9
<1>22. CASE UNCHANGED vars
  BY <1>22, <1>p, <1>r DEF Sent, PcTyped, HostTyped, AppTyped, CmdTyped, vars, host, gap, app, marks
<1> QED
  BY <1>h, <1>1, <1>2, <1>3, <1>4, <1>5, <1>6, <1>7, <1>8, <1>9, <1>10, <1>11, <1>12, <1>13, <1>14, <1>15, <1>16, <1>17, <1>18, <1>19, <1>20, <1>21, <1>22 DEF Next, HostTask, LoopTask, Controller, Task

-----------------------------------------------------------------------------
(* The answers to come.                                                     *)

LEMMA NotCommands ==
    /\ "idle" \notin Commands /\ "broken" \notin Commands /\ "onsync" \notin Commands
    /\ "adv" \notin Commands /\ "init" \notin Commands /\ "create" \notin Commands
    /\ "start" \notin Commands /\ "none" \notin Commands
BY StartupIs DEF Commands, AdvCommands, Labels

\* The steps in which no task comes to a command's end, and none is sent or answered.
Handler == \/ \E t \in Tasks : AdvStart(t)
           \/ ResetBegins \/ ResetEnds \/ OnSync \/ TimerIdle \/ HardwareError
           \/ ConnComplete \/ DisconnComplete
           \/ Initialized \/ CreateAdvertising \/ StartAdvertising
           \/ TimerExpires

Linking == CtlConnects \/ CtlDisconnects \/ CtlFails

LEMMA NextKinds ==
    [Next]_vars <=> \/ \E t \in Tasks : Send(t) \/ TakeAck(t) \/ AckTimeout(t)
                    \/ Handler \/ Linking
                    \/ CtlExecutes \/ CtlRefuses \/ CtlLoses
                    \/ UNCHANGED vars
BY DEF Next, HostTask, LoopTask, Task, Controller, Handler, Linking, Tasks

LEMMA HandlerKeeps ==
    ASSUME Typed, Handler
    PROVE  /\ UNCHANGED <<hci, ack, ctl, faults, crossed>>
           /\ hci # "none" => pc'[hci] = pc[hci]
           /\ \A t \in Tasks : pc[t] \in Commands => pc'[t] = pc[t]
<1>1. \A t \in Tasks : \A l : pc[t] \notin Commands /\ Goto(t, l) =>
         \A u \in Tasks : pc[u] \in Commands => pc'[u] = pc[u]
  BY DEF Goto, Typed, PcTyped
<1>2. UNCHANGED <<hci, ack, ctl, faults, crossed>> /\ \A u \in Tasks : pc[u] \in Commands => pc'[u] = pc[u]
  <2>1. ASSUME NEW t \in Tasks, AdvStart(t) PROVE <1>2!:
    BY <1>1, <2>1, NotCommands DEF AdvStart, marks
  <2>2. CASE ResetBegins
    BY <1>1, <2>2, NotCommands DEF ResetBegins, Next1, Tasks
  <2>3. CASE ResetEnds
    BY <1>1, <2>3, NotCommands DEF ResetEnds, marks, Tasks
  <2>4. CASE OnSync
    BY <1>1, <2>4, NotCommands DEF OnSync, marks, Tasks
  <2>5. CASE TimerIdle
    BY <2>5 DEF TimerIdle, marks
  <2>6. CASE HardwareError
    BY <2>6 DEF HardwareError, marks
  <2>7. CASE ConnComplete
    BY <1>1, <2>7, NotCommands DEF ConnComplete, Next1, marks, Tasks
  <2>8. CASE DisconnComplete
    BY <1>1, <2>8, NotCommands DEF DisconnComplete, Next1, marks, Tasks
  <2>9. CASE Initialized
    BY <1>1, <2>9, NotCommands DEF Initialized, marks, Tasks
  <2>10. CASE CreateAdvertising
    BY <1>1, <2>10, NotCommands DEF CreateAdvertising, marks, Tasks
  <2>11. CASE StartAdvertising
    BY <1>1, <2>11, NotCommands DEF StartAdvertising, marks, Tasks
  <2>12. CASE TimerExpires
    BY <2>12 DEF TimerExpires, marks
  <2> QED BY <2>1, <2>2, <2>3, <2>4, <2>5, <2>6, <2>7, <2>8, <2>9, <2>10, <2>11, <2>12 DEF Handler
<1> QED BY <1>2 DEF Typed, Sent, CmdTyped

LEMMA LinkingKeeps ==
    ASSUME Typed, Linking
    PROVE  /\ UNCHANGED <<pc, host, hci, ack, gap, app, crossed, early>> /\ Len(evq) < MaxQueue
           /\ ctl' \in Ctls /\ ctl'.cmds = ctl.cmds /\ ctl'.data = ctl.data /\ faults' >= faults
<1>1. UNCHANGED <<pc, host, hci, ack, gap, app, crossed, early>> /\ Len(evq) < MaxQueue
  BY DEF Linking, CtlConnects, CtlDisconnects, CtlFails, marks
<1>2. ctl'.cmds = ctl.cmds /\ ctl'.data = ctl.data
  BY DEF Linking, CtlConnects, CtlDisconnects, CtlFails, Typed, CmdTyped, Ctls
<1>3. faults' >= faults
  <2>1. faults \in Nat
    BY DEF Typed, CmdTyped
  <2>2. faults' = faults \/ faults' = faults + 1
    BY DEF Linking, CtlConnects, CtlDisconnects, CtlFails, marks
  <2> QED BY <2>1, <2>2
<1>4. Typed'
  BY TypedStep, NextKinds
<1> QED BY <1>1, <1>2, <1>3, <1>4 DEF Typed, CmdTyped

\* A step of the controller takes the first command, which it answers or not.
LEMMA TakesCommand ==
    ASSUME Typed, CtlExecutes \/ CtlRefuses \/ CtlLoses
    PROVE  /\ UNCHANGED <<pc, host, evq, hci, gap, app, early>>
           /\ ctl.cmds \in Seq(Commands) /\ ctl.cmds # <<>> /\ ctl.cmds[1] \in Commands
           /\ ctl'.cmds = Tail(ctl.cmds)
           /\ \/ ack' = ack
              \/ ack = NoAck /\ ack'.op = ctl.cmds[1] /\ ack' # NoAck
           /\ \/ CtlExecutes /\ faults' = faults
              \/ faults' = faults + 1
<1>1. /\ UNCHANGED <<pc, host, evq, hci, gap, app, early>> /\ ctl.cmds # <<>>
      /\ (CtlExecutes /\ faults' = faults) \/ faults' = faults + 1
  BY DEF CtlExecutes, CtlRefuses, CtlLoses
<1>2. ctl.cmds \in Seq(Commands) /\ ctl \in Ctls
  BY DEF Typed, CmdTyped, Ctls
<1>3. ctl.cmds[1] \in Commands
  BY <1>1, <1>2, TailIs
<1>4. ctl'.cmds = Tail(ctl.cmds)
  <2>1. Executed(ctl.cmds[1]) \in Ctls /\ Executed(ctl.cmds[1]).cmds = ctl.cmds
    BY <1>2, <1>3, ExecutedIs
  <2>2. ctl' \in {[Executed(ctl.cmds[1]) EXCEPT !.cmds = Tail(ctl.cmds)], [ctl EXCEPT !.cmds = Tail(ctl.cmds)]}
    BY <2>1 DEF CtlExecutes, CtlRefuses, CtlLoses
  <2> QED BY <1>2, <2>1, <2>2 DEF Ctls
<1>5. \A ok : [op |-> ctl.cmds[1], ok |-> ok] # NoAck
  BY <1>3, NotCommands DEF NoAck
<1>6. ack' = ack \/ (ack = NoAck /\ ack'.op = ctl.cmds[1] /\ ack' # NoAck)
  BY <1>5 DEF CtlExecutes, CtlRefuses, CtlLoses, Answer
<1> QED BY <1>1, <1>2, <1>3, <1>4, <1>6

LEMMA CountedStep == Typed /\ Counted /\ [Next]_vars => Counted'
<1> SUFFICES ASSUME Typed, Counted, [Next]_vars PROVE Counted'
  OBVIOUS
<1>t. Typed'
  BY TypedStep
<1>p. /\ ctl.cmds \in Seq(Commands) /\ Len(ctl.cmds) \in Nat /\ faults \in Nat
      /\ Len(ctl'.cmds) \in Nat /\ faults' \in Nat /\ ctl'.cmds \in Seq(Commands)
      /\ hci \in Tasks \cup {"none"}
  <2>1. ctl.cmds \in Seq(Commands) /\ ctl'.cmds \in Seq(Commands)
    BY <1>t DEF Typed, CmdTyped, Ctls
  <2> QED BY <1>t, <2>1 DEF Typed, CmdTyped
<1>o. /\ (ack # NoAck => Answers = Len(ctl.cmds) + 1) /\ (ack = NoAck => Answers = Len(ctl.cmds))
      /\ (ack' # NoAck => Answers' = Len(ctl'.cmds) + 1) /\ (ack' = NoAck => Answers' = Len(ctl'.cmds))
      /\ Answers \in Nat /\ Answers' \in Nat /\ Waiting \in 0..1 /\ Waiting' \in 0..1
  <2>1. \A n \in Nat : n + 1 \in Nat /\ n + 0 = n
    OBVIOUS
  <2>2. /\ (ack # NoAck => Answers = Len(ctl.cmds) + 1) /\ (ack = NoAck => Answers = Len(ctl.cmds) + 0)
        /\ (ack' # NoAck => Answers' = Len(ctl'.cmds) + 1) /\ (ack' = NoAck => Answers' = Len(ctl'.cmds) + 0)
    BY DEF One, Answers
  <2>3. Waiting \in 0..1 /\ Waiting' \in 0..1
    BY DEF One, Waiting
  <2> QED BY <1>p, <2>1, <2>2, <2>3
<1>q. faults \in Nat /\ faults' \in Nat /\ Answers <= faults + Waiting
  BY <1>p DEF Counted
<1>k. ASSUME ctl'.cmds = ctl.cmds, UNCHANGED <<ack, hci>>, faults' >= faults,
             hci # "none" => pc'[hci] = pc[hci]
      PROVE  Counted'
  <2>1. Answers' = Answers /\ Waiting' = Waiting
    BY <1>k DEF Answers, Waiting
  <2>2. Answers \in Nat /\ Waiting \in Nat
    BY <1>o
  <2>3. PICK g \in Nat : g = faults'
    BY <1>q
  <2>4. g >= faults
    BY <1>k, <2>3
  <2>5. Answers <= g + Waiting
    BY <1>q, <2>2, <2>4, SumIs
  <2>6. Answers' <= faults' + Waiting'
    BY <2>1, <2>3, <2>5
  <2>7. Answers = g + Waiting => Answers = faults + Waiting
    BY <1>q, <2>2, <2>4, SumIs
  <2>8. Answers' = faults' + Waiting' => Answers = faults + Waiting
    BY <2>1, <2>3, <2>7
  <2> QED BY <1>k, <2>6, <2>8 DEF Counted
<1>1. ASSUME NEW t \in Tasks, Send(t) PROVE Counted'
  <2>1. CASE MaySend(t)
    <3>1. /\ ctl' = [ctl EXCEPT !.cmds = Append(ctl.cmds, pc[t])] /\ hci' = t /\ pc[t] \in Commands
          /\ hci = "none" /\ t # "none" /\ UNCHANGED <<pc, ack, faults>>
      BY <1>1, <2>1 DEF Send, marks, Tasks
    <3>2. ctl'.cmds = Append(ctl.cmds, pc[t])
      BY <3>1 DEF Typed, CmdTyped, Ctls
    <3>3. Len(ctl'.cmds) = Len(ctl.cmds) + 1 /\ ctl'.cmds[Len(ctl'.cmds)] = pc[t]
      BY <1>p, <3>1, <3>2, AppendIs
    <3>4. Waiting' = 1 /\ Waiting = 0
      BY <3>1 DEF Waiting, One
    <3>5. Answers' = Answers + 1 /\ Answers \in Nat
      BY <1>p, <1>o, <3>1, <3>3
    <3> QED BY <1>p, <3>1, <3>3, <3>4, <3>5 DEF Counted
  <2>2. CASE ~MaySend(t)
    <3>1. hci = "none" /\ UNCHANGED <<hci, ctl, ack, faults>>
      BY <1>1, <2>2 DEF Send, marks
    <3> QED BY <1>k, <1>p, <3>1
  <2> QED BY <2>1, <2>2
<1>2. ASSUME NEW t \in Tasks, TakeAck(t) PROVE Counted'
  <2>1. hci # "none" /\ ack # NoAck /\ hci' = "none" /\ ack' = NoAck /\ UNCHANGED <<ctl, faults>>
    BY <1>2 DEF TakeAck, marks, Tasks
  <2>2. Waiting' = 0 /\ Waiting = 1 /\ Answers = Len(ctl.cmds) + 1 /\ Answers' = Len(ctl.cmds)
    BY <1>p, <2>1 DEF Waiting, Answers, One
  <2> QED BY <1>p, <2>1, <2>2 DEF Counted
<1>3. ASSUME NEW t \in Tasks, AckTimeout(t) PROVE Counted'
  <2>1. hci = t /\ hci # "none" /\ ack = NoAck /\ hci' = "none" /\ UNCHANGED <<ack, ctl>>
    BY <1>3 DEF AckTimeout, Tasks
  <2>2. Waiting' = 0 /\ Waiting = 1 /\ Answers = Len(ctl.cmds) /\ Answers' = Len(ctl.cmds)
    BY <1>p, <2>1 DEF Waiting, Answers, One
  <2>3. Len(ctl.cmds) <= faults'
    <3>1. CASE Contains(ctl.cmds, pc[t])
      <4>1. faults' = faults + 1
        BY <1>3, <3>1 DEF AckTimeout
      <4> QED BY <1>p, <2>2, <4>1 DEF Counted
    <3>2. CASE ~Contains(ctl.cmds, pc[t])
      <4>1. faults' = faults
        BY <1>3, <3>2 DEF AckTimeout
      <4>2. CASE ctl.cmds = <<>>
        BY <1>p, <4>1, <4>2
      <4>3. CASE ctl.cmds # <<>>
        <5>1. Len(ctl.cmds) \in DOMAIN ctl.cmds
          BY <1>p, <4>3
        <5>2. ctl.cmds[Len(ctl.cmds)] # pc[t]
          BY <1>p, <3>2, <5>1, ContainsIs
        <5>3. Answers # faults + Waiting
          BY <2>1, <4>3, <5>2 DEF Counted
        <5> QED BY <1>p, <2>2, <4>1, <5>3 DEF Counted
      <4> QED BY <4>2, <4>3
    <3> QED BY <3>1, <3>2
  <2> QED BY <1>p, <2>1, <2>2, <2>3 DEF Counted
<1>4. CASE Handler
  <2>1. UNCHANGED <<hci, ack, ctl, faults>> /\ (hci # "none" => pc'[hci] = pc[hci])
    BY <1>4, HandlerKeeps
  <2> QED BY <1>k, <1>p, <2>1
<1>5. CASE Linking
  <2>1. UNCHANGED <<hci, ack, pc>> /\ ctl'.cmds = ctl.cmds /\ faults' >= faults
    BY <1>5, LinkingKeeps
  <2> QED BY <1>k, <1>p, <2>1
<1>6. CASE CtlExecutes \/ CtlRefuses \/ CtlLoses
  <2>1. /\ UNCHANGED <<pc, hci>> /\ ctl.cmds # <<>> /\ ctl'.cmds = Tail(ctl.cmds)
        /\ ack' = ack \/ ack = NoAck
        /\ faults' = faults \/ faults' = faults + 1
    BY <1>6, TakesCommand
  <2>2. Len(ctl.cmds) = Len(ctl'.cmds) + 1
    BY <1>p, <2>1, TailIs
  <2>3. Waiting' = Waiting /\ Waiting \in 0..1
    BY <2>1 DEF Waiting, One
  <2>4. Answers' <= Answers /\ Answers \in Nat /\ Answers' \in Nat
    BY <1>p, <1>o, <2>1, <2>2
  <2>5. ctl'.cmds # <<>> => ctl'.cmds[Len(ctl'.cmds)] = ctl.cmds[Len(ctl.cmds)]
    <3> SUFFICES ASSUME ctl'.cmds # <<>> PROVE ctl'.cmds[Len(ctl'.cmds)] = ctl.cmds[Len(ctl.cmds)]
      OBVIOUS
    <3>1. Len(ctl'.cmds) \in DOMAIN ctl'.cmds
      BY <1>p
    <3> QED BY <1>p, <2>1, <2>2, <3>1, TailIs
  <2>a. \A a, b, f, g, w \in Nat : a <= f + w /\ b <= a /\ (g = f \/ g = f + 1) =>
                                      b <= g + w /\ (b = g + w => a = f + w)
    OBVIOUS
  <2>b. Waiting \in Nat /\ Waiting' = Waiting /\ (faults' = faults \/ faults' = faults + 1)
    BY <2>1, <2>3
  <2>6. Answers' <= faults' + Waiting
    BY <1>q, <2>4, <2>b, <2>a
  <2>c. Answers' = faults' + Waiting => Answers = faults + Waiting
    <3>1. CASE faults' = faults
      BY <1>q, <2>4, <2>b, <3>1
    <3>2. CASE faults' = faults + 1
      BY <1>q, <2>4, <2>b, <3>2
    <3> QED BY <2>b, <3>1, <3>2
  <2>7. Answers' = faults' + Waiting' => Answers = faults + Waiting
    BY <2>b, <2>c
  <2>8. Answers' <= faults' + Waiting'
    BY <2>6, <2>b
  <2> QED BY <2>1, <2>5, <2>7, <2>8 DEF Counted
<1>7. CASE UNCHANGED vars
  BY <1>k, <1>p, <1>7 DEF vars, marks
<1> QED BY <1>1, <1>2, <1>3, <1>4, <1>5, <1>6, <1>7, NextKinds

\* TypeOK, from the types and the number of answers to come.
LEMMA TypesHold == Typed /\ Counted => TypeOK
<1> SUFFICES ASSUME Typed, Counted PROVE TypeOK
  OBVIOUS
<1>1. evq \in Seq(Events) /\ Len(evq) <= MaxQueue + 3
  <2>1. \A b : One(b) \in 0..1
    BY DEF One
  <2>2. \A n, r, x \in Nat : n <= MaxQueue + r + x /\ r <= 1 /\ x <= 1 => n <= MaxQueue + 3
    OBVIOUS
  <2>3. Len(evq) \in Nat
    BY DEF Typed, QueueTyped, Room
  <2> QED BY <2>1, <2>2, <2>3 DEF Typed, QueueTyped, Room
<1>2. ctl.cmds \in Seq(Commands) /\ Len(ctl.cmds) <= MaxFaults + 1
  <2>1. ctl.cmds \in Seq(Commands) /\ Len(ctl.cmds) \in Nat /\ faults \in 0..MaxFaults
    BY DEF Typed, CmdTyped, Ctls
  <2>2. One(ack # NoAck) \in 0..1 /\ Waiting \in 0..1
    BY DEF One, Waiting
  <2>3. Len(ctl.cmds) + One(ack # NoAck) <= faults + Waiting
    BY DEF Counted, Answers
  <2> QED BY <2>1, <2>2, <2>3
<1>3. pc["host"] \in HostPlaces /\ pc["loop"] \in LoopPlaces
  BY PlacesAre DEF Typed, PcTyped
<1> QED BY <1>1, <1>2, <1>3 DEF TypeOK, Typed, HostPlaces, LoopPlaces, HostTyped, AppTyped, CmdTyped, Acks, Ctls

LEMMA Starts == Init => Typed /\ Counted
<1> SUFFICES ASSUME Init PROVE Typed /\ Counted
  OBVIOUS
<1>1. PcTyped
  <2>1. "reset" \in HostPlaces /\ "init" \in LoopPlaces
    BY StartupIs, PlacesAre
  <2> QED BY <2>1, PlacesAre DEF Init, PcTyped, Places, PlacesOf, Tasks
<1>2. HostTyped /\ AppTyped /\ CmdTyped /\ Sent
  <2>1. HostTyped /\ AppTyped /\ Sent
    BY DEF Init, HostTyped, AppTyped, Sent
  <2>2. ctl \in Ctls /\ ack \in Acks
    BY DEF Init, Acks, Ctls
  <2> QED BY <2>1, <2>2 DEF Init, CmdTyped
<1>3. Room(evq)
  <2>1. evq = <<>> /\ \A b : One(b) \in 0..1
    BY DEF Init, One
  <2>2. <<>> \in Seq(Events) /\ Len(<<>>) = 0
    OBVIOUS
  <2>3. \A r, x \in 0..1 : 0 <= MaxQueue + r + x
    OBVIOUS
  <2> QED BY <2>1, <2>2, <2>3 DEF Room
<1>4. Counted
  BY DEF Init, Counted, Answers, Waiting, One
<1> QED BY <1>1, <1>2, <1>3, <1>4 DEF Typed, QueueTyped

\* TypeOK always holds: the queue has room for what the host queues itself, and the
\* controller has no more commands than the faults and the one that is waited for.
THEOREM TypeCorrect == Spec => []TypeOK
<1>1. Init => Typed /\ Counted
  BY Starts
<1>2. Typed /\ Counted /\ [Next]_vars => (Typed /\ Counted)'
  BY TypedStep, CountedStep
<1>3. Typed /\ Counted => TypeOK
  BY TypesHold
<1> QED BY <1>1, <1>2, <1>3, PTL DEF Spec

-----------------------------------------------------------------------------
(* Getting into sync.                                                       *)

\* The host task goes through the startup while the state says so.
Placed == /\ pc["host"] \in StartupCommands <=> state = "bringup"
          /\ pc["host"] = "broken" => state = "bad"

\* At the i-th command of the startup at most MaxFaults + 1 - i answers, the one
\* that has come included, are to commands from before it: each of the commands
\* before took one of them, or there are none left.  The rest are to commands of
\* this startup, of which only the last can be the one that is waited for.
Older(i, o) ==
    \/ ack = NoAck /\ (o = 0 \/ o <= MaxFaults + 1 - i)
    \/ ack # NoAck /\ o + 1 <= MaxFaults + 1 - i
    \/ ack # NoAck /\ o = 0 /\ (ack.op = Startup[i] => ctl.cmds = <<>> /\ hci = "host")
Newer(i, o) ==
    \A j \in DOMAIN ctl.cmds : j > o =>
        \/ \E m \in 1..L : m < i /\ ctl.cmds[j] = Startup[m]
        \/ j = Len(ctl.cmds) /\ ctl.cmds[j] = Startup[i] /\ hci = "host"
Match(i) == \E o \in Nat : Older(i, o) /\ Newer(i, o)
Started == \A i \in 1..L : pc["host"] = Startup[i] =>
               /\ i > 1 => hci # "loop"
               /\ i > 1 \/ hci = "host" => Match(i)

\* What the tasks' commands do to the place of the host task.
LEMMA HostAfter ==
    ASSUME Typed, NEW t \in Tasks, pc[t] \in Commands, NEW ok \in BOOLEAN, After(t, ok)
    PROVE  \/ pc'["host"] = pc["host"] /\ UNCHANGED <<state, timer>> /\ t = "loop"
           \/ /\ t = "host" /\ pc["host"] \notin StartupCommands /\ UNCHANGED <<state, timer>>
              /\ pc'["host"] \in {"idle", "onsync", "adv", "enable"}
           \/ /\ t = "host" /\ ~ok /\ pc["host"] \in StartupCommands
              /\ pc'["host"] = "idle" /\ state' = "bad"
           \/ /\ t = "host" /\ ok /\ UNCHANGED <<state, timer>>
              /\ \E i \in 1..L : i + 1 \in 1..L /\ pc["host"] = Startup[i] /\ pc'["host"] = Startup[i + 1]
           \/ /\ t = "host" /\ ok /\ pc["host"] = Startup[L] /\ state' = "good"
              /\ pc'["host"] \in {"irks", "onsync"}
<1>1. PcTyped /\ AppTyped
  BY DEF Typed
<1>2. t # "host" => t = "loop" /\ pc'["host"] = pc["host"] /\ pc[t] \in AdvCommands
  BY <1>1, AfterIs, LoopCommands DEF Tasks
<1>3. \A c \in StartupCommands : c \notin AdvCommands /\ c # "irks" /\ c # "feat" /\ c # "data" /\ c # "params"
  BY StartupIs DEF Labels, AdvCommands
<1>4. CASE t # "host"
  <2>1. \A i \in 1..L : Startup[i] \in StartupCommands
    BY StartupIs
  <2>2. L \in 1..L
    BY StartupIs
  <2>3. pc[t] \notin StartupCommands /\ pc[t] # "irks" /\ pc[t] # "feat"
    BY <1>2, <1>3, <1>4, StartupIs DEF AdvCommands
  <2>4. UNCHANGED <<state, timer>>
    BY <2>3 DEF After
  <2> QED BY <1>2, <1>4, <2>4
<1>5. CASE t = "host"
  <2>1. \A i \in 1..L : Startup[i] \in StartupCommands
    BY StartupIs
  <2>2. /\ "irks" \notin StartupCommands /\ "feat" \notin StartupCommands
        /\ \A c \in AdvCommands : c \notin StartupCommands
    BY <1>3
  <2>3. "data" \in AdvCommands /\ "params" \in AdvCommands
    BY DEF AdvCommands
  <2>a. L \in 1..L
    BY StartupIs
  <2>b. \/ ~ok /\ pc[t] \in StartupCommands /\ pc'[t] = "idle" /\ state' = "bad"
        \/ /\ ok /\ UNCHANGED <<state, timer>>
           /\ \E i \in 1..L : i + 1 \in 1..L /\ pc[t] = Startup[i] /\ pc'[t] = Startup[i + 1]
        \/ ok /\ pc[t] = Startup[L] /\ state' = "good" /\ pc'[t] \in {"irks", "onsync"}
        \/ pc[t] \in AdvCommands \cup {"irks", "feat"} /\ pc'[t] \in {"idle", "onsync", "adv", "enable"}
    <3>1. PcTyped /\ AppTyped /\ pc[t] \in Commands /\ After(t, ok)
      BY <1>1
    <3>2. \/ ~ok /\ pc[t] \in StartupCommands /\ pc'[t] = "idle" /\ state' = "bad"
          \/ /\ ok /\ state' = state /\ timer' = timer
             /\ \E i \in 1..L : i + 1 \in 1..L /\ pc[t] = Startup[i] /\ pc'[t] = Startup[i + 1]
          \/ ok /\ pc[t] = Startup[L] /\ state' = "good" /\ pc'[t] \in {"irks", "onsync"}
          \/ pc[t] = "irks" /\ pc'[t] = "onsync"
          \/ pc[t] = "feat" /\ pc'[t] = "idle"
          \/ pc[t] = "data" /\ pc'[t] = "adv"
          \/ pc[t] = "params" /\ pc'[t] = "enable"
          \/ pc[t] \in AdvCommands /\ pc'[t] = "idle"
      <4>g. \A l : Goto(t, l) => pc'[t] = l
        BY <1>1 DEF Goto, PcTyped
      <4>1. CASE ~ok /\ pc[t] \in StartupCommands \cup {"data", "params"} /\ Goto(t, "idle")
        BY <2>3, <4>1, <4>g DEF After
      <4>2. CASE ok /\ pc[t] \in StartupCommands \ {Last(Startup)} /\ Goto(t, Following(pc[t]))
        <5>1. PICK i \in 1..L : pc[t] = Startup[i]
          BY <4>2, StartupIs
        <5>2. i + 1 \in 1..L /\ pc'[t] = Startup[i + 1]
          BY <4>2, <4>g, <5>1, FollowingIs
        <5>3. state' = state /\ timer' = timer
          BY <4>2 DEF After
        <5> QED BY <4>2, <5>1, <5>2, <5>3
      <4>3. CASE ok /\ pc[t] = Last(Startup) /\ \E l \in {"irks", "onsync"} : Goto(t, l)
        <5>1. pc[t] = Startup[L] /\ pc[t] \in StartupCommands
          BY <2>1, <2>a, <4>3, StartupIs
        <5>2. state' = "good"
          BY <4>3, <5>1 DEF After
        <5> QED BY <4>3, <4>g, <5>1, <5>2
      <4>4. CASE \/ ok /\ pc[t] = "data" /\ Goto(t, "adv")
                 \/ ok /\ pc[t] = "params" /\ Goto(t, "enable")
                 \/ pc[t] = "irks" /\ Goto(t, "onsync")
                 \/ pc[t] \in {"feat", "enable"} /\ Goto(t, "idle")
        BY <4>4, <4>g DEF AdvCommands
      <4> QED BY <4>1, <4>2, <4>3, <4>4 DEF After
    <3> QED BY <2>3, <3>2
  <2>4. /\ pc'[t] \in {"idle", "onsync", "adv", "enable"} \/ pc[t] \in StartupCommands
        /\ pc[t] \notin StartupCommands => UNCHANGED <<state, timer>>
    <3>1. pc[t] \notin StartupCommands => UNCHANGED <<state, timer>>
      BY StartupIs DEF After
    <3>2. pc'[t] \in {"idle", "onsync", "adv", "enable"} \/ pc[t] \in StartupCommands
      BY <2>1, <2>a, <2>b
    <3> QED BY <3>1, <3>2
  <2>5. CASE pc[t] \notin StartupCommands
    BY <1>5, <2>4, <2>5
  <2>6. CASE pc[t] \in StartupCommands
    <3>1. \/ ~ok /\ pc'[t] = "idle" /\ state' = "bad"
          \/ /\ ok /\ UNCHANGED <<state, timer>>
             /\ \E i \in 1..L : i + 1 \in 1..L /\ pc[t] = Startup[i] /\ pc'[t] = Startup[i + 1]
          \/ ok /\ pc[t] = Startup[L] /\ state' = "good" /\ pc'[t] \in {"irks", "onsync"}
      BY <2>2, <2>6, <2>b
    <3> QED BY <1>5, <2>6, <3>1
  <2> QED BY <2>5, <2>6
<1> QED BY <1>4, <1>5

\* The host task comes to a command of the startup by an acknowledgement or from
\* ble_hs_reset().
LEMMA HandlerHost ==
    ASSUME Typed, Handler
    PROVE  \/ UNCHANGED <<state>> /\ pc'["host"] = pc["host"]
           \/ /\ ResetEnds /\ pc["host"] = "broken" /\ pc'["host"] = Startup[1]
              /\ state' = "bringup" /\ UNCHANGED <<evq, timer>>
           \/ /\ ResetBegins /\ pc["host"] = "idle" /\ pc'["host"] = "broken" /\ state' = "bad"
              /\ UNCHANGED timer
           \/ /\ pc["host"] \in {"idle", "adv", "onsync"} /\ UNCHANGED state
              /\ pc'["host"] \in {"idle", "adv", "data", "params", "feat"}
<1>1. \A t \in Tasks : \A l : Goto(t, l) => pc'[t] = l /\ \A u \in Tasks : u # t => pc'[u] = pc[u]
  BY DEF Goto, Typed, PcTyped
<1>2. "host" \in Tasks /\ "loop" \in Tasks /\ "loop" # "host"
  BY DEF Tasks
<1>3. ASSUME NEW t \in Tasks, AdvStart(t)
      PROVE  \/ UNCHANGED <<state>> /\ pc'["host"] = pc["host"]
             \/ pc["host"] \in {"idle", "adv", "onsync"} /\ UNCHANGED state
                /\ pc'["host"] \in {"idle", "adv", "data", "params", "feat"}
  BY <1>1, <1>2, <1>3 DEF AdvStart, host
<1>4. CASE ResetBegins
  BY <1>1, <1>2, <1>4 DEF ResetBegins, Next1
<1>5. CASE ResetEnds
  BY <1>1, <1>2, <1>5, StartupIs DEF ResetEnds
<1>6. CASE OnSync
  BY <1>1, <1>2, <1>6 DEF OnSync, AdvEntry, host
<1>7. CASE TimerIdle \/ HardwareError \/ TimerExpires
  BY <1>7 DEF TimerIdle, HardwareError, TimerExpires, host
<1>8. CASE ConnComplete
  BY <1>1, <1>2, <1>8 DEF ConnComplete, Next1, host
<1>9. CASE DisconnComplete
  BY <1>1, <1>2, <1>9 DEF DisconnComplete, Next1, AdvEntry, host
<1>10. CASE Initialized \/ CreateAdvertising \/ StartAdvertising
  BY <1>1, <1>2, <1>10 DEF Initialized, CreateAdvertising, StartAdvertising, host
<1> QED BY <1>3, <1>4, <1>5, <1>6, <1>7, <1>8, <1>9, <1>10 DEF Handler

LEMMA PlacedStep == Typed /\ Placed /\ [Next]_vars => Placed'
<1> SUFFICES ASSUME Typed, Placed, [Next]_vars PROVE Placed'
  OBVIOUS
<1>l. \A c \in StartupCommands : c \notin Labels
  BY StartupIs
<1>s. \A i \in 1..L : Startup[i] \in StartupCommands
  BY StartupIs
<1>n. 1 \in 1..L /\ L \in 1..L
  BY StartupIs
<1>a. ASSUME NEW t \in Tasks, pc[t] \in Commands, NEW ok \in BOOLEAN, After(t, ok) PROVE Placed'
  BY <1>a, <1>l, <1>s, <1>n, HostAfter DEF Placed, Labels, AdvCommands
<1>k. ASSUME pc'["host"] = pc["host"], UNCHANGED state PROVE Placed'
  BY <1>k DEF Placed
<1>1. ASSUME NEW t \in Tasks, Send(t) PROVE Placed'
  <2>1. CASE MaySend(t)
    BY <1>1, <1>k, <2>1 DEF Send
  <2>2. CASE ~MaySend(t)
    BY <1>1, <1>a, <2>2 DEF Send
  <2> QED BY <2>1, <2>2
<1>2. ASSUME NEW t \in Tasks, TakeAck(t) PROVE Placed'
  <2>1. pc[t] \in Commands /\ After(t, ack.op = pc[t] /\ ack.ok)
    BY <1>2 DEF TakeAck, Typed, Sent, Tasks
  <2>2. (ack.op = pc[t] /\ ack.ok) \in BOOLEAN
    OBVIOUS
  <2> QED BY <1>a, <2>1, <2>2
<1>3. ASSUME NEW t \in Tasks, AckTimeout(t) PROVE Placed'
  <2>1. pc[t] \in Commands /\ After(t, FALSE)
    BY <1>3 DEF AckTimeout, Typed, Sent, Tasks
  <2> QED BY <1>a, <2>1
<1>4. CASE Handler
  BY <1>4, <1>l, <1>s, <1>n, HandlerHost DEF Placed, Labels, AdvCommands
<1>5. CASE Linking
  BY <1>5, <1>k, LinkingKeeps DEF host
<1>6. CASE CtlExecutes \/ CtlRefuses \/ CtlLoses
  BY <1>6, <1>k, TakesCommand DEF host
<1>7. CASE UNCHANGED vars
  BY <1>7, <1>k DEF vars, host
<1> QED BY <1>1, <1>2, <1>3, <1>4, <1>5, <1>6, <1>7, NextKinds

LEMMA StartedStep == Typed /\ Counted /\ Placed /\ Started /\ [Next]_vars => Started'
<1> SUFFICES ASSUME Typed, Counted, Placed, Started, [Next]_vars,
                    NEW i \in 1..L, pc'["host"] = Startup[i]
             PROVE  /\ i > 1 => hci' # "loop"
                    /\ i > 1 \/ hci' = "host" => Match(i)'
  BY DEF Started
<1>t. Typed' /\ Counted'
  BY TypedStep, CountedStep
<1>p. /\ ctl.cmds \in Seq(Commands) /\ Len(ctl.cmds) \in Nat /\ faults \in 0..MaxFaults
      /\ ctl'.cmds \in Seq(Commands) /\ Len(ctl'.cmds) \in Nat /\ faults' \in 0..MaxFaults
      /\ hci \in {"host", "loop", "none"}
  <2>1. ctl.cmds \in Seq(Commands) /\ ctl'.cmds \in Seq(Commands)
    BY <1>t DEF Typed, CmdTyped, Ctls
  <2> QED BY <1>t, <2>1 DEF Typed, CmdTyped, Tasks
<1>s. /\ Startup[i] \in StartupCommands /\ \A j \in 1..L : Startup[j] = Startup[i] => j = i
      /\ L \in Nat /\ 1 \in 1..L /\ L \in 1..L /\ \A c \in StartupCommands : c \notin Labels
      /\ \A j \in 1..L : Startup[j] \in StartupCommands
  BY StartupIs
<1>u. ASSUME UNCHANGED <<ctl, ack, hci>>, pc["host"] = Startup[i]
      PROVE  /\ i > 1 => hci' # "loop"
             /\ i > 1 \/ hci' = "host" => Match(i)'
  <2>1. /\ i > 1 => hci # "loop"
        /\ i > 1 \/ hci = "host" => Match(i)
    BY <1>u DEF Started
  <2>2. Match(i) => Match(i)'
    BY <1>u DEF Match, Older, Newer
  <2> QED BY <1>u, <2>1, <2>2
\* A command that does not succeed leaves the startup.
<1>f. ASSUME NEW t \in Tasks, pc[t] \in Commands, After(t, FALSE)
      PROVE  t = "loop" /\ pc["host"] = Startup[i]
  <2>1. Startup[i] \notin {"idle", "onsync", "adv", "enable", "irks"}
    BY <1>s DEF Labels, AdvCommands
  <2>2. \/ pc'["host"] = pc["host"] /\ t = "loop"
        \/ pc'["host"] \in {"idle", "onsync", "adv", "enable", "irks"}
    BY <1>f, HostAfter
  <2> QED BY <2>1, <2>2
<1>1. ASSUME NEW t \in Tasks, Send(t)
      PROVE  /\ i > 1 => hci' # "loop"
             /\ i > 1 \/ hci' = "host" => Match(i)'
  <2>1. CASE MaySend(t)
    <3>1. /\ ctl' = [ctl EXCEPT !.cmds = Append(ctl.cmds, pc[t])] /\ hci' = t /\ pc[t] \in Commands
          /\ hci = "none" /\ UNCHANGED <<pc, ack, state>>
      BY <1>1, <2>1 DEF Send
    <3>2. t = "host" /\ pc["host"] = Startup[i]
      BY <2>1, <3>1, <1>s DEF MaySend, Placed
    <3>3. ctl'.cmds = Append(ctl.cmds, Startup[i])
      BY <3>1, <3>2 DEF Typed, CmdTyped, Ctls
    <3>4. /\ Len(ctl'.cmds) = Len(ctl.cmds) + 1
          /\ DOMAIN ctl'.cmds = 1..(Len(ctl.cmds) + 1) /\ DOMAIN ctl.cmds = 1..Len(ctl.cmds)
          /\ ctl'.cmds[Len(ctl.cmds) + 1] = Startup[i]
          /\ \A j \in DOMAIN ctl.cmds : ctl'.cmds[j] = ctl.cmds[j]
      BY <1>p, <3>1, <3>2, <3>3, AppendIs
    <3>5. CASE i = 1
      <4>o. PICK o \in Nat : o = Len(ctl.cmds)
        BY <1>p
      <4>1. Newer(i, o)'
        <5>1. \A j \in DOMAIN ctl'.cmds : j > o => j = o + 1
          BY <1>p, <3>4, <4>o
        <5> QED BY <3>1, <3>2, <3>4, <4>o, <5>1 DEF Newer
      <4>2. Older(i, o)'
        <5>1. Waiting' = 1
          BY <3>1, <3>2 DEF Waiting, One
        <5>2. /\ ack = NoAck => Answers' = o + 1
              /\ ack # NoAck => Answers' = o + 2
          <6>1. Answers' = Len(ctl'.cmds) + (IF ack # NoAck THEN 1 ELSE 0)
            BY <3>1 DEF Answers, One
          <6>2. Len(ctl'.cmds) = o + 1
            BY <3>4, <4>o
          <6>3. (o + 1) + 1 = o + 2 /\ (o + 1) + 0 = o + 1
            OBVIOUS
          <6> QED BY <6>1, <6>2, <6>3
        <5>3. Answers' <= faults' + 1
          BY <1>t, <5>1 DEF Counted
        <5>z. faults' \in 0..MaxFaults
          BY <1>p
        <5>a. PICK f \in 0..MaxFaults : f = faults'
          BY <5>z
        <5>4. ack = NoAck => o <= MaxFaults
          <6> SUFFICES ASSUME ack = NoAck PROVE o <= MaxFaults
            OBVIOUS
          <6>1. o + 1 <= f + 1
            BY <5>2, <5>3, <5>a
          <6> QED BY <6>1
        <5>5. ack # NoAck => o + 1 <= MaxFaults
          <6> SUFFICES ASSUME ack # NoAck PROVE o + 1 <= MaxFaults
            OBVIOUS
          <6>1. o + 2 <= f + 1
            BY <5>2, <5>3, <5>a
          <6> QED BY <6>1
        <5>6. MaxFaults + 1 - i = MaxFaults
          BY <3>5
        <5>7. ack' = ack
          BY <3>1
        <5> QED BY <5>4, <5>5, <5>6, <5>7 DEF Older
      <4> QED BY <3>1, <3>2, <4>1, <4>2 DEF Match
    <3>6. CASE i # 1
      <4>1. PICK o \in Nat : Older(i, o) /\ Newer(i, o)
        BY <3>2, <3>6 DEF Started, Match
      <4>2. Older(i, o)'
        BY <3>1, <4>1 DEF Older
      <4>3. Newer(i, o)'
        <5> SUFFICES ASSUME NEW j \in DOMAIN ctl'.cmds, j > o
                     PROVE  \/ \E m \in 1..L : m < i /\ ctl'.cmds[j] = Startup[m]
                            \/ j = Len(ctl'.cmds) /\ ctl'.cmds[j] = Startup[i] /\ hci' = "host"
          BY DEF Newer
        <5>1. CASE j = Len(ctl.cmds) + 1
          BY <3>1, <3>2, <3>4, <5>1
        <5>2. CASE j # Len(ctl.cmds) + 1
          <6>1. j \in DOMAIN ctl.cmds
            BY <1>p, <3>4, <5>2
          <6> QED BY <3>1, <3>4, <4>1, <6>1 DEF Newer
        <5> QED BY <5>1, <5>2
      <4> QED BY <3>1, <3>2, <4>2, <4>3 DEF Match
    <3> QED BY <3>5, <3>6
  <2>2. CASE ~MaySend(t)
    <3>1. hci = "none" /\ UNCHANGED <<hci, ctl, ack>> /\ After(t, FALSE) /\ pc[t] \in Commands
      BY <1>1, <2>2 DEF Send
    <3> QED BY <1>f, <1>u, <3>1
  <2> QED BY <2>1, <2>2
<1>2. ASSUME NEW t \in Tasks, TakeAck(t)
      PROVE  /\ i > 1 => hci' # "loop"
             /\ i > 1 \/ hci' = "host" => Match(i)'
  <2> DEFINE ok == ack.op = pc[t] /\ ack.ok
  <2>1. /\ hci = t /\ ack # NoAck /\ hci' = "none" /\ ack' = NoAck /\ UNCHANGED ctl
        /\ pc[t] \in Commands /\ After(t, ok)
    BY <1>2 DEF TakeAck, Typed, Sent, Tasks
  <2>2. ok \in BOOLEAN
    OBVIOUS
  <2>3. CASE t = "loop"
    <3>1. pc["host"] = Startup[i]
      BY <2>1, <2>2, <2>3, HostAfter
    <3>2. ~(i > 1)
      BY <2>1, <2>3, <3>1 DEF Started
    <3> QED BY <2>1, <3>2
  <2>4. CASE t = "host"
    <3>1. PICK k \in 1..L : k + 1 = i /\ pc["host"] = Startup[k] /\ ok
      <4>1. \/ /\ ok
               /\ \E k \in 1..L : k + 1 \in 1..L /\ pc["host"] = Startup[k] /\ pc'["host"] = Startup[k + 1]
            \/ pc'["host"] \in {"idle", "onsync", "adv", "enable", "irks"}
        <5> HIDE DEF ok
        <5> QED BY <2>1, <2>2, <2>4, HostAfter
      <4>2. pc'["host"] \notin {"idle", "onsync", "adv", "enable", "irks"}
        BY <1>s DEF Labels, AdvCommands
      <4> QED BY <1>s, <4>1, <4>2
    <3>2. PICK o \in Nat : Older(k, o) /\ Newer(k, o)
      BY <2>1, <2>4, <3>1 DEF Started, Match
    <3>3. ack.op = Startup[k]
      BY <2>4, <3>1
    <3>4. ack # NoAck /\ ((o + 1 <= MaxFaults + 1 - k) \/ (o = 0 /\ ctl.cmds = <<>>))
      BY <2>1, <3>2, <3>3 DEF Older
    <3>5. Older(i, o)'
      <4>1. o = 0 \/ o <= MaxFaults + 1 - i
        BY <3>1, <3>4
      <4> QED BY <2>1, <4>1 DEF Older
    <3>6. Newer(i, o)'
      <4>1. \A m \in 1..L : m < k => m < i
        BY <3>1
      <4>2. k < i
        BY <3>1
      <4> QED BY <2>1, <3>2, <4>1, <4>2 DEF Newer
    <3> QED BY <2>1, <3>5, <3>6 DEF Match
  <2> QED BY <2>3, <2>4 DEF Tasks
<1>3. ASSUME NEW t \in Tasks, AckTimeout(t)
      PROVE  /\ i > 1 => hci' # "loop"
             /\ i > 1 \/ hci' = "host" => Match(i)'
  <2>1. pc[t] \in Commands /\ After(t, FALSE) /\ hci = t /\ hci' = "none"
    BY <1>3 DEF AckTimeout, Typed, Sent, Tasks
  <2>2. t = "loop" /\ pc["host"] = Startup[i]
    BY <1>f, <2>1
  <2>3. ~(i > 1)
    BY <2>1, <2>2 DEF Started
  <2> QED BY <2>1, <2>3
<1>4. CASE Handler
  <2>1. UNCHANGED <<ctl, ack, hci>>
    BY <1>4, HandlerKeeps
  <2>2. pc["host"] = pc'["host"] \/ (pc["host"] = "broken" /\ pc'["host"] = Startup[1])
    BY <1>4, <1>s, HandlerHost DEF Labels, AdvCommands
  <2>3. CASE pc["host"] = pc'["host"]
    BY <1>u, <2>1, <2>3
  <2>4. CASE pc["host"] = "broken" /\ pc'["host"] = Startup[1]
    <3>1. ~(i > 1) /\ hci # "host"
      BY <1>s, <2>4, NotCommands DEF Typed, Sent
    <3> QED BY <2>1, <3>1
  <2> QED BY <2>2, <2>3, <2>4
<1>5. CASE Linking
  <2>1. UNCHANGED <<pc, ack, hci>> /\ ctl'.cmds = ctl.cmds
    BY <1>5, LinkingKeeps
  <2>2. Match(i) => Match(i)'
    BY <2>1 DEF Match, Older, Newer
  <2> QED BY <2>1, <2>2 DEF Started
<1>6. CASE CtlExecutes \/ CtlRefuses \/ CtlLoses
  <2>1. /\ UNCHANGED <<pc, hci>> /\ ctl.cmds # <<>> /\ ctl'.cmds = Tail(ctl.cmds)
        /\ \/ ack' = ack
           \/ ack = NoAck /\ ack'.op = ctl.cmds[1] /\ ack' # NoAck
    BY <1>6, TakesCommand
  <2>2. SUFFICES ASSUME i > 1 \/ hci = "host" PROVE Match(i)'
    BY <2>1 DEF Started
  <2>3. PICK o \in Nat : Older(i, o) /\ Newer(i, o)
    BY <2>1, <2>2 DEF Started, Match
  <2>4. /\ Len(ctl.cmds) = Len(ctl'.cmds) + 1 /\ 1 \in DOMAIN ctl.cmds
        /\ \A j \in DOMAIN ctl'.cmds : j + 1 \in DOMAIN ctl.cmds /\ ctl'.cmds[j] = ctl.cmds[j + 1]
        /\ DOMAIN ctl'.cmds = 1..Len(ctl'.cmds)
    BY <1>p, <2>1, TailIs
  <2>5. ASSUME NEW n \in Nat, \A j \in DOMAIN ctl'.cmds : j > n => j + 1 > o
        PROVE  Newer(i, n)'
    <3> SUFFICES ASSUME NEW j \in DOMAIN ctl'.cmds, j > n
                 PROVE  \/ \E m \in 1..L : m < i /\ ctl'.cmds[j] = Startup[m]
                        \/ j = Len(ctl'.cmds) /\ ctl'.cmds[j] = Startup[i] /\ hci' = "host"
      BY DEF Newer
    <3>1. j + 1 \in DOMAIN ctl.cmds /\ ctl'.cmds[j] = ctl.cmds[j + 1] /\ j + 1 > o
      BY <2>4, <2>5
    <3>2. \/ \E m \in 1..L : m < i /\ ctl.cmds[j + 1] = Startup[m]
          \/ j + 1 = Len(ctl.cmds) /\ ctl.cmds[j + 1] = Startup[i] /\ hci = "host"
      BY <2>3, <3>1 DEF Newer
    <3>3. j + 1 = Len(ctl.cmds) => j = Len(ctl'.cmds)
      BY <1>p, <2>4
    <3> QED BY <2>1, <3>1, <3>2, <3>3
  <2>6. CASE o # 0
    <3>1. o - 1 \in Nat /\ \A j \in DOMAIN ctl'.cmds : j > o - 1 => j + 1 > o
      BY <1>p, <2>4, <2>6
    <3>2. Newer(i, o - 1)'
      BY <2>5, <3>1
    <3>3. \/ ack = NoAck /\ o <= MaxFaults + 1 - i
          \/ ack # NoAck /\ o + 1 <= MaxFaults + 1 - i
      BY <2>3, <2>6 DEF Older
    <3>4. o <= MaxFaults + 1 - i => o - 1 <= MaxFaults + 1 - i /\ (o - 1) + 1 <= MaxFaults + 1 - i
      OBVIOUS
    <3>5. o + 1 <= MaxFaults + 1 - i => (o - 1) + 1 <= MaxFaults + 1 - i
      OBVIOUS
    <3>6. Older(i, o - 1)'
      BY <2>1, <3>3, <3>4, <3>5 DEF Older
    <3> QED BY <3>1, <3>2, <3>6 DEF Match
  <2>7. CASE o = 0
    <3>1. Newer(i, 0)'
      <4>1. \A j \in DOMAIN ctl'.cmds : j > 0 => j + 1 > o
        BY <2>4, <2>7
      <4> QED BY <2>5, <4>1
    <3>2. Older(i, 0)'
      <4>1. CASE ack' = ack
        BY <2>1, <2>3, <2>7, <4>1 DEF Older
      <4>2. CASE ack = NoAck /\ ack'.op = ctl.cmds[1] /\ ack' # NoAck
        <5>1. \/ \E m \in 1..L : m < i /\ ctl.cmds[1] = Startup[m]
              \/ 1 = Len(ctl.cmds) /\ ctl.cmds[1] = Startup[i] /\ hci = "host"
          BY <2>3, <2>4, <2>7 DEF Newer
        <5>2. ack'.op = Startup[i] => Len(ctl.cmds) = 1 /\ hci = "host"
          BY <1>s, <4>2, <5>1
        <5>3. Len(ctl.cmds) = 1 => ctl'.cmds = <<>>
          BY <1>p, <2>4
        <5> QED BY <2>1, <4>2, <5>2, <5>3 DEF Older
      <4> QED BY <2>1, <4>1, <4>2
    <3> QED BY <3>1, <3>2 DEF Match
  <2> QED BY <2>6, <2>7
<1>7. CASE UNCHANGED vars
  BY <1>7, <1>u DEF vars
<1> QED BY <1>1, <1>2, <1>3, <1>4, <1>5, <1>6, <1>7, NextKinds

\* A step that gets the host into sync takes the acknowledgement of its last command.
LEMMA SyncStep ==
    ASSUME Typed, Placed, Started, [Next]_vars, state # "good", state' = "good"
    PROVE  ctl.cmds = <<>> /\ ack' = NoAck
<1>p. /\ ctl.cmds \in Seq(Commands) /\ L \in 1..L /\ L > MaxFaults + 1
  BY StartupIs DEF Typed, CmdTyped, Ctls
<1>f. ASSUME NEW t \in Tasks, pc[t] \in Commands, NEW ok \in BOOLEAN, After(t, ok)
      PROVE  t = "host" /\ ok /\ pc["host"] = Startup[L]
  BY <1>f, HostAfter
<1>1. ASSUME NEW t \in Tasks, Send(t) PROVE FALSE
  BY <1>1, <1>f DEF Send
<1>2. ASSUME NEW t \in Tasks, TakeAck(t) PROVE ctl.cmds = <<>> /\ ack' = NoAck
  <2> DEFINE ok == ack.op = pc[t] /\ ack.ok
  <2>1. /\ hci = t /\ ack # NoAck /\ ack' = NoAck /\ pc[t] \in Commands /\ After(t, ok)
    BY <1>2 DEF TakeAck, Typed, Sent, Tasks
  <2>2. t = "host" /\ ok /\ pc["host"] = Startup[L]
    <3>1. ok \in BOOLEAN
      OBVIOUS
    <3> HIDE DEF ok
    <3> QED BY <1>f, <2>1, <3>1
  <2>3. PICK o \in Nat : Older(L, o)
    BY <1>p, <2>1, <2>2 DEF Started, Match
  <2>4. ~(o + 1 <= MaxFaults + 1 - L)
    BY <1>p
  <2> QED BY <2>1, <2>2, <2>3, <2>4 DEF Older
<1>3. ASSUME NEW t \in Tasks, AckTimeout(t) PROVE FALSE
  BY <1>3, <1>f DEF AckTimeout, Typed, Sent, Tasks
<1>4. CASE Handler
  BY <1>4, HandlerHost
<1>5. CASE Linking
  BY <1>5, LinkingKeeps DEF host
<1>6. CASE CtlExecutes \/ CtlRefuses \/ CtlLoses
  BY <1>6, TakesCommand DEF host
<1>7. CASE UNCHANGED vars
  BY <1>7 DEF vars, host
<1> QED BY <1>1, <1>2, <1>3, <1>4, <1>5, <1>6, <1>7, NextKinds

Synchronises == Typed /\ Counted /\ Placed /\ Started

LEMMA InitSynchronises == Init => Synchronises
<1> SUFFICES ASSUME Init PROVE Synchronises
  OBVIOUS
<1>1. Typed /\ Counted
  BY Starts
<1>2. pc["host"] = Startup[1] /\ state = "bringup" /\ hci = "none"
  BY StartupIs DEF Init
<1>3. Placed
  BY <1>2, StartupIs DEF Placed, Labels
<1>4. \A i \in 1..L : pc["host"] = Startup[i] => i = 1
  BY <1>2, StartupIs
<1> QED BY <1>1, <1>2, <1>3, <1>4 DEF Synchronises, Started

LEMMA SynchronisesStep == Synchronises /\ [Next]_vars => Synchronises'
BY TypedStep, CountedStep, PlacedStep, StartedStep DEF Synchronises

LEMMA SynchronisesHolds == Spec => []Synchronises
BY InitSynchronises, SynchronisesStep, PTL DEF Spec

\* The host gets into sync only when the controller has nothing left to answer, so
\* that no late acknowledgement is taken for one of the startup.
THEOREM SyncsInStep == Spec => SyncInStep
<1>1. Synchronises /\ [Next]_vars => [state # "good" /\ state' = "good" => ctl.cmds = <<>> /\ ack' = NoAck]_vars
  BY SyncStep DEF Synchronises
<1>2. Spec => [][Next]_vars
  BY DEF Spec
<1> QED BY <1>1, <1>2, SynchronisesHolds, PTL DEF SyncInStep

-----------------------------------------------------------------------------
(* The advertising and its data.                                            *)

LEMMA GotoMoves ==
    ASSUME Typed
    PROVE  /\ \A t \in Tasks : \A l : Goto(t, l) => pc'[t] = l /\ \A u \in Tasks : u # t => pc'[u] = pc[u]
           /\ \A l : Goto("host", l) => pc'["host"] = l /\ pc'["loop"] = pc["loop"]
           /\ \A l : Goto("loop", l) => pc'["loop"] = l /\ pc'["host"] = pc["host"]
           /\ "host" \in Tasks /\ "loop" \in Tasks
<1>1. \A t \in Tasks : \A l : Goto(t, l) => pc'[t] = l /\ \A u \in Tasks : u # t => pc'[u] = pc[u]
  BY DEF Goto, Typed, PcTyped
<1>2. "host" \in Tasks /\ "loop" \in Tasks
  BY DEF Tasks
<1> QED BY <1>1, <1>2

\* What a task's command does: it is sent, it fails, or its acknowledgement is taken.
LEMMA TaskKinds ==
    ASSUME Typed, NEW t \in Tasks, Send(t) \/ TakeAck(t) \/ AckTimeout(t)
    PROVE  /\ pc[t] \in Commands /\ UNCHANGED <<crossed, early>>
           /\ evq' = evq \/ evq' = Put(evq, Resetting)
           /\ \/ /\ MaySend(t) /\ hci = "none" /\ hci' = t
                 /\ ctl' = [ctl EXCEPT !.cmds = Append(ctl.cmds, pc[t])]
                 /\ UNCHANGED <<pc, state, timer, reason, adv, conns, synced, ready, dataSet, connected, evq, ack>>
              \/ /\ After(t, FALSE) /\ UNCHANGED <<ctl, ack>> /\ hci' = "none"
                 /\ \/ hci = "none" /\ ~MaySend(t) /\ evq' = evq
                    \/ hci = t /\ ack = NoAck /\ evq' = Put(evq, Resetting)
              \/ /\ After(t, FALSE) /\ UNCHANGED ctl /\ hci = t /\ hci' = "none"
                 /\ ack # NoAck /\ ack' = NoAck
                 /\ IF ack.op = pc[t] THEN evq' = evq /\ ~ack.ok ELSE evq' = Put(evq, Resetting)
              \/ /\ After(t, TRUE) /\ hci = t /\ hci' = "none" /\ ack.op = pc[t] /\ ack.ok
                 /\ ack # NoAck /\ ack' = NoAck /\ UNCHANGED <<ctl, evq>>
<1>1. CASE Send(t)
  <2>1. CASE MaySend(t)
    <3>1. pc[t] \in Commands /\ hci = "none" /\ hci' = t /\ ctl' = [ctl EXCEPT !.cmds = Append(ctl.cmds, pc[t])]
      BY <1>1, <2>1 DEF Send
    <3>2. /\ UNCHANGED <<pc, state, timer, reason, adv, conns, synced, ready, dataSet, connected, evq, ack>>
          /\ UNCHANGED <<crossed, early>>
      BY <1>1, <2>1 DEF Send, gap, app, marks
    <3> QED BY <2>1, <3>1, <3>2
  <2>2. CASE ~MaySend(t)
    BY <1>1, <2>2 DEF Send, marks
  <2> QED BY <2>1, <2>2
<1>2. CASE TakeAck(t)
  <2>1. pc[t] \in Commands
    BY <1>2 DEF TakeAck, Typed, Sent, Tasks
  <2>3. /\ hci = t /\ hci' = "none" /\ ack # NoAck /\ ack' = NoAck /\ UNCHANGED <<ctl, crossed, early>>
        /\ IF ack.op = pc[t] THEN evq' = evq ELSE evq' = Put(evq, Resetting)
    BY <1>2 DEF TakeAck, ScheduleReset, marks
  <2>4. After(t, ack.op = pc[t] /\ ack.ok)
    BY <1>2 DEF TakeAck
  <2>5. CASE ack.op = pc[t] /\ ack.ok
    <3>1. (ack.op = pc[t] /\ ack.ok) = TRUE
      BY <2>5
    <3>2. After(t, TRUE)
      BY <2>4, <3>1
    <3> QED BY <2>1, <2>3, <2>5, <3>2
  <2>6. CASE ~(ack.op = pc[t] /\ ack.ok)
    <3>1. (ack.op = pc[t] /\ ack.ok) = FALSE
      BY <2>6
    <3>2. After(t, FALSE)
      BY <2>4, <3>1
    <3> QED BY <2>1, <2>3, <2>6, <3>2
  <2> QED BY <2>5, <2>6
<1>3. CASE AckTimeout(t)
  BY <1>3 DEF AckTimeout, ScheduleReset, Typed, Sent, Tasks
<1> QED BY <1>1, <1>2, <1>3

LEMMA AfterFails ==
    ASSUME Typed, NEW t \in Tasks, pc[t] \in Commands, After(t, FALSE)
    PROVE  /\ \A u \in Tasks : u # t => pc'[u] = pc[u]
           /\ UNCHANGED <<conns, synced, ready, dataSet, connected>>
           /\ \/ /\ t = "host" /\ pc[t] \in StartupCommands /\ pc'[t] = "idle" /\ adv' = adv
                 /\ state' = "bad" /\ timer' = TRUE
              \/ t = "host" /\ pc[t] = "irks" /\ pc'[t] = "onsync" /\ UNCHANGED <<state, timer, adv>>
              \/ t = "host" /\ pc[t] = "feat" /\ pc'[t] = "idle" /\ UNCHANGED <<state, timer, adv>>
              \/ pc[t] \in {"data", "params"} /\ pc'[t] = "idle" /\ UNCHANGED <<state, timer, adv>>
              \/ pc[t] = "enable" /\ pc'[t] = "idle" /\ adv' = FALSE /\ UNCHANGED <<state, timer>>
<1>1. PcTyped /\ AppTyped
  BY DEF Typed
<1>2. FALSE \in BOOLEAN
  OBVIOUS
<1>3. \A c \in StartupCommands : c \notin AdvCommands /\ c # "irks" /\ c # "feat"
  BY StartupIs DEF Labels, AdvCommands
<1>4. (\A u \in Tasks : u # t => pc'[u] = pc[u]) /\ UNCHANGED <<conns, synced, ready, connected>>
  BY <1>1, <1>2, AfterIs
<1>5. UNCHANGED dataSet /\ (pc[t] # "enable" => adv' = adv) /\ (pc[t] = "enable" => adv' = FALSE)
  BY <1>1 DEF After, AdvAfter, AppTyped
<1>6. /\ pc[t] \in StartupCommands => state' = "bad" /\ timer' = TRUE
      /\ pc[t] \notin StartupCommands => UNCHANGED <<state, timer>>
  BY StartupIs DEF After
<1>7. pc[t] \in StartupCommands \cup {"irks", "feat"} => t = "host"
  BY <1>1, <1>3, LoopCommands DEF AdvCommands
<1>8. \/ pc[t] \in StartupCommands \cup {"data", "params"} /\ pc'[t] = "idle"
      \/ pc[t] = "irks" /\ pc'[t] = "onsync"
      \/ pc[t] \in {"feat", "enable"} /\ pc'[t] = "idle"
  BY GotoMoves DEF After
<1> QED BY <1>3, <1>4, <1>5, <1>6, <1>7, <1>8 DEF AdvCommands

LEMMA AfterDone ==
    ASSUME Typed, NEW t \in Tasks, pc[t] \in Commands, After(t, TRUE)
    PROVE  /\ \A u \in Tasks : u # t => pc'[u] = pc[u]
           /\ UNCHANGED <<conns, synced, ready, connected>>
           /\ \/ /\ t = "host" /\ UNCHANGED <<state, timer, adv, dataSet>>
                 /\ \E i \in 1..L : i + 1 \in 1..L /\ pc[t] = Startup[i] /\ pc'[t] = Startup[i + 1]
              \/ /\ t = "host" /\ pc[t] = Startup[L] /\ pc'[t] \in {"irks", "onsync"}
                 /\ state' = "good" /\ timer' = TRUE /\ UNCHANGED <<adv, dataSet>>
              \/ t = "host" /\ pc[t] = "irks" /\ pc'[t] = "onsync" /\ UNCHANGED <<state, timer, adv, dataSet>>
              \/ t = "host" /\ pc[t] = "feat" /\ pc'[t] = "idle" /\ UNCHANGED <<state, timer, adv, dataSet>>
              \/ pc[t] = "data" /\ pc'[t] = "adv" /\ dataSet' = TRUE /\ UNCHANGED <<state, timer, adv>>
              \/ pc[t] = "params" /\ pc'[t] = "enable" /\ adv' = TRUE /\ UNCHANGED <<state, timer, dataSet>>
              \/ pc[t] = "enable" /\ pc'[t] = "idle" /\ UNCHANGED <<state, timer, adv, dataSet>>
<1>1. PcTyped /\ AppTyped
  BY DEF Typed
<1>2. TRUE \in BOOLEAN
  OBVIOUS
<1>3. \A c \in StartupCommands : c \notin AdvCommands /\ c # "irks" /\ c # "feat"
  BY StartupIs DEF Labels, AdvCommands
<1>4. (\A u \in Tasks : u # t => pc'[u] = pc[u]) /\ UNCHANGED <<conns, synced, ready, connected>>
  BY <1>1, <1>2, AfterIs
<1>5. /\ pc[t] # "data" => UNCHANGED dataSet
      /\ pc[t] = "data" => dataSet' = TRUE
      /\ pc[t] # "params" => UNCHANGED adv
      /\ pc[t] = "params" => adv' = TRUE
  BY <1>1 DEF After, AdvAfter, AppTyped
<1>6. /\ pc[t] = Last(Startup) => state' = "good" /\ timer' = TRUE
      /\ pc[t] # Last(Startup) => UNCHANGED <<state, timer>>
  <2>1. L \in 1..L
    BY StartupIs
  <2>2. Last(Startup) \in StartupCommands
    BY <2>1, StartupIs
  <2> QED BY <2>2 DEF After
<1>7. pc[t] \in StartupCommands \cup {"irks", "feat"} => t = "host"
  BY <1>1, <1>3, LoopCommands DEF AdvCommands
<1>8. \/ pc[t] \in StartupCommands \ {Last(Startup)} /\ Goto(t, Following(pc[t]))
      \/ pc[t] = Last(Startup) /\ \E l \in {"irks", "onsync"} : Goto(t, l)
      \/ pc[t] = "data" /\ Goto(t, "adv")
      \/ pc[t] = "params" /\ Goto(t, "enable")
      \/ pc[t] = "irks" /\ Goto(t, "onsync")
      \/ pc[t] \in {"feat", "enable"} /\ Goto(t, "idle")
  BY DEF After
<1>g. \A l : Goto(t, l) => pc'[t] = l
  BY GotoMoves
<1>l. Last(Startup) = Startup[L] /\ Startup[L] \in StartupCommands
  <2>1. L \in 1..L
    BY StartupIs
  <2> QED BY <2>1, StartupIs
<1>9. CASE pc[t] \in StartupCommands \ {Last(Startup)} /\ Goto(t, Following(pc[t]))
  <2>1. PICK i \in 1..L : pc[t] = Startup[i]
    BY <1>9, StartupIs
  <2>2. i + 1 \in 1..L /\ pc'[t] = Startup[i + 1]
    BY <1>9, <1>g, <2>1, FollowingIs
  <2>3. pc[t] # "data" /\ pc[t] # "params" /\ t = "host"
    BY <1>3, <1>7, <1>9 DEF AdvCommands
  <2> QED BY <1>4, <1>5, <1>6, <1>9, <2>1, <2>2, <2>3
<1>10. CASE pc[t] = Last(Startup) /\ \E l \in {"irks", "onsync"} : Goto(t, l)
  <2>1. pc[t] # "data" /\ pc[t] # "params" /\ t = "host"
    BY <1>3, <1>7, <1>10, <1>l DEF AdvCommands
  <2> QED BY <1>4, <1>5, <1>6, <1>10, <1>g, <1>l, <2>1
<1>11. CASE \/ pc[t] = "data" /\ Goto(t, "adv")
            \/ pc[t] = "params" /\ Goto(t, "enable")
            \/ pc[t] = "irks" /\ Goto(t, "onsync")
            \/ pc[t] \in {"feat", "enable"} /\ Goto(t, "idle")
  <2>1. pc[t] # Last(Startup)
    BY <1>3, <1>11, <1>l DEF AdvCommands
  <2> QED BY <1>4, <1>5, <1>6, <1>7, <1>11, <1>g, <2>1
<1> QED BY <1>8, <1>9, <1>10, <1>11

\* The GAP state belongs to a host in sync, and to one that is being reset.
AdvPath == AdvCommands \cup {"adv"}
InSync ==
    /\ pc["host"] \in AdvPath \cup {"irks", "onsync", "feat"} => state = "good"
    /\ adv \/ conns # {} => state = "good" \/ pc["host"] = "broken"
    /\ (hci = "loop" /\ pc["loop"] = "params") \/ pc["loop"] = "enable" =>
           state = "good" \/ pc["host"] = "broken"
    /\ state = "good" /\ pc["host"] \notin {"irks", "onsync"} => synced

\* The loop task creates the advertising before there is any.
Readied ==
    /\ ready = "yes" <=> pc["loop"] \notin {"init", "create"}
    /\ pc["host"] \in AdvPath \/ adv \/ conns # {} \/ dataSet => ready = "yes"

LEMMA StartupApart ==
    /\ \A i \in 1..L : Startup[i] \in StartupCommands
    /\ L \in 1..L /\ 1 \in 1..L
    /\ \A c \in StartupCommands :
          c \notin {"data", "params", "enable", "irks", "feat", "idle", "broken", "onsync", "adv",
                    "init", "create", "start", "none"}
BY StartupIs DEF Labels, AdvCommands

LEMMA InSyncStep == Typed /\ Placed /\ InSync /\ [Next]_vars => InSync'
<1> SUFFICES ASSUME Typed, Placed, InSync, [Next]_vars PROVE InSync'
  OBVIOUS
<1> USE DEF AdvPath, AdvCommands
<1>g. /\ \A l : Goto("host", l) => pc'["host"] = l /\ pc'["loop"] = pc["loop"]
      /\ \A l : Goto("loop", l) => pc'["loop"] = l /\ pc'["host"] = pc["host"]
  BY GotoMoves
<1>c. /\ "adv" \notin Commands /\ "start" \notin Commands
      /\ hci # "none" => hci \in Tasks /\ pc[hci] \in Commands
  BY NotCommands DEF Typed, Sent, CmdTyped
<1>k. ASSUME UNCHANGED <<pc, state, adv, conns, hci, synced>> PROVE InSync'
  BY <1>k DEF InSync
<1>1. ASSUME NEW t \in Tasks, Send(t) \/ TakeAck(t) \/ AckTimeout(t) PROVE InSync'
  <2>1. CASE /\ MaySend(t) /\ hci' = t
             /\ UNCHANGED <<pc, state, timer, reason, adv, conns, synced, ready, dataSet, connected, evq, ack>>
    BY <2>1 DEF InSync, MaySend
  <2>2. CASE pc[t] \in Commands /\ After(t, FALSE) /\ hci' = "none"
    <3>1. CASE t = "host"
      BY <2>2, <3>1, AfterFails, StartupApart DEF InSync, Placed, Tasks
    <3>2. CASE t = "loop"
      BY <2>2, <3>2, AfterFails, StartupApart DEF InSync, Placed, Tasks
    <3> QED BY <3>1, <3>2 DEF Tasks
  <2>3. CASE pc[t] \in Commands /\ After(t, TRUE) /\ hci = t /\ hci' = "none"
    <3>1. CASE t = "host"
      BY <2>3, <3>1, AfterDone, StartupApart DEF InSync, Placed, Tasks
    <3>2. CASE t = "loop"
      BY <2>3, <3>2, AfterDone, StartupApart DEF InSync, Placed, Tasks
    <3> QED BY <3>1, <3>2 DEF Tasks
  <2> QED BY <1>1, <2>1, <2>2, <2>3, TaskKinds
<1>2. CASE Handler
  <2>h. UNCHANGED hci
    BY <1>2, HandlerKeeps
  <2>1. CASE AdvStart("host") \/ AdvStart("loop")
    BY <1>c, <1>g, <2>1, <2>h DEF AdvStart, InSync, host, gap, app, Tasks
  <2>2. CASE ResetBegins
    BY <1>g, <2>2, <2>h DEF ResetBegins, Next1, InSync, gap, app
  <2>3. CASE ResetEnds
    BY <1>g, <2>3, <2>h, StartupApart, StartupIs DEF ResetEnds, GapReset, InSync, HsLocked
  <2>4. CASE OnSync
    BY <1>g, <2>4, <2>h DEF OnSync, AdvEntry, InSync, host, gap
  <2>5. CASE TimerIdle \/ HardwareError \/ TimerExpires
    BY <1>k, <2>5, <2>h DEF TimerIdle, HardwareError, TimerExpires, host, gap, app
  <2>6. CASE ConnComplete
    BY <1>g, <2>6, <2>h DEF ConnComplete, Next1, InSync, host, gap
  <2>7. CASE DisconnComplete
    BY <1>g, <2>7, <2>h DEF DisconnComplete, Next1, AdvEntry, InSync, host
  <2>8. CASE Initialized \/ CreateAdvertising \/ StartAdvertising
    BY <1>g, <2>8, <2>h DEF Initialized, CreateAdvertising, StartAdvertising, AdvEntry, InSync, host, gap, app
  <2> QED BY <1>2, <2>1, <2>2, <2>3, <2>4, <2>5, <2>6, <2>7, <2>8 DEF Handler, Tasks
<1>3. CASE Linking
  BY <1>3, <1>k, LinkingKeeps DEF host, gap, app
<1>4. CASE CtlExecutes \/ CtlRefuses \/ CtlLoses
  BY <1>4, <1>k, TakesCommand DEF host, gap, app
<1>5. CASE UNCHANGED vars
  BY <1>5, <1>k DEF vars, host, gap, app
<1> QED BY <1>1, <1>2, <1>3, <1>4, <1>5, NextKinds

LEMMA ReadiedStep == Typed /\ Placed /\ Readied /\ [Next]_vars => Readied'
<1> SUFFICES ASSUME Typed, Placed, Readied, [Next]_vars PROVE Readied'
  OBVIOUS
<1> USE DEF AdvPath, AdvCommands
<1>g. /\ \A l : Goto("host", l) => pc'["host"] = l /\ pc'["loop"] = pc["loop"]
      /\ \A l : Goto("loop", l) => pc'["loop"] = l /\ pc'["host"] = pc["host"]
  BY GotoMoves
<1>k. ASSUME UNCHANGED <<pc, adv, conns, ready, dataSet>> PROVE Readied'
  BY <1>k DEF Readied
<1>1. ASSUME NEW t \in Tasks, Send(t) \/ TakeAck(t) \/ AckTimeout(t) PROVE Readied'
  <2>1. CASE UNCHANGED <<pc, state, timer, reason, adv, conns, synced, ready, dataSet, connected, evq, ack>>
    BY <2>1, <1>k
  <2>l. pc["loop"] \in Commands => pc["loop"] \notin {"init", "create"}
    BY NotCommands
  <2>2. CASE pc[t] \in Commands /\ After(t, FALSE)
    <3>1. CASE t = "host"
      BY <2>2, <3>1, AfterFails, StartupApart DEF Readied, Tasks
    <3>2. CASE t = "loop"
      BY <2>2, <3>2, <2>l, AfterFails, StartupApart DEF Readied, Tasks
    <3> QED BY <3>1, <3>2 DEF Tasks
  <2>3. CASE pc[t] \in Commands /\ After(t, TRUE)
    <3>1. CASE t = "host"
      BY <2>3, <3>1, AfterDone, StartupApart DEF Readied, Tasks
    <3>2. CASE t = "loop"
      BY <2>3, <3>2, <2>l, AfterDone, StartupApart DEF Readied, Tasks
    <3> QED BY <3>1, <3>2 DEF Tasks
  <2> QED BY <1>1, <2>1, <2>2, <2>3, TaskKinds
<1>2. CASE Handler
  <2>1. CASE AdvStart("host") \/ AdvStart("loop")
    BY <1>g, <2>1 DEF AdvStart, Readied, gap, app
  <2>2. CASE ResetBegins
    BY <1>g, <2>2 DEF ResetBegins, Next1, Readied, gap, app
  <2>3. CASE ResetEnds
    BY <1>g, <2>3, StartupApart, StartupIs DEF ResetEnds, GapReset, Readied
  <2>4. CASE OnSync
    BY <1>g, <2>4 DEF OnSync, AdvEntry, Readied, gap
  <2>5. CASE TimerIdle \/ HardwareError \/ TimerExpires
    BY <1>k, <2>5 DEF TimerIdle, HardwareError, TimerExpires, gap, app
  <2>6. CASE ConnComplete
    BY <1>g, <2>6 DEF ConnComplete, Next1, Readied, gap
  <2>7. CASE DisconnComplete
    BY <1>g, <2>7 DEF DisconnComplete, Next1, AdvEntry, Readied
  <2>8. CASE Initialized \/ CreateAdvertising \/ StartAdvertising
    BY <1>g, <2>8 DEF Initialized, CreateAdvertising, StartAdvertising, AdvEntry, Readied, gap, app
  <2> QED BY <1>2, <2>1, <2>2, <2>3, <2>4, <2>5, <2>6, <2>7, <2>8 DEF Handler, Tasks
<1>3. CASE Linking
  BY <1>3, <1>k, LinkingKeeps DEF gap, app
<1>4. CASE CtlExecutes \/ CtlRefuses \/ CtlLoses
  BY <1>4, <1>k, TakesCommand DEF gap, app
<1>5. CASE UNCHANGED vars
  BY <1>5, <1>k DEF vars, gap, app
<1> QED BY <1>1, <1>2, <1>3, <1>4, <1>5, NextKinds

\* In sync no command of the startup is left, so that none clears the data, and the
\* acknowledgement of a command for the data says that they are set.
Settled ==
    state = "good" =>
        /\ \A j \in DOMAIN ctl.cmds : ctl.cmds[j] \notin StartupCommands
        /\ ack.op \notin StartupCommands
        /\ ack.op = "data" /\ ack.ok => ctl.data

\* While the host gets into sync there is no advertising, and the loop task is not
\* on its way to one, unless the host was reset when it was.
Apart ==
    ~early /\ (state # "good" \/ pc["host"] \in {"irks", "onsync"}) =>
        /\ pc["loop"] = "idle" \/ (pc["loop"] = "init" /\ ~synced)
        /\ pc["host"] \in {"irks", "onsync"} => ~adv /\ conns = {}

\* The advertising needs its data: those that a reset has cleared are set again,
\* or the advertising is not started.
Provided ==
    /\ pc["host"] \in {"adv", "params", "enable"} => dataSet
    /\ ~early /\ state = "good" /\ pc["host"] \notin {"irks", "onsync"} /\ dataSet =>
           ctl.data \/ (~adv /\ conns = {} /\ pc["host"] = "idle" /\ pc["loop"] = "idle")

LEMMA SyncLeaves ==
    ASSUME Typed, Placed, Started, [Next]_vars, state # "good", state' = "good"
    PROVE  ctl'.cmds = <<>> /\ ack' = NoAck /\ ctl'.data = ctl.data
<1>1. ctl.cmds = <<>> /\ ack' = NoAck
  BY SyncStep
<1>2. ASSUME NEW t \in Tasks, Send(t) \/ TakeAck(t) \/ AckTimeout(t) PROVE UNCHANGED ctl
  BY <1>2, TaskKinds, AfterFails
<1>3. CASE Handler
  BY <1>1, <1>3, HandlerKeeps
<1>4. CASE Linking
  BY <1>1, <1>4, LinkingKeeps
<1>5. CASE CtlExecutes \/ CtlRefuses \/ CtlLoses
  BY <1>5, TakesCommand DEF host
<1>6. CASE UNCHANGED vars
  BY <1>6 DEF vars, host
<1> QED BY <1>1, <1>2, <1>3, <1>4, <1>5, <1>6, NextKinds

\* A step of the controller leaves the data alone unless it executes the reset.
LEMMA DataKept ==
    ASSUME Typed, CtlExecutes \/ CtlRefuses \/ CtlLoses
    PROVE  /\ ctl'.data \in {ctl.data, TRUE} \/ ctl.cmds[1] = "reset"
           /\ CtlExecutes /\ ctl.cmds[1] = "data" => ctl'.data = TRUE
           /\ ack' = ack \/ CtlExecutes \/ (ack'.ok = FALSE /\ ack'.op = ctl.cmds[1])
<1> DEFINE c == ctl.cmds[1]
<1>1. c \in Commands /\ ctl \in Ctls
  BY TakesCommand DEF Typed, CmdTyped
<1>2. /\ Executed(c) \in Ctls
      /\ Executed(c).data = (c = "data" \/ (c # "reset" /\ ctl.data))
  BY <1>1, ExecutedIs
<1>3. ctl' \in {[Executed(c) EXCEPT !.cmds = Tail(Executed(c).cmds)], [ctl EXCEPT !.cmds = Tail(ctl.cmds)]}
  BY DEF CtlExecutes, CtlRefuses, CtlLoses
<1>4. CtlExecutes => ctl' = [Executed(c) EXCEPT !.cmds = Tail(Executed(c).cmds)]
  BY DEF CtlExecutes
<1> HIDE DEF c
<1>5. ctl'.data \in {Executed(c).data, ctl.data} /\ (CtlExecutes => ctl'.data = Executed(c).data)
  BY <1>1, <1>2, <1>3, <1>4 DEF Ctls
<1>6. ctl.data \in BOOLEAN
  BY <1>1 DEF Ctls
<1>7. ctl'.data \in {ctl.data, TRUE} \/ c = "reset"
  BY <1>2, <1>5, <1>6
<1>8. CtlExecutes /\ c = "data" => ctl'.data = TRUE
  BY <1>2, <1>5
<1>9. ack' = ack \/ CtlExecutes \/ (ack'.ok = FALSE /\ ack'.op = c)
  BY DEF CtlRefuses, CtlLoses, Answer, c
<1> QED BY <1>7, <1>8, <1>9 DEF c

LEMMA SettledStep ==
    Typed /\ Placed /\ Started /\ Settled /\ [Next]_vars => Settled'
<1> SUFFICES ASSUME Typed, Placed, Started, Settled, [Next]_vars, state' = "good" PROVE Settled'
  BY DEF Settled
<1>r. "reset" \in StartupCommands /\ NoAck.op \notin StartupCommands /\ NoAck.op # "data"
  BY StartupIs DEF NoAck, Labels
<1>1. CASE state # "good"
  <2>1. ctl'.cmds = <<>> /\ ack' = NoAck
    BY <1>1, SyncLeaves
  <2> QED BY <1>r, <2>1 DEF Settled
<1>2. CASE state = "good"
  <2>k. ASSUME ctl'.cmds = ctl.cmds, ctl'.data = ctl.data, ack' \in {ack, NoAck} PROVE Settled'
    BY <1>2, <1>r, <2>k DEF Settled
  <2>1. ASSUME NEW t \in Tasks, Send(t) \/ TakeAck(t) \/ AckTimeout(t) PROVE Settled'
    <3>1. CASE ctl' = [ctl EXCEPT !.cmds = Append(ctl.cmds, pc[t])] /\ ack' = ack
      <4>1. pc[t] \in Commands
        BY <2>1, TaskKinds
      <4>2. pc[t] \notin StartupCommands
        BY <1>2, <4>1, LoopCommands, StartupApart DEF Placed, Typed, AdvCommands
      <4>3. ctl.cmds \in Seq(Commands) /\ ctl'.cmds = Append(ctl.cmds, pc[t]) /\ ctl'.data = ctl.data
        BY <3>1 DEF Typed, CmdTyped, Ctls
      <4>4. \A j \in DOMAIN ctl'.cmds : ctl'.cmds[j] \notin StartupCommands
        <5> SUFFICES ASSUME NEW j \in DOMAIN ctl'.cmds PROVE ctl'.cmds[j] \notin StartupCommands
          OBVIOUS
        <5>1. DOMAIN ctl'.cmds = 1..(Len(ctl.cmds) + 1) /\ DOMAIN ctl.cmds = 1..Len(ctl.cmds) /\ Len(ctl.cmds) \in Nat
              /\ ctl'.cmds[Len(ctl.cmds) + 1] = pc[t]
              /\ \A k \in DOMAIN ctl.cmds : ctl'.cmds[k] = ctl.cmds[k]
          BY <4>1, <4>3, AppendIs
        <5>2. j = Len(ctl.cmds) + 1 \/ j \in DOMAIN ctl.cmds
          BY <5>1
        <5> QED BY <1>2, <4>2, <5>1, <5>2 DEF Settled
      <4> QED BY <1>2, <3>1, <4>3, <4>4 DEF Settled
    <3>2. CASE UNCHANGED ctl /\ ack' \in {ack, NoAck}
      BY <2>k, <3>2
    <3> QED BY <2>1, <3>1, <3>2, TaskKinds
  <2>2. CASE Handler
    BY <2>2, <2>k, HandlerKeeps
  <2>3. CASE Linking
    BY <2>3, <2>k, LinkingKeeps
  <2>4. CASE CtlExecutes \/ CtlRefuses \/ CtlLoses
    <3>1. /\ ctl.cmds \in Seq(Commands) /\ ctl.cmds # <<>> /\ ctl'.cmds = Tail(ctl.cmds)
          /\ ack' = ack \/ ack'.op = ctl.cmds[1]
      BY <2>4, TakesCommand
    <3>2. 1 \in DOMAIN ctl.cmds /\ \A j \in DOMAIN ctl'.cmds : j + 1 \in DOMAIN ctl.cmds /\ ctl'.cmds[j] = ctl.cmds[j + 1]
      BY <3>1, TailIs
    <3>3. ctl.cmds[1] \notin StartupCommands /\ ctl.cmds[1] # "reset"
      BY <1>2, <1>r, <3>2 DEF Settled
    <3>4. \A j \in DOMAIN ctl'.cmds : ctl'.cmds[j] \notin StartupCommands
      BY <1>2, <3>2 DEF Settled
    <3>5. ack'.op \notin StartupCommands
      BY <1>2, <3>1, <3>3 DEF Settled
    <3>6. ack'.op = "data" /\ ack'.ok => ctl'.data
      <4>1. ctl'.data \in {ctl.data, TRUE}
        BY <2>4, <3>3, DataKept
      <4>2. CASE ack' = ack
        BY <1>2, <4>1, <4>2 DEF Settled
      <4>3. CASE ack' # ack
        BY <2>4, <3>1, <4>3, DataKept
      <4> QED BY <4>2, <4>3
    <3> QED BY <3>4, <3>5, <3>6 DEF Settled
  <2>5. CASE UNCHANGED vars
    BY <2>5, <2>k DEF vars
  <2> QED BY <2>1, <2>2, <2>3, <2>4, <2>5, NextKinds
<1> QED BY <1>1, <1>2

LEMMA ApartStep ==
    Typed /\ Placed /\ InSync /\ Apart /\ [Next]_vars => Apart'
<1> SUFFICES ASSUME Typed, Placed, InSync, Apart, [Next]_vars PROVE Apart'
  OBVIOUS
<1>g. /\ \A l : Goto("host", l) => pc'["host"] = l /\ pc'["loop"] = pc["loop"]
      /\ \A l : Goto("loop", l) => pc'["loop"] = l /\ pc'["host"] = pc["host"]
  BY GotoMoves
<1>k. ASSUME UNCHANGED <<pc, state, adv, conns, synced, early>> PROVE Apart'
  BY <1>k DEF Apart
<1>1. ASSUME NEW t \in Tasks, Send(t) \/ TakeAck(t) \/ AckTimeout(t) PROVE Apart'
  <2>e. pc[t] \in Commands /\ UNCHANGED early
    BY <1>1, TaskKinds
  <2>l. pc["loop"] \in Commands => pc["loop"] \notin {"init", "idle"}
    BY NotCommands
  <2>1. CASE UNCHANGED <<pc, state, timer, reason, adv, conns, synced, ready, dataSet, connected, evq, ack>>
    BY <2>1, <2>e, <1>k
  <2>2. CASE After(t, FALSE)
    <3>1. CASE t = "host"
      BY <2>2, <2>e, <3>1, AfterFails, StartupApart DEF Apart, Placed, InSync, Tasks
    <3>2. CASE t = "loop"
      BY <2>2, <2>e, <3>2, <2>l, AfterFails, StartupApart DEF Apart, Tasks
    <3> QED BY <3>1, <3>2 DEF Tasks
  <2>3. CASE After(t, TRUE)
    <3>1. CASE t = "host"
      BY <2>3, <2>e, <3>1, AfterDone, StartupApart DEF Apart, Placed, InSync, Tasks
    <3>2. CASE t = "loop"
      BY <2>3, <2>e, <3>2, <2>l, AfterDone, StartupApart DEF Apart, Tasks
    <3> QED BY <3>1, <3>2 DEF Tasks
  <2> QED BY <1>1, <2>1, <2>2, <2>3, TaskKinds
<1>2. CASE Handler
  <2>1. CASE AdvStart("host") \/ AdvStart("loop")
    BY <1>g, <2>1 DEF AdvStart, Apart, InSync, AdvPath, host, gap, app, marks
  <2>2. CASE ResetBegins
    <3>1. /\ pc["host"] = "idle" /\ pc'["host"] = "broken" /\ pc'["loop"] = pc["loop"] /\ synced' = synced
          /\ early' = (early \/ (synced /\ pc["loop"] # "idle"))
      BY <1>g, <2>2 DEF ResetBegins, Next1, app
    <3>2. early \in BOOLEAN /\ synced \in BOOLEAN
      BY DEF Typed, AppTyped
    <3>3. ~early' => ~early /\ (synced => pc["loop"] = "idle")
      BY <3>1, <3>2
    <3>4. ~early' => pc["loop"] = "idle" \/ (pc["loop"] = "init" /\ ~synced)
      BY <3>1, <3>3 DEF Apart, InSync
    <3> QED BY <3>1, <3>4 DEF Apart
  <2>3. CASE ResetEnds
    <3>1. /\ pc["host"] = "broken" /\ pc'["host"] = "reset" /\ pc'["loop"] = pc["loop"]
          /\ synced' = (synced /\ reason = "none") /\ early' = early
      BY <1>g, <2>3 DEF ResetEnds, marks
    <3>2. "reset" \notin {"irks", "onsync"} /\ state = "bad"
      BY <3>1 DEF Placed
    <3> QED BY <3>1, <3>2 DEF Apart
  <2>4. CASE OnSync
    BY <1>g, <2>4 DEF OnSync, AdvEntry, Apart, InSync, host, gap, marks
  <2>5. CASE TimerIdle \/ HardwareError \/ TimerExpires
    BY <1>k, <2>5 DEF TimerIdle, HardwareError, TimerExpires, host, gap, app, marks
  <2>6. CASE ConnComplete
    BY <1>g, <2>6 DEF ConnComplete, Next1, Apart, InSync, host, gap, marks
  <2>7. CASE DisconnComplete
    BY <1>g, <2>7 DEF DisconnComplete, Next1, AdvEntry, Apart, InSync, host, marks
  <2>8. CASE Initialized \/ CreateAdvertising \/ StartAdvertising
    BY <1>g, <2>8 DEF Initialized, CreateAdvertising, StartAdvertising, AdvEntry, Apart, host, gap, app, marks
  <2> QED BY <1>2, <2>1, <2>2, <2>3, <2>4, <2>5, <2>6, <2>7, <2>8 DEF Handler, Tasks
<1>3. CASE Linking
  BY <1>3, <1>k, LinkingKeeps DEF host, gap, app
<1>4. CASE CtlExecutes \/ CtlRefuses \/ CtlLoses
  BY <1>4, <1>k, TakesCommand DEF host, gap, app
<1>5. CASE UNCHANGED vars
  BY <1>5, <1>k DEF vars, host, gap, app, marks
<1> QED BY <1>1, <1>2, <1>3, <1>4, <1>5, NextKinds

LEMMA ProvidedStep ==
    ASSUME Typed, Placed, Started, InSync, Readied, Settled, Apart, Provided, [Next]_vars
    PROVE  Provided'
<1>g. /\ \A l : Goto("host", l) => pc'["host"] = l /\ pc'["loop"] = pc["loop"]
      /\ \A l : Goto("loop", l) => pc'["loop"] = l /\ pc'["host"] = pc["host"]
  BY GotoMoves
<1>k. ASSUME UNCHANGED <<pc, state, adv, conns, dataSet, early>>, ctl'.data = ctl.data PROVE Provided'
  BY <1>k DEF Provided
<1>h. "host" \in Tasks /\ "loop" \in Tasks /\ "host" # "loop"
  BY DEF Tasks
<1>1. ASSUME NEW t \in Tasks, Send(t) \/ TakeAck(t) \/ AckTimeout(t) PROVE Provided'
  <2>e. pc[t] \in Commands /\ UNCHANGED early /\ ctl'.data = ctl.data
    <3>1. pc[t] \in Commands /\ UNCHANGED early
      BY <1>1, TaskKinds
    <3>2. ctl' = ctl \/ ctl' = [ctl EXCEPT !.cmds = Append(ctl.cmds, pc[t])]
      BY <1>1, TaskKinds
    <3> QED BY <3>1, <3>2 DEF Typed, CmdTyped, Ctls
  <2>l. pc[t] # "idle"
    BY <2>e, NotCommands
  <2>1. CASE UNCHANGED <<pc, state, timer, reason, adv, conns, synced, ready, dataSet, connected, evq, ack>>
    BY <2>1, <2>e, <1>k
  <2>2. CASE After(t, FALSE)
    <3>1. CASE t = "host"
      BY <1>h, <2>2, <2>e, <2>l, <3>1, AfterFails, StartupApart DEF Provided
    <3>2. CASE t = "loop"
      BY <1>h, <2>2, <2>e, <2>l, <3>2, AfterFails, StartupApart DEF Provided
    <3> QED BY <3>1, <3>2 DEF Tasks
  <2>3. CASE After(t, TRUE) /\ ack.op = pc[t] /\ ack.ok
    <3>d. pc[t] = "data" /\ state = "good" => ctl.data
      BY <2>3 DEF Settled
    <3>1. CASE t = "host"
      <4>1. pc["loop"] = pc'["loop"] /\ conns' = conns
        BY <1>h, <2>3, <2>e, <3>1, AfterDone
      <4>2. CASE pc["host"] \in StartupCommands
        <5>1. pc'["host"] \in StartupCommands \cup {"irks", "onsync"}
          <6>1. \/ \E i \in 1..L : i + 1 \in 1..L /\ pc'[t] = Startup[i + 1]
                \/ pc'[t] \in {"irks", "onsync"}
                \/ pc[t] \in {"irks", "feat", "data", "params", "enable"}
            BY <2>3, <2>e, AfterDone
          <6>2. pc[t] \notin {"irks", "feat", "data", "params", "enable"}
            BY <3>1, <4>2, StartupApart
          <6> QED BY <3>1, <6>1, <6>2, StartupApart
        <5>2. pc'["host"] \in StartupCommands => pc'["host"] \notin {"adv", "params", "enable", "irks", "onsync"} /\ state' # "good"
          <6>1. pc'["host"] \in StartupCommands => pc'["host"] \notin {"adv", "params", "enable", "irks", "onsync"}
            BY StartupApart
          <6>2. Placed'
            BY PlacedStep
          <6> QED BY <6>1, <6>2 DEF Placed
        <5> QED BY <5>1, <5>2 DEF Provided
      <4>3. CASE pc["host"] \notin StartupCommands
        <5>1. \/ pc[t] \in {"irks", "feat"} /\ pc'[t] \in {"onsync", "idle"} /\ UNCHANGED <<state, adv, dataSet>>
                 /\ (pc'[t] = "idle" => pc[t] = "feat")
              \/ pc[t] = "data" /\ pc'[t] = "adv" /\ dataSet' = TRUE /\ UNCHANGED <<state, adv>>
              \/ pc[t] = "params" /\ pc'[t] = "enable" /\ UNCHANGED <<state, dataSet>>
              \/ pc[t] = "enable" /\ pc'[t] = "idle" /\ UNCHANGED <<state, adv, dataSet>>
          <6>1. \A i \in 1..L : pc[t] # Startup[i]
            BY <3>1, <4>3, StartupApart
          <6>2. pc[t] # Startup[L]
            BY <6>1, StartupApart
          <6> QED BY <2>3, <2>e, <6>1, <6>2, AfterDone
        <5>2. early' = early /\ ctl'.data = ctl.data
          BY <2>e
        <5> QED BY <2>l, <3>1, <3>d, <4>1, <5>1, <5>2 DEF Provided
      <4> QED BY <4>2, <4>3
    <3>2. CASE t = "loop"
      <4>1. /\ pc'["host"] = pc["host"] /\ UNCHANGED conns
            /\ \/ pc[t] = "data" /\ pc'[t] = "adv" /\ dataSet' = TRUE /\ UNCHANGED <<state, adv>>
               \/ pc[t] = "params" /\ pc'[t] = "enable" /\ UNCHANGED <<state, dataSet>>
               \/ pc[t] = "enable" /\ pc'[t] = "idle" /\ UNCHANGED <<state, adv, dataSet>>
        BY <1>h, <2>3, <2>e, <3>2, AfterDone
      <4>2. early' = early /\ ctl'.data = ctl.data
        BY <2>e
      <4> QED BY <2>l, <3>2, <3>d, <4>1, <4>2 DEF Provided
    <3> QED BY <3>1, <3>2 DEF Tasks
  <2> QED BY <1>1, <2>1, <2>2, <2>3, TaskKinds
<1>2. CASE Handler
  <2>c. ctl' = ctl
    BY <1>2, HandlerKeeps
  <2>1. CASE AdvStart("host") \/ AdvStart("loop")
    BY <1>g, <2>1, <2>c DEF AdvStart, Provided, InSync, AdvPath, host, gap, app, marks
  <2>2. CASE ResetBegins
    BY <1>g, <2>2, <2>c DEF ResetBegins, Next1, Provided
  <2>3. CASE ResetEnds
    BY <1>g, <2>3, <2>c, StartupApart DEF ResetEnds, Provided
  <2>4. CASE OnSync
    <3>1. /\ pc["host"] = "onsync" /\ pc'["loop"] = pc["loop"] /\ UNCHANGED <<state, adv, conns, ready, early>>
          /\ \/ ~synced /\ ready = "yes" /\ dataSet' = FALSE /\ pc'["host"] \in {"idle", "data"}
             \/ ~(~synced /\ ready = "yes") /\ dataSet' = dataSet /\ pc'["host"] = "idle"
      BY <1>g, <2>4 DEF OnSync, AdvEntry, host, gap, marks
    <3>2. ~early => ~adv /\ conns = {} /\ (pc["loop"] = "idle" \/ (pc["loop"] = "init" /\ ~synced))
      BY <3>1 DEF Apart
    <3>3. pc["loop"] = "init" => ~dataSet
      BY DEF Readied
    <3>4. synced /\ ~early => pc["loop"] = "idle"
      BY <3>2
    <3>5. dataSet => ready = "yes"
      BY DEF Readied
    <3> QED BY <2>c, <3>1, <3>2, <3>3, <3>4, <3>5 DEF Provided
  <2>5. CASE TimerIdle \/ HardwareError \/ TimerExpires
    BY <1>k, <2>5, <2>c DEF TimerIdle, HardwareError, TimerExpires, host, gap, app, marks
  <2>6. CASE ConnComplete
    BY <1>g, <2>6, <2>c DEF ConnComplete, Next1, Provided, host, gap, marks
  <2>7. CASE DisconnComplete
    BY <1>g, <2>7, <2>c DEF DisconnComplete, Next1, AdvEntry, Provided, host, marks
  <2>8. CASE Initialized \/ CreateAdvertising \/ StartAdvertising
    BY <1>g, <2>8, <2>c DEF Initialized, CreateAdvertising, StartAdvertising, AdvEntry, Provided, host, gap, app, marks
  <2> QED BY <1>2, <2>1, <2>2, <2>3, <2>4, <2>5, <2>6, <2>7, <2>8 DEF Handler, Tasks
<1>3. CASE Linking
  BY <1>3, <1>k, LinkingKeeps DEF host, gap, app
<1>4. CASE CtlExecutes \/ CtlRefuses \/ CtlLoses
  <2>1. UNCHANGED <<pc, state, adv, conns, dataSet, early>>
    BY <1>4, TakesCommand DEF host, gap, app
  <2>2. state = "good" => ctl.cmds[1] # "reset"
    <3>1. 1 \in DOMAIN ctl.cmds
      BY <1>4, TakesCommand, TailIs
    <3> QED BY <3>1, StartupIs DEF Settled
  <2>3. ctl.data \in BOOLEAN
    BY DEF Typed, CmdTyped, Ctls
  <2>4. state = "good" => ctl'.data \in {ctl.data, TRUE}
    BY <1>4, <2>2, DataKept
  <2> QED BY <2>1, <2>3, <2>4 DEF Provided
<1>5. CASE UNCHANGED vars
  BY <1>5, <1>k DEF vars, host, gap, app, marks
<1> QED BY <1>1, <1>2, <1>3, <1>4, <1>5, NextKinds

Advertises == Synchronises /\ InSync /\ Readied /\ Settled /\ Apart /\ Provided

LEMMA AdvertisesHolds == Spec => []Advertises
<1>1. Init => Advertises
  <2> SUFFICES ASSUME Init PROVE Advertises
    OBVIOUS
  <2>1. Synchronises
    BY InitSynchronises
  <2>2. /\ pc["host"] = "reset" /\ pc["loop"] = "init" /\ state = "bringup" /\ hci = "none"
        /\ ~adv /\ conns = {} /\ ~synced /\ ready = "no" /\ ~dataSet
    BY DEF Init
  <2>3. "reset" \notin AdvPath \cup {"irks", "onsync", "feat"}
    BY DEF AdvPath, AdvCommands
  <2> QED BY <2>1, <2>2, <2>3 DEF Advertises, InSync, Readied, Settled, Apart, Provided, AdvPath, AdvCommands
<1>2. Advertises /\ [Next]_vars => Advertises'
  BY SynchronisesStep, InSyncStep, ReadiedStep, SettledStep, ApartStep, ProvidedStep DEF Advertises, Synchronises
<1> QED BY <1>1, <1>2, PTL DEF Spec

\* The host task enables the advertising with the data that it has to have, however
\* often the controller and the host are reset, unless that was under begin().
THEOREM AdvertisesWithData == Spec => []HasData
<1>1. Advertises => HasData
  <2> SUFFICES ASSUME Advertises, pc["host"] = "enable", ~early PROVE ctl.data
    BY DEF HasData
  <2>1. state = "good" /\ dataSet
    BY DEF Advertises, InSync, Provided, AdvPath, AdvCommands
  <2> QED BY <2>1 DEF Advertises, Provided
<1> QED BY <1>1, AdvertisesHolds, PTL

-----------------------------------------------------------------------------
(* The events of links that wait for the host task.                         *)

\* No connection waits; the end of the link waits behind the i-th event.
NoConn(q)     == \A i \in DOMAIN q : q[i].type # "conn"
Left(q, h, i) == \E j \in DOMAIN q : j > i /\ q[j] = Unlinked(h)

\* The links ls of the controller are the one of h, unless its end waits already.
LinkIs(q, ls, h, i) == (ls = {} /\ Left(q, h, i)) \/ (ls = {h} /\ ~Left(q, h, i))

\* One connection waits, and the links are the one it reports.
Met(q, ls) == \E i \in DOMAIN q : /\ q[i].type = "conn" /\ \A j \in DOMAIN q : q[j].type = "conn" => j = i
                                  /\ LinkIs(q, ls, q[i].handle, i)

LEMMA TailLinks ==
    ASSUME NEW q \in Seq(Events), q # <<>>, NEW ls
    PROVE  /\ NoConn(q) => NoConn(Tail(q))
           /\ q[1].type # "conn" /\ Met(q, ls) => Met(Tail(q), ls)
           /\ \A h : q[1] # Unlinked(h) /\ LinkIs(q, ls, h, 0) => LinkIs(Tail(q), ls, h, 0)
           /\ q[1].type = "conn" /\ Met(q, ls) => NoConn(Tail(q)) /\ LinkIs(Tail(q), ls, q[1].handle, 0)
<1>1. /\ Tail(q) \in Seq(Events) /\ 1 \in DOMAIN q /\ Len(q) \in Nat
      /\ \A i \in DOMAIN Tail(q) : i + 1 \in DOMAIN q /\ Tail(q)[i] = q[i + 1]
      /\ \A i \in DOMAIN q : i # 1 => i - 1 \in DOMAIN Tail(q) /\ Tail(q)[i - 1] = q[i]
  BY TailIs
<1>2. DOMAIN q = 1..Len(q) /\ DOMAIN Tail(q) = 1..Len(Tail(q)) /\ Len(Tail(q)) \in Nat
  BY <1>1
<1>3. \A i \in DOMAIN q : i \in Nat /\ i >= 1
  BY <1>2
<1>4. \A i \in DOMAIN Tail(q) : i \in Nat /\ i >= 1
  BY <1>2
<1> HIDE <1>2
\* The end of a link waits at the same distance.
<1>5. \A h : \A i \in Nat : i >= 1 => (Left(q, h, i) <=> Left(Tail(q), h, i - 1))
  <2> SUFFICES ASSUME NEW h, NEW i \in Nat, i >= 1 PROVE Left(q, h, i) <=> Left(Tail(q), h, i - 1)
    OBVIOUS
  <2>1. ASSUME Left(q, h, i) PROVE Left(Tail(q), h, i - 1)
    <3>1. PICK j \in DOMAIN q : j > i /\ q[j] = Unlinked(h)
      BY <2>1 DEF Left
    <3>2. j # 1 /\ j - 1 > i - 1
      BY <1>3, <3>1
    <3>3. j - 1 \in DOMAIN Tail(q) /\ Tail(q)[j - 1] = Unlinked(h)
      BY <1>1, <3>1, <3>2
    <3> QED BY <3>2, <3>3 DEF Left
  <2>2. ASSUME Left(Tail(q), h, i - 1) PROVE Left(q, h, i)
    <3>1. PICK j \in DOMAIN Tail(q) : j > i - 1 /\ Tail(q)[j] = Unlinked(h)
      BY <2>2 DEF Left
    <3>2. j + 1 > i
      BY <1>4, <3>1
    <3>3. j + 1 \in DOMAIN q /\ q[j + 1] = Unlinked(h)
      BY <1>1, <3>1
    <3> QED BY <3>2, <3>3 DEF Left
  <2> QED BY <2>1, <2>2
<1>6. \A h : q[1] # Unlinked(h) => (Left(q, h, 0) <=> Left(q, h, 1))
  <2> SUFFICES ASSUME NEW h, q[1] # Unlinked(h) PROVE Left(q, h, 0) <=> Left(q, h, 1)
    OBVIOUS
  <2>1. \A j \in DOMAIN q : q[j] = Unlinked(h) => (j > 0 <=> j > 1)
    BY <1>3
  <2> QED BY <2>1 DEF Left
<1>7. 1 - 1 = 0
  OBVIOUS
<1>8. \A h : Left(q, h, 1) <=> Left(Tail(q), h, 0)
  BY <1>5, <1>7
<1>9. NoConn(q) => NoConn(Tail(q))
  BY <1>1 DEF NoConn
<1>10. \A h : q[1] # Unlinked(h) /\ LinkIs(q, ls, h, 0) => LinkIs(Tail(q), ls, h, 0)
  BY <1>6, <1>8 DEF LinkIs
<1>11. ASSUME q[1].type # "conn", Met(q, ls) PROVE Met(Tail(q), ls)
  <2>1. PICK i \in DOMAIN q : /\ q[i].type = "conn" /\ \A j \in DOMAIN q : q[j].type = "conn" => j = i
                              /\ LinkIs(q, ls, q[i].handle, i)
    BY <1>11 DEF Met
  <2>2. i # 1 /\ i - 1 \in DOMAIN Tail(q) /\ Tail(q)[i - 1] = q[i]
    BY <1>1, <1>11, <2>1
  <2>3. \A j \in DOMAIN Tail(q) : Tail(q)[j].type = "conn" => j = i - 1
    <3> SUFFICES ASSUME NEW j \in DOMAIN Tail(q), Tail(q)[j].type = "conn" PROVE j = i - 1
      OBVIOUS
    <3>1. j + 1 = i
      BY <1>1, <2>1
    <3> QED BY <1>3, <1>4, <3>1
  <2>4. LinkIs(Tail(q), ls, q[i].handle, i - 1)
    BY <1>3, <1>5, <2>1 DEF LinkIs
  <2> QED BY <2>1, <2>2, <2>3, <2>4 DEF Met
<1>12. ASSUME q[1].type = "conn", Met(q, ls)
       PROVE  NoConn(Tail(q)) /\ LinkIs(Tail(q), ls, q[1].handle, 0)
  <2>1. /\ \A j \in DOMAIN q : q[j].type = "conn" => j = 1
        /\ LinkIs(q, ls, q[1].handle, 1)
    BY <1>1, <1>12 DEF Met
  <2>2. NoConn(Tail(q))
    <3> SUFFICES ASSUME NEW j \in DOMAIN Tail(q), Tail(q)[j].type = "conn" PROVE FALSE
      BY DEF NoConn
    <3>1. j + 1 = 1
      BY <1>1, <2>1
    <3> QED BY <1>4, <3>1
  <2> QED BY <1>8, <2>1, <2>2 DEF LinkIs
<1> QED BY <1>9, <1>10, <1>11, <1>12

LEMMA AppendLinks ==
    ASSUME NEW q \in Seq(Events), NEW e \in Events, NEW ls
    PROVE  /\ NoConn(q) /\ e.type # "conn" => NoConn(Append(q, e))
           /\ Met(q, ls) /\ e.type \notin {"conn", "disc"} => Met(Append(q, e), ls)
           /\ \A h : LinkIs(q, ls, h, 0) /\ e.type # "disc" => LinkIs(Append(q, e), ls, h, 0)
           /\ \A h : NoConn(q) /\ e = Linked(h) => Met(Append(q, e), {h})
           /\ \A h \in ls : Met(q, ls) /\ e = Unlinked(h) => Met(Append(q, e), ls \ {h})
           /\ \A h \in ls : \A k : LinkIs(q, ls, k, 0) /\ e = Unlinked(h) => LinkIs(Append(q, e), ls \ {h}, k, 0)
<1> DEFINE p == Append(q, e)
           n == Len(q) + 1
<1>1. /\ p \in Seq(Events) /\ DOMAIN p = 1..n /\ DOMAIN q = 1..Len(q) /\ Len(q) \in Nat
      /\ p[n] = e /\ \A i \in DOMAIN q : p[i] = q[i]
  BY AppendIs
<1>2. /\ \A i \in DOMAIN q : i \in DOMAIN p /\ i \in Nat /\ i < n /\ i > 0
      /\ \A i \in DOMAIN p : i \in DOMAIN q \/ i = n
      /\ n \in DOMAIN p /\ n \in Nat /\ n > 0
  BY <1>1
<1>3. \A i \in DOMAIN q : p[i] = q[i]
  BY <1>1
<1>4. p[n] = e
  BY <1>1
<1> HIDE DEF p, n
<1> HIDE <1>1
<1>5. \A h, i : Left(p, h, i) <=> (Left(q, h, i) \/ (n > i /\ e = Unlinked(h)))
  BY <1>2, <1>3, <1>4 DEF Left
<1>6. NoConn(q) /\ e.type # "conn" => NoConn(p)
  BY <1>2, <1>3, <1>4 DEF NoConn
<1>7. \A h : Unlinked(h).type = "disc" /\ Linked(h).type = "conn" /\ Linked(h).handle = h
  BY EventsAre
<1>8. e.type # "disc" => \A h, i : Left(p, h, i) <=> Left(q, h, i)
  BY <1>5, <1>7
<1>9. ASSUME Met(q, ls), e.type # "conn", NEW ms,
             \A i \in DOMAIN q : LinkIs(q, ls, q[i].handle, i) => LinkIs(p, ms, q[i].handle, i)
      PROVE  Met(p, ms)
  <2>1. PICK i \in DOMAIN q : /\ q[i].type = "conn" /\ \A j \in DOMAIN q : q[j].type = "conn" => j = i
                              /\ LinkIs(q, ls, q[i].handle, i)
    BY <1>9 DEF Met
  <2>2. i \in DOMAIN p /\ p[i] = q[i]
    BY <1>2, <1>3
  <2>3. \A j \in DOMAIN p : p[j].type = "conn" => j = i
    BY <1>2, <1>3, <1>4, <1>9, <2>1
  <2>4. LinkIs(p, ms, q[i].handle, i)
    BY <1>9, <2>1
  <2> QED BY <2>1, <2>2, <2>3, <2>4 DEF Met
<1>10. Met(q, ls) /\ e.type \notin {"conn", "disc"} => Met(p, ls)
  <2>1. e.type # "disc" => \A h, i : LinkIs(q, ls, h, i) => LinkIs(p, ls, h, i)
    BY <1>8 DEF LinkIs
  <2> QED BY <1>9, <2>1
<1>11. \A h : LinkIs(q, ls, h, 0) /\ e.type # "disc" => LinkIs(p, ls, h, 0)
  BY <1>8 DEF LinkIs
<1>12. ASSUME NEW h, NoConn(q), e = Linked(h) PROVE Met(p, {h})
  <2>1. p[n].type = "conn" /\ p[n].handle = h
    BY <1>4, <1>7, <1>12
  <2>2. \A j \in DOMAIN p : p[j].type = "conn" => j = n
    BY <1>2, <1>3, <1>12 DEF NoConn
  <2>3. ~Left(p, h, n)
    <3> SUFFICES ASSUME NEW j \in DOMAIN p, j > n PROVE FALSE
      BY DEF Left
    <3> QED BY <1>2
  <2> QED BY <1>2, <2>1, <2>2, <2>3 DEF Met, LinkIs
\* The link that ends is the one there is.
<1>13. \A h \in ls : \A k, i : LinkIs(q, ls, k, i) => h = k /\ ls = {k}
  BY DEF LinkIs
<1>14. \A h \in ls : \A k, i : LinkIs(q, ls, k, i) /\ e = Unlinked(h) /\ n > i => LinkIs(p, ls \ {h}, k, i)
  <2> SUFFICES ASSUME NEW h \in ls, NEW k, NEW i, LinkIs(q, ls, k, i), e = Unlinked(h), n > i
               PROVE  LinkIs(p, ls \ {h}, k, i)
    OBVIOUS
  <2>1. h = k /\ ls = {k}
    BY <1>13
  <2>2. Left(p, k, i)
    BY <1>5, <2>1
  <2>3. ls \ {h} = {}
    BY <2>1
  <2> QED BY <2>2, <2>3 DEF LinkIs
<1>15. ASSUME NEW h \in ls, Met(q, ls), e = Unlinked(h) PROVE Met(p, ls \ {h})
  <2>1. e.type # "conn"
    BY <1>7, <1>15
  <2>2. \A i \in DOMAIN q : n > i
    BY <1>2
  <2>3. \A i \in DOMAIN q : LinkIs(q, ls, q[i].handle, i) => LinkIs(p, ls \ {h}, q[i].handle, i)
    BY <1>14, <1>15, <2>2
  <2> QED BY <1>9, <1>15, <2>1, <2>3
<1>16. \A h \in ls : \A k : LinkIs(q, ls, k, 0) /\ e = Unlinked(h) => LinkIs(p, ls \ {h}, k, 0)
  BY <1>2, <1>14
<1> QED BY <1>6, <1>10, <1>11, <1>12, <1>15, <1>16 DEF p

-----------------------------------------------------------------------------
(* What the reset at the start of the startup leaves.                       *)

\* Nothing of an earlier life of the host is left in the controller or on its way.
NoEnable == \A j \in DOMAIN ctl.cmds : ctl.cmds[j] # "enable"
Cleared  == NoEnable /\ ~ctl.adv /\ ctl.links = {} /\ (crossed \/ NoConn(evq))

ResetFirst ==
    /\ \A j, k \in DOMAIN ctl.cmds : j < k /\ ctl.cmds[j] = "reset" => ctl.cmds[k] # "enable"
    /\ ack.op = "reset" /\ ack.ok => Cleared
    /\ \A i \in 1..L : 1 < i /\ pc["host"] = Startup[i] => Cleared

\* The commands of a task, and the events the host task takes and queues, leave the links alone.
LEMMA TaskLinks ==
    ASSUME Typed, NEW t \in Tasks, Send(t) \/ TakeAck(t) \/ AckTimeout(t)
    PROVE  /\ ctl'.adv = ctl.adv /\ ctl'.links = ctl.links
           /\ NoConn(evq) => NoConn(evq')
<1>1. ctl'.adv = ctl.adv /\ ctl'.links = ctl.links
  <2>1. ctl' = ctl \/ ctl' = [ctl EXCEPT !.cmds = Append(ctl.cmds, pc[t])]
    BY TaskKinds
  <2> QED BY <2>1 DEF Typed, CmdTyped, Ctls
<1>2. NoConn(evq) => NoConn(evq')
  <2>1. evq' = evq \/ evq' = Append(evq, Resetting)
    BY TaskKinds DEF Put
  <2>2. evq \in Seq(Events)
    BY DEF Typed, QueueTyped, Room
  <2> QED BY <2>1, <2>2, AppendLinks, EventsAre
<1> QED BY <1>1, <1>2

LEMMA HandlerQueue ==
    ASSUME Typed, Handler
    PROVE  NoConn(evq) => NoConn(evq')
<1>1. evq \in Seq(Events)
  BY DEF Typed, QueueTyped, Room
<1>2. \A q \in Seq(Events), e \in {Resetting, Expired} : NoConn(q) => NoConn(Put(q, e))
  BY AppendLinks, EventsAre DEF Put
<1>3. evq # <<>> => Tail(evq) \in Seq(Events) /\ (NoConn(evq) => NoConn(Tail(evq)))
  BY <1>1, TailIs, TailLinks
<1>4. CASE UNCHANGED evq
  BY <1>4
<1>5. CASE evq # <<>> /\ evq' \in {Tail(evq), Put(Tail(evq), Resetting)}
  BY <1>2, <1>3, <1>5
<1>6. CASE evq' = Put(evq, Expired)
  BY <1>1, <1>2, <1>6
<1>7. \/ UNCHANGED evq
      \/ evq # <<>> /\ evq' \in {Tail(evq), Put(Tail(evq), Resetting)}
      \/ evq' = Put(evq, Expired)
  <2>1. ASSUME NEW t \in Tasks, AdvStart(t) PROVE UNCHANGED evq
    BY <2>1 DEF AdvStart
  <2>2. CASE ResetEnds \/ OnSync \/ Initialized \/ CreateAdvertising \/ StartAdvertising
    BY <2>2 DEF ResetEnds, OnSync, Initialized, CreateAdvertising, StartAdvertising
  <2>3. CASE ResetBegins \/ TimerIdle \/ ConnComplete \/ DisconnComplete
    BY <2>3 DEF ResetBegins, TimerIdle, ConnComplete, DisconnComplete, Next1
  <2>4. CASE HardwareError
    BY <2>4 DEF HardwareError, Next1, ScheduleReset
  <2>5. CASE TimerExpires
    BY <2>5 DEF TimerExpires
  <2> QED BY <2>1, <2>2, <2>3, <2>4, <2>5 DEF Handler
<1> QED BY <1>4, <1>5, <1>6, <1>7

LEMMA CtlLinks ==
    ASSUME Typed, CtlExecutes \/ CtlRefuses \/ CtlLoses
    PROVE  LET c == ctl.cmds[1] IN
           /\ \/ /\ ctl'.adv = ctl.adv /\ ctl'.links = ctl.links /\ crossed' = crossed
                 /\ ~CtlExecutes \/ c \notin {"enable", "reset"}
              \/ c = "enable" /\ ctl'.adv = TRUE /\ ctl'.links = ctl.links /\ crossed' = crossed
              \/ /\ c = "reset" /\ ctl'.adv = FALSE /\ ctl'.links = {}
                 /\ crossed' = TRUE \/ (crossed' = crossed /\ NoConn(evq))
           /\ \/ ack' = ack
              \/ ack = NoAck /\ CtlExecutes /\ ack' = [op |-> c, ok |-> (c = "params" => ~ctl.adv)]
              \/ ack = NoAck /\ CtlRefuses /\ c \in StartupCommands /\ ack' = [op |-> c, ok |-> FALSE]
<1> DEFINE c == ctl.cmds[1]
<1>1. c \in Commands /\ ctl \in Ctls /\ crossed \in BOOLEAN
  BY TakesCommand DEF Typed, CmdTyped, AppTyped
<1>2. /\ Executed(c) \in Ctls
      /\ Executed(c).adv = (c = "enable" \/ (c # "reset" /\ ctl.adv))
      /\ Executed(c).links = IF c = "reset" THEN {} ELSE ctl.links
  BY <1>1, ExecutedIs
<1>a. \/ ack' = ack
      \/ ack = NoAck /\ CtlExecutes /\ ack' = [op |-> c, ok |-> (c = "params" => ~ctl.adv)]
      \/ ack = NoAck /\ CtlRefuses /\ c \in StartupCommands /\ ack' = [op |-> c, ok |-> FALSE]
  BY DEF CtlExecutes, CtlRefuses, CtlLoses, Answer, Accepted
<1>3. \/ /\ ctl' = [Executed(c) EXCEPT !.cmds = Tail(Executed(c).cmds)]
         /\ crossed' = (crossed \/ Crosses(c))
      \/ /\ ctl' = [ctl EXCEPT !.cmds = Tail(ctl.cmds)] /\ crossed' = crossed /\ ~CtlExecutes
  <2>1. CASE CtlExecutes
    BY <2>1 DEF CtlExecutes
  <2>2. CASE ~CtlExecutes
    BY <2>2 DEF CtlRefuses, CtlLoses
  <2> QED BY <2>1, <2>2
<1>4. ~Crosses("reset") => NoConn(evq)
  <2> SUFFICES ASSUME NEW i \in DOMAIN evq, evq[i].type = "conn" PROVE Crosses("reset")
    BY DEF NoConn
  <2>1. evq \in Seq(Events)
    BY DEF Typed, QueueTyped, Room
  <2>2. evq[i] \in Events
    BY <2>1
  <2>3. evq[i].handle \in Handles /\ evq[i] = Linked(evq[i].handle)
    BY <2>2, EventKinds
  <2>4. Contains(evq, Linked(evq[i].handle))
    BY <2>1, <2>3, ContainsIs
  <2> QED BY <2>3, <2>4 DEF Crosses
<1>5. c # "reset" => ~Crosses(c)
  BY DEF Crosses
<1> HIDE DEF c
<1>6. CASE ctl' = [ctl EXCEPT !.cmds = Tail(ctl.cmds)] /\ crossed' = crossed /\ ~CtlExecutes
  <2>1. ctl'.adv = ctl.adv /\ ctl'.links = ctl.links
    BY <1>1, <1>6 DEF Ctls
  <2> QED BY <1>6, <1>a, <2>1 DEF c
<1>7. CASE /\ ctl' = [Executed(c) EXCEPT !.cmds = Tail(Executed(c).cmds)]
           /\ crossed' = (crossed \/ Crosses(c))
  <2>1. ctl'.adv = Executed(c).adv /\ ctl'.links = Executed(c).links
    BY <1>2, <1>7 DEF Ctls
  <2>2. CASE c = "reset"
    <3>1. ctl'.adv = FALSE /\ ctl'.links = {}
      BY <1>2, <2>1, <2>2
    <3>2. crossed' = TRUE \/ (crossed' = crossed /\ NoConn(evq))
      BY <1>1, <1>4, <1>7, <2>2
    <3> QED BY <1>a, <2>2, <3>1, <3>2 DEF c
  <2>3. CASE c # "reset"
    <3>1. ctl'.links = ctl.links /\ crossed' = crossed
      BY <1>1, <1>2, <1>5, <1>7, <2>1, <2>3
    <3>2. CASE c = "enable"
      <4>1. ctl'.adv = TRUE
        BY <1>2, <2>1, <3>2
      <4> QED BY <1>a, <3>1, <3>2, <4>1 DEF c
    <3>3. CASE c # "enable"
      <4>1. ctl'.adv = ctl.adv
        BY <1>1, <1>2, <2>1, <2>3, <3>3 DEF Ctls
      <4> QED BY <1>a, <2>3, <3>1, <3>3, <4>1 DEF c
    <3> QED BY <3>2, <3>3
  <2> QED BY <2>2, <2>3
<1> QED BY <1>3, <1>6, <1>7

LEMMA ResetFirstStep ==
    ASSUME Typed, Placed, InSync, Settled, ResetFirst, [Next]_vars
    PROVE  ResetFirst'
<1>p. /\ ctl.cmds \in Seq(Commands) /\ evq \in Seq(Events)
      /\ ctl.adv \in BOOLEAN
  BY DEF Typed, CmdTyped, Ctls, QueueTyped, Room
<1>r. "reset" \in StartupCommands /\ NoAck.op # "reset"
  BY StartupIs DEF NoAck
<1>s. \A i \in 1..L : Startup[i] \in StartupCommands
  BY StartupApart
<1>k. ASSUME ctl'.cmds = ctl.cmds, ctl'.adv = ctl.adv, ctl'.links = ctl.links, crossed' = crossed,
             NoConn(evq) => NoConn(evq'), ack' \in {ack, NoAck},
             \A i \in 1..L : 1 < i /\ pc'["host"] = Startup[i] => Cleared
      PROVE  ResetFirst'
  <2>1. Cleared => Cleared'
    BY <1>k DEF Cleared, NoEnable
  <2> QED BY <1>k, <1>r, <2>1 DEF ResetFirst
<1>1. ASSUME NEW t \in Tasks, Send(t) \/ TakeAck(t) \/ AckTimeout(t) PROVE ResetFirst'
  <2>1. /\ ctl'.adv = ctl.adv /\ ctl'.links = ctl.links /\ (NoConn(evq) => NoConn(evq'))
        /\ crossed' = crossed /\ pc[t] \in Commands
    BY <1>1, TaskLinks, TaskKinds
  <2>2. CASE /\ MaySend(t) /\ ctl' = [ctl EXCEPT !.cmds = Append(ctl.cmds, pc[t])]
             /\ UNCHANGED <<pc, state, timer, reason, adv, conns, synced, ready, dataSet, connected, evq, ack>>
    <3>1. ctl'.cmds = Append(ctl.cmds, pc[t])
      BY <2>2 DEF Typed, CmdTyped, Ctls
    <3>2. PICK n \in Nat : /\ DOMAIN ctl'.cmds = 1..(n + 1) /\ DOMAIN ctl.cmds = 1..n
                           /\ ctl'.cmds[n + 1] = pc[t]
                           /\ \A j \in 1..n : ctl'.cmds[j] = ctl.cmds[j]
      <4>1. Len(ctl.cmds) \in Nat
        BY <1>p
      <4> QED BY <1>p, <2>1, <3>1, <4>1, AppendIs
    <3>3. \A j \in 1..(n + 1) : j \in 1..n \/ j = n + 1
      OBVIOUS
    <3>4. \A j, k \in 1..(n + 1) : j < k => j \in 1..n
      OBVIOUS
    <3>5. CASE pc[t] = "enable"
      <4>1. state = "good"
        <5>1. t = "host" => state = "good"
          BY <3>5 DEF InSync, AdvPath, AdvCommands
        <5> QED BY <2>2, <5>1 DEF MaySend
      <4>2. /\ \A j \in DOMAIN ctl.cmds : ctl.cmds[j] # "reset"
            /\ ack.op # "reset" /\ pc["host"] \notin StartupCommands
        BY <1>r, <4>1 DEF Settled, Placed
      <4>3. \A j, k \in DOMAIN ctl'.cmds : j < k => ctl'.cmds[j] # "reset"
        BY <3>2, <3>4, <4>2
      <4> QED BY <1>s, <2>2, <4>2, <4>3 DEF ResetFirst
    <3>6. CASE pc[t] # "enable"
      <4>1. NoEnable => NoEnable'
        BY <3>2, <3>3, <3>6 DEF NoEnable
      <4>2. Cleared => Cleared'
        BY <2>1, <4>1 DEF Cleared
      <4>3. \A j, k \in DOMAIN ctl'.cmds : j < k /\ ctl'.cmds[j] = "reset" => ctl'.cmds[k] # "enable"
        <5> SUFFICES ASSUME NEW j \in 1..(n + 1), NEW k \in 1..(n + 1), j < k, ctl'.cmds[j] = "reset"
                     PROVE  ctl'.cmds[k] # "enable"
          BY <3>2
        <5>1. CASE k = n + 1
          BY <3>2, <3>6, <5>1
        <5>2. CASE k # n + 1
          <6>1. k \in 1..n /\ j \in 1..n
            BY <3>3, <3>4, <5>2
          <6> QED BY <3>2, <6>1 DEF ResetFirst
        <5> QED BY <5>1, <5>2
      <4> QED BY <2>2, <4>2, <4>3 DEF ResetFirst
    <3> QED BY <3>5, <3>6
  <2>3. CASE After(t, FALSE) /\ UNCHANGED ctl /\ ack' \in {ack, NoAck}
    <3>1. \/ pc'["host"] = pc["host"]
          \/ pc'["host"] \in {"idle", "onsync", "adv", "enable", "irks"}
      BY <2>1, <2>3, HostAfter
    <3>2. \A i \in 1..L : 1 < i /\ pc'["host"] = Startup[i] => Cleared
      BY <3>1, StartupApart DEF ResetFirst
    <3> QED BY <1>k, <2>1, <2>3, <3>2
  <2>4. CASE After(t, TRUE) /\ hci = t /\ ack.op = pc[t] /\ ack.ok /\ ack' = NoAck /\ UNCHANGED ctl
    <3>1. \/ pc'["host"] = pc["host"]
          \/ pc'["host"] \in {"idle", "onsync", "adv", "enable", "irks"}
          \/ t = "host" /\ \E k \in 1..L : k + 1 \in 1..L /\ pc["host"] = Startup[k] /\ pc'["host"] = Startup[k + 1]
      BY <2>1, <2>4, HostAfter
    <3>2. ASSUME t = "host", NEW k \in 1..L, pc["host"] = Startup[k] PROVE Cleared
      <4>1. CASE k = 1
        BY <2>4, <3>2, <4>1, StartupIs DEF ResetFirst
      <4>2. CASE k # 1
        <5>1. 1 < k
          BY <3>2, <4>2
        <5> QED BY <3>2, <5>1 DEF ResetFirst
      <4> QED BY <4>1, <4>2
    <3>3. \A i \in 1..L : 1 < i /\ pc'["host"] = Startup[i] => Cleared
      BY <3>1, <3>2, StartupApart DEF ResetFirst
    <3> QED BY <1>k, <2>1, <2>4, <3>3
  <2> QED BY <1>1, <2>2, <2>3, <2>4, TaskKinds
<1>2. CASE Handler
  <2>1. UNCHANGED <<hci, ack, ctl, crossed>> /\ (NoConn(evq) => NoConn(evq'))
    BY <1>2, HandlerKeeps, HandlerQueue
  <2>2. \/ pc'["host"] = pc["host"] \/ pc'["host"] = Startup[1]
        \/ pc'["host"] \in {"broken", "idle", "adv", "data", "params", "feat"}
    BY <1>2, HandlerHost
  <2>3. \A i \in 1..L : 1 < i /\ pc'["host"] = Startup[i] => pc'["host"] = pc["host"]
    <3> SUFFICES ASSUME NEW i \in 1..L, 1 < i, pc'["host"] = Startup[i] PROVE pc'["host"] = pc["host"]
      OBVIOUS
    <3>1. Startup[i] # Startup[1]
      BY StartupIs, StartupApart
    <3>2. Startup[i] \notin {"broken", "idle", "adv", "data", "params", "feat"}
      BY StartupApart
    <3> QED BY <2>2, <3>1, <3>2
  <2>4. \A i \in 1..L : 1 < i /\ pc'["host"] = Startup[i] => Cleared
    BY <2>3 DEF ResetFirst
  <2> QED BY <1>k, <2>1, <2>4
<1>3. CASE Linking
  <2>1. UNCHANGED <<pc, ack, crossed>> /\ ctl'.cmds = ctl.cmds
    BY <1>3, LinkingKeeps
  <2>2. Cleared => Cleared'
    <3> SUFFICES ASSUME Cleared PROVE Cleared'
      OBVIOUS
    <3>1. CtlFails
      BY <1>3 DEF Linking, Cleared, CtlConnects, CtlDisconnects
    <3>2. evq' = Append(evq, HwError) /\ ctl' = ctl
      BY <3>1 DEF CtlFails
    <3>3. NoConn(evq) => NoConn(evq')
      BY <1>p, <3>2, AppendLinks, EventsAre
    <3> QED BY <2>1, <3>2, <3>3 DEF Cleared, NoEnable
  <2> QED BY <2>1, <2>2 DEF ResetFirst
<1>4. CASE CtlExecutes \/ CtlRefuses \/ CtlLoses
  <2>1. /\ UNCHANGED <<pc, evq>> /\ ctl.cmds # <<>> /\ ctl'.cmds = Tail(ctl.cmds)
    BY <1>4, TakesCommand
  <2>2. /\ 1 \in DOMAIN ctl.cmds
        /\ \A j \in DOMAIN ctl'.cmds : j + 1 \in DOMAIN ctl.cmds /\ ctl'.cmds[j] = ctl.cmds[j + 1]
        /\ DOMAIN ctl'.cmds \subseteq Nat \ {0}
    <3>1. Tail(ctl.cmds) \in Seq(Commands)
      BY <1>p, <2>1, TailIs
    <3>2. DOMAIN ctl'.cmds = 1..Len(ctl'.cmds) /\ Len(ctl'.cmds) \in Nat
      BY <2>1, <3>1
    <3>3. DOMAIN ctl'.cmds \subseteq Nat \ {0}
      BY <3>2
    <3> QED BY <1>p, <2>1, <3>3, TailIs
  <2>3. \A j, k \in DOMAIN ctl'.cmds : j < k /\ ctl'.cmds[j] = "reset" => ctl'.cmds[k] # "enable"
    <3> SUFFICES ASSUME NEW j \in DOMAIN ctl'.cmds, NEW k \in DOMAIN ctl'.cmds, j < k, ctl'.cmds[j] = "reset"
                 PROVE  ctl'.cmds[k] # "enable"
      OBVIOUS
    <3>1. j + 1 < k + 1
      BY <2>2
    <3> QED BY <2>2, <3>1 DEF ResetFirst
  <2>4. Cleared => Cleared'
    <3> SUFFICES ASSUME Cleared PROVE Cleared'
      OBVIOUS
    <3>1. NoEnable' /\ ctl.cmds[1] # "enable"
      BY <2>2 DEF Cleared, NoEnable
    <3>2. ctl'.adv = FALSE /\ ctl'.links = {} /\ (crossed' \/ NoConn(evq))
      BY <1>4, <1>p, <3>1, CtlLinks DEF Cleared
    <3> QED BY <2>1, <3>1, <3>2 DEF Cleared
  <2>5. ack'.op = "reset" /\ ack'.ok => Cleared'
    <3>1. CASE ack' = ack
      BY <2>4, <3>1 DEF ResetFirst
    <3>2. CASE ack' # ack
      <4> SUFFICES ASSUME ack'.op = "reset", ack'.ok PROVE Cleared'
        OBVIOUS
      <4>1. CtlExecutes /\ ctl.cmds[1] = "reset"
        <5>1. \/ CtlExecutes /\ ack' = [op |-> ctl.cmds[1], ok |-> (ctl.cmds[1] = "params" => ~ctl.adv)]
              \/ ack' = [op |-> ctl.cmds[1], ok |-> FALSE]
          BY <1>4, <3>2, CtlLinks
        <5>2. ack' # [op |-> ctl.cmds[1], ok |-> FALSE]
          OBVIOUS
        <5>3. CtlExecutes /\ ack'.op = ctl.cmds[1]
          BY <5>1, <5>2
        <5> QED BY <5>3
      <4>2. ctl'.adv = FALSE /\ ctl'.links = {} /\ (crossed' \/ NoConn(evq))
        BY <1>4, <4>1, CtlLinks
      <4>3. NoEnable'
        <5> SUFFICES ASSUME NEW j \in DOMAIN ctl'.cmds PROVE ctl'.cmds[j] # "enable"
          BY DEF NoEnable
        <5>1. 1 < j + 1
          BY <2>2
        <5> QED BY <2>2, <4>1, <5>1 DEF ResetFirst
      <4> QED BY <2>1, <4>2, <4>3 DEF Cleared
    <3> QED BY <3>1, <3>2
  <2> QED BY <2>1, <2>3, <2>4, <2>5 DEF ResetFirst
<1>5. CASE UNCHANGED vars
  BY <1>k, <1>5 DEF vars, marks, ResetFirst
<1> QED BY <1>1, <1>2, <1>3, <1>4, <1>5, NextKinds

-----------------------------------------------------------------------------
(* One advertising, or one link, and one task that works on it.             *)

\* The controller accepts what enables the advertising.
Honest == ack.op = "enable" => ack.ok

LEMMA HonestStep == Typed /\ Honest /\ [Next]_vars => Honest'
<1> SUFFICES ASSUME Typed, Honest, [Next]_vars PROVE Honest'
  OBVIOUS
<1>k. ASSUME ack' \in {ack, NoAck} PROVE Honest'
  BY <1>k DEF Honest, NoAck
<1>1. ASSUME NEW t \in Tasks, Send(t) \/ TakeAck(t) \/ AckTimeout(t) PROVE Honest'
  BY <1>1, <1>k, TaskKinds
<1>2. CASE Handler
  BY <1>2, <1>k, HandlerKeeps
<1>3. CASE Linking
  BY <1>3, <1>k, LinkingKeeps
<1>4. CASE CtlExecutes \/ CtlRefuses \/ CtlLoses
  <2>1. \/ ack' = ack
        \/ ack' = [op |-> ctl.cmds[1], ok |-> (ctl.cmds[1] = "params" => ~ctl.adv)]
        \/ ctl.cmds[1] \in StartupCommands /\ ack' = [op |-> ctl.cmds[1], ok |-> FALSE]
    BY <1>4, CtlLinks
  <2>2. CASE ack' = [op |-> ctl.cmds[1], ok |-> (ctl.cmds[1] = "params" => ~ctl.adv)]
    <3>1. ack'.op = ctl.cmds[1] /\ ack'.ok = (ctl.cmds[1] = "params" => ~ctl.adv)
      BY <2>2
    <3>2. ctl.cmds[1] = "enable" => (ctl.cmds[1] = "params" => ~ctl.adv)
      OBVIOUS
    <3> QED BY <3>1, <3>2 DEF Honest
  <2>3. CASE ctl.cmds[1] \in StartupCommands /\ ack' = [op |-> ctl.cmds[1], ok |-> FALSE]
    <3>1. ack'.op = ctl.cmds[1]
      BY <2>3
    <3>2. ctl.cmds[1] # "enable"
      BY <2>3, StartupApart, StartupIs DEF Labels, AdvCommands
    <3> QED BY <3>1, <3>2 DEF Honest
  <2> QED BY <1>k, <2>1, <2>2, <2>3
<1>5. CASE UNCHANGED vars
  BY <1>5, <1>k DEF vars
<1> QED BY <1>1, <1>2, <1>3, <1>4, <1>5, NextKinds

\* There is one connection at most, of which the firmware knows; with it, or while
\* the loop task starts the advertising, the host task does not; and the host task
\* is on its way to an advertising only while there is none.
Alone ==
    /\ conns = {} \/ \E h \in Handles : conns = {h}
    /\ connected <=> conns # {}
    /\ conns # {} => ~adv /\ pc["host"] \notin AdvPath /\ pc["loop"] = "idle"
    /\ adv => pc["loop"] \in {"idle", "enable"}
    /\ pc["loop"] # "idle" => pc["host"] \notin AdvPath
    /\ pc["host"] \in {"data", "adv", "params"} => ~adv
Solo == ~early => Alone

\* What has once gone wrong is not forgotten.
LEMMA MarksStay ==
    ASSUME Typed, [Next]_vars
    PROVE  (early => early') /\ (crossed => crossed')
<1>1. ASSUME NEW t \in Tasks, Send(t) \/ TakeAck(t) \/ AckTimeout(t) PROVE UNCHANGED <<early, crossed>>
  BY <1>1, TaskKinds
<1>2. CASE Handler
  <2>1. crossed' = crossed
    BY <1>2, HandlerKeeps
  <2>2. CASE ResetBegins
    <3>1. early' = (early \/ (synced /\ pc["loop"] # "idle"))
      BY <2>2 DEF ResetBegins
    <3>2. early \in BOOLEAN
      BY DEF Typed, AppTyped
    <3> QED BY <2>1, <3>1, <3>2
  <2>3. CASE ~ResetBegins
    <3>1. UNCHANGED marks
      BY <1>2, <2>3 DEF Handler, AdvStart, ResetEnds, OnSync, TimerIdle, HardwareError, ConnComplete,
         DisconnComplete, Initialized, CreateAdvertising, StartAdvertising, TimerExpires
    <3> QED BY <3>1 DEF marks
  <2> QED BY <2>2, <2>3
<1>3. CASE Linking
  BY <1>3, LinkingKeeps
<1>4. CASE CtlExecutes \/ CtlRefuses \/ CtlLoses
  <2>1. early' = early
    BY <1>4, TakesCommand
  <2>2. crossed => crossed'
    BY <1>4, CtlLinks
  <2> QED BY <2>1, <2>2
<1>5. CASE UNCHANGED vars
  BY <1>5 DEF vars, marks
<1>6. ASSUME UNCHANGED <<early, crossed>> PROVE (early => early') /\ (crossed => crossed')
  BY <1>6
<1> QED BY <1>1, <1>2, <1>3, <1>4, <1>5, <1>6, NextKinds

LEMMA SoloStep ==
    Typed /\ Placed /\ Readied /\ Apart /\ Solo /\ [Next]_vars => Solo'
<1> SUFFICES ASSUME Typed, Placed, Readied, Apart, Solo, [Next]_vars, ~early' PROVE Alone'
  BY DEF Solo
<1>e. ~early /\ Alone
  BY MarksStay DEF Solo
<1>g. /\ \A l : Goto("host", l) => pc'["host"] = l /\ pc'["loop"] = pc["loop"]
      /\ \A l : Goto("loop", l) => pc'["loop"] = l /\ pc'["host"] = pc["host"]
  BY GotoMoves
<1>k. ASSUME UNCHANGED <<pc, adv, conns, connected>> PROVE Alone'
  BY <1>e, <1>k DEF Alone
<1>p. \A l \in AdvPath : l \in {"data", "adv", "params", "enable"}
  BY DEF AdvPath, AdvCommands
<1>q. \A l : l \in {"idle", "onsync", "broken", "irks", "feat", "reset"} => l \notin AdvPath
  BY <1>p
<1>n. \A c \in StartupCommands : c \notin AdvPath
  BY <1>p, StartupApart
<1>1. ASSUME NEW t \in Tasks, Send(t) \/ TakeAck(t) \/ AckTimeout(t) PROVE Alone'
  <2>e. pc[t] \in Commands
    BY <1>1, TaskKinds
  <2>1. CASE UNCHANGED <<pc, state, timer, reason, adv, conns, synced, ready, dataSet, connected, evq, ack>>
    BY <2>1, <1>k
  <2>2. CASE After(t, FALSE)
    <3>1. UNCHANGED <<conns, connected>> /\ (adv' => adv) /\ \A u \in Tasks : u # t => pc'[u] = pc[u]
      BY <2>2, <2>e, AfterFails
    <3>2. CASE t = "host"
      <4>1. pc'["host"] \in {"idle", "onsync"} /\ pc'["loop"] = pc["loop"]
        BY <2>2, <2>e, <3>1, <3>2, AfterFails DEF Tasks
      <4> QED BY <1>e, <1>q, <3>1, <4>1 DEF Alone
    <3>3. CASE t = "loop"
      <4>1. pc'["loop"] = "idle" /\ pc'["host"] = pc["host"]
        BY <2>2, <2>e, <3>1, <3>3, AfterFails DEF Tasks
      <4> QED BY <1>e, <3>1, <4>1 DEF Alone
    <3> QED BY <3>2, <3>3 DEF Tasks
  <2>3. CASE After(t, TRUE)
    <3>1. UNCHANGED <<conns, connected>> /\ \A u \in Tasks : u # t => pc'[u] = pc[u]
      BY <2>3, <2>e, AfterDone
    <3>2. CASE t = "host"
      <4>1. pc'["loop"] = pc["loop"]
        BY <3>1, <3>2 DEF Tasks
      <4>2. \/ pc'["host"] \notin AdvPath /\ adv' = adv
            \/ pc["host"] = "data" /\ pc'["host"] = "adv" /\ adv' = adv
            \/ pc["host"] = "params" /\ pc'["host"] = "enable" /\ adv' = TRUE
        <5>1. \/ (\E i \in 1..L : pc'[t] = Startup[i]) /\ adv' = adv
              \/ pc'[t] \in {"irks", "onsync", "idle"} /\ adv' = adv
              \/ pc[t] = "data" /\ pc'[t] = "adv" /\ adv' = adv
              \/ pc[t] = "params" /\ pc'[t] = "enable" /\ adv' = TRUE
          BY <2>3, <2>e, AfterDone
        <5>2. \A i \in 1..L : Startup[i] \notin AdvPath
          BY <1>n, StartupApart
        <5> QED BY <1>q, <3>2, <5>1, <5>2
      <4> QED BY <1>e, <1>p, <3>1, <4>1, <4>2 DEF Alone, AdvPath, AdvCommands
    <3>3. CASE t = "loop"
      <4>1. pc'["host"] = pc["host"] /\ pc["loop"] # "idle"
        BY <2>e, <3>1, <3>3, NotCommands DEF Tasks
      <4>2. \/ pc["loop"] = "data" /\ pc'["loop"] = "adv" /\ adv' = adv
            \/ pc["loop"] = "params" /\ pc'["loop"] = "enable" /\ adv' = TRUE
            \/ pc["loop"] = "enable" /\ pc'["loop"] = "idle" /\ adv' = adv
        BY <2>3, <2>e, <3>3, AfterDone
      <4> QED BY <1>e, <1>p, <3>1, <4>1, <4>2 DEF Alone, AdvPath, AdvCommands
    <3> QED BY <3>2, <3>3 DEF Tasks
  <2> QED BY <1>1, <2>1, <2>2, <2>3, TaskKinds
<1>2. CASE Handler
  <2>1. CASE AdvStart("host") \/ AdvStart("loop")
    <3>1. UNCHANGED <<adv, conns, connected>>
      BY <2>1 DEF AdvStart, gap, app
    <3>2. CASE AdvStart("host")
      <4>1. pc["host"] = "adv" /\ pc'["host"] \in {"idle", "params"} /\ pc'["loop"] = pc["loop"]
        BY <1>g, <3>2 DEF AdvStart
      <4> QED BY <1>e, <1>q, <3>1, <4>1 DEF Alone, AdvPath, AdvCommands
    <3>3. CASE AdvStart("loop")
      <4>1. pc["loop"] = "adv" /\ pc'["loop"] \in {"idle", "params"} /\ pc'["host"] = pc["host"]
        BY <1>g, <3>3 DEF AdvStart
      <4> QED BY <1>e, <3>1, <4>1 DEF Alone
    <3> QED BY <2>1, <3>2, <3>3
  <2>2. CASE ResetBegins
    <3>1. UNCHANGED <<adv, conns, connected>> /\ pc'["host"] = "broken" /\ pc'["loop"] = pc["loop"]
      BY <1>g, <2>2 DEF ResetBegins, gap, app
    <3> QED BY <1>e, <1>q, <3>1 DEF Alone
  <2>3. CASE ResetEnds
    <3>1. conns' = {} /\ adv' = FALSE /\ pc'["host"] = "reset" /\ pc'["loop"] = pc["loop"]
      BY <1>g, <2>3 DEF ResetEnds, GapReset
    <3>2. ~connected'
      BY <1>e, <2>3 DEF ResetEnds, GapReset, Alone
    <3> QED BY <1>e, <1>q, <3>1, <3>2 DEF Alone
  <2>4. CASE OnSync
    <3>1. /\ pc["host"] = "onsync" /\ pc'["loop"] = pc["loop"] /\ UNCHANGED <<adv, conns, connected>>
          /\ pc'["host"] = "idle" \/ (ready = "yes" /\ pc'["host"] \in {"idle", "data"})
      BY <1>g, <2>4 DEF OnSync, AdvEntry, gap
    <3>2. ~adv /\ conns = {} /\ pc["loop"] \in {"idle", "init"}
      BY <1>e, <3>1 DEF Apart
    <3>3. ready = "yes" => pc["loop"] = "idle"
      BY <3>2 DEF Readied
    <3> QED BY <1>e, <1>q, <3>1, <3>2, <3>3 DEF Alone
  <2>5. CASE TimerIdle \/ HardwareError \/ TimerExpires
    BY <1>k, <2>5 DEF TimerIdle, HardwareError, TimerExpires, gap, app
  <2>6. CASE ConnComplete
    <3>1. CASE UNCHANGED <<pc, gap, connected>>
      BY <1>k, <3>1 DEF gap
    <3>2. CASE ~UNCHANGED <<pc, gap, connected>>
      <4>1. /\ adv /\ conns' = conns \cup {evq[1].handle} /\ adv' = FALSE /\ connected' = TRUE
            /\ pc'["host"] = "feat" /\ pc'["loop"] = pc["loop"] /\ pc["loop"] \notin {"params", "enable"}
            /\ evq # <<>> /\ evq[1].type = "conn"
        BY <1>g, <2>6, <3>2 DEF ConnComplete, Next1, HsLocked
      <4>2. conns = {} /\ pc["loop"] = "idle"
        BY <1>e, <4>1 DEF Alone
      <4>3. evq[1].handle \in Handles
        <5>1. evq[1] \in Events
          BY <4>1, TailIs DEF Typed, QueueTyped, Room
        <5> QED BY <4>1, <5>1, EventKinds
      <4> QED BY <1>q, <4>1, <4>2, <4>3 DEF Alone
    <3> QED BY <3>1, <3>2
  <2>7. CASE DisconnComplete
    <3>1. CASE UNCHANGED <<pc, conns, connected>>
      BY <1>k, <2>7, <3>1 DEF DisconnComplete
    <3>2. CASE ~UNCHANGED <<pc, conns, connected>>
      <4>1. /\ evq[1].handle \in conns /\ conns' = conns \ {evq[1].handle} /\ adv' = adv /\ connected' = FALSE
            /\ pc'["host"] \in {"idle", "adv", "data"} /\ pc'["loop"] = pc["loop"]
        BY <1>g, <2>7, <3>2 DEF DisconnComplete, AdvEntry
      <4>2. conns' = {} /\ ~adv /\ pc["loop"] = "idle"
        BY <1>e, <4>1 DEF Alone
      <4> QED BY <4>1, <4>2 DEF Alone
    <3> QED BY <3>1, <3>2
  <2>8. CASE Initialized \/ CreateAdvertising \/ StartAdvertising
    <3>1. UNCHANGED <<adv, conns, connected>> /\ pc'["host"] = pc["host"]
      BY <1>g, <2>8 DEF Initialized, CreateAdvertising, StartAdvertising, gap, app
    <3>2. pc["loop"] \in {"init", "create", "start"}
      BY <2>8 DEF Initialized, CreateAdvertising, StartAdvertising
    <3> QED BY <1>e, <3>1, <3>2 DEF Alone
  <2> QED BY <1>2, <2>1, <2>2, <2>3, <2>4, <2>5, <2>6, <2>7, <2>8 DEF Handler, Tasks
<1>3. CASE Linking
  BY <1>3, <1>k, LinkingKeeps DEF gap, app
<1>4. CASE CtlExecutes \/ CtlRefuses \/ CtlLoses
  BY <1>4, <1>k, TakesCommand DEF gap, app
<1>5. CASE UNCHANGED vars
  BY <1>5, <1>k DEF vars, gap, app
<1> QED BY <1>1, <1>2, <1>3, <1>4, <1>5, NextKinds

-----------------------------------------------------------------------------
(* One command at a time.                                                   *)

\* The host is in sync and no reset of it waits, and nothing is lost for good.
Undisturbed == state = "good" /\ ~early /\ ~crossed /\ ~Contains(evq, Resetting)

\* A reset that waits takes place.
LEMMA ResettingStays ==
    ASSUME Typed, [Next]_vars, Contains(evq, Resetting), ~Contains(evq', Resetting)
    PROVE  ResetBegins
<1>1. evq \in Seq(Events)
  BY DEF Typed, QueueTyped, Room
<1>2. \E i \in DOMAIN evq : evq[i] = Resetting
  BY <1>1, ContainsIs
<1>3. \A e \in Events : \E i \in DOMAIN Append(evq, e) : Append(evq, e)[i] = Resetting
  <2> SUFFICES ASSUME NEW e \in Events PROVE \E i \in DOMAIN Append(evq, e) : Append(evq, e)[i] = Resetting
    OBVIOUS
  <2>1. /\ DOMAIN Append(evq, e) = 1..(Len(evq) + 1) /\ DOMAIN evq = 1..Len(evq)
        /\ \A i \in DOMAIN evq : Append(evq, e)[i] = evq[i]
    BY <1>1, AppendIs
  <2>2. Len(evq) \in Nat
    BY <1>1
  <2>3. \A i \in DOMAIN evq : i \in DOMAIN Append(evq, e)
    BY <2>1, <2>2
  <2> QED BY <1>2, <2>1, <2>3
<1>4. \A e \in Events : Contains(Append(evq, e), Resetting)
  <2> SUFFICES ASSUME NEW e \in Events PROVE Contains(Append(evq, e), Resetting)
    OBVIOUS
  <2>1. Append(evq, e) \in Seq(Events)
    BY <1>1, AppendIs
  <2> QED BY <1>3, <2>1, ContainsIs
<1>5. \A e \in Events : Contains(Put(evq, e), Resetting)
  BY <1>4 DEF Put
<1>6. evq # <<>> /\ evq[1] # Resetting => Contains(Tail(evq), Resetting)
  <2> SUFFICES ASSUME evq # <<>>, evq[1] # Resetting PROVE Contains(Tail(evq), Resetting)
    OBVIOUS
  <2>1. Tail(evq) \in Seq(Events)
    BY <1>1, TailIs
  <2>2. \E i \in DOMAIN Tail(evq) : Tail(evq)[i] = Resetting
    <3>1. PICK i \in DOMAIN evq : evq[i] = Resetting
      BY <1>2
    <3>2. i - 1 \in DOMAIN Tail(evq) /\ Tail(evq)[i - 1] = evq[i]
      BY <1>1, <3>1, TailIs
    <3> QED BY <3>1, <3>2
  <2> QED BY <2>1, <2>2, ContainsIs
<1>7. \A e \in Events : evq' \notin {evq, Put(evq, e), Append(evq, e)}
  BY <1>4, <1>5
<1>8. evq' = Tail(evq) => evq = <<>> \/ evq[1] = Resetting
  BY <1>6
<1>9. \A t \in Tasks : ~(Send(t) \/ TakeAck(t) \/ AckTimeout(t))
  BY <1>7, TaskKinds, EventsAre
<1>10. ~Linking
  <2>1. Linking => evq' = Append(evq, HwError) \/ \E h \in Handles : evq' \in {Append(evq, Linked(h)), Append(evq, Unlinked(h))}
    <3>1. CASE CtlConnects
      BY <3>1 DEF CtlConnects
    <3>2. CASE CtlDisconnects
      <4>1. PICK h \in ctl.links : evq' = Append(evq, Unlinked(h))
        BY <3>2 DEF CtlDisconnects
      <4>2. h \in Handles
        BY DEF Typed, CmdTyped, Ctls
      <4> QED BY <4>1, <4>2
    <3>3. CASE CtlFails
      BY <3>3 DEF CtlFails
    <3> QED BY <3>1, <3>2, <3>3 DEF Linking
  <2> QED BY <1>7, <2>1, EventsAre
<1>11. ~(CtlExecutes \/ CtlRefuses \/ CtlLoses \/ UNCHANGED vars)
  BY <1>7, TakesCommand, EventsAre DEF vars
<1>12. Handler
  BY <1>9, <1>10, <1>11, NextKinds
<1>13. ~TimerExpires
  BY <1>7, EventsAre DEF TimerExpires
<1>14. ~(ResetEnds \/ OnSync \/ Initialized \/ CreateAdvertising \/ StartAdvertising)
  BY <1>7, EventsAre DEF ResetEnds, OnSync, Initialized, CreateAdvertising, StartAdvertising
<1>15. \A t \in Tasks : ~AdvStart(t)
  BY <1>7, EventsAre DEF AdvStart
<1>16. ~(TimerIdle \/ ConnComplete \/ DisconnComplete)
  BY <1>8, EventsAre DEF TimerIdle, ConnComplete, DisconnComplete, Next1
<1>17. ~HardwareError
  <2> SUFFICES ASSUME HardwareError PROVE Contains(evq', Resetting)
    OBVIOUS
  <2>1. evq # <<>> /\ evq' = Put(Tail(evq), Resetting)
    BY DEF HardwareError, Next1, ScheduleReset
  <2>2. Room(Tail(evq))
    BY <2>1, QueueIs DEF Typed, QueueTyped
  <2> QED BY <2>1, <2>2, RoomPut
<1> QED BY <1>12, <1>13, <1>14, <1>15, <1>16, <1>17 DEF Handler

LEMMA UndisturbedBefore ==
    ASSUME Typed, [Next]_vars, Undisturbed', state = "good"
    PROVE  Undisturbed
<1>1. ~early /\ ~crossed
  BY MarksStay DEF Undisturbed
<1>2. ~ResetBegins
  BY DEF ResetBegins, Undisturbed
<1>3. ~Contains(evq', Resetting)
  BY DEF Undisturbed
<1>4. ~Contains(evq, Resetting)
  BY <1>2, <1>3, ResettingStays
<1> QED BY <1>1, <1>4 DEF Undisturbed

\* What a task does with a command when that does not lead to a reset.
LEMMA TaskGoes ==
    ASSUME Typed, NEW t \in Tasks, Send(t) \/ TakeAck(t) \/ AckTimeout(t),
           state = "good", ~Contains(evq', Resetting)
    PROVE  /\ pc[t] \in Commands /\ evq' = evq
           /\ \/ /\ hci = "none" /\ hci' = t /\ ctl' = [ctl EXCEPT !.cmds = Append(ctl.cmds, pc[t])]
                 /\ UNCHANGED <<pc, state, adv, conns, ack>>
              \/ /\ hci = t /\ hci' = "none" /\ ack # NoAck /\ ack.op = pc[t] /\ ack' = NoAck
                 /\ ctl' = ctl
                 /\ (ack.ok /\ After(t, TRUE)) \/ (~ack.ok /\ After(t, FALSE))
<1>1. Room(evq)
  BY DEF Typed, QueueTyped
<1>2. evq' # Put(evq, Resetting)
  BY <1>1, RoomPut
<1>3. MaySend(t)
  BY DEF MaySend
<1>4. pc[t] \in Commands /\ evq' = evq
  BY <1>2, TaskKinds
<1>5. \/ /\ hci = "none" /\ hci' = t /\ ctl' = [ctl EXCEPT !.cmds = Append(ctl.cmds, pc[t])]
         /\ UNCHANGED <<pc, state, adv, conns, ack>>
      \/ /\ After(t, FALSE) /\ UNCHANGED ctl /\ hci = t /\ hci' = "none"
         /\ ack # NoAck /\ ack' = NoAck /\ ack.op = pc[t] /\ ~ack.ok
      \/ /\ After(t, TRUE) /\ hci = t /\ hci' = "none" /\ ack.op = pc[t] /\ ack.ok
         /\ ack # NoAck /\ ack' = NoAck /\ UNCHANGED ctl
  BY <1>2, <1>3, TaskKinds
<1> QED BY <1>4, <1>5

\* The controller has at most the command that a task waits for, or its answer is here.
InTurn ==
    Undisturbed =>
        /\ ctl.cmds = <<>> \/ (hci # "none" /\ ctl.cmds = <<pc[hci]>> /\ ack = NoAck)
        /\ ack = NoAck \/ (hci # "none" /\ ctl.cmds = <<>> /\ ack.op = pc[hci])

LEMMA InTurnStep ==
    Typed /\ Placed /\ Started /\ InTurn /\ [Next]_vars => InTurn'
<1> SUFFICES ASSUME Typed, Placed, Started, InTurn, [Next]_vars, Undisturbed' PROVE InTurn'
  BY DEF InTurn
<1>1. CASE state # "good"
  <2>1. state' = "good"
    BY DEF Undisturbed
  <2>2. ctl'.cmds = <<>> /\ ack' = NoAck
    BY <1>1, <2>1, SyncLeaves
  <2> QED BY <2>2 DEF InTurn
<1>2. CASE state = "good"
  <2>o. /\ Undisturbed /\ ~Contains(evq', Resetting)
        /\ ctl.cmds = <<>> \/ (hci # "none" /\ ctl.cmds = <<pc[hci]>> /\ ack = NoAck)
        /\ ack = NoAck \/ (hci # "none" /\ ctl.cmds = <<>> /\ ack.op = pc[hci])
    <3>1. Undisturbed
      BY <1>2, UndisturbedBefore
    <3> QED BY <3>1 DEF InTurn, Undisturbed
  <2>k. ASSUME ctl'.cmds = ctl.cmds, UNCHANGED <<hci, ack>>, hci # "none" => pc'[hci] = pc[hci] PROVE InTurn'
    BY <2>k, <2>o DEF InTurn
  <2>1. ASSUME NEW t \in Tasks, Send(t) \/ TakeAck(t) \/ AckTimeout(t) PROVE InTurn'
    <3>1. CASE /\ hci = "none" /\ hci' = t /\ ctl' = [ctl EXCEPT !.cmds = Append(ctl.cmds, pc[t])]
               /\ UNCHANGED <<pc, state, adv, conns, ack>>
      <4>1. ctl.cmds = <<>> /\ ack = NoAck /\ t # "none"
        BY <2>o, <3>1 DEF Tasks
      <4>2. ctl'.cmds = Append(<<>>, pc[t])
        BY <3>1, <4>1 DEF Typed, CmdTyped, Ctls
      <4>3. Append(<<>>, pc[t]) = <<pc[t]>>
        OBVIOUS
      <4> QED BY <3>1, <4>1, <4>2, <4>3 DEF InTurn
    <3>2. CASE hci = t /\ hci' = "none" /\ ack # NoAck /\ ack' = NoAck /\ ctl' = ctl
      BY <2>o, <3>2 DEF InTurn
    <3> QED BY <1>2, <2>o, <2>1, <3>1, <3>2, TaskGoes
  <2>2. CASE Handler
    BY <2>2, <2>k, HandlerKeeps
  <2>3. CASE Linking
    BY <2>3, <2>k, LinkingKeeps
  <2>4. CASE CtlExecutes \/ CtlRefuses \/ CtlLoses
    <3>1. /\ UNCHANGED <<pc, hci>> /\ ctl.cmds # <<>> /\ ctl'.cmds = Tail(ctl.cmds)
          /\ ack' = ack \/ ack'.op = ctl.cmds[1]
      BY <2>4, TakesCommand
    <3>2. hci # "none" /\ ctl.cmds = <<pc[hci]>> /\ ack = NoAck
      BY <2>o, <3>1
    <3>3. ctl.cmds[1] = pc[hci] /\ ctl'.cmds = <<>>
      BY <3>1, <3>2
    <3> QED BY <3>1, <3>2, <3>3 DEF InTurn
  <2>5. CASE UNCHANGED vars
    BY <2>5, <2>k DEF vars
  <2> QED BY <2>1, <2>2, <2>3, <2>4, <2>5, NextKinds
<1> QED BY <1>1, <1>2

-----------------------------------------------------------------------------
(* The advertising and the link of the host and of the controller.          *)

\* Neither has an advertising or a link; the controller advertises; it has taken a
\* connection, which the host has not heard of; or the host has the connection, of
\* the end of which it may not have heard.
Off     == ~ctl.adv /\ ctl.links = {} /\ conns = {} /\ NoConn(evq)
OnAir   == ctl.adv /\ ctl.links = {} /\ adv /\ conns = {} /\ NoConn(evq)
Joining == ~ctl.adv /\ adv /\ conns = {} /\ Met(evq, ctl.links)
Joined  == ~ctl.adv /\ NoConn(evq) /\ \E h \in Handles : conns = {h} /\ LinkIs(evq, ctl.links, h, 0)

\* The controller will execute a task's command to enable the advertising; the task
\* has not got its answer.
Enabling(t) == pc[t] = "enable" /\ (hci # t \/ ctl.cmds # <<>>)
Asking(t)   == pc[t] = "enable" /\ (hci # t \/ ack = NoAck)

\* The host takes itself for advertising when the controller does not only while a
\* task is about to enable it.
InPhase == /\ Off \/ OnAir \/ Joining \/ Joined
           /\ \A t \in Tasks : Enabling(t) => Off /\ adv
           /\ Off /\ adv => \E t \in Tasks : Asking(t)
Phases  == Undisturbed => InPhase

\* The phases exclude each other.
LEMMA PhasesApart ==
    /\ Off => ~OnAir /\ ~Joining /\ ~Joined
    /\ Off' => ~OnAir' /\ ~Joining' /\ ~Joined'
<1>1. \A q, ls : Met(q, ls) => ~NoConn(q)
  BY DEF Met, NoConn
<1>2. \A h : {h} # {}
  OBVIOUS
<1> QED BY <1>1, <1>2 DEF Off, OnAir, Joining, Joined

\* A step that leaves the advertising and the links as they are.
LEMMA PhaseStays ==
    ASSUME InPhase, UNCHANGED <<adv, conns>>, ctl'.adv = ctl.adv, ctl'.links = ctl.links,
           NoConn(evq) => NoConn(evq'), Met(evq, ctl.links) => Met(evq', ctl.links),
           \A h : conns = {h} /\ LinkIs(evq, ctl.links, h, 0) => LinkIs(evq', ctl.links, h, 0)
    PROVE  (Off' \/ OnAir' \/ Joining' \/ Joined') /\ (Off => Off') /\ (Off' => Off)
<1>1. /\ Off => Off'
      /\ OnAir => OnAir'
  BY DEF Off, OnAir
<1>2. Joining => Joining'
  BY DEF Joining
<1>3. Joined => Joined'
  BY DEF Joined
<1> QED BY <1>1, <1>2, <1>3, PhasesApart DEF InPhase

\* The host gets into sync with a controller that has been reset.
LEMMA SyncPhase ==
    ASSUME Typed, Placed, Started, InSync, ResetFirst, [Next]_vars, state # "good", Undisturbed'
    PROVE  InPhase'
<1>1. state' = "good" /\ ~crossed'
  BY DEF Undisturbed
<1>2. ~crossed
  BY <1>1, MarksStay
<1>3. PICK t \in Tasks : Send(t) \/ TakeAck(t) \/ AckTimeout(t)
  <2>1. ~Handler
    BY <1>1, HandlerHost
  <2>2. ~Linking
    BY <1>1, LinkingKeeps DEF host
  <2>3. ~(CtlExecutes \/ CtlRefuses \/ CtlLoses)
    BY <1>1, TakesCommand DEF host
  <2>4. ~UNCHANGED vars
    BY <1>1 DEF vars, host
  <2> QED BY <2>1, <2>2, <2>3, <2>4, NextKinds
<1>4. /\ t = "host" /\ pc["host"] = Startup[L] /\ pc'["host"] \in {"irks", "onsync"}
      /\ UNCHANGED <<adv, conns, ctl, evq>> /\ pc'["loop"] = pc["loop"]
  <2>1. pc[t] \in Commands
    BY <1>3, TaskKinds
  <2>2. ~After(t, FALSE)
    BY <1>1, <2>1, AfterFails
  <2>3. After(t, TRUE) /\ UNCHANGED <<ctl, evq>>
    BY <1>1, <1>3, <2>2, TaskKinds
  <2>4. /\ t = "host" /\ pc[t] = Startup[L] /\ pc'[t] \in {"irks", "onsync"}
        /\ UNCHANGED <<adv, conns>>
    BY <1>1, <2>1, <2>3, AfterDone
  <2>5. pc'["loop"] = pc["loop"]
    BY <2>1, <2>3, <2>4, AfterDone DEF Tasks
  <2> QED BY <2>3, <2>4, <2>5
<1>5. L \in 1..L /\ 1 < L
  BY StartupIs, StartupApart
<1>6. ctl.adv = FALSE /\ ctl.links = {} /\ NoConn(evq)
  BY <1>2, <1>4, <1>5 DEF ResetFirst, Cleared, Typed, CmdTyped, Ctls
<1>7. ~adv /\ conns = {} /\ pc["loop"] # "enable"
  <2>1. pc["host"] # "broken"
    BY <1>4, StartupApart
  <2> QED BY <2>1 DEF InSync
<1>8. Off'
  BY <1>4, <1>6, <1>7 DEF Off
<1>9. ~adv' /\ \A u \in Tasks : pc'[u] # "enable"
  BY <1>4, <1>7 DEF Tasks
<1> QED BY <1>8, <1>9 DEF InPhase, Enabling

LEMMA TaskPhase ==
    ASSUME Typed, Placed, Honest, Alone, InTurn, Undisturbed, InPhase, Undisturbed',
           NEW t \in Tasks, Send(t) \/ TakeAck(t) \/ AckTimeout(t)
    PROVE  InPhase'
<1>1. state = "good" /\ state' = "good" /\ ~Contains(evq', Resetting)
  BY DEF Undisturbed
<1>2. pc[t] \in Commands /\ evq' = evq /\ t # "none"
  BY <1>1, TaskGoes DEF Tasks
<1>3. CASE /\ hci = "none" /\ hci' = t /\ ctl' = [ctl EXCEPT !.cmds = Append(ctl.cmds, pc[t])]
           /\ UNCHANGED <<pc, state, adv, conns, ack>>
  <2>1. ctl'.adv = ctl.adv /\ ctl'.links = ctl.links
    BY <1>3 DEF Typed, CmdTyped, Ctls
  <2>2. (Off' \/ OnAir' \/ Joining' \/ Joined') /\ (Off => Off') /\ (Off' => Off)
    BY <1>2, <1>3, <2>1, PhaseStays
  <2>3. ack = NoAck
    BY <1>3 DEF InTurn
  <2>4. \A u \in Tasks : u # "none" /\ (Enabling(u)' => Enabling(u)) /\ (Asking(u) => Asking(u)')
    BY <1>3, <2>3 DEF Enabling, Asking, Tasks
  <2> QED BY <1>3, <2>2, <2>4 DEF InPhase
<1>4. CASE /\ hci = t /\ hci' = "none" /\ ack # NoAck /\ ack.op = pc[t] /\ ack' = NoAck /\ ctl' = ctl
           /\ (ack.ok /\ After(t, TRUE)) \/ (~ack.ok /\ After(t, FALSE))
  <2>u. \A u \in Tasks : u # t => pc'[u] = pc[u]
    BY <1>2, <1>4, AfterDone, AfterFails
  <2>o. UNCHANGED conns
    BY <1>2, <1>4, AfterDone, AfterFails
  <2>1. \/ pc'[t] # "enable" /\ adv' = adv
        \/ pc[t] = "params" /\ pc'[t] = "enable" /\ adv' = TRUE
    <3>1. CASE After(t, TRUE)
      <4>1. \/ (\E i \in 1..L : pc'[t] = Startup[i]) /\ adv' = adv
            \/ pc'[t] \in {"irks", "onsync", "idle", "adv"} /\ adv' = adv
            \/ pc[t] = "params" /\ pc'[t] = "enable" /\ adv' = TRUE
        BY <1>2, <3>1, AfterDone
      <4> QED BY <4>1, StartupApart
    <3>2. CASE ~ack.ok /\ After(t, FALSE)
      <4>1. pc[t] # "enable"
        BY <1>4, <3>2 DEF Honest
      <4>2. pc'[t] \in {"idle", "onsync"} /\ adv' = adv
        BY <1>2, <3>2, <4>1, AfterFails
      <4> QED BY <4>2
    <3> QED BY <1>4, <3>1, <3>2
  <2>2. CASE pc'[t] # "enable" /\ adv' = adv
    <3>1. (Off' \/ OnAir' \/ Joining' \/ Joined') /\ (Off => Off') /\ (Off' => Off)
      BY <1>2, <1>4, <2>o, <2>2, PhaseStays
    <3>2. \A u \in Tasks : (Enabling(u)' => Enabling(u)) /\ (Asking(u) => Asking(u)')
      <4> SUFFICES ASSUME NEW u \in Tasks PROVE (Enabling(u)' => Enabling(u)) /\ (Asking(u) => Asking(u)')
        OBVIOUS
      <4>1. CASE u = t
        BY <1>4, <2>2, <4>1 DEF Enabling, Asking
      <4>2. CASE u # t
        BY <1>4, <2>u, <4>2 DEF Enabling, Asking, Tasks
      <4> QED BY <4>1, <4>2
    <3> QED BY <2>2, <3>1, <3>2 DEF InPhase
  <2>3. CASE pc[t] = "params" /\ pc'[t] = "enable" /\ adv' = TRUE
    <3>1. ~adv /\ conns = {}
      BY <2>3 DEF Alone, AdvPath, AdvCommands, Tasks
    <3>2. Off
      <4>1. \A h : {h} # {}
        OBVIOUS
      <4> QED BY <3>1, <4>1 DEF InPhase, OnAir, Joining, Joined
    <3>3. Off'
      BY <1>2, <1>4, <2>o, <3>2 DEF Off
    <3>4. Asking(t)'
      BY <1>2, <1>4, <2>3 DEF Asking
    <3> QED BY <2>3, <3>3, <3>4 DEF InPhase
  <2> QED BY <2>1, <2>2, <2>3
<1> QED BY <1>1, <1>3, <1>4, TaskGoes

LEMMA HandlerPhase ==
    ASSUME Typed, Placed, Alone, Undisturbed, InPhase, Undisturbed', Handler
    PROVE  InPhase'
<1>g. /\ \A l : Goto("host", l) => pc'["host"] = l /\ pc'["loop"] = pc["loop"]
      /\ \A l : Goto("loop", l) => pc'["loop"] = l /\ pc'["host"] = pc["host"]
  BY GotoMoves
<1>q. evq \in Seq(Events)
  BY DEF Typed, QueueTyped, Room
<1>c. UNCHANGED <<hci, ack, ctl>>
  BY HandlerKeeps
<1>s. ~ResetBegins /\ ~ResetEnds
  BY DEF Undisturbed, ResetBegins, ResetEnds
<1>1. \A t \in Tasks : (Enabling(t)' <=> Enabling(t)) /\ (Asking(t)' <=> Asking(t))
  <2>1. \A t \in Tasks : pc[t] = "enable" => pc'[t] = "enable"
    <3>1. "enable" \in Commands
      BY DEF Commands, AdvCommands
    <3> QED BY <3>1, HandlerKeeps
  <2>2. \A t \in Tasks : pc'[t] = "enable" => pc[t] = "enable"
    <3>1. CASE AdvStart("host") \/ AdvStart("loop")
      BY <1>g, <3>1 DEF AdvStart, Tasks
    <3>2. CASE OnSync \/ ConnComplete \/ DisconnComplete
      BY <1>g, <3>2 DEF OnSync, ConnComplete, DisconnComplete, AdvEntry, Tasks
    <3>3. CASE TimerIdle \/ HardwareError \/ TimerExpires
      BY <3>3 DEF TimerIdle, HardwareError, TimerExpires
    <3>4. CASE Initialized \/ CreateAdvertising \/ StartAdvertising
      BY <1>g, <3>4 DEF Initialized, CreateAdvertising, StartAdvertising, AdvEntry, Tasks
    <3> QED BY <1>s, <3>1, <3>2, <3>3, <3>4 DEF Handler, Tasks
  <2> QED BY <1>c, <2>1, <2>2 DEF Enabling, Asking
<1>k. ASSUME UNCHANGED <<adv, conns>>,
             NoConn(evq) => NoConn(evq'), Met(evq, ctl.links) => Met(evq', ctl.links),
             \A h : conns = {h} /\ LinkIs(evq, ctl.links, h, 0) => LinkIs(evq', ctl.links, h, 0)
      PROVE  InPhase'
  <2>1. (Off' \/ OnAir' \/ Joining' \/ Joined') /\ (Off => Off') /\ (Off' => Off)
    BY <1>c, <1>k, PhaseStays
  <2> QED BY <1>1, <1>k, <2>1 DEF InPhase
<1>2. CASE ConnComplete
  <2>1. evq # <<>> /\ evq[1].type = "conn" /\ evq' = Tail(evq)
    BY <1>2 DEF ConnComplete, Next1
  <2>2. 1 \in DOMAIN evq /\ evq[1] \in Events
    BY <1>q, <2>1, TailIs
  <2>3. ~NoConn(evq)
    BY <2>1, <2>2 DEF NoConn
  <2>4. Joining
    BY <2>3 DEF InPhase, Off, OnAir, Joined
  <2>5. PICK h \in Handles : h = evq[1].handle
    BY <2>1, <2>2, EventKinds
  <2>6. conns' = {h} /\ adv' = FALSE
    BY <1>2, <2>4, <2>5 DEF ConnComplete, Joining
  <2>7. NoConn(evq') /\ LinkIs(evq', ctl.links, h, 0)
    BY <1>q, <2>1, <2>4, <2>5, TailLinks DEF Joining
  <2>8. Joined'
    BY <1>c, <2>4, <2>6, <2>7 DEF Joined, Joining
  <2>9. \A t \in Tasks : ~Enabling(t)
    BY <2>3 DEF InPhase, Off
  <2> QED BY <1>1, <2>6, <2>8, <2>9 DEF InPhase
<1>3. CASE DisconnComplete
  <2>1. evq # <<>> /\ evq[1].type = "disc" /\ evq' = Tail(evq) /\ adv' = adv
    BY <1>3 DEF DisconnComplete, Next1
  <2>2. 1 \in DOMAIN evq /\ evq[1] \in Events
    BY <1>q, <2>1, TailIs
  <2>3. evq[1] = Unlinked(evq[1].handle)
    BY <2>1, <2>2, EventKinds
  <2>4. NoConn(evq) => NoConn(evq')
    BY <1>q, <2>1, TailLinks
  <2>5. CASE evq[1].handle \in conns
    <3>1. Joined /\ ~adv
      BY <2>5 DEF InPhase, Off, OnAir, Joining, Alone
    <3>2. PICK h \in Handles : conns = {h} /\ LinkIs(evq, ctl.links, h, 0)
      BY <3>1 DEF Joined
    <3>3. evq[1] = Unlinked(h) /\ conns' = {}
      BY <1>3, <2>3, <2>5, <3>2 DEF DisconnComplete
    <3>4. Left(evq, h, 0)
      BY <2>2, <3>3 DEF Left
    <3>5. ctl.links = {}
      BY <3>2, <3>4 DEF LinkIs
    <3>6. Off'
      BY <1>c, <2>4, <3>1, <3>3, <3>5 DEF Off, Joined
    <3>7. \A t \in Tasks : ~Enabling(t)
      BY <3>1 DEF InPhase
    <3> QED BY <1>1, <2>1, <3>1, <3>6, <3>7 DEF InPhase
  <2>6. CASE evq[1].handle \notin conns
    <3>1. UNCHANGED conns
      BY <1>3, <2>6 DEF DisconnComplete
    <3>2. Met(evq, ctl.links) => Met(evq', ctl.links)
      BY <1>q, <2>1, TailLinks
    <3>3. \A h : conns = {h} => evq[1] # Unlinked(h)
      BY <2>6, EventsAre
    <3>4. \A h : conns = {h} /\ LinkIs(evq, ctl.links, h, 0) => LinkIs(evq', ctl.links, h, 0)
      BY <1>q, <2>1, <3>3, TailLinks
    <3> QED BY <1>k, <2>1, <2>4, <3>1, <3>2, <3>4
  <2> QED BY <2>5, <2>6
<1>4. CASE TimerIdle
  <2>1. evq # <<>> /\ evq[1].type = "timer" /\ evq' = Tail(evq) /\ UNCHANGED <<adv, conns>>
    BY <1>4 DEF TimerIdle, Next1, gap
  <2>2. \A h : evq[1] # Unlinked(h)
    BY <2>1, EventsAre
  <2> QED BY <1>k, <1>q, <2>1, <2>2, TailLinks
<1>5. CASE TimerExpires
  <2>1. evq' = evq \/ evq' = Append(evq, Expired)
    BY <1>5 DEF TimerExpires, Put
  <2>2. UNCHANGED <<adv, conns>>
    BY <1>5 DEF TimerExpires, gap
  <2>3. CASE evq' = Append(evq, Expired)
    BY <1>k, <1>q, <2>2, <2>3, AppendLinks, EventsAre
  <2> QED BY <1>k, <2>1, <2>2, <2>3
<1>6. CASE HardwareError
  <2>1. evq # <<>> /\ evq' = Put(Tail(evq), Resetting)
    BY <1>6 DEF HardwareError, Next1, ScheduleReset
  <2>2. Contains(evq', Resetting)
    BY <2>1, QueueIs, RoomPut DEF Typed, QueueTyped
  <2> QED BY <2>2 DEF Undisturbed
<1>7. CASE \/ AdvStart("host") \/ AdvStart("loop") \/ OnSync
           \/ Initialized \/ CreateAdvertising \/ StartAdvertising
  <2>1. UNCHANGED <<adv, conns, evq>>
    BY <1>7 DEF AdvStart, OnSync, Initialized, CreateAdvertising, StartAdvertising, gap
  <2> QED BY <1>k, <2>1
<1> QED BY <1>s, <1>2, <1>3, <1>4, <1>5, <1>6, <1>7 DEF Handler, Tasks

LEMMA LinkPhase ==
    ASSUME Typed, Undisturbed, InPhase, Undisturbed', Linking
    PROVE  InPhase'
<1>q. evq \in Seq(Events) /\ ctl \in Ctls
  BY DEF Typed, QueueTyped, Room, CmdTyped
<1>1. UNCHANGED <<pc, hci, ack, adv, conns>> /\ ctl'.cmds = ctl.cmds
  BY LinkingKeeps DEF gap
<1>2. \A t \in Tasks : (Enabling(t)' <=> Enabling(t)) /\ (Asking(t)' <=> Asking(t))
  BY <1>1 DEF Enabling, Asking
<1>3. CASE CtlConnects
  <2>1. PICK h \in Handles : /\ ctl' = [ctl EXCEPT !.adv = FALSE, !.links = ctl.links \cup {h}]
                             /\ evq' = Append(evq, Linked(h)) /\ ctl.adv
    BY <1>3 DEF CtlConnects
  <2>2. OnAir
    BY <2>1 DEF InPhase, Off, Joining, Joined
  <2>3. ctl'.adv = FALSE /\ ctl'.links = {h}
    <3>1. ctl'.adv = FALSE /\ ctl'.links = ctl.links \cup {h}
      BY <1>q, <2>1 DEF Ctls
    <3> QED BY <2>2, <3>1 DEF OnAir
  <2>4. Met(evq', {h})
    BY <1>q, <2>1, <2>2, AppendLinks, EventsAre DEF OnAir
  <2>5. Joining'
    BY <1>1, <2>2, <2>3, <2>4 DEF Joining, OnAir
  <2>6. \A t \in Tasks : ~Enabling(t)
    BY <2>2, PhasesApart DEF InPhase
  <2> QED BY <1>2, <2>5, <2>6, PhasesApart DEF InPhase
<1>4. CASE CtlDisconnects
  <2>1. PICK h \in ctl.links : /\ ctl' = [ctl EXCEPT !.links = ctl.links \ {h}]
                               /\ evq' = Append(evq, Unlinked(h))
    BY <1>4 DEF CtlDisconnects
  <2>2. h \in Handles /\ Unlinked(h) \in Events /\ Unlinked(h).type = "disc"
    BY <1>q, EventsAre DEF Ctls
  <2>3. ctl'.adv = ctl.adv /\ ctl'.links = ctl.links \ {h}
    BY <1>q, <2>1 DEF Ctls
  <2>4. Joining => Joining'
    <3>1. Met(evq, ctl.links) => Met(evq', ctl.links \ {h})
      BY <1>q, <2>1, <2>2, AppendLinks
    <3> QED BY <1>1, <2>3, <3>1 DEF Joining
  <2>5. Joined => Joined'
    <3>1. NoConn(evq) => NoConn(evq')
      BY <1>q, <2>1, <2>2, AppendLinks
    <3>2. \A k : LinkIs(evq, ctl.links, k, 0) => LinkIs(evq', ctl.links \ {h}, k, 0)
      BY <1>q, <2>1, <2>2, AppendLinks
    <3> QED BY <1>1, <2>3, <3>1, <3>2 DEF Joined
  <2>6. ~Off /\ ~OnAir
    BY <2>1 DEF Off, OnAir
  <2>7. \A t \in Tasks : ~Enabling(t)
    BY <2>6 DEF InPhase
  <2> QED BY <1>2, <2>4, <2>5, <2>6, <2>7, PhasesApart DEF InPhase
<1>5. CASE CtlFails
  <2>1. evq' = Append(evq, HwError) /\ ctl' = ctl
    BY <1>5 DEF CtlFails
  <2>2. (Off' \/ OnAir' \/ Joining' \/ Joined') /\ (Off => Off') /\ (Off' => Off)
    <3>1. /\ NoConn(evq) => NoConn(evq')
          /\ Met(evq, ctl.links) => Met(evq', ctl.links)
          /\ \A h : LinkIs(evq, ctl.links, h, 0) => LinkIs(evq', ctl.links, h, 0)
      BY <1>q, <2>1, AppendLinks, EventsAre
    <3> QED BY <1>1, <2>1, <3>1, PhaseStays
  <2> QED BY <1>1, <1>2, <2>2 DEF InPhase
<1> QED BY <1>3, <1>4, <1>5 DEF Linking

LEMMA CtlPhase ==
    ASSUME Typed, Settled, Alone, InTurn, Undisturbed, InPhase, CtlExecutes \/ CtlRefuses \/ CtlLoses
    PROVE  InPhase'
<1>1. /\ UNCHANGED <<pc, evq, hci, adv, conns>> /\ ctl.cmds # <<>> /\ ctl'.cmds = Tail(ctl.cmds)
  BY TakesCommand DEF gap
<1>2. hci # "none" /\ ctl.cmds = <<pc[hci]>> /\ ack = NoAck
  BY <1>1 DEF InTurn
<1>3. ctl.cmds[1] = pc[hci] /\ ctl'.cmds = <<>> /\ 1 \in DOMAIN ctl.cmds /\ hci \in Tasks
  BY <1>1, <1>2 DEF Typed, CmdTyped
<1>4. ctl.cmds[1] \notin StartupCommands
  BY <1>3 DEF Settled, Undisturbed
<1>5. ctl.cmds[1] # "reset"
  BY <1>4, StartupIs
<1>6. \A t \in Tasks : Enabling(t)' => Enabling(t) /\ t # hci
  BY <1>1, <1>3 DEF Enabling
<1>7. \/ /\ ctl'.adv = ctl.adv /\ ctl'.links = ctl.links
         /\ ~CtlExecutes \/ ctl.cmds[1] # "enable"
      \/ ctl.cmds[1] = "enable" /\ ctl'.adv = TRUE /\ ctl'.links = ctl.links
  BY <1>5, CtlLinks
<1>8. ack' = ack \/ CtlExecutes
  BY <1>4, CtlLinks
<1>9. CASE /\ ctl'.adv = ctl.adv /\ ctl'.links = ctl.links
           /\ ~CtlExecutes \/ ctl.cmds[1] # "enable"
  <2>1. (Off' \/ OnAir' \/ Joining' \/ Joined') /\ (Off => Off') /\ (Off' => Off)
    BY <1>1, <1>9, PhaseStays
  <2>2. \A t \in Tasks : Asking(t) => Asking(t)'
    BY <1>1, <1>2, <1>3, <1>8, <1>9 DEF Asking
  <2> QED BY <1>1, <1>6, <2>1, <2>2 DEF InPhase
<1>10. CASE ctl.cmds[1] = "enable" /\ ctl'.adv = TRUE /\ ctl'.links = ctl.links
  <2>1. Enabling(hci)
    BY <1>1, <1>3, <1>10 DEF Enabling
  <2>2. Off /\ adv
    BY <1>3, <2>1 DEF InPhase
  <2>3. OnAir'
    BY <1>1, <1>10, <2>2 DEF OnAir, Off
  <2>4. \A t \in Tasks : t # hci => pc[t] # "enable"
    BY <1>3, <1>10 DEF Alone, AdvPath, AdvCommands, Tasks
  <2>5. \A t \in Tasks : ~Enabling(t)'
    BY <1>6, <2>4 DEF Enabling
  <2> QED BY <2>3, <2>5, PhasesApart DEF InPhase
<1> QED BY <1>7, <1>9, <1>10

LEMMA PhasesStep ==
    /\ Typed /\ Placed /\ Started /\ InSync /\ Settled /\ ResetFirst /\ Honest /\ Solo
    /\ InTurn /\ Phases /\ [Next]_vars
    => Phases'
<1> SUFFICES ASSUME Typed, Placed, Started, InSync, Settled, ResetFirst, Honest, Solo,
                    InTurn, Phases, [Next]_vars, Undisturbed'
             PROVE  InPhase'
  BY DEF Phases
<1>1. CASE state # "good"
  BY <1>1, SyncPhase
<1>2. CASE state = "good"
  <2>1. Undisturbed /\ InPhase /\ Alone
    BY <1>2, UndisturbedBefore DEF Phases, Solo, Undisturbed
  <2>2. ASSUME NEW t \in Tasks, Send(t) \/ TakeAck(t) \/ AckTimeout(t) PROVE InPhase'
    BY <2>1, <2>2, TaskPhase
  <2>3. CASE Handler
    BY <2>1, <2>3, HandlerPhase
  <2>4. CASE Linking
    BY <2>1, <2>4, LinkPhase
  <2>5. CASE CtlExecutes \/ CtlRefuses \/ CtlLoses
    BY <2>1, <2>5, CtlPhase
  <2>6. CASE UNCHANGED vars
    BY <2>1, <2>6 DEF vars, gap, InPhase, Off, OnAir, Joining, Joined, Enabling, Asking
  <2> QED BY <2>2, <2>3, <2>4, <2>5, <2>6, NextKinds
<1> QED BY <1>1, <1>2

\* What makes the host and the controller agree, together.
Tracks == Advertises /\ ResetFirst /\ Honest /\ Solo /\ InTurn /\ Phases

LEMMA TracksHolds == Spec => []Tracks
<1>1. Init => ResetFirst /\ Honest /\ Solo /\ InTurn /\ Phases
  <2> SUFFICES ASSUME Init PROVE ResetFirst /\ Honest /\ Solo /\ InTurn /\ Phases
    OBVIOUS
  <2>1. /\ pc["host"] = "reset" /\ pc["loop"] = "init" /\ state = "bringup" /\ ack = NoAck
        /\ ~adv /\ conns = {} /\ ~connected /\ ctl.cmds = <<>>
    BY DEF Init
  <2>2. ~Undisturbed
    BY <2>1 DEF Undisturbed
  <2>3. \A i \in 1..L : 1 < i => Startup[i] # "reset"
    <3> SUFFICES ASSUME NEW i \in 1..L, 1 < i PROVE Startup[i] # "reset"
      OBVIOUS
    <3>1. i # 1
      OBVIOUS
    <3> QED BY <3>1, StartupIs, StartupApart
  <2>4. ResetFirst
    BY <2>1, <2>3 DEF ResetFirst, NoAck
  <2>5. Honest
    BY <2>1 DEF Honest, NoAck
  <2>6. Solo
    BY <2>1 DEF Solo, Alone, AdvPath, AdvCommands
  <2> QED BY <2>2, <2>4, <2>5, <2>6 DEF InTurn, Phases
<1>2. Tracks /\ [Next]_vars => /\ ResetFirst' /\ Honest' /\ Solo' /\ InTurn' /\ Phases'
  BY ResetFirstStep, HonestStep, SoloStep, InTurnStep, PhasesStep DEF Tracks, Advertises, Synchronises
<1> QED BY <1>1, <1>2, AdvertisesHolds, PTL DEF Spec, Tracks

\* Whatever was lost, late or reset on the way: when all is quiet, host and controller
\* agree on the advertising and the links, and the firmware knows of the connection.
THEOREM HostAndControllerAgree == Spec => []Agree
<1>1. Tracks => Agree
  <2> SUFFICES ASSUME Tracks, Quiet, state = "good", ~crossed, ~early
               PROVE  adv = ctl.adv /\ conns = ctl.links /\ (connected <=> conns # {})
    BY DEF Agree
  <2>1. ~Contains(evq, Resetting)
    <3>1. evq \in Seq(Events) /\ DOMAIN evq = {}
      BY DEF Tracks, Advertises, Synchronises, Typed, QueueTyped, Room, Quiet
    <3> QED BY <3>1, ContainsIs
  <2>2. InPhase /\ Alone /\ Typed
    BY <2>1 DEF Tracks, Phases, Solo, Undisturbed, Advertises, Synchronises
  <2>3. \A t \in Tasks : pc[t] # "enable"
    BY DEF Quiet, Tasks
  <2>4. ~(Off /\ adv)
    BY <2>2, <2>3 DEF InPhase, Asking
  <2>5. ~Joining
    BY DEF Joining, Met, Quiet
  <2>6. \A h : ~Left(evq, h, 0)
    BY DEF Left, Quiet
  <2>7. adv \in BOOLEAN /\ ctl.adv \in BOOLEAN
    BY <2>2 DEF Typed, AppTyped, CmdTyped, Ctls
  <2>8. CASE Off
    BY <2>2, <2>4, <2>7, <2>8 DEF Off, Alone
  <2>9. CASE OnAir
    BY <2>2, <2>7, <2>9 DEF OnAir, Alone
  <2>10. CASE Joined
    <3>1. PICK h \in Handles : conns = {h} /\ ctl.links = {h} /\ ~ctl.adv
      BY <2>6, <2>10 DEF Joined, LinkIs
    <3> QED BY <2>2, <2>7, <3>1 DEF Alone
  <2> QED BY <2>2, <2>5, <2>8, <2>9, <2>10 DEF InPhase
<1> QED BY <1>1, TracksHolds, PTL
=============================================================================
