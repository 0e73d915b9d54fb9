------------------------------ MODULE UartLink ------------------------------
(***************************************************************************)
(* The serial link between the controller (callbacks.c) and the firmware   *)
(* (firmware.ino), with the USB cable between them.                        *)
(*                                                                         *)
(* The controller writes a header byte, then the argument bytes, then      *)
(* waits half a second for one answer byte.  A failed write closes the     *)
(* device and looks for one that answers PING on every port; the command   *)
(* is forgotten.  A missing answer is only noted as "not connected".  The  *)
(* firmware waits for bytes without a timeout and has no way to tell where *)
(* a command starts but to count arguments.                                *)
(*                                                                         *)
(* What a handler does to the HID reports is module BleHid; here a handler *)
(* only chooses its answer.  Bytes on the wire carry their position in the *)
(* controller's command and answers the command they belong to: the code   *)
(* has neither, only the properties look at them.                          *)
(***************************************************************************)
EXTENDS BtProtocol, Integers, Sequences

CONSTANTS
    Commands,   \* the commands the user's events lead to, as byte sequences
    NDev,       \* the ports discover() tries: 10 in the code
    DownCap,    \* bytes the way to the firmware buffers before write() blocks
    UpCap,      \* bytes the way back buffers before the firmware drops one
    MaxFaults   \* bound on the faults of a behaviour

Close == <<HDR_CLOSE>>
Ping  == <<HDR_PING>>

ASSUME CommandsAssumption ==
    /\ Commands \subseteq Seq(Byte)
    /\ Close \in Commands
    /\ \A f \in Commands : /\ Len(f) > 0
                           /\ IsCommand(f[1]) /\ f[1] # HDR_PING
                           /\ Len(f) = 1 + NArgs(f[1])
ASSUME BoundsAssumption ==
    /\ NDev \in Nat /\ MaxFaults \in Nat
    /\ UpCap \in Nat \ {0}
    /\ DownCap \in Nat /\ DownCap > 3

None  == -1
Ports == 0..NDev-1

VARIABLES
    pc,         \* where the controller is
    fd,         \* uart->fd, as the port it was opened on
    port,       \* the loop counter of discover()
    connected,  \* uart->connected
    cur,        \* the command being sent
    quitting,   \* be_destroy() was called
    live,       \* the file the controller has open still leads to the device
    attached,   \* the port the device is plugged in to
    down, up,   \* bytes on their way to the firmware and back
    taken,      \* the bytes of the command the firmware is reading
    cut,        \* history: a command was left without its last bytes
    late,       \* history: the controller stopped waiting for a coming answer
    faults      \* history: how many faults there were

controller == <<pc, fd, port, connected, cur, quitting>>
firmware   == <<taken>>
history    == <<cut, late, faults>>
vars       == <<controller, live, attached, down, up, taken, history>>

\* The j-th byte of the command f on the wire, and the byte itself.
WireByte(f, j) == [of |-> f, part |-> j]
Val(b)  == b.of[b.part]
Vals(t) == [j \in DOMAIN t |-> Val(t[j])]

\* Mutant of Complete: move() reads one argument.
Complete_OneArg(t) ==
    t # <<>> /\ Len(t) = 1 + (IF NArgs(Val(t[1])) = 0 THEN 0 ELSE 1)

\* The firmware has read the header and all arguments of a command.
Complete(t) == t # <<>> /\ Len(t) = 1 + NArgs(Val(t[1]))

\* The firmware waits for a byte, and none is coming.
Starved(t, d) == d = <<>> /\ ~Complete(t)

\* The last byte in the pipe is not the last one of its command.
IsLast(b) == b.part = Len(b.of)
Unfinished(t, d) ==
    \/ d # <<>> /\ ~IsLast(d[Len(d)])
    \/ d = <<>> /\ t # <<>> /\ ~IsLast(t[Len(t)])

Prefixes(s) == {SubSeq(s, 1, n) : n \in 0..Len(s)}
Suffixes(s) == {SubSeq(s, n, Len(s)) : n \in 1..Len(s)+1}

Fault == faults < MaxFaults /\ faults' = faults + 1

-----------------------------------------------------------------------------
\* The bytes of the controller's commands, and the answers to them.
WireBytes == {b \in [of : Commands \cup {Ping}, part : 1..3] : b.part <= Len(b.of)}
Replies   == [val : {RESP_EINVAL_KEY, RESP_EINVAL_CMD, RESP_ENOCON, RESP_OK, RESP_MAGIC},
              to : Seq(Byte)]

TypeOK ==
    /\ pc \in {"off", "idle", "data", "read", "scan", "ping"}
    /\ fd \in Ports \cup {None}
    /\ port \in 0..NDev
    /\ connected \in BOOLEAN
    /\ cur \in Commands
    /\ quitting \in BOOLEAN
    /\ live \in BOOLEAN
    /\ attached \in Ports \cup {None}
    /\ down \in Seq(WireBytes) /\ Len(down) <= DownCap
    /\ up \in Seq(Replies) /\ Len(up) <= UpCap
    /\ taken \in Seq(WireBytes) /\ Len(taken) <= 3
    /\ cut \in BOOLEAN /\ late \in BOOLEAN
    /\ faults \in 0..MaxFaults

Init ==
    /\ pc = "off" /\ fd = None /\ port = 0 /\ connected = FALSE
    /\ cur = Close /\ quitting = FALSE
    /\ live = FALSE /\ attached = None
    /\ down = <<>> /\ up = <<>> /\ taken = <<>>
    /\ cut = FALSE /\ late = FALSE /\ faults = 0

-----------------------------------------------------------------------------
(* The controller: uart_t and the functions of callbacks.c.                *)

\* send_cmd() or discover() returns to the event loop, or to be_destroy(),
\* which closes the file and ends the program.  f is the file uart->fd.  What
\* was read from the device into the closed file is gone, the rest stays.
Done(f, u) ==
    /\ pc' = IF quitting THEN "off" ELSE "idle"
    /\ fd' = IF quitting THEN None ELSE f
    /\ live' = (live /\ f # None /\ ~quitting)
    /\ IF quitting THEN up' \in Suffixes(u) ELSE up' = u

\* Mutant of Reinit: the device is looked for at the start only.
Reinit_NoSearch ==
    /\ pc' = "idle"
    /\ fd' = None /\ live' = FALSE /\ connected' = FALSE
    /\ UNCHANGED <<port, down>>

\* reinit(), from a failed write: the file is dead or was never open.
Reinit ==
    /\ pc' = "scan" /\ port' = 0
    /\ fd' = None /\ live' = FALSE
    /\ connected' = FALSE
    /\ UNCHANGED down

\* trywrite() of the bytes bs, with p the place that follows a success.
TryWrite(bs, p) ==
    \/ /\ fd # None /\ live
       /\ Len(down) + Len(bs) <= DownCap
       /\ down' = down \o bs
       /\ pc' = p
       /\ UNCHANGED <<fd, port, connected, live>>
    \/ /\ fd = None \/ ~live
       /\ Reinit

\* send_cmd() up to the header: be_key(), be_button(), be_move(), be_stop().
SendHeader(f) ==
    /\ pc = "idle"
    /\ cur' = f
    /\ TryWrite(<<WireByte(f, 1)>>, IF Len(f) > 1 THEN "data" ELSE "read")
    /\ UNCHANGED <<attached, up, taken, history>>

Command ==
    /\ \E f \in Commands : SendHeader(f)
    /\ UNCHANGED quitting

\* be_destroy(): stop the backend if there is one, then close the file.
Quit ==
    /\ Fault
    /\ \/ /\ pc = "idle" /\ fd = None
          /\ pc' = "off"
          /\ UNCHANGED <<fd, port, connected, cur, quitting, live, down>>
       \/ /\ pc = "idle" /\ fd # None
          /\ cur' = Close
          /\ quitting' = TRUE
          /\ TryWrite(<<WireByte(Close, 1)>>, "read")
    /\ UNCHANGED <<attached, up, taken, cut, late>>

\* Mutant of SendData: the answer is not waited for.
SendData_NoWait ==
    /\ pc = "data"
    /\ TryWrite([j \in 1..Len(cur)-1 |-> WireByte(cur, j + 1)], "idle")
    /\ UNCHANGED <<cur, quitting, attached, up, taken, history>>

\* send_cmd(): the arguments.
SendData ==
    /\ pc = "data"
    /\ TryWrite([j \in 1..Len(cur)-1 |-> WireByte(cur, j + 1)], "read")
    /\ UNCHANGED <<cur, quitting, attached, up, taken, history>>

\* send_cmd(): whatever byte comes first is the answer.
ReadResponse ==
    /\ pc = "read" /\ live /\ up # <<>>
    /\ connected' = (Head(up).val # RESP_ENOCON)
    /\ Done(fd, Tail(up))
    /\ UNCHANGED <<port, cur, quitting, attached, down, taken, history>>

\* read() gives up on a dead file, on an answer that will not come, or on one
\* that comes later.
NoAnswer ==
    \/ ~live /\ UNCHANGED history
    \/ live /\ up = <<>> /\ Starved(taken, down) /\ UNCHANGED history
    \/ /\ live /\ up = <<>> /\ ~Starved(taken, down)
       /\ Fault
       /\ late' = TRUE
       /\ UNCHANGED cut

\* Mutant of ReadTimeout: the status line keeps what it says.
ReadTimeout_Silent ==
    /\ pc = "read"
    /\ NoAnswer
    /\ Done(fd, up)
    /\ UNCHANGED <<connected, port, cur, quitting, attached, down, taken>>

\* send_cmd(): resp keeps its initial value RESP_ENOCON.
ReadTimeout ==
    /\ pc = "read"
    /\ NoAnswer
    /\ connected' = FALSE
    /\ Done(fd, up)
    /\ UNCHANGED <<port, cur, quitting, attached, down, taken>>

\* main() starts the backend: backend_create_uart() calls reinit().
Start ==
    /\ pc = "off"
    /\ quitting' = FALSE
    /\ Reinit
    /\ UNCHANGED <<cur, attached, up, taken, history>>

\* Mutant of SkipPort: one port too many is tried.
SkipPort_OneMore ==
    /\ pc = "scan" /\ port <= NDev /\ port # attached
    /\ port' = port + 1
    /\ UNCHANGED <<pc, fd, connected, cur, quitting, live, attached, down, up, taken,
                   history>>

\* discover(): this port cannot be opened or configured, or what is plugged in
\* there is not our device.  A device that is there fails only by a fault.
SkipPort ==
    /\ pc = "scan" /\ port < NDev
    /\ IF port = attached THEN Fault ELSE UNCHANGED faults
    /\ port' = port + 1
    /\ UNCHANGED <<pc, fd, connected, cur, quitting, live, attached, down, up, taken,
                   cut, late>>

\* discover(): the device is opened and PING written to it.
SendPing ==
    /\ pc = "scan" /\ port = attached
    /\ Len(down) < DownCap
    /\ live' = TRUE
    /\ down' = Append(down, WireByte(Ping, 1))
    /\ pc' = "ping"
    /\ UNCHANGED <<fd, port, connected, cur, quitting, attached, up, taken, history>>

\* discover(): the first byte that comes is MAGIC, and the search ends.
Found ==
    /\ pc = "ping" /\ live /\ up # <<>>
    /\ Head(up).val = RESP_MAGIC
    /\ Done(port, Tail(up))
    /\ UNCHANGED <<port, connected, cur, quitting, attached, down, taken, history>>

\* discover(): another answer or none; the file is closed.
NextPort(u) ==
    /\ pc' = "scan" /\ port' = port + 1
    /\ live' = FALSE
    /\ up' \in Suffixes(u)
    /\ UNCHANGED <<fd, connected, cur, quitting, attached, down, taken>>

WrongAnswer ==
    /\ pc = "ping" /\ live /\ up # <<>>
    /\ Head(up).val # RESP_MAGIC
    /\ NextPort(Tail(up))
    /\ UNCHANGED history

\* Mutant of PingTimeout: a device that says nothing is good enough.
PingTimeout_Accepts ==
    /\ pc = "ping" /\ NoAnswer
    /\ Done(port, up)
    /\ UNCHANGED <<port, connected, cur, quitting, attached, down, taken>>

PingTimeout ==
    /\ pc = "ping"
    /\ NoAnswer
    /\ NextPort(up)

\* discover(): no port is left.
NotFound ==
    /\ pc = "scan" /\ port = NDev
    /\ Done(None, up)
    /\ UNCHANGED <<port, connected, cur, quitting, attached, down, taken, history>>

-----------------------------------------------------------------------------
(* The firmware: loop(), read() and write() of firmware.ino.               *)

FwRead ==
    /\ ~Complete(taken) /\ down # <<>>
    /\ taken' = Append(taken, Head(down))
    /\ down' = Tail(down)
    /\ UNCHANGED <<controller, live, attached, up, history>>

\* Mutant of FwAnswer: the handler answers, and loop() answers again.
FwAnswer_Twice ==
    /\ Complete(taken)
    /\ \E a \in Answers(Val(taken[1])) :
          up' = up \o [j \in 1..2 |-> [val |-> a, to |-> Vals(taken)]]
    /\ taken' = <<>>
    /\ UNCHANGED <<controller, live, attached, down, history>>

\* The handler runs and answers; write() does not wait for room.
FwAnswer ==
    /\ Complete(taken)
    /\ \E a \in Answers(Val(taken[1])) :
          up' = IF Len(up) < UpCap THEN Append(up, [val |-> a, to |-> Vals(taken)]) ELSE up
    /\ taken' = <<>>
    /\ UNCHANGED <<controller, live, attached, down, history>>

-----------------------------------------------------------------------------
(* The surroundings: the kernel, the cable and the power supply.           *)

\* The controller is killed; the kernel closes its file.
Crash ==
    /\ pc # "off" /\ Fault
    /\ pc' = "off" /\ fd' = None /\ live' = FALSE
    /\ up' \in Suffixes(up)
    /\ late' = (late \/ up' # <<>> \/ ~Starved(taken, down))
    /\ cut' = (cut \/ Unfinished(taken, down))
    /\ UNCHANGED <<port, connected, cur, quitting, attached, down, taken>>

\* The device leaves the bus but keeps its power.  Bytes that are not yet in
\* the device, or no longer in it, are lost.
Unplug ==
    /\ attached # None /\ Fault
    /\ attached' = None /\ live' = FALSE
    /\ down' \in Prefixes(down)
    /\ up' \in Suffixes(up)
    /\ late' = (late \/ up' # <<>> \/ ~Starved(taken, down'))
    /\ cut' = (cut \/ Unfinished(taken, down'))
    /\ UNCHANGED <<controller, taken>>

\* The device loses power or is reset.
PowerCycle ==
    /\ Fault
    /\ attached' = None /\ live' = FALSE
    /\ down' = <<>> /\ up' = <<>> /\ taken' = <<>>
    /\ cut' = FALSE /\ late' = FALSE
    /\ UNCHANGED controller

Plug ==
    /\ attached = None
    /\ attached' \in Ports
    /\ UNCHANGED <<controller, live, down, up, taken, history>>

-----------------------------------------------------------------------------
Discover   == SkipPort \/ SendPing \/ Found \/ WrongAnswer \/ PingTimeout \/ NotFound
Controller == SendData \/ ReadResponse \/ ReadTimeout \/ Discover
Firmware   == FwRead \/ FwAnswer
Faults     == Quit \/ Crash \/ Unplug \/ PowerCycle

Next == Command \/ Start \/ Controller \/ Firmware \/ Plug \/ Faults

Spec == Init /\ [][Next]_vars

\* The program and the firmware run, the user plugs the device in, starts the
\* program and goes on using it.
FairSpec ==
    Spec /\ WF_vars(Controller) /\ WF_vars(Firmware)
         /\ WF_vars(Command) /\ WF_vars(Start) /\ WF_vars(Plug)

-----------------------------------------------------------------------------
(* Properties.                                                             *)

\* As long as no command lost its last bytes, the firmware counts arguments
\* right: the i-th byte of the command it reads is the i-th byte of a command
\* the controller sent.  Answers that come too late, answers taken for those
\* of another command, dropped answers, lost commands and restarts of the
\* controller do not change that.
FramingNeedsNoAnswers ==
    ~cut => \A i \in DOMAIN taken : taken[i].part = i

\* As long as the controller waited for every answer that was to come, the
\* only foreign bytes the firmware takes for arguments are PINGs: what a
\* command cut short can do is press or release button 1, scroll or move by
\* one, or name a key that is none.
OnlyPingsSwallowed ==
    ~late => \A i \in DOMAIN taken : taken[i].part # i => Val(taken[i]) = HDR_PING

\* ... and then a device discover() has accepted is in step again, also after
\* commands cut short: between commands nothing is under way and the firmware
\* waits for a header.
Lockstep ==
    ~late /\ pc = "idle" /\ live => down = <<>> /\ up = <<>> /\ taken = <<>>

\* ... and every answer send_cmd() reads, and with it the status line, is the
\* answer to the command it has just sent.
AnswersInStep ==
    ~late /\ pc = "read" /\ live /\ up # <<>> => Len(up) = 1 /\ up[1].to = cur

\* When the faults are over, the controller ends up with the device open,
\* whatever is left in the buffers: each command of the user makes it look
\* again.
Recovers == <>[](fd # None /\ live)
=============================================================================
