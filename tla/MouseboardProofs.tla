-------------------------- MODULE MouseboardProofs --------------------------
(* Proofs about Mouseboard: the composition of UartLink and BleHid, for    *)
(* any commands, keys, slots, room in the pipes and number of faults, and   *)
(* about KeyMap, whose tables stand behind the constants Keys, UsageOf and  *)
(* ModsOf.                                                                 *)
EXTENDS Mouseboard, UartLinkProofs, KeyTables

\* BleHid with its proofs, as Mouseboard composes it.
HP == INSTANCE BleHidProofs WITH pc <- task

-----------------------------------------------------------------------------
(* The inductive invariant.                                                *)

\* The headers whose handlers ask for the BLE link or change the reports.
HasHandler(h) == IsCommand(h) /\ h # HDR_PING

\* The handler the header h selects, by the name BleHid has for it.
CmdOf(h) ==
    CASE h = HDR_CLOSE          -> "CLOSE"
      [] h = HDR_KEY_PRESS      -> "KEY_PRESS"
      [] h = HDR_KEY_RELEASE    -> "KEY_RELEASE"
      [] h = HDR_BUTTON_PRESS   -> "BUTTON_PRESS"
      [] h = HDR_BUTTON_RELEASE -> "BUTTON_RELEASE"
      [] OTHER                  -> "MOTION"

\* The firmware's reports no longer hold what the release v names.
Lifted(v) ==
    /\ v[1] = HDR_KEY_RELEASE =>
        /\ v[2] \in Keys
        /\ UsageOf[v[2]] # 0 => UsageOf[v[2]] \notin Hid!Used
        /\ ModsOf[v[2]] \cap modifiers = {}
    /\ v[1] = HDR_BUTTON_RELEASE =>
        /\ v[2] \in DOMAIN Hid!mouse_buttons
        /\ Hid!mouse_buttons[v[2]] \cap buttons = {}

\* The handler of the command v ran, or runs and has asked for the BLE link.
Handled(v) ==
    /\ cmd = CmdOf(v[1])
    /\ task = "idle" => resp \in Answers(v[1])
    /\ wasUp \/ v[1] = HDR_CLOSE \/ (task = "idle" /\ resp = "ENOCON")
    /\ task = "idle" /\ resp = "EINVAL_KEY" =>
        /\ v[1] \in {HDR_KEY_PRESS, HDR_KEY_RELEASE} => v[2] \notin Keys
        /\ v[1] \in {HDR_BUTTON_PRESS, HDR_BUTTON_RELEASE} => v[2] \notin DOMAIN Hid!mouse_buttons
    /\ task # "idle" \/ resp = "OK" => Lifted(v)

\* A handler runs only for a complete command, and only then.
Running ==
    /\ running => /\ Complete(taken)
                  /\ IF HasHandler(Val(taken[1])) THEN Handled(Vals(taken)) ELSE task = "idle"
    /\ ~running => task = "idle"

\* The answer that waits for send_cmd() is what the handler of its command
\* returned, and no other handler ran since.
AnswerWaits ==
    ~late /\ pc = "read" /\ live /\ up # <<>> => up[1].val = resp /\ Handled(cur)

\* The status line.
Status ==
    /\ pc \in {"scan", "ping"} => ~connected
    /\ ~late /\ pc = "idle" /\ live /\ connected => wasUp \/ cur = Close

\* What the reports hold is held by the user or excused, and what is about to
\* be pressed too.
Accounted ==
    /\ StuckIsTold
    /\ ~late /\ live /\ pc \in {"data", "read"} /\ IsPress(cur) => cur \in Excused

-----------------------------------------------------------------------------
(* The two halves.                                                         *)

\* The bytes of a complete command.
LEMMA CommandIs ==
  ASSUME Typed, Complete(taken)
  PROVE  /\ Vals(taken)[1] = Val(taken[1]) /\ Val(taken[1]) \in Byte
         /\ Len(taken) = 1 + NArgs(Val(taken[1]))
         /\ \A i \in 1..Len(taken) : Vals(taken)[i] = Val(taken[i])
         /\ DOMAIN taken = 1..Len(taken)
<1>1. taken \in Seq(WireBytes) /\ taken # <<>>
  BY Pipes DEF Complete
<1>2. Len(taken) \in Nat \ {0} /\ DOMAIN taken = 1..Len(taken) /\ 1 \in 1..Len(taken)
  BY <1>1, EmptySeq
<1>3. \A i \in 1..Len(taken) : Vals(taken)[i] = Val(taken[i])
  BY <1>2 DEF Vals
<1>4. taken[1] \in WireBytes
  BY <1>1, <1>2, ElementOfSeq
<1> QED
  BY <1>2, <1>3, <1>4, WireBytesAre DEF Complete

LEMMA AnswerIs ==
  ASSUME Typed, Running, running, task = "idle"
  PROVE  /\ Complete(taken) /\ Answer \in Answers(Val(taken[1]))
         /\ HasHandler(Val(taken[1])) => Answer = resp /\ Handled(Vals(taken))
<1>1. Complete(taken)
  BY DEF Running
<1>2. CASE HasHandler(Val(taken[1]))
  <2>1. Handled(Vals(taken)) /\ Answer = resp
    BY <1>2 DEF Running, HasHandler, Answer
  <2> QED
    BY <1>1, <2>1, CommandIs DEF Handled
<1>3. CASE ~HasHandler(Val(taken[1]))
  <2>1. IsCommand(HDR_PING)
    BY DEF IsCommand, HDR_PING, HDR_MAX
  <2>2. CASE ~IsCommand(Val(taken[1]))
    <3>1. Answer = RESP_EINVAL_CMD
      BY <2>1, <2>2, Zenon DEF Answer
    <3> QED
      BY <1>1, <1>3, <2>2, <3>1 DEF Answers
  <2>3. CASE Val(taken[1]) = HDR_PING
    <3>1. Answer = RESP_MAGIC
      BY <2>1, <2>3 DEF Answer
    <3> QED
      BY <1>1, <1>3, <2>1, <2>3, <3>1 DEF Answers
  <2> QED
    BY <1>3, <2>2, <2>3 DEF HasHandler
<1> QED
  BY <1>1, <1>2, <1>3

LEMMA LinkStep == Typed /\ Running /\ [BoardNext]_board => [Next]_vars
<1> SUFFICES ASSUME Typed, Running, [BoardNext]_board PROVE [Next]_vars
  OBVIOUS
<1>1. CASE UserCommand
  BY <1>1 DEF UserCommand, Next
<1>2. CASE ReleaseElsewhere
  BY <1>2 DEF ReleaseElsewhere
<1>3. CASE ControllerStep
  BY <1>3 DEF ControllerStep, Next, Controller, Faults
<1>4. CASE FwByte
  BY <1>4 DEF FwByte, Next, Firmware
<1>5. CASE FwHandle
  BY <1>5 DEF FwHandle
<1>6. CASE FwSend
  BY <1>6 DEF FwSend
<1>7. CASE FwReply
  <2>1. Complete(taken) /\ Answer \in Answers(Val(taken[1]))
    BY <1>7, AnswerIs DEF FwReply
  <2>2. FwAnswer
    BY <1>7, <2>1 DEF FwReply, FwAnswer
  <2> QED
    BY <2>2 DEF Next, Firmware
<1>8. CASE BleLink
  BY <1>8 DEF BleLink
<1>9. CASE Cable
  BY <1>9 DEF Cable, Next, Faults
<1>10. CASE PowerLost
  BY <1>10 DEF PowerLost, Next, Faults
<1>11. CASE UNCHANGED board
  BY <1>11 DEF board
<1> QED
  BY <1>1, <1>2, <1>3, <1>4, <1>5, <1>6, <1>7, <1>8, <1>9, <1>10, <1>11 DEF BoardNext

\* Which byte arrives as the number of a button.
LEMMA ArgumentIs ==
  ASSUME Typed, NEW i \in 1..Len(taken)
  PROVE  Val(taken[i]) \in ButtonArgs
<1>1. taken[i] \in WireBytes
  BY Pipes, ElementOfSeq
<1> PICK f \in Sent : f = taken[i].of
  BY <1>1, WireBytesAre
<1> PICK j \in 1..Len(f) : j = taken[i].part
  BY <1>1, WireBytesAre
<1>2. Val(taken[i]) = f[j]
  BY DEF Val
<1>3. CASE f \in Commands
  <2>1. f \in Seq(Byte)
    BY SentIs
  <2>2. j \in DOMAIN f
    BY <2>1
  <2> QED
    BY <1>2, <1>3, <2>2, ButtonArgsAssumption
<1>4. CASE f = Ping
  <2>1. Len(f) = 1 /\ f[1] = HDR_PING
    BY <1>4 DEF Ping
  <2>2. j = 1
    BY <2>1
  <2> QED
    BY <1>2, <2>1, <2>2, ButtonArgsAssumption
<1> QED
  BY <1>3, <1>4 DEF Sent

LEMMA HandleIs ==
  ASSUME Typed, Complete(taken), Handle(Vals(taken))
  PROVE  [Hid!Next]_(Hid!vars)
<1> PICK v : v = Vals(taken)
  OBVIOUS
<1>1. v[1] \in {HDR_BUTTON_PRESS, HDR_BUTTON_RELEASE} => v[2] \in ButtonArgs
  <2>1. v[1] \in {HDR_BUTTON_PRESS, HDR_BUTTON_RELEASE} => Len(taken) = 2
    BY CommandIs DEF NArgs, HDR_BUTTON_PRESS, HDR_BUTTON_RELEASE, HDR_KEY_PRESS, HDR_HSCROLL
  <2>2. Len(taken) = 2 => 2 \in 1..Len(taken)
    OBVIOUS
  <2> QED
    BY <2>1, <2>2, CommandIs, ArgumentIs
<1>2. KeyOf(v[2]) \in Keys \cup {BadKey}
  BY DEF KeyOf
<1>3. CASE UNCHANGED hid
  BY <1>3 DEF hid, Hid!vars, Hid!report, Hid!handler, Hid!host, Hid!user
<1>4. CASE Hid!Close
  BY <1>4 DEF Hid!Next
<1>5. CASE Hid!Key("KEY_PRESS", KeyOf(v[2])) \/ Hid!Key("KEY_RELEASE", KeyOf(v[2]))
  BY <1>2, <1>5 DEF Hid!Next, Hid!KeyCmds
<1>6. CASE /\ v[1] \in {HDR_BUTTON_PRESS, HDR_BUTTON_RELEASE}
           /\ Hid!Button("BUTTON_PRESS", v[2]) \/ Hid!Button("BUTTON_RELEASE", v[2])
  BY <1>1, <1>6 DEF Hid!Next, Hid!ButtonCmds
<1>7. CASE Hid!Motion
  BY <1>7 DEF Hid!Next
<1> QED
  BY <1>3, <1>4, <1>5, <1>6, <1>7 DEF Handle

LEMMA HidStep == Typed /\ Running /\ [BoardNext]_board => [Hid!Next]_(Hid!vars)
<1> SUFFICES ASSUME Typed, Running, [BoardNext]_board PROVE [Hid!Next]_(Hid!vars)
  OBVIOUS
<1>1. CASE UNCHANGED hid
  BY <1>1 DEF hid, Hid!vars, Hid!report, Hid!handler, Hid!host, Hid!user
<1>2. CASE FwHandle
  BY <1>2, HandleIs DEF FwHandle
<1>3. CASE FwSend
  BY <1>3 DEF FwSend, Hid!Next
<1>4. CASE BleLink
  BY <1>4 DEF BleLink, Hid!Next
<1>5. CASE PowerLost
  BY <1>5 DEF PowerLost, Hid!Next
<1> QED
  BY <1>1, <1>2, <1>3, <1>4, <1>5
     DEF BoardNext, UserCommand, ReleaseElsewhere, ControllerStep, FwByte, FwReply, Cable, board

-----------------------------------------------------------------------------
(* The handlers.                                                           *)

KeyHeaders    == {HDR_KEY_PRESS, HDR_KEY_RELEASE}
ButtonHeaders == {HDR_BUTTON_PRESS, HDR_BUTTON_RELEASE}
MotionHeaders == {HDR_VSCROLL, HDR_HSCROLL, HDR_MOVE}
Headers       == {HDR_CLOSE} \cup KeyHeaders \cup ButtonHeaders \cup MotionHeaders

LEMMA HeadersAre ==
  /\ \A h \in Byte : HasHandler(h) <=> h \in Headers
  /\ HDR_CLOSE \notin KeyHeaders /\ HDR_CLOSE \notin ButtonHeaders /\ HDR_CLOSE \notin MotionHeaders
  /\ KeyHeaders \cap ButtonHeaders = {} /\ KeyHeaders \cap MotionHeaders = {}
  /\ ButtonHeaders \cap MotionHeaders = {}
  /\ HDR_KEY_PRESS # HDR_KEY_RELEASE /\ HDR_BUTTON_PRESS # HDR_BUTTON_RELEASE
  /\ Headers \subseteq Byte
BY DEF HasHandler, IsCommand, Byte, Headers, KeyHeaders, ButtonHeaders, MotionHeaders,
       HDR_PING, HDR_CLOSE, HDR_KEY_PRESS, HDR_KEY_RELEASE, HDR_BUTTON_PRESS,
       HDR_BUTTON_RELEASE, HDR_VSCROLL, HDR_HSCROLL, HDR_MOVE, HDR_MAX

LEMMA CmdOfIs ==
  /\ CmdOf(HDR_CLOSE) = "CLOSE"
  /\ CmdOf(HDR_KEY_PRESS) = "KEY_PRESS" /\ CmdOf(HDR_KEY_RELEASE) = "KEY_RELEASE"
  /\ CmdOf(HDR_BUTTON_PRESS) = "BUTTON_PRESS" /\ CmdOf(HDR_BUTTON_RELEASE) = "BUTTON_RELEASE"
  /\ \A h \in MotionHeaders : CmdOf(h) = "MOTION"
BY DEF CmdOf, MotionHeaders, HDR_CLOSE, HDR_KEY_PRESS, HDR_KEY_RELEASE, HDR_BUTTON_PRESS,
       HDR_BUTTON_RELEASE, HDR_VSCROLL, HDR_HSCROLL, HDR_MOVE

LEMMA AnswersOf ==
  /\ \A h \in Headers : "OK" \in Answers(h)
  /\ \A h \in KeyHeaders \cup ButtonHeaders :
        "ENOCON" \in Answers(h) /\ "EINVAL_KEY" \in Answers(h)
  /\ \A h \in MotionHeaders : "ENOCON" \in Answers(h)
BY DEF Answers, IsCommand, RESP_OK, RESP_ENOCON, RESP_EINVAL_KEY, Headers, KeyHeaders,
       ButtonHeaders, MotionHeaders, HDR_PING, HDR_CLOSE, HDR_KEY_PRESS, HDR_KEY_RELEASE,
       HDR_BUTTON_PRESS, HDR_BUTTON_RELEASE, HDR_VSCROLL, HDR_HSCROLL, HDR_MOVE, HDR_MAX

LEMMA CloseHandled ==
  ASSUME NEW v, v[1] = HDR_CLOSE, Hid!Close
  PROVE  Handled(v)'
<1>1. v[1] \notin KeyHeaders /\ v[1] \notin ButtonHeaders
  BY HeadersAre
<1>2. cmd' = CmdOf(v[1]) /\ task' = "kbd"
  BY CmdOfIs DEF Hid!Close, Hid!Await
<1>3. Lifted(v)'
  BY <1>1 DEF Lifted, KeyHeaders, ButtonHeaders
<1> QED
  BY <1>2, <1>3 DEF Handled

LEMMA KeyHandled ==
  ASSUME NEW v, NEW hdr, \/ v[1] = HDR_KEY_PRESS /\ hdr = "KEY_PRESS"
                         \/ v[1] = HDR_KEY_RELEASE /\ hdr = "KEY_RELEASE",
         Hid!Key(hdr, KeyOf(v[2])), wasUp' = (link # "down")
  PROVE  Handled(v)'
<1>1. /\ v[1] \in KeyHeaders /\ v[1] \notin ButtonHeaders
      /\ v[1] = HDR_KEY_RELEASE <=> hdr = "KEY_RELEASE"
  BY HeadersAre DEF KeyHeaders
<1>2. cmd' = CmdOf(v[1])
  BY CmdOfIs DEF Hid!Key
<1>3. {"OK", "ENOCON", "EINVAL_KEY"} \subseteq Answers(v[1])
  BY <1>1, AnswersOf DEF Headers
<1>4. CASE ~Hid!isConnected /\ Hid!Return("ENOCON")
  BY <1>1, <1>2, <1>3, <1>4 DEF Handled, Hid!Return
<1>5. CASE Hid!isConnected /\ KeyOf(v[2]) = BadKey /\ Hid!Return("EINVAL_KEY")
  <2>1. v[2] \notin Keys
    BY <1>5, HidAssumption DEF KeyOf
  <2>2. wasUp' /\ task' = "idle" /\ resp' = "EINVAL_KEY"
    BY <1>5 DEF Hid!isConnected, Hid!Return
  <2> QED
    BY <1>1, <1>2, <1>3, <2>1, <2>2 DEF Handled, ButtonHeaders
<1>6. CASE /\ Hid!isConnected /\ KeyOf(v[2]) \in Keys
           /\ IF hdr = "KEY_PRESS" THEN Hid!Press(KeyOf(v[2])) ELSE Hid!Release(KeyOf(v[2]))
  <2>1. v[2] \in Keys /\ KeyOf(v[2]) = v[2]
    BY <1>6, HidAssumption DEF KeyOf
  <2>2. wasUp'
    BY <1>6 DEF Hid!isConnected
  <2>3. task' = "kbd" \/ (task' = "idle" /\ resp' = "OK")
    BY <1>6 DEF Hid!Press, Hid!Release, Hid!Await, Hid!Return
  <2>4. Lifted(v)'
    <3>1. CASE v[1] = HDR_KEY_PRESS
      BY <1>1, <3>1, HeadersAre DEF Lifted, ButtonHeaders
    <3>2. CASE v[1] = HDR_KEY_RELEASE
      <4>1. /\ modifiers' = modifiers \ ModsOf[v[2]]
            /\ keys' = [i \in Hid!Slots |-> IF keys[i] = UsageOf[v[2]] THEN 0 ELSE keys[i]]
        BY <1>1, <1>6, <2>1, <3>2 DEF Hid!Release
      <4>2. UsageOf[v[2]] # 0 => UsageOf[v[2]] \notin Hid!Used'
        BY <4>1 DEF Hid!Used
      <4>3. ModsOf[v[2]] \cap modifiers' = {}
        BY <4>1
      <4> QED
        BY <1>1, <2>1, <4>2, <4>3 DEF Lifted, ButtonHeaders
    <3> QED
      BY <3>1, <3>2
  <2> QED
    BY <1>2, <1>3, <2>2, <2>3, <2>4 DEF Handled
<1> QED
  BY <1>4, <1>5, <1>6 DEF Hid!Key

LEMMA ButtonHandled ==
  ASSUME NEW v, NEW hdr, \/ v[1] = HDR_BUTTON_PRESS /\ hdr = "BUTTON_PRESS"
                         \/ v[1] = HDR_BUTTON_RELEASE /\ hdr = "BUTTON_RELEASE",
         Hid!Button(hdr, v[2]), wasUp' = (link # "down")
  PROVE  Handled(v)'
<1>1. /\ v[1] \in ButtonHeaders /\ v[1] \notin KeyHeaders
      /\ v[1] = HDR_BUTTON_RELEASE <=> hdr = "BUTTON_RELEASE"
  BY HeadersAre DEF ButtonHeaders
<1>2. cmd' = CmdOf(v[1])
  BY CmdOfIs DEF Hid!Button
<1>3. {"OK", "ENOCON", "EINVAL_KEY"} \subseteq Answers(v[1])
  BY <1>1, AnswersOf DEF Headers
<1>4. CASE ~Hid!isConnected /\ Hid!Return("ENOCON")
  BY <1>1, <1>2, <1>3, <1>4 DEF Handled, Hid!Return
<1>5. CASE Hid!isConnected /\ v[2] \notin DOMAIN Hid!mouse_buttons /\ Hid!Return("EINVAL_KEY")
  <2>1. wasUp' /\ task' = "idle" /\ resp' = "EINVAL_KEY"
    BY <1>5 DEF Hid!isConnected, Hid!Return
  <2> QED
    BY <1>1, <1>2, <1>3, <1>5, <2>1 DEF Handled, KeyHeaders
<1>6. CASE /\ Hid!isConnected /\ v[2] \in DOMAIN Hid!mouse_buttons
           /\ IF hdr = "BUTTON_PRESS"
              THEN Hid!SetButtons(buttons \cup Hid!mouse_buttons[v[2]])
              ELSE Hid!SetButtons(buttons \ Hid!mouse_buttons[v[2]])
  <2>1. wasUp'
    BY <1>6 DEF Hid!isConnected
  <2>2. task' = "mouse" \/ (task' = "idle" /\ resp' = "OK")
    BY <1>6 DEF Hid!SetButtons, Hid!Await, Hid!Return
  <2>3. v[1] = HDR_BUTTON_RELEASE => buttons' = buttons \ Hid!mouse_buttons[v[2]]
    BY <1>1, <1>6 DEF Hid!SetButtons
  <2>4. Lifted(v)'
    BY <1>1, <1>6, <2>3 DEF Lifted, KeyHeaders
  <2> QED
    BY <1>2, <1>3, <2>1, <2>2, <2>4 DEF Handled
<1> QED
  BY <1>4, <1>5, <1>6 DEF Hid!Button

LEMMA MotionHandled ==
  ASSUME NEW v, v[1] \in MotionHeaders, Hid!Motion, wasUp' = (link # "down")
  PROVE  Handled(v)'
<1>1. v[1] \notin KeyHeaders /\ v[1] \notin ButtonHeaders
  BY HeadersAre
<1>2. cmd' = CmdOf(v[1]) /\ "ENOCON" \in Answers(v[1])
  BY CmdOfIs, AnswersOf DEF Hid!Motion
<1>3. Lifted(v)'
  BY <1>1 DEF Lifted, KeyHeaders, ButtonHeaders
<1> QED
  BY <1>1, <1>2, <1>3
     DEF Handled, Hid!Motion, Hid!Return, Hid!Await, Hid!isConnected, KeyHeaders, ButtonHeaders

\* A handler is called.
LEMMA HandleRunning ==
  ASSUME Typed, Running, FwHandle
  PROVE  /\ running' /\ Complete(taken) /\ UNCHANGED taken
         /\ IF HasHandler(Val(taken[1])) THEN Handled(Vals(taken))' ELSE UNCHANGED hid
<1>1. /\ running' /\ Complete(taken) /\ UNCHANGED taken
      /\ Handle(Vals(taken)) /\ wasUp' = (link # "down")
  BY DEF FwHandle, vars, firmware
<1> PICK v : v = Vals(taken)
  OBVIOUS
<1>2. v[1] = Val(taken[1]) /\ v[1] \in Byte
  BY <1>1, CommandIs
<1>3. CASE HasHandler(v[1])
  <2>1. Handled(v)'
    BY <1>1, <1>3, CloseHandled, KeyHandled, ButtonHandled, MotionHandled
       DEF Handle, HasHandler, MotionHeaders
  <2> QED
    BY <1>1, <1>2, <1>3, <2>1
<1>4. CASE ~HasHandler(v[1])
  <2>1. v[1] \notin Headers
    BY <1>2, <1>4, HeadersAre
  <2>2. UNCHANGED hid
    BY <1>1, <2>1 DEF Handle, Headers, KeyHeaders, ButtonHeaders, MotionHeaders
  <2> QED
    BY <1>1, <1>2, <1>4, <2>2
<1> QED
  BY <1>3, <1>4

\* A handler sends.
LEMMA SendHandled ==
  ASSUME NEW v, v[1] \in Headers, Handled(v), Hid!Send, UNCHANGED wasUp
  PROVE  Handled(v)'
<1>1. task # "idle" /\ UNCHANGED cmd
  BY DEF Hid!Send, Hid!SendReport, Hid!SendMouse, Hid!ReleaseMask
<1>2. task' # "idle" \/ (task' = "idle" /\ resp' = "OK")
  BY DEF Hid!Send, Hid!SendReport, Hid!SendMouse, Hid!ReleaseMask, Hid!Return, Hid!Await
<1>3. "OK" \in Answers(v[1])
  BY AnswersOf
<1>4. UNCHANGED <<keys, modifiers>> /\ buttons' \subseteq buttons
  BY DEF Hid!Send, Hid!SendReport, Hid!SendMouse, Hid!ReleaseMask, Hid!report
<1>5. Lifted(v)'
  BY <1>1, <1>4 DEF Handled, Lifted, Hid!Used
<1> QED
  BY <1>1, <1>2, <1>3, <1>5 DEF Handled

\* The BLE link comes and goes.
LEMMA LinkHandled ==
  ASSUME NEW v, Handled(v), Hid!OnConnect \/ Hid!Subscribe \/ Hid!OnDisconnect, UNCHANGED wasUp
  PROVE  Handled(v)'
<1>1. UNCHANGED <<keys, modifiers, buttons, task, cmd, resp>>
  BY DEF Hid!OnConnect, Hid!Subscribe, Hid!OnDisconnect, Hid!report, Hid!handler
<1> QED
  BY <1>1 DEF Handled, Lifted, Hid!Used

LEMMA SameHandled ==
  ASSUME NEW v, UNCHANGED <<hid, wasUp>>
  PROVE  Handled(v)' <=> Handled(v)
BY DEF hid, Handled, Lifted, Hid!Used

LEMMA RunningStep == Typed /\ Running /\ [BoardNext]_board => Running'
<1> SUFFICES ASSUME Typed, Running, [BoardNext]_board PROVE Running'
  OBVIOUS
<1>1. CASE UNCHANGED <<hid, wasUp, running, taken>>
  BY <1>1, SameHandled DEF Running, hid
<1>2. CASE FwByte
  BY <1>2 DEF FwByte, FwRead, Running, hid
<1>3. CASE FwHandle
  BY <1>3, HandleRunning DEF Running, FwHandle, hid
<1>4. CASE FwSend
  <2>1. task # "idle" /\ UNCHANGED <<taken, running, wasUp>> /\ Hid!Send
    BY <1>4 DEF FwSend, vars, firmware, Hid!Send, Hid!SendReport, Hid!SendMouse, Hid!ReleaseMask
  <2>2. running /\ Complete(taken) /\ HasHandler(Val(taken[1])) /\ Handled(Vals(taken))
    BY <2>1 DEF Running
  <2>3. Vals(taken)[1] \in Headers
    BY <2>2, CommandIs, HeadersAre
  <2>4. Handled(Vals(taken))'
    BY <2>1, <2>2, <2>3, SendHandled
  <2> QED
    BY <2>1, <2>2, <2>4 DEF Running
<1>5. CASE FwReply
  BY <1>5 DEF FwReply, Running, hid
<1>6. CASE BleLink
  <2>1. UNCHANGED <<taken, running, wasUp, task>>
    BY <1>6 DEF BleLink, vars, firmware, Hid!OnConnect, Hid!Subscribe, Hid!OnDisconnect, Hid!handler
  <2>2. Handled(Vals(taken)) => Handled(Vals(taken))'
    BY <1>6, <2>1, LinkHandled DEF BleLink
  <2> QED
    BY <2>1, <2>2 DEF Running
<1>7. CASE PowerLost
  BY <1>7 DEF PowerLost, Hid!PowerCycle, Running
<1>8. CASE UserCommand
  BY <1>1, <1>8 DEF UserCommand, Command, SendHeader
<1>9. CASE ReleaseElsewhere \/ Cable \/ UNCHANGED board
  BY <1>1, <1>9 DEF ReleaseElsewhere, Cable, Unplug, Plug, board, vars, firmware
<1>10. CASE ControllerStep
  <2>1. UNCHANGED taken
    BY <1>10 DEF ControllerStep, SendData, ReadResponse, ReadTimeout, Discover, SkipPort, SendPing,
                 Found, WrongAnswer, PingTimeout, NextPort, NotFound, Quit, Start, Crash
  <2> QED
    BY <1>1, <1>10, <2>1 DEF ControllerStep
<1> QED
  BY <1>2, <1>3, <1>4, <1>5, <1>6, <1>7, <1>8, <1>9, <1>10 DEF BoardNext

\* Before the answer of its command is read, the firmware does nothing.
LEMMA NoHandlerWhileAnswered ==
  ASSUME Typed, Running, taken = <<>>
  PROVE  ~running /\ task = "idle" /\ ~FwHandle /\ ~FwSend
<1>1. ~Complete(taken)
  BY DEF Complete
<1>2. ~running /\ task = "idle"
  BY <1>1 DEF Running
<1> QED
  BY <1>1, <1>2 DEF FwHandle, FwSend, Hid!Send, Hid!SendReport, Hid!SendMouse, Hid!ReleaseMask

\* When an answer waits to be read, in step, nothing else is under way.
LEMMA WaitingIs ==
  ASSUME InStep, ~late, pc \in {"read", "ping"}, live, up # <<>>
  PROVE  Answered /\ (pc = "read" => up[1].to = cur)
BY DEF InStep, Exchange

\* A command of the user has a handler.
LEMMA CurIs ==
  ASSUME Typed
  PROVE  /\ cur[1] \in Headers /\ HasHandler(cur[1])
         /\ cur[1] = HDR_CLOSE => cur = Close
         /\ cur[1] \in KeyHeaders => cur[2] \in Keys
<1>1. cur \in Commands /\ cur \in Seq(Byte) /\ Len(cur) \in 1..3 /\ cur[1] \in Byte
      /\ Len(cur) = 1 + NArgs(cur[1])
  BY SentIs DEF Typed, ControllerOK, Sent
<1>2. HasHandler(cur[1])
  BY <1>1, CommandsAssumption DEF HasHandler
<1>3. cur[1] = HDR_CLOSE => cur = Close
  <2>1. cur[1] = HDR_CLOSE => Len(cur) = 1
    BY <1>1, Arguments
  <2>2. cur[1] = HDR_CLOSE => cur = <<HDR_CLOSE>>
    BY <1>1, <2>1
  <2> QED
    BY <2>2 DEF Close
<1> QED
  BY <1>1, <1>2, <1>3, HeadersAre, KeyBytesAssumption DEF KeyHeaders

LEMMA AnswerWaitsStep ==
  Typed /\ Typed' /\ InStep /\ InStep' /\ Running /\ AnswerWaits /\ [BoardNext]_board => AnswerWaits'
<1> SUFFICES ASSUME Typed, Typed', InStep, InStep', Running, AnswerWaits, [BoardNext]_board,
                    ~late', pc' = "read", live', up' # <<>>
             PROVE  up'[1].val = resp' /\ Handled(cur)'
  BY DEF AnswerWaits
<1>1. CASE UNCHANGED <<pc, live, up, cur, late, hid, wasUp>>
  BY <1>1, SameHandled DEF AnswerWaits, hid
<1>2. CASE UserCommand
  <2>1. live /\ pc = "idle" /\ UNCHANGED <<up, late>>
    BY <1>2 DEF UserCommand, Command, SendHeader, TryWrite, Reinit, history
  <2> QED
    BY <2>1 DEF InStep, Exchange
<1>3. CASE FwHandle
  <2>1. UNCHANGED <<pc, live, up, late>>
    BY <1>3 DEF FwHandle, vars, controller, history
  <2> QED
    BY <1>3, <2>1, WaitingIs, NoHandlerWhileAnswered DEF Answered
<1>4. CASE FwSend
  <2>1. UNCHANGED <<pc, live, up, late>>
    BY <1>4 DEF FwSend, vars, controller, history
  <2> QED
    BY <1>4, <2>1, WaitingIs, NoHandlerWhileAnswered DEF Answered
<1>5. CASE FwReply
  <2>1. /\ running /\ task = "idle" /\ UNCHANGED <<pc, live, cur, late, hid, wasUp>>
        /\ up' = IF Len(up) < UpCap THEN Append(up, [val |-> Answer, to |-> Vals(taken)]) ELSE up
    BY <1>5 DEF FwReply, controller, history
  <2>2. Complete(taken) /\ (HasHandler(Val(taken[1])) => Answer = resp /\ Handled(Vals(taken)))
    BY <2>1, AnswerIs
  <2>3. taken # <<>>
    BY <2>2 DEF Complete
  <2>4. up = <<>> /\ Begun(taken, down, cur, Len(cur))
    BY <2>1, <2>3 DEF InStep, Exchange, Answered
  <2>5. Vals(taken) = cur
    BY <2>2, <2>3, <2>4, Pipes, BegunComplete
  <2>6. HasHandler(Val(taken[1]))
    BY <2>2, <2>5, CommandIs, CurIs
  <2>7. up' = Append(<<>>, [val |-> Answer, to |-> Vals(taken)])
    BY <2>1, <2>4
  <2>8. up'[1].val = Answer
    BY <2>7
  <2>9. Handled(cur)'
    BY <2>1, <2>2, <2>5, <2>6, SameHandled
  <2> QED
    BY <2>1, <2>2, <2>6, <2>8, <2>9 DEF hid
<1>6. CASE BleLink
  <2>1. UNCHANGED <<pc, live, up, cur, late, resp, wasUp>>
    BY <1>6 DEF BleLink, vars, controller, history, Hid!OnConnect, Hid!Subscribe,
                Hid!OnDisconnect, Hid!handler
  <2> QED
    BY <1>6, <2>1, LinkHandled DEF BleLink, AnswerWaits
<1>7. CASE PowerLost \/ Cable \/ ReleaseElsewhere \/ FwByte \/ UNCHANGED board
  BY <1>1, <1>7 DEF PowerLost, PowerCycle, Cable, Unplug, Plug, ReleaseElsewhere, FwByte, FwRead,
                    board, vars, controller, history
<1>8. CASE ControllerStep
  <2>1. CASE SendData
    <3>1. live /\ pc = "data" /\ UNCHANGED <<up, late>>
      BY <2>1 DEF SendData, TryWrite, Reinit, history
    <3> QED
      BY <3>1 DEF InStep, Exchange
  <2>2. CASE Quit
    <3>1. live /\ pc = "idle" /\ UNCHANGED <<up, late>>
      BY <2>2 DEF Quit, TryWrite, Reinit
    <3> QED
      BY <3>1 DEF InStep, Exchange
  <2>3. pc' # "read" \/ SendData \/ Quit
    BY <1>8 DEF ControllerStep, ReadResponse, ReadTimeout, Discover, SkipPort, SendPing, Found,
                WrongAnswer, PingTimeout, NextPort, NotFound, Done, Start, Reinit, Crash
  <2> QED
    BY <2>1, <2>2, <2>3
<1> QED
  BY <1>2, <1>3, <1>4, <1>5, <1>6, <1>7, <1>8 DEF BoardNext

LEMMA StatusStep ==
  Typed /\ InStep /\ InStep' /\ Running /\ AnswerWaits /\ Status /\ [BoardNext]_board => Status'
<1> SUFFICES ASSUME Typed, InStep, InStep', Running, AnswerWaits, Status, [BoardNext]_board
             PROVE  Status'
  OBVIOUS
<1>1. CASE UNCHANGED <<pc, live, connected, cur, late, wasUp>>
  BY <1>1 DEF Status
<1>2. CASE UserCommand
  BY <1>2 DEF UserCommand, Command, SendHeader, TryWrite, Reinit, Status
<1>3. CASE FwHandle
  <2>1. UNCHANGED <<pc, live, connected, cur, late>> /\ Complete(taken)
    BY <1>3 DEF FwHandle, vars, controller, history
  <2>2. ~late /\ pc = "idle" /\ live => taken = <<>>
    BY Pipes, BegunNone DEF InStep, Exchange
  <2> QED
    BY <2>1, <2>2 DEF Status, Complete
<1>4. CASE PowerLost
  BY <1>4 DEF PowerLost, PowerCycle, controller, Status
<1>5. CASE FwReply \/ FwSend \/ BleLink \/ Cable \/ ReleaseElsewhere \/ FwByte \/ UNCHANGED board
  <2>1. UNCHANGED <<pc, connected, cur, wasUp>> /\ (~late' => ~late) /\ (live' => live)
    BY <1>5 DEF FwReply, FwSend, BleLink, Cable, Unplug, Plug, ReleaseElsewhere, FwByte, FwRead, board,
                vars, controller, history, Typed, HistoryOK
  <2> QED
    BY <2>1 DEF Status
<1>6. CASE ControllerStep
  <2>1. CASE ReadResponse
    <3>1. /\ pc = "read" /\ live /\ up # <<>>
          /\ connected' = (Head(up).val # "ENOCON") /\ UNCHANGED <<cur, late, wasUp>>
          /\ pc' \in {"off", "idle"}
      BY <1>6, <2>1 DEF ControllerStep, ReadResponse, Done, history, RESP_ENOCON
    <3>2. Head(up) = up[1]
      BY <3>1, TailUp DEF Typed
    <3>3. ~late => up[1].val = resp /\ Handled(cur)
      BY <3>1 DEF AnswerWaits
    <3>4. ~late /\ connected' => wasUp \/ cur[1] = HDR_CLOSE
      BY <3>1, <3>2, <3>3 DEF Handled
    <3> QED
      BY <3>1, <3>4, CurIs DEF Status
  <2>2. CASE ReadTimeout \/ NotFound
    BY <2>2 DEF ReadTimeout, NotFound, Done, Status
  <2>3. CASE Found
    BY <2>3 DEF Found, Done, Status
  <2>4. CASE SkipPort \/ SendPing \/ WrongAnswer \/ PingTimeout
    BY <2>4 DEF SkipPort, SendPing, WrongAnswer, PingTimeout, NextPort, Status
  <2>5. CASE SendData \/ Start \/ Crash
    BY <2>5 DEF SendData, TryWrite, Start, Reinit, Crash, Status
  <2>6. CASE Quit
    BY <2>6 DEF Quit, TryWrite, Reinit, Status
  <2> QED
    BY <1>6, <2>1, <2>2, <2>3, <2>4, <2>5, <2>6 DEF ControllerStep, Discover
<1> QED
  BY <1>2, <1>3, <1>4, <1>5, <1>6 DEF BoardNext

LEMMA BoardInitial == BoardInit => Typed /\ InStep /\ Framed /\ Running /\ AnswerWaits /\ Status
<1> SUFFICES ASSUME BoardInit
             PROVE  Typed /\ InStep /\ Framed /\ Running /\ AnswerWaits /\ Status
  OBVIOUS
<1>1. Typed /\ InStep /\ Framed
  BY TypedInit, InStepInit, FramedInit DEF BoardInit
<1>2. Running /\ AnswerWaits /\ Status
  BY DEF BoardInit, Init, Hid!Init, Running, AnswerWaits, Status
<1> QED
  BY <1>1, <1>2

LEMMA BoardStep ==
  Typed /\ InStep /\ Running /\ AnswerWaits /\ Status /\ [BoardNext]_board
    => Typed' /\ InStep' /\ Running' /\ AnswerWaits' /\ Status'
<1> SUFFICES ASSUME Typed, InStep, Running, AnswerWaits, Status, [BoardNext]_board
             PROVE  Typed' /\ InStep' /\ Running' /\ AnswerWaits' /\ Status'
  OBVIOUS
<1>1. [Next]_vars
  BY LinkStep
<1>2. Typed' /\ InStep' /\ Running'
  BY <1>1, TypedStep, InStepStep, RunningStep
<1>3. AnswerWaits' /\ Status'
  BY <1>2, AnswerWaitsStep, StatusStep
<1> QED
  BY <1>2, <1>3

LEMMA BoardHolds == BoardSpec => [](Typed /\ InStep /\ Running /\ AnswerWaits /\ Status)
BY BoardInitial, BoardStep, PTL DEF BoardSpec

\* Every step of the composition is one of UartLink or none for it: a handler
\* runs for complete commands only, answers once, with an answer of its own,
\* and takes no byte off the wire.  All theorems about UartLink hold for it.
THEOREM LinkImplemented == BoardSpec => LinkSpec
<1>1. BoardInit => Init
  BY DEF BoardInit
<1> QED
  BY <1>1, BoardHolds, LinkStep, PTL DEF BoardSpec, LinkSpec, Spec

\* ... and one of BleHid: whatever arrives on the wire, the firmware calls one
\* handler at a time.  All theorems about BleHid hold for it too.
THEOREM HidImplemented == BoardSpec => Hid!Spec
<1>1. BoardInit => Hid!Init
  BY DEF BoardInit
<1> QED
  BY <1>1, BoardHolds, HidStep, PTL DEF BoardSpec, Hid!Spec

\* As long as the controller waits for every answer that is to come, the
\* status line says "connected" only if a host was connected when the last
\* command but CLOSE was executed.
THEOREM StatusHolds == BoardSpec => []StatusIsTrue
<1>1. Status => StatusIsTrue
  BY DEF Status, StatusIsTrue
<1> QED
  BY <1>1, BoardHolds, PTL

-----------------------------------------------------------------------------
(* The reports and the host, by the theorems about BleHid.                 *)

LEMMA HidSame ==
  /\ Hid!Init <=> HP!Init
  /\ [Hid!Next]_(Hid!vars) <=> [HP!Next]_(HP!vars)
  /\ Hid!Used = HP!Used
<1> USE DEF Hid!Return, HP!Return, Hid!Await, HP!Await, Hid!Slots, HP!Slots, Hid!Used, HP!Used,
            Hid!report, HP!report, Hid!handler, HP!handler, Hid!host, HP!host, Hid!user, HP!user
<1>1. \A hdr, k : Hid!Key(hdr, k) <=> HP!Key(hdr, k)
  BY DEF Hid!Key, HP!Key, Hid!isConnected, HP!isConnected, Hid!Press, HP!Press,
         Hid!Release, HP!Release
<1>2. \A hdr, b : Hid!Button(hdr, b) <=> HP!Button(hdr, b)
  BY DEF Hid!Button, HP!Button, Hid!isConnected, HP!isConnected, Hid!SetButtons, HP!SetButtons,
         Hid!mouse_buttons, HP!mouse_buttons, Hid!MOUSE_LEFT, HP!MOUSE_LEFT, Hid!MOUSE_MIDDLE,
         HP!MOUSE_MIDDLE, Hid!MOUSE_RIGHT, HP!MOUSE_RIGHT
<1>3. (Hid!Motion <=> HP!Motion) /\ (Hid!Close <=> HP!Close)
  BY DEF Hid!Motion, HP!Motion, Hid!Close, HP!Close, Hid!isConnected, HP!isConnected
<1>4. Hid!Send <=> HP!Send
  BY DEF Hid!Send, HP!Send, Hid!SendReport, HP!SendReport, Hid!SendMouse, HP!SendMouse,
         Hid!ReleaseMask, HP!ReleaseMask, Hid!MouseReport, HP!MouseReport, Hid!Delivered,
         HP!Delivered, Hid!Dropped, HP!Dropped, Hid!Bits, HP!Bits, Hid!MouseBits, HP!MouseBits,
         Hid!MOUSE_LEFT, HP!MOUSE_LEFT, Hid!MOUSE_MIDDLE, HP!MOUSE_MIDDLE,
         Hid!MOUSE_RIGHT, HP!MOUSE_RIGHT
<1>5. /\ Hid!OnConnect <=> HP!OnConnect
      /\ Hid!Subscribe <=> HP!Subscribe
      /\ Hid!OnDisconnect <=> HP!OnDisconnect
      /\ Hid!PowerCycle <=> HP!PowerCycle
  BY DEF Hid!OnConnect, HP!OnConnect, Hid!Subscribe, HP!Subscribe, Hid!OnDisconnect,
         HP!OnDisconnect, Hid!PowerCycle, HP!PowerCycle, Hid!HostForgets, HP!HostForgets
<1>6. Hid!Next <=> HP!Next
  BY <1>1, <1>2, <1>3, <1>4, <1>5
     DEF Hid!Next, HP!Next, Hid!KeyCmds, HP!KeyCmds, Hid!ButtonCmds, HP!ButtonCmds
<1>7. /\ Hid!Init <=> HP!Init
      /\ Hid!Used = HP!Used
      /\ UNCHANGED Hid!vars <=> UNCHANGED HP!vars
  BY DEF Hid!Init, HP!Init, Hid!vars, HP!vars
<1> QED
  BY <1>6, <1>7

LEMMA HidHolds == BoardSpec => [](HP!TypeOK /\ HP!HidInv)
<1>1. HP!Spec => []HP!TypeOK
  BY HP!TypeCorrect, HidAssumption
<1>2. HP!Spec => []HP!HidInv
  BY HP!HidInvariant, HidAssumption
<1>3. BoardInit => HP!Init
  BY HidSame DEF BoardInit
<1>4. Typed /\ Running /\ [BoardNext]_board => [HP!Next]_(HP!vars)
  BY HidStep, HidSame
<1>5. BoardSpec => HP!Spec
  BY <1>3, <1>4, BoardHolds, PTL DEF BoardSpec, HP!Spec
<1> QED
  BY <1>1, <1>2, <1>5, PTL

\* What the host holds, when no report is due and none was lost.
LEMMA HostIs ==
  ASSUME HP!TypeOK, HP!HidInv, task = "idle"
  PROVE  /\ kbdSeen # "stale" => hostKeys \subseteq Hid!Used /\ hostMods \subseteq modifiers
         /\ mouseSeen # "stale" => hostButtons \subseteq buttons
         /\ cmd = "CLOSE" => /\ Hid!Used = {} /\ modifiers = {}
                             /\ buttons \subseteq {Hid!MOUSE_MIDDLE}
<1>1. kbdSeen \in {"none", "current", "stale"} /\ mouseSeen \in {"none", "current", "stale"}
  BY DEF HP!TypeOK
<1>2. kbdSeen # "stale" => hostKeys \subseteq Hid!Used /\ hostMods \subseteq modifiers
  BY <1>1, HidSame DEF HP!HidInv, HP!LinkInv, HP!SyncInv
<1>3. mouseSeen # "stale" => hostButtons \subseteq buttons
  BY <1>1 DEF HP!HidInv, HP!LinkInv, HP!SyncInv
<1>4. cmd = "CLOSE" => Hid!Used = {}
  BY HidSame DEF HP!HidInv, HP!CloseInv, HP!Used, HP!Slots
<1>5. cmd = "CLOSE" => modifiers = {} /\ buttons \subseteq {Hid!MOUSE_MIDDLE}
  BY DEF HP!HidInv, HP!CloseInv, HP!MOUSE_MIDDLE, Hid!MOUSE_MIDDLE
<1> QED
  BY <1>2, <1>3, <1>4, <1>5

\* When send_cmd() reads OK for a release, the key or the button is up: in the
\* firmware's report, and on a host that lost no report.
THEOREM AcksLift == BoardSpec => AckLifts
<1> DEFINE Inv == Typed /\ InStep /\ Running /\ AnswerWaits /\ HP!TypeOK /\ HP!HidInv
<1>1. ASSUME Inv, BoardNext, pc = "read", ~late, pc' = "idle", up # <<>>, Head(up).val = RESP_OK
      PROVE  /\ cur[1] = HDR_KEY_RELEASE /\ UsageOf[cur[2]] # 0 =>
                 /\ UsageOf[cur[2]] \notin Hid!Used
                 /\ kbdSeen # "stale" => UsageOf[cur[2]] \notin hostKeys
             /\ cur[1] = HDR_BUTTON_RELEASE =>
                 /\ Hid!mouse_buttons[cur[2]] \cap buttons = {}
                 /\ mouseSeen # "stale" => Hid!mouse_buttons[cur[2]] \cap hostButtons = {}
             /\ cur = Close =>
                 /\ Hid!Used = {} /\ modifiers = {} /\ buttons \subseteq {Hid!MOUSE_MIDDLE}
                 /\ kbdSeen # "stale" => hostKeys = {} /\ hostMods = {}
  <2>1. live
    BY <1>1 DEF InStep, AtRest
  <2>2. up[1].val = resp /\ Handled(cur) /\ resp = "OK"
    BY <1>1, <2>1, TailUp DEF AnswerWaits, Typed, RESP_OK
  <2>3. task = "idle"
    BY <1>1, <2>1, WaitingIs, NoHandlerWhileAnswered DEF Answered
  <2>4. Lifted(cur)
    BY <2>2 DEF Handled
  <2>5. cur = Close => cmd = "CLOSE"
    BY <2>2, CmdOfIs DEF Handled, Close
  <2> QED
    BY <1>1, <2>3, <2>4, <2>5, HostIs DEF Lifted
<1>2. Inv /\ [BoardNext]_board =>
        [pc = "read" /\ ~late /\ pc' = "idle" /\ up # <<>> /\ Head(up).val = RESP_OK =>
          /\ cur[1] = HDR_KEY_RELEASE /\ UsageOf[cur[2]] # 0 =>
              /\ UsageOf[cur[2]] \notin Hid!Used
              /\ kbdSeen # "stale" => UsageOf[cur[2]] \notin hostKeys
          /\ cur[1] = HDR_BUTTON_RELEASE =>
              /\ Hid!mouse_buttons[cur[2]] \cap buttons = {}
              /\ mouseSeen # "stale" => Hid!mouse_buttons[cur[2]] \cap hostButtons = {}
          /\ cur = Close =>
              /\ Hid!Used = {} /\ modifiers = {} /\ buttons \subseteq {Hid!MOUSE_MIDDLE}
              /\ kbdSeen # "stale" => hostKeys = {} /\ hostMods = {}]_board
  BY <1>1
<1> QED
  BY <1>2, BoardHolds, HidHolds, PTL DEF BoardSpec, AckLifts

-----------------------------------------------------------------------------
(* What the user let go of.                                                *)

\* What a handler can add to the reports.
LEMMA HandleAdds ==
  ASSUME Typed, HP!TypeOK, FwHandle, NEW v, v = Vals(taken)
  PROVE  /\ \A u \in Hid!Used' :
               \/ u \in Hid!Used
               \/ v[1] = HDR_KEY_PRESS /\ v[2] \in Keys /\ UsageOf[v[2]] = u
         /\ \A m \in modifiers' :
               \/ m \in modifiers
               \/ v[1] = HDR_KEY_PRESS /\ v[2] \in Keys /\ m \in ModsOf[v[2]]
         /\ \A m \in buttons' :
               \/ m \in buttons
               \/ /\ v[1] = HDR_BUTTON_PRESS /\ v[2] \in DOMAIN Hid!mouse_buttons
                  /\ m \in Hid!mouse_buttons[v[2]]
<1>1. Handle(v)
  BY DEF FwHandle
<1>2. keys \in [Hid!Slots -> Usages \cup {0}]
  BY DEF HP!TypeOK, HP!Slots, Hid!Slots
<1>3. CASE UNCHANGED <<keys, modifiers, buttons>>
  BY <1>3 DEF Hid!Used
<1>4. CASE Hid!Close
  BY <1>4 DEF Hid!Close, Hid!Used
<1>5. CASE v[1] = HDR_KEY_PRESS /\ KeyOf(v[2]) \in Keys /\ Hid!Press(KeyOf(v[2])) /\ UNCHANGED buttons
  <2>1. v[2] \in Keys /\ KeyOf(v[2]) = v[2]
    BY <1>5, HidAssumption DEF KeyOf
  <2>2. modifiers' = modifiers \cup ModsOf[v[2]]
    BY <1>5, <2>1 DEF Hid!Press
  <2>3. \/ UNCHANGED keys
        \/ \E i \in Hid!Slots : keys' = [keys EXCEPT ![i] = UsageOf[v[2]]]
    BY <1>5, <2>1 DEF Hid!Press
  <2>4. Hid!Used' \subseteq Hid!Used \cup {UsageOf[v[2]]}
    BY <1>2, <2>3 DEF Hid!Used
  <2> QED
    BY <1>5, <2>1, <2>2, <2>4
<1>6. CASE Hid!Release(KeyOf(v[2])) /\ UNCHANGED buttons
  BY <1>2, <1>6 DEF Hid!Release, Hid!Used
<1>7. CASE /\ v[1] = HDR_BUTTON_PRESS /\ v[2] \in DOMAIN Hid!mouse_buttons
           /\ buttons' = buttons \cup Hid!mouse_buttons[v[2]] /\ UNCHANGED <<keys, modifiers>>
  BY <1>7 DEF Hid!Used
<1>8. CASE buttons' \subseteq buttons /\ UNCHANGED <<keys, modifiers>>
  BY <1>8 DEF Hid!Used
<1>9. CASE UNCHANGED hid
  BY <1>3, <1>9 DEF hid
<1>10. CASE v[1] = HDR_KEY_PRESS /\ Hid!Key("KEY_PRESS", KeyOf(v[2]))
  BY <1>3, <1>5, <1>10 DEF Hid!Key, Hid!report
<1>11. CASE Hid!Key("KEY_RELEASE", KeyOf(v[2]))
  BY <1>3, <1>6, <1>11 DEF Hid!Key, Hid!report
<1>12. CASE v[1] = HDR_BUTTON_PRESS /\ Hid!Button("BUTTON_PRESS", v[2])
  BY <1>3, <1>7, <1>12 DEF Hid!Button, Hid!SetButtons
<1>13. CASE Hid!Button("BUTTON_RELEASE", v[2])
  <2>1. buttons' \subseteq buttons
    BY <1>13 DEF Hid!Button, Hid!SetButtons
  <2> QED
    BY <1>8, <1>13, <2>1 DEF Hid!Button
<1>14. CASE Hid!Motion
  BY <1>3, <1>14 DEF Hid!Motion, Hid!report
<1> QED
  BY <1>1, <1>4, <1>9, <1>10, <1>11, <1>12, <1>13, <1>14 DEF Handle

\* A step that adds nothing to the reports, and takes no excuse away.
LEMMA StuckStays ==
  ASSUME StuckIsTold, ~late, Excused \subseteq Excused', Hid!Used' \subseteq Hid!Used,
         modifiers' \subseteq modifiers, buttons' \subseteq buttons, misread => misread'
  PROVE  StuckIsTold'
BY DEF StuckIsTold

\* The firmware executes what the user's last command asks for, or takes a
\* PING for an argument.
LEMMA HandleAccounted ==
  ASSUME Typed, HP!TypeOK, InStep, Accounted, FwHandle
  PROVE  Accounted'
<1>1. Complete(taken) /\ UNCHANGED <<pc, live, cur, late, taken, userHeld, untold>>
      /\ misread' = (misread \/ \E i \in DOMAIN taken : taken[i].part # i)
  BY DEF FwHandle, vars, controller, history, firmware, fingers
<1> SUFFICES ASSUME ~late PROVE StuckIsTold'
  BY <1>1 DEF Accounted, StuckIsTold, Excused, IsPress
<1> PICK v : v = Vals(taken)
  OBVIOUS
<1>2. Len(taken) = 1 + NArgs(v[1]) /\ DOMAIN taken = 1..Len(taken)
      /\ \A i \in 1..Len(taken) : v[i] = Val(taken[i])
  BY <1>1, CommandIs
<1>3. v[1] \in {HDR_KEY_PRESS, HDR_BUTTON_PRESS} => Len(taken) = 2 /\ 2 \in 1..Len(taken)
  BY <1>2 DEF NArgs, HDR_BUTTON_PRESS, HDR_KEY_PRESS, HDR_HSCROLL
<1>4. CASE pc = "read" /\ live /\ v = cur
  <2>1. v[1] \in {HDR_KEY_PRESS, HDR_BUTTON_PRESS} => <<v[1], v[2]>> \in Excused
    <3>1. cur \in Seq(Byte) /\ Len(cur) = 1 + NArgs(cur[1])
      BY SentIs DEF Typed, ControllerOK, Sent
    <3>2. v[1] \in {HDR_KEY_PRESS, HDR_BUTTON_PRESS} => Len(cur) = 2
      BY <1>2, <1>3, <1>4, <3>1
    <3>3. Len(cur) = 2 => cur = <<cur[1], cur[2]>>
      BY <3>1
    <3>4. cur[1] = v[1] /\ cur[2] = v[2]
      BY <1>4, Zenon
    <3> QED
      BY <1>4, <3>2, <3>3, <3>4 DEF Accounted, IsPress
  <2>2. Excused' = Excused
    BY <1>1 DEF Excused
  <2> QED
    BY <1>1, <2>1, <2>2, HandleAdds DEF Accounted, StuckIsTold
<1>5. CASE taken[Len(taken)] = WireByte(Ping, 1)
  <2>1. v[1] \in {HDR_KEY_PRESS, HDR_BUTTON_PRESS} => v[2] = HDR_PING /\ misread'
    <3>1. Val(WireByte(Ping, 1)) = HDR_PING /\ WireByte(Ping, 1).part = 1
      BY DEF Val, WireByte, Ping
    <3>2. Len(taken) = 2 => taken[2] = WireByte(Ping, 1)
      BY <1>5
    <3>3. Len(taken) = 2 => v[2] = Val(taken[2]) /\ 2 \in DOMAIN taken
      <4>1. Len(taken) = 2 => 2 \in 1..Len(taken)
        OBVIOUS
      <4> QED
        BY <1>2, <4>1
    <3>4. Len(taken) = 2 => v[2] = HDR_PING /\ taken[2].part # 2
      BY <3>1, <3>2, <3>3
    <3> QED
      BY <1>1, <1>3, <3>3, <3>4
  <2>2. Hid!mouse_buttons[HDR_PING] = {Hid!MOUSE_LEFT}
    BY DEF Hid!mouse_buttons, HDR_PING
  <2>3. Excused' = Excused /\ StuckIsTold /\ (misread => misread')
    BY <1>1 DEF Excused, Accounted
  <2>4. ~(v[1] = HDR_KEY_PRESS /\ v[2] \in Keys)
    BY <2>1, KeyBytesAssumption
  <2>5. Hid!Used' \subseteq Hid!Used /\ modifiers' \subseteq modifiers
    BY <2>4, HandleAdds
  <2>6. \A m \in buttons' : m \in buttons \/ (misread' /\ m = Hid!MOUSE_LEFT)
    BY <2>1, <2>2, HandleAdds
  <2> QED
    BY <2>3, <2>5, <2>6 DEF StuckIsTold
<1> QED
  BY <1>1, <1>4, <1>5, CompleteInStep

\* key() and button(): what is pressed is held from now on, what is released is
\* excused until it is confirmed.
LEMMA CommandAccounted ==
  ASSUME Typed', Accounted, UserCommand
  PROVE  Accounted'
<1>1. /\ pc = "idle" /\ UNCHANGED <<hid, misread, late>>
      /\ pc' = "scan" => ~connected'
  BY DEF UserCommand, Command, SendHeader, TryWrite, Reinit, history
<1>2. CommandEnds => ~connected'
  BY <1>1 DEF CommandEnds
<1>3. Confirmed = {}
  BY <1>2 DEF Confirmed
<1>4. Excused \subseteq Excused' /\ (IsPress(cur') => cur' \in Excused')
  BY <1>3 DEF UserCommand, Excused, fingers
<1>5. StuckIsTold /\ ~late' => StuckIsTold'
  <2>1. Hid!Used' = Hid!Used /\ UNCHANGED <<modifiers, buttons>>
    BY <1>1 DEF hid, Hid!Used
  <2> QED
    BY <1>1, <1>4, <2>1, StuckStays
<1> QED
  BY <1>1, <1>4, <1>5 DEF Accounted, StuckIsTold, IsPress

\* An answer that confirms a release: what it released is in no report, so its
\* press excuses nothing any more.
LEMMA ConfirmedIsUp ==
  ASSUME Typed, InStep, Running, AnswerWaits, HP!TypeOK, ReadResponse, ~late,
         NEW p \in Confirmed
  PROVE  /\ \A k \in Keys : p = <<HDR_KEY_PRESS, k>> =>
                UsageOf[k] \notin Hid!Used /\ ModsOf[k] \cap modifiers = {}
         /\ \A b \in DOMAIN Hid!mouse_buttons : p = <<HDR_BUTTON_PRESS, b>> =>
                Hid!mouse_buttons[b] \cap buttons = {}
<1>1. /\ pc = "read" /\ live /\ up # <<>> /\ UNCHANGED cur
      /\ Head(up).val # RESP_ENOCON /\ IsRelease(cur) /\ p = PressOf(cur)
  BY DEF ReadResponse, Confirmed
<1>2. up[1].val = resp /\ Handled(cur) /\ resp # "ENOCON"
  BY <1>1, TailUp DEF AnswerWaits, Typed, RESP_ENOCON
<1>3. task = "idle"
  BY <1>1, WaitingIs, NoHandlerWhileAnswered DEF Answered
<1>4. cur[1] \in Byte /\ (cur[1] \in KeyHeaders => cur[2] \in Keys)
  BY CurIs, HeadersAre
<1>5. resp \in {"OK", "EINVAL_KEY"}
  BY <1>1, <1>2, <1>3
     DEF Handled, Answers, IsRelease, RESP_OK, RESP_ENOCON, RESP_EINVAL_KEY, IsCommand, HDR_MAX,
         HDR_PING, HDR_CLOSE, HDR_KEY_RELEASE, HDR_BUTTON_RELEASE
<1>6. p = <<cur[1] - 1, cur[2]>>
  BY <1>1 DEF PressOf
<1>7. ASSUME NEW k \in Keys, p = <<HDR_KEY_PRESS, k>>
      PROVE  UsageOf[k] \notin Hid!Used /\ ModsOf[k] \cap modifiers = {}
  <2>1. cur[1] - 1 = HDR_KEY_PRESS /\ cur[2] = k
    BY <1>6, <1>7
  <2>2. cur[1] = HDR_KEY_RELEASE
    BY <1>4, <2>1 DEF Byte, HDR_KEY_PRESS, HDR_KEY_RELEASE
  <2>3. resp = "OK"
    BY <1>2, <1>3, <1>4, <1>5, <2>2 DEF Handled, KeyHeaders
  <2>4. Lifted(cur)
    BY <1>2, <2>3 DEF Handled
  <2> QED
    BY <2>1, <2>2, <2>4 DEF Lifted, Hid!Used
<1>8. ASSUME NEW b \in DOMAIN Hid!mouse_buttons, p = <<HDR_BUTTON_PRESS, b>>
      PROVE  Hid!mouse_buttons[b] \cap buttons = {}
  <2>1. cur[1] - 1 = HDR_BUTTON_PRESS /\ cur[2] = b
    BY <1>6, <1>8
  <2>2. cur[1] = HDR_BUTTON_RELEASE
    BY <1>4, <2>1 DEF Byte, HDR_BUTTON_PRESS, HDR_BUTTON_RELEASE
  <2>3. resp = "OK"
    BY <1>2, <1>3, <1>5, <1>8, <2>1, <2>2 DEF Handled
  <2>4. Lifted(cur)
    BY <1>2, <2>3 DEF Handled
  <2> QED
    BY <2>1, <2>2, <2>4 DEF Lifted
<1> QED
  BY <1>7, <1>8

LEMMA ResponseAccounted ==
  ASSUME Typed, InStep, Running, AnswerWaits, HP!TypeOK, Accounted, ControllerStep, ReadResponse
  PROVE  Accounted'
<1>1. UNCHANGED <<hid, misread, userHeld, late>> /\ untold' = untold \ Confirmed
      /\ pc' \in {"off", "idle"}
  BY DEF ControllerStep, ReadResponse, Done, history
<1>2. Hid!Used' = Hid!Used /\ UNCHANGED <<modifiers, buttons>>
  BY <1>1 DEF hid, Hid!Used
<1>3. Excused \ Confirmed \subseteq Excused'
  BY <1>1 DEF Excused
<1>4. ASSUME ~late PROVE StuckIsTold'
  <2>1. StuckIsTold
    BY DEF Accounted
  <2>2. \A u \in Hid!Used : \E k \in Keys : <<HDR_KEY_PRESS, k>> \in Excused' /\ UsageOf[k] = u
    <3> TAKE u \in Hid!Used
    <3> PICK k \in Keys : <<HDR_KEY_PRESS, k>> \in Excused /\ UsageOf[k] = u
      BY <1>4, <2>1 DEF StuckIsTold
    <3> QED
      BY <1>3, <1>4, ConfirmedIsUp
  <2>3. \A m \in modifiers :
           \E k \in Keys : <<HDR_KEY_PRESS, k>> \in Excused' /\ m \in ModsOf[k]
    <3> TAKE m \in modifiers
    <3> PICK k \in Keys : <<HDR_KEY_PRESS, k>> \in Excused /\ m \in ModsOf[k]
      BY <1>4, <2>1 DEF StuckIsTold
    <3> QED
      BY <1>3, <1>4, ConfirmedIsUp
  <2>4. \A m \in buttons :
           \/ \E b \in DOMAIN Hid!mouse_buttons :
                 <<HDR_BUTTON_PRESS, b>> \in Excused' /\ m \in Hid!mouse_buttons[b]
           \/ misread /\ m = Hid!MOUSE_LEFT
    <3> TAKE m \in buttons
    <3>1. CASE misread /\ m = Hid!MOUSE_LEFT
      BY <3>1
    <3>2. CASE \E b \in DOMAIN Hid!mouse_buttons :
                  <<HDR_BUTTON_PRESS, b>> \in Excused /\ m \in Hid!mouse_buttons[b]
      <4> PICK b \in DOMAIN Hid!mouse_buttons :
                  <<HDR_BUTTON_PRESS, b>> \in Excused /\ m \in Hid!mouse_buttons[b]
        BY <3>2
      <4> QED
        BY <1>3, <1>4, ConfirmedIsUp
    <3> QED
      BY <1>4, <2>1, <3>1, <3>2 DEF StuckIsTold
  <2> QED
    BY <1>1, <1>2, <2>2, <2>3, <2>4 DEF StuckIsTold
<1> QED
  BY <1>1, <1>4 DEF Accounted, StuckIsTold

LEMMA ControllerAccounted ==
  ASSUME Accounted, ControllerStep, ~ReadResponse
  PROVE  Accounted'
<1>1. SendData \/ ReadTimeout \/ Discover \/ Quit \/ Start \/ Crash
  BY DEF ControllerStep
<1>2. UNCHANGED <<hid, misread, userHeld>> /\ untold' = untold \ Confirmed
  BY DEF ControllerStep
<1>3. ~CommandEnds \/ ~connected'
  <2>1. CASE SendData
    BY <2>1 DEF SendData, TryWrite, Reinit, CommandEnds
  <2>2. CASE ReadTimeout
    BY <2>2 DEF ReadTimeout
  <2>3. CASE Discover
    BY <2>3 DEF Discover, SkipPort, SendPing, Found, WrongAnswer, PingTimeout, NextPort, NotFound,
                CommandEnds
  <2>4. CASE Quit
    BY <2>4 DEF Quit, TryWrite, Reinit, CommandEnds
  <2>5. CASE Start \/ Crash
    BY <2>5 DEF Start, Reinit, Crash, CommandEnds
  <2> QED
    BY <1>1, <2>1, <2>2, <2>3, <2>4, <2>5
<1>4. Excused' = Excused /\ Hid!Used' = Hid!Used /\ UNCHANGED <<modifiers, buttons, misread>>
  BY <1>2, <1>3 DEF Confirmed, Excused, hid, Hid!Used
<1>5. late' \/ ~late
  BY <1>1 DEF SendData, ReadTimeout, Discover, SkipPort, SendPing, Found, WrongAnswer, PingTimeout,
              NotFound, Quit, Start, Crash, NoAnswer, history
<1>6. live' /\ pc' \in {"data", "read"} /\ IsPress(cur') =>
        live /\ pc \in {"data", "read"} /\ cur' = cur
  <2>1. CASE SendData
    BY <2>1 DEF SendData, TryWrite, Reinit
  <2>2. CASE ReadTimeout \/ Found \/ NotFound
    BY <2>2 DEF ReadTimeout, Found, NotFound, Done
  <2>3. CASE SkipPort \/ SendPing \/ WrongAnswer \/ PingTimeout
    BY <2>3 DEF SkipPort, SendPing, WrongAnswer, PingTimeout, NextPort
  <2>4. CASE Quit
    <3>1. pc' = "off" \/ cur' = Close
      BY <2>4 DEF Quit
    <3> QED
      BY <3>1 DEF IsPress, Close, HDR_CLOSE, HDR_KEY_PRESS, HDR_BUTTON_PRESS
  <2>5. CASE Start \/ Crash
    BY <2>5 DEF Start, Reinit, Crash
  <2> QED
    BY <1>1, <2>1, <2>2, <2>3, <2>4, <2>5 DEF Discover
<1> QED
  BY <1>4, <1>5, <1>6 DEF Accounted, StuckIsTold

LEMMA AccountedStep ==
  ASSUME Typed, Typed', InStep, Running, AnswerWaits, HP!TypeOK, Accounted, [BoardNext]_board
  PROVE  Accounted'
<1>1. CASE UserCommand
  BY <1>1, CommandAccounted
<1>2. CASE ControllerStep
  BY <1>2, ResponseAccounted, ControllerAccounted
<1>3. CASE FwHandle
  BY <1>3, HandleAccounted
<1>4. CASE /\ Excused' = Excused /\ Hid!Used' \subseteq Hid!Used
           /\ modifiers' \subseteq modifiers /\ buttons' \subseteq buttons
           /\ misread => misread'
           /\ late => late'
           /\ ~late' => (live' => live) /\ UNCHANGED <<pc, cur>>
  BY <1>4, StuckStays DEF Accounted, StuckIsTold
<1>5. CASE /\ UNCHANGED hid
           /\ ReleaseElsewhere \/ FwByte \/ FwReply \/ Cable \/ UNCHANGED board
  <2>1. Hid!Used' = Hid!Used /\ UNCHANGED <<modifiers, buttons>>
    BY <1>5 DEF hid, Hid!Used
  <2>2. Excused' = Excused /\ UNCHANGED <<misread, pc, cur>>
    BY <1>5 DEF ReleaseElsewhere, FwByte, FwRead, FwReply, Cable, Unplug, Plug, board, vars,
                controller, fingers, Excused
  <2>3. live' => live
    BY <1>5 DEF ReleaseElsewhere, FwByte, FwRead, FwReply, Cable, Unplug, Plug, board, vars
  <2>4. late => late'
    <3>1. CASE Unplug
      BY <3>1, Zenon DEF Unplug
    <3>2. CASE UNCHANGED history
      BY <3>2 DEF history
    <3> QED
      BY <1>5, <3>1, <3>2 DEF ReleaseElsewhere, FwByte, FwRead, FwReply, Cable, Plug, board, vars
  <2> QED
    BY <1>4, <2>1, <2>2, <2>3, <2>4
<1>6. CASE FwSend \/ BleLink
  <2>1. UNCHANGED <<keys, modifiers>> /\ buttons' \subseteq buttons
    BY <1>6 DEF FwSend, BleLink, Hid!Send, Hid!SendReport, Hid!SendMouse, Hid!ReleaseMask, Hid!report,
                Hid!OnConnect, Hid!Subscribe, Hid!OnDisconnect
  <2>2. Hid!Used' = Hid!Used
    BY <2>1 DEF Hid!Used
  <2>3. Excused' = Excused /\ UNCHANGED <<misread, pc, cur, late, live>>
    BY <1>6 DEF FwSend, BleLink, vars, controller, history, fingers, Excused
  <2> QED
    BY <1>4, <2>1, <2>2, <2>3
<1>7. CASE PowerLost
  <2>1. Hid!Used' = {} /\ modifiers' = {} /\ buttons' = {} /\ ~live'
    BY <1>7 DEF PowerLost, PowerCycle, Hid!PowerCycle, Hid!Used
  <2> QED
    BY <2>1 DEF Accounted, StuckIsTold
<1> QED
  BY <1>1, <1>2, <1>3, <1>5, <1>6, <1>7
     DEF BoardNext, ReleaseElsewhere, FwByte, FwReply, Cable, board

\* What the user let go of stays in the reports only as long as the status
\* line has not said "connected" since, but for the left button of a PING that
\* was taken for an argument.
THEOREM StuckTold == BoardSpec => []StuckIsTold
<1>1. BoardInit => Accounted
  BY DEF BoardInit, Init, Hid!Init, Hid!Used, Accounted, StuckIsTold
<1>2. Accounted => StuckIsTold
  BY DEF Accounted
<1> QED
  BY <1>1, <1>2, BoardHolds, HidHolds, AccountedStep, PTL DEF BoardSpec

-----------------------------------------------------------------------------
(* The tables of KeyMap, which stand behind Keys, UsageOf and ModsOf.      *)

Pressed(u, m) == [usage |-> u, mods |-> m]

\* What the report has of the keysym s.
Seen(s, r) ==
    LET b == Map!translate_keysym(s, r)
    IN  IF b = 0 THEN Pressed(0, {}) ELSE Map!Report(Map!translate(b))

\* Each table has an entry once, and the tables of keysyms have none in common
\* but for the characters of the layout.
LEMMA AsciiIs ==
  /\ DOMAIN Map!Ascii = 1..95
  /\ \A i, j \in 1..95 : Map!Ascii[i] = Map!Ascii[j] => i = j
BY SMTT(60) DEF Map!Ascii

LEMMA NonasciiIs ==
  /\ DOMAIN Map!nonascii = 1..65
  /\ \A i, j \in 1..65 : Map!nonascii[i] = Map!nonascii[j] => i = j
  /\ \A i \in 1..65 : Map!nonascii[i] \notin {"ISO_Level3_Shift", "KP_Separator"}
BY SMTT(60) DEF Map!nonascii

LEMMA PadIs ==
  /\ DOMAIN Map!number_pad = 1..10
  /\ \A i, j \in 1..10 : Map!number_pad[i] = Map!number_pad[j] => i = j
  /\ \A i \in 1..10 : Map!number_pad[i] \notin {"ISO_Level3_Shift", "KP_Separator"}
  /\ \A i \in 1..65, j \in 1..10 : Map!nonascii[i] # Map!number_pad[j]
BY SMTT(60) DEF Map!number_pad, Map!nonascii

LEMMA LayoutIs ==
  /\ DOMAIN Map!layout =
       {"y", "z", "asciicircum", "ssharp", "acute", "plus", "minus", "numbersign",
        "equal", "odiaeresis", "adiaeresis", "udiaeresis"}
  /\ DOMAIN Map!custom_xkb = {"Insert", "Delete", "Page_Up", "Page_Down", "Home", "End"}
BY Zenon DEF Map!layout, Map!custom_xkb

LEMMA LayoutChars ==
  /\ Map!layout["y"] = "z" /\ Map!layout["z"] = "y" /\ Map!layout["asciicircum"] = "grave"
  /\ Map!layout["ssharp"] = "minus" /\ Map!layout["acute"] = "equal"
  /\ Map!layout["plus"] = "bracketright" /\ Map!layout["minus"] = "slash"
  /\ Map!layout["numbersign"] = "backslash" /\ Map!layout["equal"] = "apostrophe"
  /\ Map!layout["adiaeresis"] = "apostrophe" /\ Map!layout["odiaeresis"] = "semicolon"
  /\ Map!layout["udiaeresis"] = "bracketleft"
<1>1. Map!layout["y"] = "z" /\ Map!layout["z"] = "y" /\ Map!layout["asciicircum"] = "grave"
  BY ZenonT(30) DEF Map!layout
<1>2. Map!layout["ssharp"] = "minus" /\ Map!layout["acute"] = "equal"
  BY ZenonT(30) DEF Map!layout
<1>3. Map!layout["plus"] = "bracketright" /\ Map!layout["minus"] = "slash"
  BY ZenonT(30) DEF Map!layout
<1>4. Map!layout["numbersign"] = "backslash" /\ Map!layout["equal"] = "apostrophe"
  BY ZenonT(30) DEF Map!layout
<1>5. Map!layout["adiaeresis"] = "apostrophe" /\ Map!layout["odiaeresis"] = "semicolon"
  BY ZenonT(30) DEF Map!layout
<1>6. Map!layout["udiaeresis"] = "bracketleft"
  BY ZenonT(30) DEF Map!layout
<1> QED
  BY <1>1, <1>2, <1>3, <1>4, <1>5, <1>6

LEMMA CustomIs ==
  /\ Map!custom_xkb["Insert"] = 14 /\ Map!custom_xkb["Delete"] = 12
  /\ Map!custom_xkb["Page_Up"] = 8 /\ Map!custom_xkb["Page_Down"] = 9
  /\ Map!custom_xkb["Home"] = 10 /\ Map!custom_xkb["End"] = 11
<1>1. Map!custom_xkb["Insert"] = 14 /\ Map!custom_xkb["Delete"] = 12
  BY ZenonT(30) DEF Map!custom_xkb
<1>2. Map!custom_xkb["Page_Up"] = 8 /\ Map!custom_xkb["Page_Down"] = 9
  BY ZenonT(30) DEF Map!custom_xkb
<1>3. Map!custom_xkb["Home"] = 10 /\ Map!custom_xkb["End"] = 11
  BY ZenonT(30) DEF Map!custom_xkb
<1> QED
  BY <1>1, <1>2, <1>3

\* ... and the layout leads to characters.
LEMMA LayoutToAscii == \A s \in DOMAIN Map!layout : Map!layout[s] \in Map!Chars
<1>1. /\ Map!Ascii[91] = "z" /\ Map!Ascii[90] = "y" /\ Map!Ascii[65] = "grave"
      /\ Map!Ascii[14] = "minus" /\ Map!Ascii[30] = "equal" /\ Map!Ascii[62] = "bracketright"
      /\ Map!Ascii[16] = "slash" /\ Map!Ascii[61] = "backslash" /\ Map!Ascii[8] = "apostrophe"
      /\ Map!Ascii[28] = "semicolon" /\ Map!Ascii[60] = "bracketleft"
  BY SMTT(60) DEF Map!Ascii
<1>2. \A i \in 1..95 : Map!Ascii[i] \in Map!Chars
  BY AsciiIs DEF Map!Chars, Map!Range
<1> QED
  BY <1>1, <1>2, LayoutIs, LayoutChars

LEMMA LayoutApart ==
  /\ \A i \in 1..65 : Map!nonascii[i] \notin DOMAIN Map!layout
  /\ \A i \in 1..10 : Map!number_pad[i] \notin DOMAIN Map!layout
BY LayoutIs, SMTT(60) DEF Map!nonascii, Map!number_pad

LEMMA AsciiApart ==
  /\ \A i \in 1..65, j \in 1..95 : Map!nonascii[i] # Map!Ascii[j]
  /\ \A i \in 1..10, j \in 1..95 : Map!number_pad[i] # Map!Ascii[j]
  /\ \A j \in 1..95 : Map!Ascii[j] \notin {"ISO_Level3_Shift", "KP_Separator"}
BY SMTT(60) DEF Map!nonascii, Map!Ascii, Map!number_pad

\* So a table says where its entry is.
LEMMA CodeIs == \A i \in 1..95 : Map!Ascii[i] \in Map!Chars /\ Map!Code(Map!Ascii[i]) = 31 + i
BY AsciiIs DEF Map!Code, Map!Place, Map!Chars, Map!Range

LEMMA DistanceIs ==
  /\ \A m \in 1..65 : Map!nonascii[m] \in Map!NonAscii /\ Map!Distance(Map!nonascii[m]) = m - 1
  /\ \A j \in 1..10 :
       Map!number_pad[j] \in Map!NonAscii /\ Map!Distance(Map!number_pad[j]) = 47 + j
  /\ "ISO_Level3_Shift" \in Map!NonAscii /\ Map!Distance("ISO_Level3_Shift") = 6
  /\ "KP_Separator" \in Map!NonAscii /\ Map!Distance("KP_Separator") = 63
<1>1. \A m \in 1..65 :
         /\ Map!nonascii[m] \in Map!Range(Map!nonascii)
         /\ Map!nonascii[m] \notin Map!Range(Map!number_pad)
         /\ Map!Place(Map!nonascii, Map!nonascii[m]) = m
  BY NonasciiIs, PadIs DEF Map!Range, Map!Place
<1>2. \A j \in 1..10 :
         /\ Map!number_pad[j] \notin Map!Range(Map!nonascii)
         /\ Map!number_pad[j] \in Map!Range(Map!number_pad)
         /\ Map!Place(Map!number_pad, Map!number_pad[j]) = j
  BY NonasciiIs, PadIs DEF Map!Range, Map!Place
<1>3. \A s \in {"ISO_Level3_Shift", "KP_Separator"} :
         s \notin Map!Range(Map!nonascii) /\ s \notin Map!Range(Map!number_pad)
  BY NonasciiIs, PadIs DEF Map!Range
<1>4. \A m \in 1..65 :
         Map!Distance(Map!nonascii[m]) = Map!Place(Map!nonascii, Map!nonascii[m]) - 1
  BY <1>1, NonasciiIs, Zenon DEF Map!Distance
<1>5. \A j \in 1..10 :
         Map!Distance(Map!number_pad[j]) = 47 + Map!Place(Map!number_pad, Map!number_pad[j])
  BY <1>2, PadIs, Zenon DEF Map!Distance
<1>6. Map!Distance("ISO_Level3_Shift") = 6 /\ Map!Distance("KP_Separator") = 63
  BY <1>3, Zenon DEF Map!Distance
<1> QED
  BY <1>1, <1>2, <1>4, <1>5, <1>6 DEF Map!NonAscii

\* The library's side: what a byte the firmware knows does to the report.
LEMMA KeysIs ==
  /\ DOMAIN Map!nonascii_keys = 1..65 /\ Len(Map!nonascii_keys) = 65
  /\ \A m \in 1..8 : Map!nonascii_keys[m] = 127 + m
  /\ \A m \in 9..65 : Map!nonascii_keys[m] \in 137..255
BY SMTT(60) DEF Map!nonascii_keys

LEMMA AsciimapIs ==
  \A i \in 1..95 : Map!asciimap[i] \in 1..119 \cup 129..247
BY SMTT(60) DEF Map!asciimap, Map!SHIFT

LEMMA TranslateIs ==
  /\ \A i \in 1..95 : Map!translate(31 + i) = 31 + i
  /\ \A m \in 1..65 : Map!translate(126 + m) = Map!nonascii_keys[m]
<1>1. \A i \in 1..95 : Map!translate(31 + i) = 31 + i
  <2>1. \A i \in 1..95 : 31 + i \in 32..126
    OBVIOUS
  <2> QED
    BY <2>1, Zenon DEF Map!translate
<1>2. ASSUME NEW m \in 1..65 PROVE Map!translate(126 + m) = Map!nonascii_keys[m]
  <2> DEFINE b == 126 + m
  <2>1. b \notin 32..126 /\ b \in 127..126 + Len(Map!nonascii_keys) /\ b - 126 = m
    BY KeysIs
  <2> HIDE DEF b
  <2>2. Map!translate(b) = Map!nonascii_keys[b - 126]
    BY <2>1, Zenon DEF Map!translate
  <2> QED
    BY <2>1, <2>2 DEF b
<1> QED
  BY <1>1, <1>2

LEMMA ReportIs ==
  /\ \A i \in 1..95 :
       Map!Report(Map!translate(31 + i)) =
         Pressed(Map!asciimap[i] % 128, IF Map!asciimap[i] >= 128 THEN {1} ELSE {})
  /\ \A m \in 1..8 : Map!Report(Map!translate(126 + m)) = Pressed(0, {m - 1})
  /\ \A m \in 9..65 :
       Map!Report(Map!translate(126 + m)) = Pressed(Map!nonascii_keys[m] - 136, {})
<1>1. ASSUME NEW i \in 1..95
      PROVE  Map!Report(31 + i) =
               Pressed(Map!asciimap[i] % 128, IF Map!asciimap[i] >= 128 THEN {1} ELSE {})
  <2>1. ~(31 + i >= 136) /\ ~(31 + i >= 128) /\ (31 + i) - 31 = i
    OBVIOUS
  <2> QED
    BY <2>1, Zenon DEF Map!Report, Map!SHIFT, Pressed
<1>2. ASSUME NEW i \in 1..95
      PROVE  Map!Report(Map!translate(31 + i)) =
               Pressed(Map!asciimap[i] % 128, IF Map!asciimap[i] >= 128 THEN {1} ELSE {})
  BY <1>1, TranslateIs, Zenon
<1>3. ASSUME NEW m \in 1..8 PROVE Map!Report(Map!translate(126 + m)) = Pressed(0, {m - 1})
  <2>1. Map!translate(126 + m) = 127 + m
    BY TranslateIs, KeysIs
  <2>2. Map!Report(127 + m) = Pressed(0, {m - 1})
    BY DEF Map!Report, Pressed
  <2> QED
    BY <2>1, <2>2, Zenon
<1>4. ASSUME NEW m \in 9..65
      PROVE  Map!Report(Map!translate(126 + m)) = Pressed(Map!nonascii_keys[m] - 136, {})
  <2>1. Map!translate(126 + m) = Map!nonascii_keys[m] /\ Map!nonascii_keys[m] \in 137..255
    BY TranslateIs, KeysIs
  <2>2. \A k \in 137..255 : Map!Report(k) = Pressed(k - 136, {})
    BY DEF Map!Report, Pressed
  <2> QED
    BY <2>1, <2>2, Zenon
<1> QED
  BY <1>2, <1>3, <1>4

\* Byte by byte, the keysyms of the three tables.
LEMMA CharIs ==
  ASSUME NEW i \in 1..95, NEW r \in BOOLEAN, Map!Ascii[i] \notin DOMAIN Map!layout
  PROVE  Map!translate_keysym(Map!Ascii[i], r) = 31 + i
BY CodeIs DEF Map!translate_keysym

LEMMA LaidOutIs ==
  ASSUME NEW s \in DOMAIN Map!layout, NEW i \in 1..95, NEW r \in BOOLEAN,
         Map!layout[s] = Map!Ascii[i]
  PROVE  Map!translate_keysym(s, r) = 31 + i
BY CodeIs DEF Map!translate_keysym

LEMMA NonCharIs ==
  ASSUME NEW s \in Map!NonAscii
  PROVE  /\ Map!translate_keysym(s, FALSE) = 127 + Map!Distance(s)
         /\ Map!Distance(s) \in 0..64
         /\ s \notin DOMAIN Map!layout /\ s \notin Map!Chars
<1>1. \/ \E m \in 1..65 : s = Map!nonascii[m]
      \/ \E j \in 1..10 : s = Map!number_pad[j]
      \/ s \in {"ISO_Level3_Shift", "KP_Separator"}
  BY NonasciiIs, PadIs DEF Map!NonAscii, Map!Range
<1>2. Map!Distance(s) \in 0..64
  BY <1>1, DistanceIs
<1>3. s \notin Map!Chars
  BY <1>1, AsciiApart, AsciiIs DEF Map!Chars, Map!Range
<1>4. s \notin DOMAIN Map!layout
  BY <1>1, LayoutApart, LayoutIs
<1> QED
  BY <1>2, <1>3, <1>4 DEF Map!translate_keysym, Map!NONASCII_BASE

\* Every byte for a keysym is the 31 + i of a character or the 126 + m of a key
\* that has none.
LEMMA ByteIs ==
  ASSUME NEW s \in Map!Keysyms, NEW r \in BOOLEAN
  PROVE  Map!translate_keysym(s, r) \in {0} \cup 32..191
<1>1. CASE s \in DOMAIN Map!layout
  <2>1. Map!layout[s] \in Map!Chars
    BY <1>1, LayoutToAscii
  <2>2. PICK i \in 1..95 : Map!layout[s] = Map!Ascii[i]
    BY <2>1, AsciiIs DEF Map!Chars, Map!Range
  <2> QED
    BY <1>1, <2>2, LaidOutIs
<1>2. CASE s \notin DOMAIN Map!layout /\ s \in Map!Chars
  <2>1. PICK i \in 1..95 : s = Map!Ascii[i]
    BY <1>2, AsciiIs DEF Map!Chars, Map!Range
  <2> QED
    BY <1>2, <2>1, CharIs
<1>3. CASE s \notin DOMAIN Map!layout /\ s \notin Map!Chars
  <2>1. CASE r /\ s \in DOMAIN Map!custom_xkb
    <3>1. Map!custom_xkb[s] \in 8..14
      BY <2>1, LayoutIs, CustomIs
    <3> QED
      BY <1>3, <2>1, <3>1 DEF Map!translate_keysym, Map!NONASCII_BASE
  <2>2. CASE ~(r /\ s \in DOMAIN Map!custom_xkb)
    <3>1. s \in Map!NonAscii => Map!Distance(s) \in 0..64
      BY NonCharIs
    <3> QED
      BY <1>3, <2>2, <3>1 DEF Map!translate_keysym, Map!NONASCII_BASE
  <2> QED
    BY <2>1, <2>2
<1> QED
  BY <1>1, <1>2, <1>3

LEMMA RecordParts ==
  ASSUME NEW u, NEW v, NEW a, NEW b, Pressed(u, a) = Pressed(v, b)
  PROVE  u = v /\ a = b
<1>1. Pressed(u, a).usage = u /\ Pressed(u, a).mods = a
  BY DEF Pressed
<1>2. Pressed(v, b).usage = v /\ Pressed(v, b).mods = b
  BY DEF Pressed
<1> QED
  BY <1>1, <1>2, Zenon

LEMMA ReportParts ==
  ASSUME NEW k PROVE Map!Report(k) = Pressed(Map!Report(k).usage, Map!Report(k).mods)
BY DEF Map!Report, Pressed

\* The firmware and the library know each of them.
LEMMA ByteTyped ==
  ASSUME NEW b \in 32..191
  PROVE  /\ Map!translate(b) \in 32..126 \cup 128..255 /\ Map!translate(b) # 0
         /\ Map!Report(Map!translate(b)).usage \in 0..119
         /\ Map!Report(Map!translate(b)).mods \subseteq 0..7
         /\ \/ Map!Report(Map!translate(b)).usage # 0
            \/ Map!Report(Map!translate(b)).mods # {}
<1>1. CASE b \in 32..126
  <2>1. b - 31 \in 1..95 /\ 31 + (b - 31) = b
    BY <1>1
  <2>2. Map!asciimap[b - 31] \in 1..119 \cup 129..247
    BY <2>1, AsciimapIs
  <2>3. Map!Report(Map!translate(b)) =
          Pressed(Map!asciimap[b - 31] % 128, IF Map!asciimap[b - 31] >= 128 THEN {1} ELSE {})
    BY <2>1, ReportIs
  <2>4. Map!translate(b) = b
    BY <1>1, Zenon DEF Map!translate
  <2>5. Map!asciimap[b - 31] % 128 \in 1..119
    BY <2>2
  <2> QED
    BY <1>1, <2>3, <2>4, <2>5 DEF Pressed
<1>2. CASE b \in 127..134
  <2>1. b - 126 \in 1..8 /\ 126 + (b - 126) = b
    BY <1>2
  <2>2. Map!Report(Map!translate(b)) = Pressed(0, {b - 126 - 1})
    BY <2>1, ReportIs
  <2>3. Map!translate(b) = Map!nonascii_keys[b - 126]
    <3>1. b - 126 \in 1..65
      BY <1>2
    <3> QED
      BY <2>1, <3>1, TranslateIs, Zenon
  <2>4. Map!nonascii_keys[b - 126] \in 128..135
    BY <2>1, KeysIs
  <2> QED
    BY <1>2, <2>2, <2>3, <2>4 DEF Pressed
<1>3. CASE b \in 135..191
  <2>1. b - 126 \in 9..65 /\ 126 + (b - 126) = b
    BY <1>3
  <2>2. Map!Report(Map!translate(b)) = Pressed(Map!nonascii_keys[b - 126] - 136, {})
    BY <2>1, ReportIs
  <2>3. Map!translate(b) = Map!nonascii_keys[b - 126]
    <3>1. b - 126 \in 1..65
      BY <1>3
    <3> QED
      BY <2>1, <3>1, TranslateIs, Zenon
  <2>4. Map!nonascii_keys[b - 126] \in 137..255
    BY <2>1, KeysIs
  <2> QED
    BY <1>3, <2>2, <2>3, <2>4 DEF Pressed
<1> QED
  BY <1>1, <1>2, <1>3

\* The reference's rows, by the table their key has in the program.
LEMMA AsciiRows ==
  /\ \A i \in 1..24 :
       Map!Positions[i] = Map!Ascii[65 + i] /\ Map!asciimap[65 + i] = i + 3
  /\ \A i \in 27..35 :
       Map!Positions[i] = Map!Ascii[i - 9] /\ Map!asciimap[i - 9] = i + 3
  /\ \A p \in {<<36, 17>>, <<41, 1>>, <<51, 13>>, <<52, 15>>, <<97, 29>>} :
       Map!Positions[p[1]] = Map!Ascii[p[2]] /\ Map!asciimap[p[2]] = p[1] + 3
BY SMTT(60) DEF Map!Positions, Map!Ascii, Map!asciimap, Map!SHIFT

LEMMA LayoutRows ==
  \A p \in {<<25, 90>>, <<26, 91>>, <<42, 14>>, <<43, 30>>, <<44, 60>>, <<45, 62>>,
            <<48, 28>>, <<49, 8>>, <<50, 65>>, <<53, 16>>} :
    /\ Map!Positions[p[1]] \in DOMAIN Map!layout
    /\ Map!layout[Map!Positions[p[1]]] = Map!Ascii[p[2]]
    /\ Map!asciimap[p[2]] = p[1] + 3
<1>1. /\ Map!Positions[25] = "z" /\ Map!Positions[26] = "y" /\ Map!Positions[42] = "ssharp"
      /\ Map!Positions[43] = "acute" /\ Map!Positions[44] = "udiaeresis"
      /\ Map!Positions[45] = "plus"
      /\ Map!Positions[48] = "odiaeresis" /\ Map!Positions[49] = "adiaeresis"
      /\ Map!Positions[50] = "asciicircum" /\ Map!Positions[53] = "minus"
  BY SMTT(60) DEF Map!Positions
<1>2. /\ Map!Ascii[91] = "z" /\ Map!Ascii[90] = "y" /\ Map!Ascii[65] = "grave"
      /\ Map!Ascii[14] = "minus" /\ Map!Ascii[30] = "equal" /\ Map!Ascii[62] = "bracketright"
      /\ Map!Ascii[16] = "slash" /\ Map!Ascii[61] = "backslash" /\ Map!Ascii[8] = "apostrophe"
      /\ Map!Ascii[28] = "semicolon" /\ Map!Ascii[60] = "bracketleft"
  BY SMTT(60) DEF Map!Ascii
<1>3. /\ Map!asciimap[90] = 28 /\ Map!asciimap[91] = 29 /\ Map!asciimap[14] = 45
      /\ Map!asciimap[30] = 46 /\ Map!asciimap[60] = 47 /\ Map!asciimap[62] = 48
      /\ Map!asciimap[61] = 49 /\ Map!asciimap[28] = 51 /\ Map!asciimap[8] = 52
      /\ Map!asciimap[65] = 53 /\ Map!asciimap[16] = 56
  BY SMTT(60) DEF Map!asciimap, Map!SHIFT
<1> QED
  BY <1>1, <1>2, <1>3, LayoutIs, LayoutChars

LEMMA NonasciiRows ==
  /\ \A i \in 37..38 :
       Map!Positions[i] = Map!nonascii[i - 22] /\ Map!nonascii_keys[i - 22] = i + 139
  /\ \A i \in 39..40 :
       Map!Positions[i] = Map!nonascii[i - 26] /\ Map!nonascii_keys[i - 26] = i + 139
  /\ \A i \in 54..66 :
       Map!Positions[i] = Map!nonascii[i - 30] /\ Map!nonascii_keys[i - 30] = i + 139
  /\ \A i \in 76..79 :
       Map!Positions[i] = Map!nonascii[88 - i] /\ Map!nonascii_keys[88 - i] = i + 139
  /\ \A i \in 81..85 :
       Map!Positions[i] = Map!nonascii[i - 22] /\ Map!nonascii_keys[i - 22] = i + 139
  /\ \A i \in 86..94 :
       Map!Positions[i] = Map!nonascii[i - 36] /\ Map!nonascii_keys[i - 36] = i + 139
  /\ \A i \in 101..112 :
       Map!Positions[i] = Map!nonascii[i - 64] /\ Map!nonascii_keys[i - 64] = i + 139
  /\ \A p \in {<<67, 18>>, <<70, 17>>, <<71, 22>>, <<72, 20>>, <<73, 19>>, <<74, 23>>,
               <<75, 21>>, <<80, 65>>, <<95, 49>>, <<96, 64>>} :
       Map!Positions[p[1]] = Map!nonascii[p[2]] /\ Map!nonascii_keys[p[2]] = p[1] + 139
BY SMTT(60) DEF Map!Positions, Map!nonascii, Map!nonascii_keys

LEMMA NoRows ==
  /\ DOMAIN Map!Positions = 1..112
  /\ \A i \in {46, 68, 69, 98, 99, 100} : Map!Positions[i] = "VoidSymbol"
BY SMTT(60) DEF Map!Positions

\* The one row for which the program has another usage.
LEMMA NumbersignRow ==
  /\ Map!Positions[47] = "numbersign"
  /\ "numbersign" \in DOMAIN Map!layout /\ Map!layout["numbersign"] = Map!Ascii[61]
  /\ Map!asciimap[61] = 49
<1>1. Map!Positions[47] = "numbersign"
  BY SMTT(60) DEF Map!Positions
<1>2. Map!Ascii[61] = "backslash"
  BY SMTT(60) DEF Map!Ascii
<1>3. Map!asciimap[61] = 49
  BY SMTT(60) DEF Map!asciimap, Map!SHIFT
<1> QED
  BY <1>1, <1>2, <1>3, LayoutIs, LayoutChars

LEMMA NumLockRows ==
  /\ DOMAIN Map!NumLockPositions = 1..11
  /\ \A i \in 1..9 : /\ Map!NumLockPositions[i] = Map!number_pad[i + 1]
                     /\ Map!nonascii_keys[49 + i] = i + 224
  /\ Map!NumLockPositions[10] = Map!number_pad[1] /\ Map!nonascii_keys[49] = 234
  /\ Map!NumLockPositions[11] = "KP_Separator" /\ Map!nonascii_keys[64] = 235
BY SMTT(60) DEF Map!NumLockPositions, Map!number_pad, Map!nonascii_keys

LEMMA ModifierRows ==
  /\ DOMAIN Map!ModifierKeys = 1..9
  /\ \A i \in 1..8 : /\ Map!ModifierKeys[i] = Map!nonascii[i]
                     /\ Map!nonascii[i] # "ISO_Level3_Shift"
  /\ Map!ModifierKeys[9] = "ISO_Level3_Shift"
BY SMTT(60) DEF Map!ModifierKeys, Map!nonascii

LEMMA NoVoid == "VoidSymbol" \notin Map!Keysyms
<1>1. \A i \in 1..95 : Map!Ascii[i] # "VoidSymbol"
  BY SMTT(60) DEF Map!Ascii
<1>2. \A i \in 1..65 : Map!nonascii[i] # "VoidSymbol"
  BY SMTT(60) DEF Map!nonascii
<1>3. \A i \in 1..10 : Map!number_pad[i] # "VoidSymbol"
  BY SMTT(60) DEF Map!number_pad
<1>4. "VoidSymbol" \notin Map!Chars
  BY <1>1, AsciiIs DEF Map!Chars, Map!Range
<1>5. "VoidSymbol" \notin Map!NonAscii
  BY <1>2, <1>3, NonasciiIs, PadIs DEF Map!NonAscii, Map!Range
<1> QED
  BY <1>4, <1>5, LayoutIs DEF Map!Keysyms, Map!Unsupported

LEMMA PlainRows ==
  \A i \in 1..24 \cup 27..36 \cup {41, 51, 52, 97} : Map!Positions[i] \notin DOMAIN Map!layout
BY LayoutIs, SMTT(60) DEF Map!Positions

\* What the report has of each kind of keysym.
LEMMA CharSeen ==
  ASSUME NEW i \in 1..95, NEW s, NEW r \in BOOLEAN, NEW u \in 1..127,
         \/ s = Map!Ascii[i] /\ s \notin DOMAIN Map!layout
         \/ s \in DOMAIN Map!layout /\ Map!layout[s] = Map!Ascii[i],
         Map!asciimap[i] = u
  PROVE  Seen(s, r) = Pressed(u, {})
<1>1. Map!translate_keysym(s, r) = 31 + i
  BY CharIs, LaidOutIs
<1>2. Map!Report(Map!translate(31 + i)) = Pressed(u % 128, IF u >= 128 THEN {1} ELSE {})
  BY ReportIs
<1>3. u % 128 = u /\ ~(u >= 128) /\ 31 + i # 0
  OBVIOUS
<1> QED
  BY <1>1, <1>2, <1>3, Zenon DEF Seen

LEMMA ModifierSeen ==
  ASSUME NEW s \in Map!NonAscii, NEW m \in 1..8, Map!Distance(s) = m - 1
  PROVE  Seen(s, FALSE) = Pressed(0, {m - 1})
<1>1. Map!translate_keysym(s, FALSE) = 127 + (m - 1)
  BY NonCharIs
<1>2. 127 + (m - 1) = 126 + m /\ 126 + m # 0
  OBVIOUS
<1>3. Map!Report(Map!translate(126 + m)) = Pressed(0, {m - 1})
  BY ReportIs
<1> QED
  BY <1>1, <1>2, <1>3, Zenon DEF Seen

LEMMA NonCharSeen ==
  ASSUME NEW s \in Map!NonAscii, NEW m \in 9..65, Map!Distance(s) = m - 1,
         NEW u, Map!nonascii_keys[m] - 136 = u
  PROVE  Seen(s, FALSE) = Pressed(u, {})
<1>1. Map!translate_keysym(s, FALSE) = 127 + (m - 1)
  BY NonCharIs
<1>2. 127 + (m - 1) = 126 + m /\ 126 + m # 0
  OBVIOUS
<1>3. Map!Report(Map!translate(126 + m)) = Pressed(Map!nonascii_keys[m] - 136, {})
  BY ReportIs
<1> QED
  BY <1>1, <1>2, <1>3, Zenon DEF Seen

\* The rows, as they are in the report.
LEMMA NumbersignSeen == Seen(Map!Positions[47], FALSE) = Pressed(49, {})
<1> DEFINE s == Map!Positions[47]
<1>1. s \in DOMAIN Map!layout /\ Map!layout[s] = Map!Ascii[61] /\ Map!asciimap[61] = 49
  BY NumbersignRow
<1>2. 61 \in 1..95 /\ 49 \in 1..127 /\ FALSE \in BOOLEAN
  OBVIOUS
<1> HIDE DEF s
<1>3. Seen(s, FALSE) = Pressed(49, {})
  <2>1. ASSUME NEW a \in 1..95, NEW u \in 1..127, Map!asciimap[a] = u,
               s \in DOMAIN Map!layout /\ Map!layout[s] = Map!Ascii[a]
        PROVE  Seen(s, FALSE) = Pressed(u, {})
    BY <2>1, CharSeen
  <2> QED
    BY <1>1, <1>2, <2>1
<1> QED
  BY <1>3 DEF s

LEMMA PositionSeen ==
  ASSUME NEW i \in 1..112 \ {47}, Map!Positions[i] \in Map!Keysyms
  PROVE  Seen(Map!Positions[i], FALSE) = Pressed(i + 3, {})
<1> DEFINE s == Map!Positions[i]
<1>1. ASSUME NEW a \in 1..95, Map!asciimap[a] = i + 3,
             \/ s = Map!Ascii[a] /\ s \notin DOMAIN Map!layout
             \/ s \in DOMAIN Map!layout /\ Map!layout[s] = Map!Ascii[a]
      PROVE  Seen(s, FALSE) = Pressed(i + 3, {})
  <2>1. i + 3 \in 1..127
    OBVIOUS
  <2> HIDE DEF s
  <2> QED
    BY <1>1, <2>1, CharSeen
<1>3. ASSUME NEW m \in 9..65, s = Map!nonascii[m], Map!nonascii_keys[m] = i + 139
      PROVE  Seen(s, FALSE) = Pressed(i + 3, {})
  <2>1. s \in Map!NonAscii /\ Map!Distance(s) = m - 1
    BY <1>3, DistanceIs
  <2>2. Map!nonascii_keys[m] - 136 = i + 3
    BY <1>3
  <2> HIDE DEF s
  <2> QED
    BY <2>1, <2>2, NonCharSeen
<1>4. CASE i \in 1..24 \cup 27..35 \cup {36, 41, 51, 52, 97}
  <2>1. PICK a \in 1..95 : s = Map!Ascii[a] /\ Map!asciimap[a] = i + 3 /\ s \notin DOMAIN Map!layout
    <3>1. CASE i \in 1..24
      <4>1. 65 + i \in 1..95 /\ s = Map!Ascii[65 + i] /\ Map!asciimap[65 + i] = i + 3
        BY <3>1, AsciiRows
      <4> QED
        BY <3>1, <4>1, PlainRows
    <3>2. CASE i \in 27..35
      <4>1. i - 9 \in 1..95 /\ s = Map!Ascii[i - 9] /\ Map!asciimap[i - 9] = i + 3
        BY <3>2, AsciiRows
      <4> QED
        BY <3>2, <4>1, PlainRows
    <3>3. CASE i \in {36, 41, 51, 52, 97}
      <4>1. \E p \in {<<36, 17>>, <<41, 1>>, <<51, 13>>, <<52, 15>>, <<97, 29>>} :
               i = p[1] /\ p[2] \in 1..95
        BY <3>3
      <4> QED
        BY <3>3, <4>1, AsciiRows, PlainRows
    <3> QED
      BY <1>4, <3>1, <3>2, <3>3
  <2> QED
    BY <1>1, <2>1
<1>5. CASE i \in {25, 26, 42, 43, 44, 45, 48, 49, 50, 53}
  <2>1. \E p \in {<<25, 90>>, <<26, 91>>, <<42, 14>>, <<43, 30>>, <<44, 60>>, <<45, 62>>,
                  <<48, 28>>, <<49, 8>>, <<50, 65>>, <<53, 16>>} :
           i = p[1] /\ p[2] \in 1..95
    BY <1>5
  <2>2. \E a \in 1..95 : /\ s \in DOMAIN Map!layout /\ Map!layout[s] = Map!Ascii[a]
                         /\ Map!asciimap[a] = i + 3
    BY <2>1, LayoutRows
  <2> QED
    BY <1>1, <2>2
<1>6. CASE i \in 37..40 \cup 54..67 \cup 70..96 \cup 101..112
  <2>1. PICK m \in 9..65 : s = Map!nonascii[m] /\ Map!nonascii_keys[m] = i + 139
    <3>1. CASE i \in {67, 70, 71, 72, 73, 74, 75, 80, 95, 96}
      <4>1. \E p \in {<<67, 18>>, <<70, 17>>, <<71, 22>>, <<72, 20>>, <<73, 19>>, <<74, 23>>,
                      <<75, 21>>, <<80, 65>>, <<95, 49>>, <<96, 64>>} :
               i = p[1] /\ p[2] \in 9..65
        BY <3>1
      <4> QED
        BY <4>1, NonasciiRows
    <3>2. CASE i \in 37..38 \cup 81..85
      <4>1. i - 22 \in 9..65 /\ s = Map!nonascii[i - 22] /\ Map!nonascii_keys[i - 22] = i + 139
        BY <3>2, NonasciiRows
      <4> QED
        BY <4>1
    <3>3. CASE i \in 39..40
      <4>1. i - 26 \in 9..65 /\ s = Map!nonascii[i - 26] /\ Map!nonascii_keys[i - 26] = i + 139
        BY <3>3, NonasciiRows
      <4> QED
        BY <4>1
    <3>4. CASE i \in 54..66
      <4>1. i - 30 \in 9..65 /\ s = Map!nonascii[i - 30] /\ Map!nonascii_keys[i - 30] = i + 139
        BY <3>4, NonasciiRows
      <4> QED
        BY <4>1
    <3>5. CASE i \in 76..79
      <4>1. 88 - i \in 9..65 /\ s = Map!nonascii[88 - i] /\ Map!nonascii_keys[88 - i] = i + 139
        BY <3>5, NonasciiRows
      <4> QED
        BY <4>1
    <3>6. CASE i \in 86..94
      <4>1. i - 36 \in 9..65 /\ s = Map!nonascii[i - 36] /\ Map!nonascii_keys[i - 36] = i + 139
        BY <3>6, NonasciiRows
      <4> QED
        BY <4>1
    <3>7. CASE i \in 101..112
      <4>1. i - 64 \in 9..65 /\ s = Map!nonascii[i - 64] /\ Map!nonascii_keys[i - 64] = i + 139
        BY <3>7, NonasciiRows
      <4> QED
        BY <4>1
    <3> QED
      BY <1>6, <3>1, <3>2, <3>3, <3>4, <3>5, <3>6, <3>7
  <2> QED
    BY <1>3, <2>1
<1>7. CASE i \in {46, 68, 69, 98, 99, 100}
  BY <1>7, NoRows, NoVoid
<1>8. \/ i \in 1..24 \cup 27..35 \cup {36, 41, 51, 52, 97}
      \/ i \in {25, 26, 42, 43, 44, 45, 48, 49, 50, 53}
      \/ i \in 37..40 \cup 54..67 \cup 70..96 \cup 101..112
      \/ i \in {46, 68, 69, 98, 99, 100}
  OBVIOUS
<1> QED
  BY <1>4, <1>5, <1>6, <1>7, <1>8

LEMMA NumLockSeen ==
  ASSUME NEW i \in 1..11
  PROVE  Seen(Map!NumLockPositions[i], FALSE) = Pressed(i + 88, {})
<1> DEFINE s == Map!NumLockPositions[i]
<1>1. PICK m \in 9..65 :
        s \in Map!NonAscii /\ Map!Distance(s) = m - 1 /\ Map!nonascii_keys[m] = i + 224
  <2>1. CASE i \in 1..9
    <3>1. i + 1 \in 1..10 /\ 49 + i \in 9..65 /\ 47 + (i + 1) = (49 + i) - 1
      BY <2>1
    <3>2. s \in Map!NonAscii /\ Map!Distance(s) = 47 + (i + 1)
      BY <2>1, <3>1, DistanceIs, NumLockRows
    <3> QED
      BY <2>1, <3>1, <3>2, NumLockRows
  <2>2. CASE i = 10
    <3>1. s \in Map!NonAscii /\ Map!Distance(s) = 49 - 1
      BY <2>2, DistanceIs, NumLockRows
    <3> QED
      BY <2>2, <3>1, NumLockRows
  <2>3. CASE i = 11
    <3>1. s \in Map!NonAscii /\ Map!Distance(s) = 64 - 1
      BY <2>3, DistanceIs, NumLockRows
    <3> QED
      BY <2>3, <3>1, NumLockRows
  <2> QED
    BY <2>1, <2>2, <2>3
<1> DEFINE u == i + 88
<1>2. Map!nonascii_keys[m] - 136 = u
  BY <1>1
<1> HIDE DEF s, u
<1>3. Seen(s, FALSE) = Pressed(u, {})
  BY <1>1, <1>2, NonCharSeen, Zenon
<1> QED
  BY <1>3 DEF s, u

LEMMA ModifierKeySeen ==
  ASSUME NEW i \in 1..9
  PROVE  Seen(Map!ModifierKeys[i], FALSE) = Pressed(0, {Map!ModifierBit(i)})
<1> DEFINE s == Map!ModifierKeys[i]
<1>1. PICK m \in 1..8 :
        s \in Map!NonAscii /\ Map!Distance(s) = m - 1 /\ Map!ModifierBit(i) = m - 1
  <2>1. CASE i \in 1..8
    <3>1. s \in Map!NonAscii /\ Map!Distance(s) = i - 1
      BY <2>1, ModifierRows, DistanceIs
    <3>2. Map!ModifierBit(i) = i - 1
      BY <2>1, ModifierRows DEF Map!ModifierBit
    <3> QED
      BY <2>1, <3>1, <3>2
  <2>2. CASE i = 9
    <3>1. s \in Map!NonAscii /\ Map!Distance(s) = 7 - 1
      BY <2>2, ModifierRows, DistanceIs
    <3>2. Map!ModifierBit(i) = 7 - 1
      BY <2>2, ModifierRows DEF Map!ModifierBit
    <3> QED
      BY <2>2, <3>1, <3>2
  <2> QED
    BY <2>1, <2>2
<1> HIDE DEF s
<1>2. Seen(s, FALSE) = Pressed(0, {m - 1})
  BY <1>1, ModifierSeen
<1> QED
  BY <1>1, <1>2 DEF s

\* The custom xkb switch: the key that was pressed is the one that is sent.
LEMMA PhysicalSeen ==
  ASSUME NEW s \in Map!Keysyms, NEW r \in BOOLEAN
  PROVE  /\ Map!Physical(s, r) \in Map!Keysyms
         /\ Seen(s, r) = Seen(Map!Physical(s, r), FALSE)
<1>1. /\ Map!nonascii[15] = "Return" /\ Map!nonascii[13] = "BackSpace" /\ Map!nonascii[9] = "Up"
      /\ Map!nonascii[10] = "Down" /\ Map!nonascii[11] = "Left" /\ Map!nonascii[12] = "Right"
      /\ Map!nonascii[17] = "Insert" /\ Map!nonascii[19] = "Delete" /\ Map!nonascii[20] = "Page_Up"
      /\ Map!nonascii[21] = "Page_Down" /\ Map!nonascii[22] = "Home" /\ Map!nonascii[23] = "End"
  BY SMTT(60) DEF Map!nonascii
<1>2. CASE r /\ s \in DOMAIN Map!custom_xkb
  <2>1. s \in Map!NonAscii
    BY <1>1, <1>2, LayoutIs, DistanceIs
  <2>2. Map!translate_keysym(s, r) = 127 + Map!custom_xkb[s]
    BY <1>2, <2>1, NonCharIs DEF Map!translate_keysym, Map!NONASCII_BASE
  <2>3. \E m \in {9, 10, 11, 12, 13, 15} :
          Map!Physical(s, r) = Map!nonascii[m] /\ Map!custom_xkb[s] = m - 1
    <3>1. r /\ s \in {"Insert", "Delete", "Page_Up", "Page_Down", "Home", "End"}
      BY <1>2, LayoutIs
    <3>2. /\ s = "Insert" => Map!Physical(s, r) = "Return"
          /\ s = "Delete" => Map!Physical(s, r) = "BackSpace"
          /\ s = "Page_Up" => Map!Physical(s, r) = "Up"
          /\ s = "Page_Down" => Map!Physical(s, r) = "Down"
          /\ s = "Home" => Map!Physical(s, r) = "Left"
          /\ s = "End" => Map!Physical(s, r) = "Right"
      BY <3>1, ZenonT(30) DEF Map!Physical
    <3>3. /\ s = "Insert" => Map!custom_xkb[s] = 15 - 1
          /\ s = "Delete" => Map!custom_xkb[s] = 13 - 1
          /\ s = "Page_Up" => Map!custom_xkb[s] = 9 - 1
          /\ s = "Page_Down" => Map!custom_xkb[s] = 10 - 1
          /\ s = "Home" => Map!custom_xkb[s] = 11 - 1
          /\ s = "End" => Map!custom_xkb[s] = 12 - 1
      BY CustomIs
    <3> QED
      BY <1>1, <3>1, <3>2, <3>3
  <2>4. PICK m \in 1..65 : Map!Physical(s, r) = Map!nonascii[m] /\ Map!custom_xkb[s] = m - 1
    BY <2>3
  <2>5. Map!Physical(s, r) \in Map!NonAscii /\ Map!Distance(Map!Physical(s, r)) = m - 1
    BY <2>4, DistanceIs
  <2>6. Map!translate_keysym(Map!Physical(s, r), FALSE) = 127 + (m - 1)
    BY <2>5, NonCharIs
  <2> QED
    BY <2>2, <2>4, <2>5, <2>6 DEF Seen, Map!Keysyms
<1>3. CASE ~(r /\ s \in DOMAIN Map!custom_xkb)
  <2>1. Map!Physical(s, r) = s
    <3>1. CASE ~r
      BY <3>1, Zenon DEF Map!Physical
    <3>2. CASE r
      <4>1. s \notin {"Insert", "Delete", "Page_Up", "Page_Down", "Home", "End"}
        BY <1>3, <3>2, LayoutIs
      <4> QED
        BY <3>2, <4>1, ZenonT(30) DEF Map!Physical
    <3> QED
      BY <3>1, <3>2
  <2>2. Map!translate_keysym(s, r) = Map!translate_keysym(s, FALSE)
    BY <1>3 DEF Map!translate_keysym
  <2> QED
    BY <2>1, <2>2 DEF Seen
<1> QED
  BY <1>2, <1>3

\* What the variables of KeyMap hold: each step has added its part.
MapInv ==
  /\ sym \in Map!Keysyms /\ reverse \in BOOLEAN
  /\ stage \in {"event", "wire", "typed", "sent"}
  /\ byte = IF stage = "event" THEN 0 ELSE Map!translate_keysym(sym, reverse)
  /\ stage \in {"wire", "typed"} => byte # 0
  /\ key = IF stage \in {"event", "wire"} \/ byte = 0 THEN 0 ELSE Map!translate(byte)
  /\ IF stage = "sent" THEN Pressed(usage, mods) = Seen(sym, reverse)
                       ELSE usage = 0 /\ mods = {}
  /\ host = Map!AtHost(usage)

LEMMA NoneAtHost == Map!AtHost(0) = 0
BY DEF Map!AtHost, Map!USAGE_MAXIMUM

LEMMA MapInit == Map!Init => MapInv
BY NoneAtHost DEF Map!Init, MapInv

LEMMA MapStep == MapInv /\ [Map!Next]_(Map!vars) => MapInv'
<1> SUFFICES ASSUME MapInv, [Map!Next]_(Map!vars) PROVE MapInv'
  OBVIOUS
<1> USE DEF MapInv
<1>0. host' = Map!AtHost(usage')
  BY NoneAtHost DEF Map!Next, Map!BeKey, Map!FwKey, Map!Press, Map!Release, Map!vars
<1>1. CASE Map!BeKey
  <2>1. byte' = Map!translate_keysym(sym', reverse') /\ sym' = sym /\ reverse' = reverse
    BY <1>1 DEF Map!BeKey
  <2>2. CASE byte' = 0
    <3>1. stage' = "sent" /\ usage' = 0 /\ mods' = {} /\ key' = 0
      BY <1>1, <2>2 DEF Map!BeKey
    <3>2. Seen(sym', reverse') = Pressed(0, {})
      BY <2>1, <2>2, Zenon DEF Seen
    <3> QED
      BY <1>0, <2>1, <2>2, <3>1, <3>2
  <2>3. CASE byte' # 0
    <3>1. stage' = "wire" /\ usage' = 0 /\ mods' = {} /\ key' = 0
      BY <1>1, <2>3 DEF Map!BeKey
    <3> QED
      BY <1>0, <2>1, <2>3, <3>1
  <2> QED
    BY <2>2, <2>3
<1>2. CASE Map!FwKey
  <2>1. byte \in 32..191
    BY <1>2, ByteIs DEF Map!FwKey
  <2>2. key' # 0
    BY <1>2, <2>1, ByteTyped DEF Map!FwKey
  <2> QED
    BY <1>0, <1>2, <2>2 DEF Map!FwKey
<1>3. CASE Map!Press
  <2>1. /\ stage' = "sent" /\ byte # 0 /\ key = Map!translate(byte)
        /\ UNCHANGED <<sym, reverse, byte, key>>
    BY <1>3 DEF Map!Press
  <2>2. Pressed(usage', mods') = Map!Report(key)
    BY <1>3, ReportParts, Zenon DEF Map!Press
  <2>3. Seen(sym, reverse) = Map!Report(key)
    BY <1>3, <2>1 DEF Map!Press, Seen
  <2>4. Seen(sym', reverse') = Seen(sym, reverse)
    BY <2>1, Zenon
  <2> QED
    BY <1>0, <1>3, <2>1, <2>2, <2>3, <2>4 DEF Map!Press
<1>4. CASE Map!Release
  BY <1>0, <1>4 DEF Map!Release
<1>5. CASE UNCHANGED Map!vars
  BY <1>0, <1>5 DEF Map!vars
<1> QED
  BY <1>1, <1>2, <1>3, <1>4, <1>5 DEF Map!Next

\* The usages fit the library's table and the modifiers their byte.
THEOREM MapTypes == KeyMapSpec => []Map!TypeOK
<1>1. MapInv => Map!TypeOK
  <2> SUFFICES ASSUME MapInv PROVE Map!TypeOK
    OBVIOUS
  <2>1. byte \in {0} \cup 32..191
    BY ByteIs DEF MapInv
  <2>2. key \in {0} \cup 32..126 \cup 128..255
    BY <2>1, ByteTyped DEF MapInv
  <2>3. usage \in 0..119 /\ mods \subseteq 0..7
    <3>1. CASE stage # "sent"
      BY <3>1 DEF MapInv
    <3>2. CASE stage = "sent" /\ byte = 0
      <4>1. Pressed(usage, mods) = Pressed(0, {})
        BY <3>2 DEF MapInv, Seen
      <4> QED
        BY <4>1, RecordParts
    <3>3. CASE stage = "sent" /\ byte # 0
      <4> DEFINE k == Map!Report(Map!translate(byte))
      <4>1. Pressed(usage, mods) = Pressed(k.usage, k.mods)
        BY <3>3, ReportParts DEF MapInv, Seen
      <4>2. k.usage \in 0..119 /\ k.mods \subseteq 0..7
        BY <2>1, <3>3, ByteTyped
      <4> QED
        BY <4>1, <4>2, RecordParts
    <3> QED
      BY <3>1, <3>2, <3>3
  <2>4. host \in 0..Map!USAGE_MAXIMUM
    BY <2>3 DEF MapInv, Map!AtHost, Map!USAGE_MAXIMUM
  <2> QED
    BY <2>1, <2>2, <2>3, <2>4 DEF MapInv, Map!TypeOK
<1> QED
  BY <1>1, MapInit, MapStep, PTL DEF KeyMapSpec, Map!Spec

\* A byte the controller sends for a key is one the firmware types: for every
\* keysym and both settings of reverse_custom_xkb_map, translate_keysym() leads
\* to 0 or to a byte that neither the firmware nor the library refuses.
THEOREM KeysAreTyped == KeyMapSpec => []AcceptedIsTyped
<1>1. MapInv => AcceptedIsTyped
  <2> SUFFICES ASSUME MapInv, stage = "sent", byte # 0
               PROVE  key # 0 /\ (usage # 0 \/ mods # {})
    BY DEF AcceptedIsTyped, Map!AcceptedIsTyped
  <2>1. byte \in 32..191 /\ key = Map!translate(byte)
    BY ByteIs DEF MapInv
  <2>2. Pressed(usage, mods) = Map!Report(Map!translate(byte))
    BY DEF MapInv, Seen
  <2>3. usage = Map!Report(Map!translate(byte)).usage /\ mods = Map!Report(Map!translate(byte)).mods
    BY <2>2, ReportParts DEF Pressed
  <2> QED
    BY <2>1, <2>3, ByteTyped
<1> QED
  BY <1>1, MapInit, MapStep, PTL DEF KeyMapSpec, Map!Spec

\* Each key of the user's keyboard reaches the host as the key at the same
\* position: row by row of the reference the four tables agree, but for the
\* usage of the number sign, and F13 to F24 are beyond the descriptor's range.
THEOREM PositionsKept == KeyMapSpec => []PositionKept
<1>1. MapInv => PositionKept
  <2> SUFFICES ASSUME MapInv, stage = "sent" PROVE Map!PositionKept
    BY DEF PositionKept, Map!PositionKept
  <2> DEFINE k == Map!Physical(sym, reverse)
  <2>1. k \in Map!Keysyms /\ Seen(k, FALSE) = Pressed(usage, mods)
    BY PhysicalSeen DEF MapInv
  <2>2. ASSUME NEW u, NEW b, Seen(k, FALSE) = Pressed(u, b)
        PROVE  usage = u /\ mods = b
    <3>1. Pressed(usage, mods) = Pressed(u, b)
      BY <2>1, <2>2, Zenon
    <3> QED
      BY <3>1, RecordParts
  <2> HIDE DEF k
  <2>3. ASSUME NEW i \in 1..112, k = Map!Positions[i]
        PROVE  /\ mods = {}
               /\ IF i + 3 <= Map!USAGE_MAXIMUM THEN Map!SameKey(host, i + 3) ELSE host = 0
    <3>1. CASE i = 47
      <4>1. usage = 49 /\ mods = {}
        BY <2>2, <2>3, <3>1, NumbersignSeen
      <4>2. host = 49
        BY <4>1 DEF MapInv, Map!AtHost, Map!USAGE_MAXIMUM
      <4>3. Map!SameKey(49, 47 + 3) /\ 47 + 3 <= Map!USAGE_MAXIMUM
        BY DEF Map!SameKey, Map!USAGE_MAXIMUM
      <4> QED
        BY <3>1, <4>1, <4>2, <4>3
    <3>2. CASE i \in 1..112 \ {47}
      <4>1. Seen(k, FALSE) = Pressed(i + 3, {})
        BY <2>1, <2>3, <3>2, PositionSeen
      <4>2. usage = i + 3 /\ mods = {}
        BY <2>2, <4>1, Zenon
      <4> QED
        BY <4>2 DEF MapInv, Map!AtHost, Map!SameKey
    <3> QED
      BY <3>1, <3>2
  <2>4. ASSUME NEW i \in 1..11, k = Map!NumLockPositions[i] PROVE host = i + 88 /\ mods = {}
    <3>1. Seen(k, FALSE) = Pressed(i + 88, {})
      BY <2>4, NumLockSeen
    <3>2. usage = i + 88 /\ mods = {}
      BY <2>2, <3>1, Zenon
    <3> QED
      BY <3>2 DEF MapInv, Map!AtHost, Map!USAGE_MAXIMUM
  <2>5. ASSUME NEW i \in 1..9, k = Map!ModifierKeys[i]
        PROVE  host = 0 /\ mods = {Map!ModifierBit(i)}
    <3>1. Seen(k, FALSE) = Pressed(0, {Map!ModifierBit(i)})
      BY <2>5, ModifierKeySeen
    <3>2. usage = 0 /\ mods = {Map!ModifierBit(i)}
      BY <2>2, <3>1, Zenon
    <3> QED
      BY <3>2, NoneAtHost DEF MapInv
  <2> QED
    BY <2>3, <2>4, <2>5, NoRows, NumLockRows, ModifierRows DEF Map!PositionKept, k
<1> QED
  BY <1>1, MapInit, MapStep, PTL DEF KeyMapSpec, Map!Spec

\* The key bytes that reach the wire, and what the library makes of them, are
\* what Mouseboard and BleHid assume of Keys, BadKey, UsageOf and ModsOf.
THEOREM TablesFit ==
  /\ KeyBytes \subseteq Byte \ {HDR_PING} /\ 0 \notin KeyBytes
  /\ UsageIn \in [KeyBytes -> (1..119) \cup {0}]
  /\ ModsIn \in [KeyBytes -> SUBSET (0..7)]
  /\ \A b \in KeyBytes : UsageIn[b] # 0 \/ ModsIn[b] # {}
<1>1. KeyBytes \subseteq 32..191
  BY ByteIs DEF KeyBytes
<1> HIDE DEF KeyBytes
<1>2. KeyBytes \subseteq Byte \ {HDR_PING} /\ 0 \notin KeyBytes
  BY <1>1 DEF Byte, HDR_PING
<1>3. \A b \in KeyBytes :
        /\ Map!Report(Map!translate(b)).usage \in 0..119
        /\ Map!Report(Map!translate(b)).mods \subseteq 0..7
        /\ \/ Map!Report(Map!translate(b)).usage # 0
           \/ Map!Report(Map!translate(b)).mods # {}
  BY <1>1, ByteTyped
<1> QED
  BY <1>2, <1>3 DEF UsageIn, ModsIn
=============================================================================
