----------------------------- MODULE Mouseboard -----------------------------
(***************************************************************************)
(* The whole bluetooth way of an event: the user in front of the           *)
(* controller's window, the serial link (UartLink) and the firmware that   *)
(* turns a command into HID reports for the BLE host (BleHid).             *)
(*                                                                         *)
(* UartLink lets the firmware give any answer its handler has, BleHid lets *)
(* any command arrive.  Here the bytes the firmware has read select the    *)
(* handler, the handler takes its steps while the controller waits, gives  *)
(* up or is unplugged, and the answer is the one the handler gave.         *)
(*                                                                         *)
(* A key is the byte that travels for it.                                  *)
(***************************************************************************)
EXTENDS UartLink

CONSTANTS
    Keys, BadKey, Usages, Modifiers, UsageOf, ModsOf, NSlots, ButtonArgs,
    NotifyMayFail   \* all of them as in BleHid

VARIABLES
    keys, modifiers, buttons, task, cmd, resp, mask, link,
    hostKeys, hostMods, hostButtons, kbdSeen, mouseSeen, held, missed,
                \* BleHid, with task for its pc
    running,    \* the handler of the command in taken was called
    wasUp,      \* history: a host was connected when the last one was called
    misread,    \* history: a handler got an argument that was not meant for it
    userHeld,   \* history: what the user holds down, as the commands for it
    untold      \* history: what the user let go of, as long as no answer to
                \* that made the status line say "connected"

Hid == INSTANCE BleHid WITH pc <- task

hid       == <<keys, modifiers, buttons, task, cmd, resp, mask, link, hostKeys, hostMods,
               hostButtons, kbdSeen, mouseSeen, held, missed>>
fingers   == <<userHeld, untold>>
board     == <<vars, hid, running, wasUp, misread, fingers>>

\* translate_keysym() returns bytes from 32 on, and only bytes that translate()
\* knows.
ASSUME KeyBytesAssumption ==
    /\ Keys \subseteq Byte \ {HDR_PING}
    /\ \A f \in Commands : f[1] \in {HDR_KEY_PRESS, HDR_KEY_RELEASE} => f[2] \in Keys

\* What BleHid assumes of its constants, and that ButtonArgs has every byte that
\* can arrive as the number of a button.
ASSUME HidAssumption ==
    /\ NSlots \in Nat \ {0}
    /\ /\ BadKey \notin Keys
       /\ Usages \subseteq Nat \ {0}
       /\ UsageOf \in [Keys -> Usages \cup {0}]
       /\ ModsOf \in [Keys -> SUBSET Modifiers]
       /\ \A k \in Keys : UsageOf[k] # 0 \/ ModsOf[k] # {}
    /\ ButtonArgs \subseteq Nat
    /\ NotifyMayFail \in BOOLEAN
ASSUME ButtonArgsAssumption ==
    HDR_PING \in ButtonArgs /\ \A f \in Commands : \A j \in DOMAIN f : f[j] \in ButtonArgs

BoardInit ==
    /\ Init /\ Hid!Init
    /\ running = FALSE /\ wasUp = FALSE /\ misread = FALSE
    /\ userHeld = {} /\ untold = {}

-----------------------------------------------------------------------------
(* The user and the controller.                                            *)

IsPress(f)   == f[1] \in {HDR_KEY_PRESS, HDR_BUTTON_PRESS}
IsRelease(f) == f[1] \in {HDR_KEY_RELEASE, HDR_BUTTON_RELEASE}

\* the press that the release f ends
PressOf(f) == <<f[1] - 1, f[2]>>

\* send_cmd() ends in this step, with an answer, without one, or with a write
\* that failed.
CommandEnds ==
    \/ pc = "read" /\ pc' = "idle"
    \/ pc \in {"idle", "data"} /\ pc' = "scan"

\* What the user let go of and the status line has confirmed in this step.
Confirmed ==
    IF CommandEnds /\ connected' /\ IsRelease(cur') THEN {PressOf(cur')} ELSE {}

\* key() or button() of events.c, or one of the handlers that send another
\* command.
UserCommand ==
    /\ Command
    /\ IF IsPress(cur')
       THEN userHeld' = userHeld \cup {cur'} /\ untold' = untold \ {cur'}
       ELSE IF IsRelease(cur')
       THEN /\ userHeld' = userHeld \ {PressOf(cur')}
            /\ untold' = (untold \cup {PressOf(cur')}) \ Confirmed
       ELSE UNCHANGED fingers
    /\ UNCHANGED <<hid, running, wasUp, misread>>

\* The user lets go of a key while another window has the focus, or of anything
\* while no program runs: nobody tells the controller.
ReleaseElsewhere ==
    /\ \E p \in userHeld :
          /\ pc = "off" \/ (pc = "idle" /\ p[1] = HDR_KEY_PRESS)
          /\ userHeld' = userHeld \ {p} /\ untold' = untold \cup {p}
    /\ UNCHANGED <<vars, hid, running, wasUp, misread>>

ControllerStep ==
    /\ SendData \/ ReadResponse \/ ReadTimeout \/ Discover \/ Quit \/ Start \/ Crash
    /\ untold' = untold \ Confirmed
    /\ UNCHANGED <<hid, running, wasUp, misread, userHeld>>

-----------------------------------------------------------------------------
(* The firmware.                                                           *)

\* translate(): the key a byte stands for.
KeyOf(b) == IF b \in Keys THEN b ELSE BadKey

\* Mutant of Answer: ping() answers like the other handlers.
Answer_PingOk == IF ~IsCommand(Val(taken[1])) THEN RESP_EINVAL_CMD
                 ELSE IF Val(taken[1]) = HDR_PING THEN RESP_OK ELSE resp

\* The answer to the command in taken, once its handler has returned.
Answer ==
    LET hdr == Val(taken[1])
    IN  CASE ~IsCommand(hdr) -> RESP_EINVAL_CMD
          [] hdr = HDR_PING  -> RESP_MAGIC
          [] OTHER           -> resp

\* loop() calls the handler, which runs up to its first send.
Handle(v) ==
    \/ ~IsCommand(v[1]) /\ UNCHANGED hid
    \/ v[1] = HDR_PING /\ UNCHANGED hid
    \/ v[1] = HDR_CLOSE /\ Hid!Close
    \/ v[1] = HDR_KEY_PRESS /\ Hid!Key("KEY_PRESS", KeyOf(v[2]))
    \/ v[1] = HDR_KEY_RELEASE /\ Hid!Key("KEY_RELEASE", KeyOf(v[2]))
    \/ v[1] = HDR_BUTTON_PRESS /\ Hid!Button("BUTTON_PRESS", v[2])
    \/ v[1] = HDR_BUTTON_RELEASE /\ Hid!Button("BUTTON_RELEASE", v[2])
    \/ v[1] \in {HDR_VSCROLL, HDR_HSCROLL, HDR_MOVE} /\ Hid!Motion

FwHandle ==
    /\ Complete(taken) /\ ~running
    /\ Handle(Vals(taken))
    /\ running' = TRUE
    /\ wasUp' = (link # "down")
    /\ misread' = (misread \/ \E i \in DOMAIN taken : taken[i].part # i)
    /\ UNCHANGED <<vars, fingers>>

\* The handler sends a report.
FwSend ==
    /\ Hid!Send
    /\ UNCHANGED <<vars, running, wasUp, misread, fingers>>

\* The handler has returned, and loop() writes its answer, if there is room.
FwReply ==
    /\ running /\ task = "idle"
    /\ up' = IF Len(up) < UpCap THEN Append(up, [val |-> Answer, to |-> Vals(taken)]) ELSE up
    /\ taken' = <<>>
    /\ running' = FALSE
    /\ UNCHANGED <<controller, live, attached, down, history, hid, wasUp, misread, fingers>>

FwByte == FwRead /\ UNCHANGED <<hid, running, wasUp, misread, fingers>>

-----------------------------------------------------------------------------
(* The BLE link, the cable and the power supply.                           *)

BleLink ==
    /\ Hid!OnConnect \/ Hid!Subscribe \/ Hid!OnDisconnect
    /\ UNCHANGED <<vars, running, wasUp, misread, fingers>>

Cable == (Unplug \/ Plug) /\ UNCHANGED <<hid, running, wasUp, misread, fingers>>

PowerLost ==
    /\ PowerCycle /\ Hid!PowerCycle
    /\ running' = FALSE /\ wasUp' = FALSE /\ misread' = FALSE
    /\ UNCHANGED fingers

BoardNext ==
    \/ UserCommand \/ ReleaseElsewhere \/ ControllerStep
    \/ FwByte \/ FwHandle \/ FwSend \/ FwReply
    \/ BleLink \/ Cable \/ PowerLost

BoardSpec == BoardInit /\ [][BoardNext]_board

-----------------------------------------------------------------------------
(* Properties.                                                             *)

\* The composition does nothing to the serial link that UartLink does not
\* allow: each handler answers exactly once, with an answer of its own, and
\* reads exactly its arguments.
LinkSpec == Spec

\* What the user holds, and what was let go of and not confirmed.
Excused == userHeld \cup untold

\* A key, modifier or button stays in the firmware's report after the user let
\* go of it only if the controller's status line has not said "connected"
\* since: the release was forgotten with a failed write, refused, never
\* answered, or never came to the controller.  Commands cut short, handlers
\* interrupted by the BLE link, unplugged devices and restarts do not make it
\* happen silently, as long as the controller waited for every answer that was
\* to come - but for the left button, which a PING presses that is taken for
\* the number of a button.
StuckIsTold ==
    ~late =>
        /\ \A u \in Hid!Used : \E k \in Keys : <<HDR_KEY_PRESS, k>> \in Excused /\ UsageOf[k] = u
        /\ \A m \in modifiers :
              \E k \in Keys : <<HDR_KEY_PRESS, k>> \in Excused /\ m \in ModsOf[k]
        /\ \A m \in buttons :
              \/ \E b \in DOMAIN Hid!mouse_buttons :
                    <<HDR_BUTTON_PRESS, b>> \in Excused /\ m \in Hid!mouse_buttons[b]
              \/ misread /\ m = Hid!MOUSE_LEFT

\* The status line says "connected" only if a host was connected when the last
\* command was executed, unless that was CLOSE, which does not ask.
StatusIsTrue ==
    ~late /\ pc = "idle" /\ live /\ connected => wasUp \/ cur = Close

\* A release the controller got OK for has lifted the key or the button, in the
\* report and, if none was lost in the BLE stack, on the host; OK for CLOSE has
\* lifted all keys and all buttons but the middle one.
AckLifts ==
    [][pc = "read" /\ ~late /\ pc' = "idle" /\ up # <<>> /\ Head(up).val = RESP_OK =>
        /\ cur[1] = HDR_KEY_RELEASE /\ UsageOf[cur[2]] # 0 =>
            /\ UsageOf[cur[2]] \notin Hid!Used
            /\ kbdSeen # "stale" => UsageOf[cur[2]] \notin hostKeys
        /\ cur[1] = HDR_BUTTON_RELEASE =>
            /\ Hid!mouse_buttons[cur[2]] \cap buttons = {}
            /\ mouseSeen # "stale" => Hid!mouse_buttons[cur[2]] \cap hostButtons = {}
        /\ cur = Close =>
            /\ Hid!Used = {} /\ modifiers = {} /\ buttons \subseteq {Hid!MOUSE_MIDDLE}
            /\ kbdSeen # "stale" => hostKeys = {} /\ hostMods = {}]_board
=============================================================================
