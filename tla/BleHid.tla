------------------------------- MODULE BleHid -------------------------------
(***************************************************************************)
(* The HID half of the bluetooth firmware: the command handlers of         *)
(* firmware.ino that change the keyboard and mouse reports (key, button,   *)
(* scroll, move, close) and the BleKeyboard/BleMouse classes below them.   *)
(*                                                                         *)
(* Two tasks run here.  The Arduino loop task executes one command at a    *)
(* time: it asks isConnected(), changes the report and then sends it,      *)
(* asking isConnected() a second time in sendReport() (or BleMouse::move). *)
(* The NimBLE task calls onConnect() and onDisconnect() at any moment, in  *)
(* particular between those two questions.  Neither callback touches the   *)
(* reports, so they outlive a connection.                                  *)
(*                                                                         *)
(* Keys are the bytes that translate() maps to a key; UsageOf and ModsOf   *)
(* are what blekeyboard.cc makes of such a key: its HID usage (0 for a     *)
(* modifier) and the modifier bits it sets.                                *)
(***************************************************************************)
EXTENDS Integers, FiniteSets

CONSTANTS
    Keys,          \* the key bytes translate() accepts
    BadKey,        \* stands for the bytes translate() maps to 0
    Usages,        \* the HID usages a slot of the report can hold
    Modifiers,     \* the bits of _keyReport.modifiers
    UsageOf,       \* key -> its usage, 0 for a modifier
    ModsOf,        \* key -> the modifier bits it sets
    NSlots,        \* the slots of _keyReport.keys: 6 in the code
    ButtonArgs,    \* the button numbers that arrive
    NotifyMayFail  \* whether notify() may drop a report on a subscribed link

ASSUME NSlotsAssumption == NSlots \in Nat \ {0}
ASSUME KeysAssumption ==
    /\ BadKey \notin Keys
    /\ Usages \subseteq Nat \ {0}
    /\ UsageOf \in [Keys -> Usages \cup {0}]
    /\ ModsOf \in [Keys -> SUBSET Modifiers]
    \* no key byte between 32 and 126 has a 0 entry in _asciimap, so press()
    \* and release() never take their early return for one
    /\ \A k \in Keys : UsageOf[k] # 0 \/ ModsOf[k] # {}
ASSUME ButtonsAssumption == ButtonArgs \subseteq Nat
ASSUME NotifyAssumption == NotifyMayFail \in BOOLEAN

Slots == 1..NSlots

MOUSE_LEFT   == 1
MOUSE_RIGHT  == 2
MOUSE_MIDDLE == 4
MouseBits    == {MOUSE_LEFT, MOUSE_RIGHT, MOUSE_MIDDLE}

\* the bits of the mask i
Bits(i) == {b \in MouseBits : (i \div b) % 2 = 1}

\* The mask of each button number the firmware knows.
mouse_buttons ==
    [b \in 0..3 |-> CASE b = 0 -> {}
                      [] b = 1 -> {MOUSE_LEFT}
                      [] b = 2 -> {MOUSE_MIDDLE}
                      [] b = 3 -> {MOUSE_RIGHT}]

VARIABLES
    keys,        \* _keyReport.keys
    modifiers,   \* _keyReport.modifiers, as a set of bits
    buttons,     \* BleMouse::_buttons, as a set of bits
    pc,          \* what is left to do of the running command
    cmd,         \* the command that runs or ran last
    resp,        \* the answer to the last command
    mask,        \* the loop counter of close()
    link,        \* the BLE link, as the NimBLE task has it
    hostKeys, hostMods, hostButtons,  \* the last report the BLE host received
    kbdSeen, mouseSeen,  \* history: how the host's reports relate to ours
    held,        \* history: keys pressed and not yet released by the user
    missed       \* history: keys whose release was answered ENOCON

report   == <<keys, modifiers, buttons>>
handler  == <<pc, cmd, resp, mask>>
host     == <<hostKeys, hostMods, hostButtons, kbdSeen, mouseSeen>>
user     == <<held, missed>>
vars     == <<report, handler, link, host, user>>

KeyCmds    == {"KEY_PRESS", "KEY_RELEASE"}
ButtonCmds == {"BUTTON_PRESS", "BUTTON_RELEASE"}
Cmds       == KeyCmds \cup ButtonCmds \cup {"MOTION", "CLOSE"}

\* the usages the report holds
Used == {keys[i] : i \in Slots} \ {0}

\* Mutant of isConnected: onDisconnect() leaves the flag alone.
isConnected_Always == TRUE

isConnected == link # "down"

-----------------------------------------------------------------------------
TypeOK ==
    /\ keys \in [Slots -> Usages \cup {0}]
    /\ modifiers \subseteq Modifiers
    /\ buttons \subseteq MouseBits
    /\ pc \in {"idle", "kbd", "mouse", "mask"}
    /\ cmd \in Cmds \cup {"NONE"}
    /\ resp \in {"NONE", "OK", "ENOCON", "EINVAL_KEY"}
    /\ mask \in 0..4
    /\ link \in {"down", "connected", "ready"}
    /\ hostKeys \subseteq Usages
    /\ hostMods \subseteq Modifiers
    /\ hostButtons \subseteq MouseBits
    /\ kbdSeen \in {"none", "current", "stale"}
    /\ mouseSeen \in {"none", "current", "stale"}
    /\ held \subseteq Keys
    /\ missed \subseteq Keys

\* The static objects kb and mouse start zeroed, nobody is connected.
Init ==
    /\ keys = [i \in Slots |-> 0]
    /\ modifiers = {}
    /\ buttons = {}
    /\ pc = "idle" /\ cmd = "NONE" /\ resp = "NONE" /\ mask = 0
    /\ link = "down"
    /\ hostKeys = {} /\ hostMods = {} /\ hostButtons = {}
    /\ kbdSeen = "none" /\ mouseSeen = "none"
    /\ held = {} /\ missed = {}

-----------------------------------------------------------------------------
(* The loop task: a handler up to its first send, or to its return.        *)

Return(r) == pc' = "idle" /\ resp' = r
Await(p)  == pc' = p /\ UNCHANGED resp

\* Mutant of Press: the slots are not searched for the key first.
Press_Twice(k) ==
    /\ modifiers' = modifiers \cup ModsOf[k]
    /\ \E i \in Slots :
          /\ keys[i] = 0
          /\ \A j \in 1..i-1 : keys[j] # 0
          /\ keys' = [keys EXCEPT ![i] = UsageOf[k]]
    /\ Await("kbd")

\* Mutant of Press: a full report gives up its first slot.
Press_Evicts(k) ==
    /\ modifiers' = modifiers \cup ModsOf[k]
    /\ keys' = [keys EXCEPT ![1] = UsageOf[k]]
    /\ Await("kbd")

\* Mutant of Press: a modifier alone is not worth a report.
Press_ModifierUnsent(k) ==
    /\ UsageOf[k] = 0
    /\ modifiers' = modifiers \cup ModsOf[k]
    /\ Return("OK")
    /\ UNCHANGED keys

\* BleKeyboard::press().  A modifier bit is set before the slots are looked
\* at, and nothing is sent when no slot is left.  A modifier key has usage 0,
\* which is "present" as long as some slot is empty.
Press(k) ==
    /\ modifiers' = modifiers \cup ModsOf[k]
    /\ \/ /\ \E i \in Slots : keys[i] = UsageOf[k]
          /\ Await("kbd")
          /\ UNCHANGED keys
       \/ /\ \A i \in Slots : keys[i] # UsageOf[k]
          /\ \E i \in Slots :
                /\ keys[i] = 0
                /\ \A j \in 1..i-1 : keys[j] # 0
                /\ keys' = [keys EXCEPT ![i] = UsageOf[k]]
          /\ Await("kbd")
       \/ /\ \A i \in Slots : keys[i] # UsageOf[k] /\ keys[i] # 0
          /\ Return("OK")
          /\ UNCHANGED keys

\* Mutant of Release: the modifiers a key was typed with stay set.
Release_KeepsModifiers(k) ==
    /\ UNCHANGED modifiers
    /\ keys' = [i \in Slots |-> IF keys[i] = UsageOf[k] THEN 0 ELSE keys[i]]
    /\ Await("kbd")

\* Mutant of Release: the shorter report is not sent.
Release_Unsent(k) ==
    /\ modifiers' = modifiers \ ModsOf[k]
    /\ keys' = [i \in Slots |-> IF keys[i] = UsageOf[k] THEN 0 ELSE keys[i]]
    /\ Return("OK")

\* BleKeyboard::release().
Release(k) ==
    /\ modifiers' = modifiers \ ModsOf[k]
    /\ keys' = [i \in Slots |-> IF keys[i] = UsageOf[k] THEN 0 ELSE keys[i]]
    /\ Await("kbd")

\* key(): the connection is checked before the key.
Key(hdr, k) ==
    /\ pc = "idle"
    /\ cmd' = hdr
    /\ \/ /\ ~isConnected
          /\ Return("ENOCON")
          /\ UNCHANGED report
       \/ /\ isConnected
          /\ k = BadKey
          /\ Return("EINVAL_KEY")
          /\ UNCHANGED report
       \/ /\ isConnected
          /\ k \in Keys
          /\ IF hdr = "KEY_PRESS" THEN Press(k) ELSE Release(k)
          /\ UNCHANGED buttons
    /\ held' = IF hdr = "KEY_PRESS" THEN held \cup ({k} \cap Keys) ELSE held \ {k}
    /\ missed' = IF hdr = "KEY_RELEASE" /\ ~isConnected
                 THEN missed \cup ({k} \cap Keys) ELSE missed \ {k}
    /\ UNCHANGED <<mask, link, host>>

\* BleMouse::buttons(): a report is due only when the buttons change.
SetButtons(b) ==
    /\ buttons' = b
    /\ IF b # buttons THEN Await("mouse") ELSE Return("OK")

\* button(): press and release of one mouse button.
Button(hdr, b) ==
    /\ pc = "idle"
    /\ cmd' = hdr
    /\ \/ /\ ~isConnected
          /\ Return("ENOCON")
          /\ UNCHANGED buttons
       \/ /\ isConnected
          /\ b \notin DOMAIN mouse_buttons
          /\ Return("EINVAL_KEY")
          /\ UNCHANGED buttons
       \/ /\ isConnected
          /\ b \in DOMAIN mouse_buttons
          /\ IF hdr = "BUTTON_PRESS"
             THEN SetButtons(buttons \cup mouse_buttons[b])
             ELSE SetButtons(buttons \ mouse_buttons[b])
    /\ UNCHANGED <<keys, modifiers, mask, link, host, user>>

\* Mutant of Motion: a movement goes out without the buttons.
Motion_Unsent ==
    /\ pc = "idle"
    /\ cmd' = "MOTION"
    /\ Return(IF isConnected THEN "OK" ELSE "ENOCON")
    /\ UNCHANGED <<report, mask, link, host, user>>

\* scroll() and move(), for VSCROLL, HSCROLL and MOVE: the distance is left
\* out, but the report they send carries the buttons too.
Motion ==
    /\ pc = "idle"
    /\ cmd' = "MOTION"
    /\ \/ ~isConnected /\ Return("ENOCON")
       \/ isConnected /\ Await("mouse")
    /\ UNCHANGED <<report, mask, link, host, user>>

\* close(), up to the send of releaseAll().
Close ==
    /\ pc = "idle"
    /\ cmd' = "CLOSE"
    /\ keys' = [i \in Slots |-> 0]
    /\ modifiers' = {}
    /\ Await("kbd")
    /\ mask' = 0
    /\ missed' = {}
    /\ UNCHANGED <<buttons, link, host, held>>

-----------------------------------------------------------------------------
(* The loop task: sending.  notify() delivers only to a host that has      *)
(* subscribed, and says nothing when it does not deliver.                  *)

Delivered(seen) == link = "ready" /\ seen' = "current"
Dropped(seen) ==
    \/ link # "ready" /\ UNCHANGED seen
    \/ /\ link = "ready" /\ NotifyMayFail
       /\ seen' = IF seen = "none" THEN "none" ELSE "stale"

\* BleKeyboard::sendReport(), called by press(), release() and releaseAll().
\* (The media report releaseAll() sends as well is always empty.)
SendReport ==
    /\ pc = "kbd"
    /\ \/ /\ Delivered(kbdSeen)
          /\ hostKeys' = Used
          /\ hostMods' = modifiers
       \/ /\ Dropped(kbdSeen)
          /\ UNCHANGED <<hostKeys, hostMods>>
    /\ IF cmd = "CLOSE" THEN Await("mask") ELSE Return("OK")
    /\ UNCHANGED <<report, cmd, mask, link, hostButtons, mouseSeen, user>>

\* The report BleMouse::move() sends, with the buttons b.
MouseReport(b) ==
    \/ Delivered(mouseSeen) /\ hostButtons' = b
    \/ Dropped(mouseSeen) /\ UNCHANGED hostButtons

\* The send of button(), scroll() and move().
SendMouse ==
    /\ pc = "mouse"
    /\ MouseReport(buttons)
    /\ Return("OK")
    /\ UNCHANGED <<report, cmd, mask, link, hostKeys, hostMods, kbdSeen, user>>

\* Mutant of ReleaseMask: the loop runs one turn too many.
ReleaseMask_OneTooMany ==
    /\ pc = "mask" /\ mask <= 4
    /\ mask' = mask + 1
    /\ UNCHANGED <<report, pc, cmd, resp, link, host, user>>

\* Mutant of ReleaseMask: the loop ends after the masks 0 and 1.
ReleaseMask_Short ==
    /\ pc = "mask"
    /\ \/ /\ mask < 2
          /\ buttons' = buttons \ Bits(mask)
          /\ IF buttons' # buttons THEN MouseReport(buttons')
             ELSE UNCHANGED <<hostButtons, mouseSeen>>
          /\ mask' = mask + 1
          /\ UNCHANGED <<pc, resp>>
       \/ /\ mask = 2
          /\ Return("OK")
          /\ UNCHANGED <<buttons, mask, hostButtons, mouseSeen>>
    /\ UNCHANGED <<keys, modifiers, cmd, link, hostKeys, hostMods, kbdSeen, user>>

\* One turn of the loop of close(): mouse.release(i) takes i as a bit mask.
ReleaseMask ==
    /\ pc = "mask"
    /\ \/ /\ mask < 4
          /\ buttons' = buttons \ Bits(mask)
          /\ IF buttons' # buttons THEN MouseReport(buttons')
             ELSE UNCHANGED <<hostButtons, mouseSeen>>
          /\ mask' = mask + 1
          /\ UNCHANGED <<pc, resp>>
       \/ /\ mask = 4
          /\ Return("OK")
          /\ UNCHANGED <<buttons, mask, hostButtons, mouseSeen>>
    /\ UNCHANGED <<keys, modifiers, cmd, link, hostKeys, hostMods, kbdSeen, user>>

-----------------------------------------------------------------------------
(* The NimBLE task, the BLE host and the power supply.                     *)

OnConnect ==
    /\ link = "down"
    /\ link' = "connected"
    /\ UNCHANGED <<report, handler, host, user>>

\* The host encrypts the link and subscribes to the reports.
Subscribe ==
    /\ link = "connected"
    /\ link' = "ready"
    /\ UNCHANGED <<report, handler, host, user>>

\* The host forgets what a keyboard it lost was holding.
HostForgets ==
    /\ link' = "down"
    /\ hostKeys' = {} /\ hostMods' = {} /\ hostButtons' = {}
    /\ kbdSeen' = "none" /\ mouseSeen' = "none"

OnDisconnect ==
    /\ link # "down"
    /\ HostForgets
    /\ UNCHANGED <<report, handler, user>>

\* The device is unplugged from USB, or reset, and starts again.
PowerCycle ==
    /\ HostForgets
    /\ keys' = [i \in Slots |-> 0]
    /\ modifiers' = {}
    /\ buttons' = {}
    /\ pc' = "idle" /\ cmd' = "NONE" /\ resp' = "NONE" /\ mask' = 0
    /\ missed' = {}
    /\ UNCHANGED held

-----------------------------------------------------------------------------
Send == SendReport \/ SendMouse \/ ReleaseMask

Next ==
    \/ \E k \in Keys \cup {BadKey}, hdr \in KeyCmds : Key(hdr, k)
    \/ \E b \in ButtonArgs, hdr \in ButtonCmds : Button(hdr, b)
    \/ Motion \/ Close
    \/ Send
    \/ OnConnect \/ Subscribe \/ OnDisconnect
    \/ PowerCycle

Spec == Init /\ [][Next]_vars

\* The firmware runs, the user moves the mouse every now and then, and the BLE
\* stack does not lose every report.
MovingSpec ==
    Spec /\ WF_vars(Send) /\ SF_vars(Motion) /\ SF_vars(SendMouse /\ mouseSeen' = "current")

-----------------------------------------------------------------------------
(* Properties.                                                             *)

Full == 0 \notin {keys[i] : i \in Slots}

\* No usage sits in two slots: release() clears every slot that holds the key
\* "in case the key is present more than once (which it shouldn't be)".
NoDuplicateUsage ==
    \A i, j \in Slots : keys[i] # 0 /\ keys[i] = keys[j] => i = j

\* A key stays in the report after the user let go of it only if the release
\* was turned down with ENOCON: whatever order presses, releases, keys that
\* share a usage, connections and disconnections come in, every usage and
\* every modifier bit in the report belongs to a key the user still holds or
\* to one whose release was refused.
StuckOnlyByRefusedRelease ==
    /\ \A u \in Used : \E k \in Keys \cap (held \cup missed) : UsageOf[k] = u
    /\ \A m \in modifiers : \E k \in Keys \cap (held \cup missed) : m \in ModsOf[k]

\* Between commands, unless a report was lost in the BLE stack, the host
\* holds no key, modifier or button that the firmware's reports do not hold:
\* a key the firmware released is not left pressed on the host, even when
\* the link goes down or comes up between the two isConnected() checks.
HostHoldsOnlyReported ==
    /\ pc # "kbd" /\ kbdSeen # "stale" =>
        hostKeys \subseteq Used /\ hostMods \subseteq modifiers
    /\ pc # "mouse" /\ mouseSeen # "stale" => hostButtons \subseteq buttons

\* Once the host has received a report on this connection, and unless one was
\* lost in the BLE stack, its keys and buttons are those of the firmware; its
\* modifiers can lag only while all slots of the report are taken.
HostInSync ==
    /\ pc # "kbd" /\ kbdSeen = "current" =>
        hostKeys = Used /\ (hostMods = modifiers \/ Full)
    /\ pc # "mouse" /\ mouseSeen = "current" => hostButtons = buttons

\* close() answers OK with every key and modifier released and no button but
\* the middle one left in the report (the loop releases the masks 0..3, and
\* MOUSE_MIDDLE is 4), and the same on the host, also when the link went down
\* or came back while close() ran.
CloseReleases ==
    cmd = "CLOSE" /\ pc = "idle" =>
        /\ Used = {} /\ modifiers = {} /\ buttons \subseteq {MOUSE_MIDDLE}
        /\ kbdSeen # "stale" => hostKeys = {} /\ hostMods = {}
        /\ mouseSeen # "stale" => hostButtons \subseteq {MOUSE_MIDDLE}

\* After a lost report the host's buttons do not stay wrong: a press of a
\* button the firmware already has in its mask sends nothing, but each
\* movement sends the mask again.
MotionRepairs == mouseSeen = "stale" ~> mouseSeen # "stale"

\* Seen from a host that is in sync, a key press command never lifts a key
\* and a key release command never presses one, although every report
\* carries the state of all keys.
HostChangesMatchCommand ==
    [][kbdSeen = "current" /\ kbdSeen' = "current" =>
        /\ cmd = "KEY_PRESS" => hostKeys \subseteq hostKeys'
        /\ cmd = "KEY_RELEASE" => hostKeys' \subseteq hostKeys]_vars
=============================================================================
