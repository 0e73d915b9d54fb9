------------------------------- MODULE KeyMap -------------------------------
(***************************************************************************)
(* What becomes of a key: the controller turns the keysym of an event into *)
(* a byte (translate_keysym in callbacks.c), the firmware the byte into a  *)
(* key code of the BleKeyboard library (translate in firmware.ino), and    *)
(* the library the key code into a HID usage and modifier bits             *)
(* (_asciimap, press()).  Four tables in three files have to agree, and    *)
(* the host takes only the usages the report descriptor announces.         *)
(*                                                                         *)
(* Keysyms are their X11 names without "XK_".                              *)
(***************************************************************************)
EXTENDS Integers, Sequences, Functions

VARIABLES
    pc,       \* how far the event has come
    sym,      \* the keysym of the event
    reverse,  \* opts.reverse_custom_xkb_map
    byte,     \* what translate_keysym() returns: the byte on the wire
    key,      \* what translate() returns: a key code of the library
    usage,    \* what press() puts in a slot of the report
    mods,     \* the modifier bits press() sets, 0..7
    host      \* the usage the host finds in the slot, 0 for none

vars == <<pc, sym, reverse, byte, key, usage, mods, host>>

\* Where a table has an entry.
Place(table, s) == CHOOSE i \in DOMAIN table : table[i] = s

\* The printable characters, from 32 to 126.
Ascii == <<
    "space", "exclam", "quotedbl", "numbersign", "dollar", "percent", "ampersand",
    "apostrophe", "parenleft", "parenright", "asterisk", "plus", "comma", "minus", "period",
    "slash", "0", "1", "2", "3", "4", "5", "6", "7", "8", "9", "colon", "semicolon", "less",
    "equal", "greater", "question", "at", "A", "B", "C", "D", "E", "F", "G", "H", "I", "J",
    "K", "L", "M", "N", "O", "P", "Q", "R", "S", "T", "U", "V", "W", "X", "Y", "Z",
    "bracketleft", "backslash", "bracketright", "asciicircum", "underscore", "grave", "a",
    "b", "c", "d", "e", "f", "g", "h", "i", "j", "k", "l", "m", "n", "o", "p", "q", "r", "s",
    "t", "u", "v", "w", "x", "y", "z", "braceleft", "bar", "braceright", "asciitilde" >>

Chars   == Range(Ascii)
Code(c) == 31 + Place(Ascii, c)

-----------------------------------------------------------------------------
(* The controller's tables.                                                *)

NONASCII_BASE == 127

\* "workaround mapping to account for the blekeyboard library always using a
\* US keyboard layout"
layout ==
    [s \in {"y", "z", "asciicircum", "ssharp", "acute", "plus", "minus", "numbersign",
            "equal", "odiaeresis", "adiaeresis", "udiaeresis"} |->
        CASE s = "y" -> "z" [] s = "z" -> "y" [] s = "asciicircum" -> "grave"
          [] s = "ssharp" -> "minus" [] s = "acute" -> "equal" [] s = "plus" -> "bracketright"
          [] s = "minus" -> "slash" [] s = "numbersign" -> "backslash"
          [] s \in {"equal", "adiaeresis"} -> "apostrophe" [] s = "odiaeresis" -> "semicolon"
          [] s = "udiaeresis" -> "bracketleft"]

\* The distances from NONASCII_BASE that take the effect of a custom xkb file
\* back.
custom_xkb ==
    [s \in {"Insert", "Delete", "Page_Up", "Page_Down", "Home", "End"} |->
        CASE s = "Insert" -> 14 [] s = "Delete" -> 12 [] s = "Page_Up" -> 8
          [] s = "Page_Down" -> 9 [] s = "Home" -> 10 [] s = "End" -> 11]

\* The keysyms with the distances 0, 1, 2...
nonascii == <<
    "Control_L", "Shift_L", "Alt_L", "Super_L", "Control_R", "Shift_R", "Alt_R", "Super_R",
    "Up", "Down", "Left", "Right", "BackSpace", "Tab", "Return", "Escape", "Insert", "Print",
    "Delete", "Page_Up", "Page_Down", "Home", "End", "Caps_Lock", "F1", "F2", "F3", "F4",
    "F5", "F6", "F7", "F8", "F9", "F10", "F11", "F12", "F13", "F14", "F15", "F16", "F17",
    "F18", "F19", "F20", "F21", "F22", "F23", "F24", "KP_Insert", "KP_End", "KP_Down",
    "KP_Page_Down", "KP_Left", "KP_Begin", "KP_Right", "KP_Home", "KP_Up", "KP_Page_Up",
    "KP_Divide", "KP_Multiply", "KP_Subtract", "KP_Add", "KP_Enter", "KP_Delete",
    "Num_Lock" >>

\* The keysyms that share a distance with one of these: those of the number pad
\* with Num Lock, from 48 on, and two more.
number_pad ==
    <<"KP_0", "KP_1", "KP_2", "KP_3", "KP_4", "KP_5", "KP_6", "KP_7", "KP_8", "KP_9">>

Distance(s) ==
    CASE s \in Range(nonascii)    -> Place(nonascii, s) - 1
      [] s \in Range(number_pad)  -> 47 + Place(number_pad, s)
      [] s = "ISO_Level3_Shift"   -> 6
      [] s = "KP_Separator"       -> 63

NonAscii == Range(nonascii) \cup Range(number_pad) \cup {"ISO_Level3_Shift", "KP_Separator"}

\* Keysyms no table has.
Unsupported == {"Scroll_Lock", "Pause", "Menu", "KP_Decimal", "KP_Equal", "dead_acute"}

Keysyms == Chars \cup DOMAIN layout \cup NonAscii \cup Unsupported

\* Mutant of translate_keysym: the layout is looked up for ASCII only.
translate_keysym_AsciiFirst(s, rev) ==
    IF s \in Chars THEN Code(s)
    ELSE IF s \in DOMAIN layout THEN Code(layout[s])
    ELSE IF rev /\ s \in DOMAIN custom_xkb THEN NONASCII_BASE + custom_xkb[s]
    ELSE IF s \in NonAscii THEN NONASCII_BASE + Distance(s)
    ELSE 0

\* Mutant of translate_keysym: a key the firmware has no entry for.
translate_keysym_Menu(s, rev) ==
    IF s \in DOMAIN layout THEN Code(layout[s])
    ELSE IF s \in Chars THEN Code(s)
    ELSE IF rev /\ s \in DOMAIN custom_xkb THEN NONASCII_BASE + custom_xkb[s]
    ELSE IF s \in NonAscii THEN NONASCII_BASE + Distance(s)
    ELSE IF s = "Menu" THEN NONASCII_BASE + Len(nonascii)
    ELSE 0

translate_keysym(s, rev) ==
    IF s \in DOMAIN layout THEN Code(layout[s])
    ELSE IF s \in Chars THEN Code(s)
    ELSE IF rev /\ s \in DOMAIN custom_xkb THEN NONASCII_BASE + custom_xkb[s]
    ELSE IF s \in NonAscii THEN NONASCII_BASE + Distance(s)
    ELSE 0

-----------------------------------------------------------------------------
(* The firmware's tables.                                                  *)

\* The key codes of the library, in the order of the distances.
nonascii_keys == <<
    \h80, \h81, \h82, \h83, \h84, \h85, \h86, \h87,  \* modifiers
    \hDA, \hD9, \hD8, \hD7,                          \* up, down, left, right
    \hB2, \hB3, \hB0, \hB1,                          \* backspace, tab, return, esc
    \hD1, \hCE, \hD4, \hD3, \hD6, \hD2, \hD5, \hC1,  \* insert, print, ... caps lock
    \hC2, \hC3, \hC4, \hC5, \hC6, \hC7, \hC8, \hC9, \hCA, \hCB, \hCC, \hCD,  \* F1 - F12
    \hF0, \hF1, \hF2, \hF3, \hF4, \hF5, \hF6, \hF7, \hF8, \hF9, \hFA, \hFB,  \* F13 - F24
    \hEA, \hE1, \hE2, \hE3, \hE4, \hE5, \hE6, \hE7, \hE8, \hE9,  \* number pad 0 - 9
    \hDC, \hDD, \hDE, \hDF, \hE0, \hEB, \hDB >>      \* / * - + enter period, num lock

translate(b) ==
    IF b \in 32..126 THEN b
    ELSE IF b \in 127..126 + Len(nonascii_keys) THEN nonascii_keys[b - 126]
    ELSE CASE b = 27 -> \hB1 [] b = 8 -> \hB2 [] b = 13 -> \hB0 [] OTHER -> 0

SHIFT == \h80

\* _asciimap from 32 on: the usage of each printable character, with SHIFT for
\* those typed with shift.
asciimap == <<
    \h2c, \h1e + SHIFT, \h34 + SHIFT, \h20 + SHIFT, \h21 + SHIFT, \h22 + SHIFT,
    \h24 + SHIFT, \h34, \h26 + SHIFT, \h27 + SHIFT, \h25 + SHIFT, \h2e + SHIFT, \h36, \h2d,
    \h37, \h38, \h27, \h1e, \h1f, \h20, \h21, \h22, \h23, \h24, \h25, \h26, \h33 + SHIFT,
    \h33, \h64, \h2e, \h37 + SHIFT, \h38 + SHIFT, \h1f + SHIFT >>
    \o [i \in 1..26 |-> 3 + i + SHIFT]      \* A - Z
    \o << \h2f, \h31, \h30, \h23 + SHIFT, \h2d + SHIFT, \h35 >>
    \o [i \in 1..26 |-> 3 + i]              \* a - z
    \o << \h2f + SHIFT, \h31 + SHIFT, \h30 + SHIFT, \h35 + SHIFT >>

\* press(): what the key code k adds to the report.
Report(k) ==
    IF k >= 136 THEN [usage |-> k - 136, mods |-> {}]
    ELSE IF k >= 128 THEN [usage |-> 0, mods |-> {k - 128}]
    ELSE LET a == asciimap[k - 31]
         IN  [usage |-> a % SHIFT, mods |-> IF a >= SHIFT THEN {1} ELSE {}]

\* The report descriptor's range of the slots.  A value beyond it is none: the
\* host takes no notice of it.
USAGE_MAXIMUM == \h65
AtHost(u) == IF u <= USAGE_MAXIMUM THEN u ELSE 0

-----------------------------------------------------------------------------
TypeOK ==
    /\ pc \in {"event", "wire", "typed", "sent"}
    /\ sym \in Keysyms /\ reverse \in BOOLEAN
    /\ byte \in 0..255
    /\ key \in {0} \cup 32..126 \cup 128..255
    /\ usage \in 0..119 /\ mods \subseteq 0..7
    /\ host \in 0..USAGE_MAXIMUM

Init ==
    /\ pc = "event" /\ sym \in Keysyms /\ reverse \in BOOLEAN
    /\ byte = 0 /\ key = 0 /\ usage = 0 /\ mods = {} /\ host = 0

\* be_key(): a key without a byte is not sent.
BeKey ==
    /\ pc = "event"
    /\ byte' = translate_keysym(sym, reverse)
    /\ pc' = IF byte' = 0 THEN "sent" ELSE "wire"
    /\ UNCHANGED <<sym, reverse, key, usage, mods, host>>

\* key() of the firmware: 0 is answered with EINVAL_KEY.
FwKey ==
    /\ pc = "wire"
    /\ key' = translate(byte)
    /\ pc' = IF key' = 0 THEN "sent" ELSE "typed"
    /\ UNCHANGED <<sym, reverse, byte, usage, mods, host>>

\* press() of the library, into an empty report, which the host gets.
Press ==
    /\ pc = "typed"
    /\ usage' = Report(key).usage
    /\ mods' = Report(key).mods
    /\ host' = AtHost(usage')
    /\ pc' = "sent"
    /\ UNCHANGED <<sym, reverse, byte, key>>

\* releaseAll(), and the next event.
Release ==
    /\ pc = "sent"
    /\ pc' = "event" /\ sym' \in Keysyms
    /\ byte' = 0 /\ key' = 0 /\ usage' = 0 /\ mods' = {} /\ host' = 0
    /\ UNCHANGED reverse

Next == BeKey \/ FwKey \/ Press \/ Release

Spec == Init /\ [][Next]_vars

-----------------------------------------------------------------------------
(* Properties.                                                             *)

(* The usages of the HID standard name positions of keys.  These are the   *)
(* keysyms on the first level of a German keyboard without dead keys, by   *)
(* the usage of their position, from 4 on...                               *)
Positions == <<
    "a", "b", "c", "d", "e", "f", "g", "h", "i", "j", "k", "l", "m", "n", "o", "p", "q", "r",
    "s", "t", "u", "v", "w", "x", "z", "y", "1", "2", "3", "4", "5", "6", "7", "8", "9", "0",
    "Return", "Escape", "BackSpace", "Tab", "space", "ssharp", "acute", "udiaeresis", "plus",
    "VoidSymbol", "numbersign", "odiaeresis", "adiaeresis", "asciicircum", "comma", "period",
    "minus", "Caps_Lock", "F1", "F2", "F3", "F4", "F5", "F6", "F7", "F8", "F9", "F10", "F11",
    "F12", "Print", "VoidSymbol", "VoidSymbol", "Insert", "Home", "Page_Up", "Delete", "End",
    "Page_Down", "Right", "Left", "Down", "Up", "Num_Lock", "KP_Divide", "KP_Multiply",
    "KP_Subtract", "KP_Add", "KP_Enter", "KP_End", "KP_Down", "KP_Page_Down", "KP_Left",
    "KP_Begin", "KP_Right", "KP_Home", "KP_Up", "KP_Page_Up", "KP_Insert", "KP_Delete",
    "less", "VoidSymbol", "VoidSymbol", "VoidSymbol", "F13", "F14", "F15", "F16", "F17",
    "F18", "F19", "F20", "F21", "F22", "F23", "F24" >>

\* ... those of the number pad with Num Lock, from 89 on...
NumLockPositions == <<"KP_1", "KP_2", "KP_3", "KP_4", "KP_5", "KP_6", "KP_7", "KP_8", "KP_9",
                      "KP_0", "KP_Separator">>

\* ... and the modifier keys, by their bit; one has a second name.
ModifierKeys == <<"Control_L", "Shift_L", "Alt_L", "Super_L", "Control_R", "Shift_R",
                  "Alt_R", "Super_R", "ISO_Level3_Shift">>
ModifierBit(i) == IF ModifierKeys[i] = "ISO_Level3_Shift" THEN 6 ELSE i - 1

\* The key the user pressed in front of a custom xkb file.
Physical(s, rev) ==
    IF ~rev THEN s
    ELSE CASE s = "Insert" -> "Return" [] s = "Delete" -> "BackSpace"
           [] s = "Page_Up" -> "Up" [] s = "Page_Down" -> "Down"
           [] s = "Home" -> "Left" [] s = "End" -> "Right" [] OTHER -> s

\* Usage 31 is the key above the Return key of an American keyboard, 32 the one
\* left of it on a European one.  No keyboard has both, and to a host they are
\* the same key: the library's table knows the American one only.
SameKey(u, v) == u = v \/ {u, v} = {\h31, \h32}

\* Each key of the user's keyboard reaches the host as the key at the same
\* position, and a modifier as itself, never with a shift of its own: a host
\* with the same layout types what is printed on the key.  The keys F13 to F24
\* lie beyond the report descriptor's range and do nothing.
PositionKept ==
    pc = "sent" =>
        LET k == Physical(sym, reverse)
        IN  /\ \A i \in DOMAIN Positions : k = Positions[i] =>
                  /\ mods = {}
                  /\ IF i + 3 <= USAGE_MAXIMUM THEN SameKey(host, i + 3) ELSE host = 0
            /\ \A i \in DOMAIN NumLockPositions :
                  k = NumLockPositions[i] => host = i + 88 /\ mods = {}
            /\ \A i \in DOMAIN ModifierKeys :
                  k = ModifierKeys[i] => host = 0 /\ mods = {ModifierBit(i)}

\* A byte the controller sends for a key is one the firmware types: none is
\* answered EINVAL_KEY, and none ends in press() without a report.
AcceptedIsTyped ==
    pc = "sent" /\ byte # 0 => key # 0 /\ (usage # 0 \/ mods # {})
=============================================================================
