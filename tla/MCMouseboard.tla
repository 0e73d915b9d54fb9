---------------------------- MODULE MCMouseboard ----------------------------
(* Mouseboard for TLC.  The keyboard: keys as their ASCII codes, capitals  *)
(* typed with shift.  The mouse: a button whose number is a header byte,   *)
(* and a movement.                                                         *)
EXTENDS Mouseboard

KeyCommands ==
    {Close} \cup {<<h, k>> : h \in {HDR_KEY_PRESS, HDR_KEY_RELEASE}, k \in Keys}

MouseCommands ==
    {Close, <<HDR_BUTTON_PRESS, 2>>, <<HDR_BUTTON_RELEASE, 2>>, <<HDR_MOVE, 3, 97>>}

\* The user of a behaviour has one of the two, and the mouse fewer faults.
VARIABLE device

CommandsOf(d) == IF d = "mouse" THEN MouseCommands ELSE KeyCommands

MCCommands == KeyCommands \cup MouseCommands

MCInit == BoardInit /\ device \in {"keyboard", "mouse"}

MCNext ==
    /\ BoardNext
    /\ cur' \in CommandsOf(device)
    /\ device = "mouse" => faults' <= MaxFaults - 1
    /\ UNCHANGED device

MCSpec == MCInit /\ [][MCNext]_<<board, device>>

MCUsageOf == [k \in Keys |-> 4]
MCModsOf  == [k \in Keys |-> IF k < 97 THEN {"lshift"} ELSE {}]

\* every byte that can arrive
MCButtonArgs == {HDR_PING} \cup UNION {{f[j] : j \in DOMAIN f} : f \in Commands}
=============================================================================
