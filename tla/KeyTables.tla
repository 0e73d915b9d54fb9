----------------------------- MODULE KeyTables ------------------------------
(* KeyMap under names of its own, beside the other modules, and the        *)
(* constants of BleHid and Mouseboard that stand for its tables.           *)
EXTENDS Integers

VARIABLES stage, sym, reverse, byte, key, usage, mods, host

Map == INSTANCE KeyMap WITH pc <- stage

KeyMapSpec == Map!Spec

\* The bytes the controller sends for keys...
KeyBytes == {Map!translate_keysym(s, r) : s \in Map!Keysyms, r \in BOOLEAN} \ {0}

\* ... and what the firmware's library has for each of them.
UsageIn == [b \in KeyBytes |-> Map!Report(Map!translate(b)).usage]
ModsIn  == [b \in KeyBytes |-> Map!Report(Map!translate(b)).mods]

\* Each key of the user's keyboard reaches the host as the key at the same
\* position, unless it is beyond the report descriptor's range (KeyMap says what
\* that is).
PositionKept == Map!PositionKept

\* A byte the controller sends for a key is one the firmware types.
AcceptedIsTyped == Map!AcceptedIsTyped
=============================================================================
