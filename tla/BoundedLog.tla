----------------------------- MODULE BoundedLog -----------------------------
(* What the controller's log promises: it keeps the newest messages, oldest *)
(* first, and a redraw shows the newest of those, as many as fit.          *)
EXTENDS Naturals, Sequences

CONSTANTS Msgs,   \* messages
          Keep,   \* how many messages are kept
          Lines   \* the numbers of lines a window can have room for

VARIABLES log, screen

\* The last n elements of s, or all of them.
Newest(s, n) == LET k == IF Len(s) > n THEN Len(s) - n ELSE 0
                IN  [j \in 1..Len(s)-k |-> s[k + j]]

Init == log = <<>> /\ screen = <<>>

Add == \E m \in Msgs : log' = Newest(Append(log, m), Keep) /\ UNCHANGED screen

Show == \E n \in Lines : screen' = Newest(log, n) /\ UNCHANGED log

Spec == Init /\ [][Add \/ Show]_<<log, screen>>
=============================================================================
