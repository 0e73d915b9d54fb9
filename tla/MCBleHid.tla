------------------------------ MODULE MCBleHid ------------------------------
(* BleHid for TLC.  The keyboard: a plain key, the same key typed with     *)
(* shift, a second key and the shift key itself.  The mouse: every button  *)
(* number the firmware tells apart, with one key for close() to release.   *)
EXTENDS BleHid

MCKeys == {"a", "A", "b", "shift"}
MCUsageOf == [k \in MCKeys |-> CASE k \in {"a", "A"} -> 4
                                 [] k = "b" -> 5
                                 [] k = "shift" -> 0]
MCModsOf == [k \in MCKeys |-> IF k \in {"A", "shift"} THEN {"lshift"} ELSE {}]

\* The user of a behaviour has one of the two.
VARIABLE device

MCInit == Init /\ device \in {"keyboard", "mouse"}

MCNext ==
    /\ Next
    /\ IF device = "mouse" THEN held' \cup missed' \subseteq {"a"}
       ELSE cmd' \notin ButtonCmds
    /\ UNCHANGED device

\* The fairness of MovingSpec.
MCSpec ==
    /\ MCInit /\ [][MCNext]_<<vars, device>>
    /\ WF_vars(Send) /\ SF_vars(Motion) /\ SF_vars(SendMouse /\ mouseSeen' = "current")
=============================================================================
