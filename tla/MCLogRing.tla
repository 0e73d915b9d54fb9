----------------------------- MODULE MCLogRing -----------------------------
(* LogRing for TLC: messages of two lengths, a ring that wraps.            *)
EXTENDS LogRing

MCMsgs == {"a", "b", "long"}
MCLenOf == [m \in MCMsgs |-> IF m = "long" THEN 2 ELSE 1]
=============================================================================
