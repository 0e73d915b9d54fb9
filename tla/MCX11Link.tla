------------------------------ MODULE MCX11Link ------------------------------
(* X11Link for TLC: two controllers, of which c2 has one event only.       *)
EXTENDS X11Link

CONSTANT c2

ASSUME C2Assumption == c2 \in Clients

MCSpec ==
    /\ Init /\ [][Next /\ no'[c2] <= 1]_vars
    /\ WF_vars(Server)
    /\ \A c \in Clients : WF_vars(Program(c)) /\ SF_vars(Stop(c))
=============================================================================
