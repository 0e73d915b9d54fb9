----------------------------- MODULE BtProtocol -----------------------------
(* The serial protocol between the controller and the bluetooth firmware:  *)
(* one header byte, the arguments that belong to it, one answer byte.      *)
EXTENDS Naturals

HDR_PING           == 1
HDR_CLOSE          == 2
HDR_KEY_PRESS      == 3
HDR_KEY_RELEASE    == 4
HDR_BUTTON_PRESS   == 5
HDR_BUTTON_RELEASE == 6
HDR_VSCROLL        == 7
HDR_HSCROLL        == 8
HDR_MOVE           == 9
HDR_MAX            == 10

RESP_EINVAL_KEY == "EINVAL_KEY"
RESP_EINVAL_CMD == "EINVAL_CMD"
RESP_ENOCON     == "ENOCON"
RESP_OK         == "OK"
RESP_MAGIC      == "MAGIC"

Byte == 0..255

\* loop(): the header bytes that select a handler.
IsCommand(hdr) == hdr > 0 /\ hdr < HDR_MAX

\* The argument bytes the handler of hdr reads; none for an unknown header.
NArgs(hdr) ==
    IF hdr \in HDR_KEY_PRESS..HDR_HSCROLL THEN 1
    ELSE IF hdr = HDR_MOVE THEN 2 ELSE 0

\* The answers the handler of hdr can give.
Answers(hdr) ==
    IF ~IsCommand(hdr)        THEN {RESP_EINVAL_CMD}
    ELSE IF hdr = HDR_PING    THEN {RESP_MAGIC}
    ELSE IF hdr = HDR_CLOSE   THEN {RESP_OK}
    ELSE IF hdr < HDR_VSCROLL THEN {RESP_OK, RESP_ENOCON, RESP_EINVAL_KEY}
    ELSE {RESP_OK, RESP_ENOCON}
=============================================================================
