----------------------------- MODULE MCUartLink -----------------------------
(* UartLink for TLC: a command without argument and one with two, the      *)
(* first of which is a header byte as well.                                *)
EXTENDS UartLink

MCCommands == {Close, <<HDR_MOVE, 1, 5>>}
=============================================================================
