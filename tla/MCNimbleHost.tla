---------------------------- MODULE MCNimbleHost ----------------------------
(* NimbleHost for TLC: five of the nine commands of the startup, more than  *)
(* there are faults.                                                       *)
EXTENDS NimbleHost

MCStartup == <<"reset", "version", "evmask", "bufsize", "address">>
=============================================================================
