----------------------------- MODULE MCPointer -----------------------------
(* Pointer for TLC: a window with room to move on one axis and none on the *)
(* other one, and one too small on both.                                   *)
EXTENDS Pointer

MCSlides == {[x |-> 0, y |-> 0], [x |-> 2, y |-> -1]}
MCSizes == {[x |-> 5, y |-> 2], [x |-> 3, y |-> 2]}
=============================================================================
