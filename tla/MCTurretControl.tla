--------------------------- MODULE MCTurretControl ---------------------------
(* Model-checking instance of TurretControl: the clock ticks a few times   *)
(* per second, and the boxes lie in the corners of the 640 x 640 picture;  *)
(* one is torn, its right corner left of its left one.                     *)
EXTENDS TurretControl

Box(l, u, r) == [left |-> l, top |-> u, right |-> r]
CornerBoxes  == {Box(0, 0, 0), Box(640, 640, 640), Box(640, 320, 0)}
=============================================================================
