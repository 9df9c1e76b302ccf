------------------------------ MODULE MCStartup ------------------------------
(* A model with three outputs, as YOLOv5 has, or one more or less.         *)
EXTENDS Startup

OutputsAroundThree == 2..4
=============================================================================
