---------------------------- MODULE ResultChannel ----------------------------
(***************************************************************************)
(* What the queue between the main loop and rknn_thread amounts to for its *)
(* two clients: a register holding the newest result.  Frames are          *)
(* submitted in order; the register may lag behind the frames by any       *)
(* amount and skip frames, but it never runs ahead of them and never goes  *)
(* back; a reader sees what is in the register, so it never goes back      *)
(* either.  A frame is identified by its number, 0 stands for none.        *)
(***************************************************************************)
EXTENDS Naturals

VARIABLES
  submitted,   \* the newest frame the main loop has started to hand over
  inferred,    \* the frame the published result list belongs to
  drawn        \* the frame of the list the main loop took last

vars == <<submitted, inferred, drawn>>

Init == submitted = 0 /\ inferred = 0 /\ drawn = 0

Submit ==
  /\ submitted' = submitted + 1
  /\ UNCHANGED <<inferred, drawn>>

Infer ==
  /\ inferred' \in inferred..submitted
  /\ UNCHANGED <<submitted, drawn>>

Draw ==
  /\ drawn' = inferred
  /\ UNCHANGED <<submitted, inferred>>

Next == Submit \/ Infer \/ Draw

Spec == Init /\ [][Next]_vars
=============================================================================
