---------------------------- MODULE TeasingSwitch ----------------------------
(***************************************************************************)
(* What messageArrived_s (src/src/paho_c_sub.c) makes of a message on the  *)
(* topic /livingroom/battery1/sw.  Payloads shorter than three bytes are   *)
(* ignored; in the others the second byte decides.                         *)
(***************************************************************************)

Payloads == {"short", "?1?", "???"}

SwitchValue(payload, sw) == CASE payload = "short" -> sw
                              [] payload = "?1?"   -> 1
                              [] OTHER             -> 0
=============================================================================
