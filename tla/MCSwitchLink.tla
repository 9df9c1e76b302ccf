---------------------------- MODULE MCSwitchLink ----------------------------
(* SwitchLink for TLC; the bounds are in the configurations.                *)
EXTENDS SwitchLink
=============================================================================
