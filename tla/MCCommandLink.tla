---------------------------- MODULE MCCommandLink ----------------------------
(* CommandLink for TLC; the bounds are in the configuration.                *)
EXTENDS CommandLink
=============================================================================
