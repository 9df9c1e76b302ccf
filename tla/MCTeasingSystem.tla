--------------------------- MODULE MCTeasingSystem ---------------------------
(* TeasingSystem for TLC; the bounds are in the configuration.              *)
EXTENDS TeasingSystem
=============================================================================
