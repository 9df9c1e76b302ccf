--------------------------- MODULE MCRknnPipeline ---------------------------
(* Model-checking instances of RknnPipeline; the .cfg files choose the     *)
(* bound on frames and which library calls may fail.                       *)
EXTENDS RknnPipeline

OnlyRga       == {"rga"}
AnyResize     == {"rga", "cv", "import_error"}
RunSucceeds   == {0}
RunMayFail    == {0, -1}
=============================================================================
