---------------------------- MODULE MCQuickSort ----------------------------
(* QuickSort for TLC: every vector up to a length over a few scores.        *)
EXTENDS QuickSort
FewScores == 1..4
=============================================================================
