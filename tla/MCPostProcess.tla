--------------------------- MODULE MCPostProcess ---------------------------
(* PostProcess for TLC: a chain of boxes in which each overlaps the next,   *)
(* two of them across the border of the picture, in two classes and with    *)
(* different scores, and cells that either test of the decoder rejects.     *)
EXTENDS PostProcess

Cell(c, p, q, x, w) == [conf |-> c, probs |-> [k \in {0, 15} |-> IF k = 0 THEN p ELSE q],
                        loc |-> [x |-> x, y |-> 2, w |-> w, h |-> 10]]

ZeroPoint == -128
FewClasses == {0, 15}
FewCells == {Cell(100, 100, -128, -4, 9),    \* leaves the picture on the left
             Cell(100, -128, 100, -1, 9),    \* overlaps the first
             Cell(90, -128, 120, 2, 9),      \* overlaps the second
             Cell(120, 90, 80, 5, 9),        \* overlaps the third, best
             Cell(100, 100, 100, 15, 9),     \* leaves it on the right; a tie
             Cell(-64, 127, -128, 0, 9),     \* just passes both tests
             Cell(-65, 127, 127, 0, 9),      \* confidence just too low
             Cell(0, 0, -10, 0, 9)}          \* score too low
=============================================================================
