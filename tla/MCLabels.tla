------------------------------ MODULE MCLabels ------------------------------
(* Labels for TLC: every file of up to five characters, two of them letters *)
(* and one the newline, for at most two labels.                             *)
EXTENDS Labels

CONSTANTS a, b, nl

FewChars == {a, b}
AllFiles == UNION {[1..n -> FewChars \cup {nl}] : n \in 0..5}
=============================================================================
