------------------------------- MODULE Ranking -------------------------------
(***************************************************************************)
(* What quick_sort_indice_inverse (src/postprocess.cc) promises its only   *)
(* caller, post_process.  Vectors are functions on 0..(n-1).               *)
(***************************************************************************)
EXTENDS Integers

Vectors(n, Values) == [0..(n - 1) -> Values]

(* indices is a permutation of the positions of the unsorted vector.        *)
IsPermutation(n, indices) ==
  /\ indices \in Vectors(n, 0..(n - 1))
  /\ \A p, q \in 0..(n - 1) : p # q => indices[p] # indices[q]

(* Every score still stands beside the index it came with.                  *)
Paired(n, original, input, indices) ==
  \A p \in 0..(n - 1) : input[p] = original[indices[p]]

Descending(n, input) ==
  \A p, q \in 0..(n - 1) : p < q => input[p] >= input[q]

(* input and indices rank the scores of original, best first.               *)
IsRanking(n, original, input, indices) ==
  /\ IsPermutation(n, indices)
  /\ Paired(n, original, input, indices)
  /\ Descending(n, input)
=============================================================================
