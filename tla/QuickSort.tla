------------------------------ MODULE QuickSort ------------------------------
(***************************************************************************)
(* quick_sort_indice_inverse (src/postprocess.cc): the scores of all       *)
(* candidate boxes are sorted in place, best first, and an index vector is *)
(* permuted along.  The partition keeps the pivot aside and moves a hole   *)
(* from one end of the range to the other.                                 *)
(*                                                                         *)
(* The recursion is a set of ranges still to be sorted.  A call sorts its  *)
(* left part completely before its right part, so the next call is always  *)
(* the one for the leftmost pending range; calls with left >= right return *)
(* at once and are not recorded.                                           *)
(***************************************************************************)
EXTENDS Ranking, FiniteSets

CONSTANTS MaxCount,   \* bound: number of candidates
          Scores      \* their scores, integers

ASSUME SortAssumption == MaxCount \in Nat /\ Scores \subseteq Int

VARIABLES
  pc,                 \* "call", "high", "low", "place"
  n, original,        \* the call from post_process: validCount, objProbs
  input, indices,
  pending,            \* ranges <<left, right>> with left < right
  left, right, low, high, key, key_index    \* the partition under way

part == <<left, right, low, high, key, key_index>>
vars == <<pc, n, original, input, indices, pending, part>>

Segment(l, r) == IF l < r THEN {<<l, r>>} ELSE {}

Init ==
  /\ pc = "call"
  /\ n \in 1..MaxCount
  /\ original \in Vectors(n, Scores)
  /\ input = original
  /\ indices = [p \in 0..(n - 1) |-> p]
  /\ pending = Segment(0, n - 1)
  /\ left = 0 /\ right = 0 /\ low = 0 /\ high = 0
  /\ key = original[0] /\ key_index = 0

(* Entering the function for the next range: take the pivot out.            *)
Call ==
  /\ pc = "call"
  /\ \E r \in pending :
       /\ \A s \in pending : r[1] <= s[1]
       /\ pending' = pending \ {r}
       /\ left' = r[1] /\ right' = r[2]
  /\ low' = left' /\ high' = right'
  /\ key' = input[left'] /\ key_index' = indices[left']
  /\ pc' = "high"
  /\ UNCHANGED <<n, original, input, indices>>

(* while (low < high && input[high] <= key) high--;                         *)
StopsHigh_NoBound == ~(input[high] <= key)                 \* mutant
StopsHigh == ~(low < high /\ input[high] <= key)

ScanHigh ==
  /\ pc = "high" /\ ~StopsHigh
  /\ high' = high - 1
  /\ UNCHANGED <<pc, n, original, input, indices, pending,
                 left, right, low, key, key_index>>

(* input[low] = input[high]; the hole moves to high.                        *)
MoveDown ==
  /\ pc = "high" /\ StopsHigh
  /\ input' = [input EXCEPT ![low] = input[high]]
  /\ indices' = [indices EXCEPT ![low] = indices[high]]
  /\ pc' = "low"
  /\ UNCHANGED <<n, original, pending, part>>

(* while (low < high && input[low] >= key) low++;                           *)
StopsLow == ~(low < high /\ input[low] >= key)

ScanLow ==
  /\ pc = "low" /\ ~StopsLow
  /\ low' = low + 1
  /\ UNCHANGED <<pc, n, original, input, indices, pending,
                 left, right, high, key, key_index>>

(* input[high] = input[low]; the hole moves back to low; the outer loop     *)
(* tests low < high.                                                        *)
MoveUp ==
  /\ pc = "low" /\ StopsLow
  /\ input' = [input EXCEPT ![high] = input[low]]
  /\ indices' = [indices EXCEPT ![high] = indices[low]]
  /\ pc' = IF low < high THEN "high" ELSE "place"
  /\ UNCHANGED <<n, original, pending, part>>

(* Mutants: the right part starts one too far, or with the pivot itself.    *)
RightPart_OffByOne  == Segment(low + 2, right)
RightPart_WithPivot == Segment(low, right)
RightPart == Segment(low + 1, right)

(* The pivot goes into the hole; the two recursive calls.                   *)
Place ==
  /\ pc = "place"
  /\ input' = [input EXCEPT ![low] = key]
  /\ indices' = [indices EXCEPT ![low] = key_index]
  /\ pending' = pending \cup Segment(left, low - 1) \cup RightPart
  /\ pc' = "call"
  /\ UNCHANGED <<n, original, part>>

Sorted == pc = "call" /\ pending = {}

(* post_process has its ranking.                                            *)
Return == Sorted /\ UNCHANGED vars

Next == Call \/ ScanHigh \/ MoveDown \/ ScanLow \/ MoveUp \/ Place \/ Return

Spec == Init /\ [][Next]_vars

(* Sequential code: it runs on.                                             *)
FairSpec == Spec /\ WF_vars(Next)

-----------------------------------------------------------------------------
(* Properties.                                                              *)

TypeOK ==
  /\ pc \in {"call", "high", "low", "place"}
  /\ n \in 1..MaxCount
  /\ original \in Vectors(n, Scores)
  /\ input \in Vectors(n, Scores)
  /\ indices \in Vectors(n, 0..(n - 1))
  /\ \A r \in pending : \E l, h \in 0..(n - 1) : l < h /\ r = <<l, h>>
  /\ left \in 0..(n - 1) /\ right \in left..(n - 1)
  /\ low \in left..right /\ high \in low..right
  /\ key \in Scores /\ key_index \in 0..(n - 1)

(* When the outermost call returns, the vectors rank the scores, and no     *)
(* score has been lost or separated from its index on the way: post_process *)
(* reads the score of a box from the sorted vector and its place from the   *)
(* index vector.                                                            *)
RanksScores == Sorted => IsRanking(n, original, input, indices)

(* The recursion comes to an end, equal scores included.                    *)
Terminates == <>Sorted
=============================================================================
