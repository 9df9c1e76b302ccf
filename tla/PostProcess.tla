----------------------------- MODULE PostProcess -----------------------------
(***************************************************************************)
(* post_process (src/postprocess.cc): from the output cells of the network *)
(* to the list of detections.  Decoding keeps the cells whose score passes *)
(* the threshold; the candidates are ranked by score (module QuickSort);   *)
(* non-maximum suppression runs once per class; the best surviving boxes,  *)
(* clamped to the picture, fill the caller's list, which is used again for *)
(* every picture.                                                          *)
(*                                                                         *)
(* A cell carries its quantised confidence and class values and, already   *)
(* decoded, its box in pixels.  Vectors are functions on 0..(validCount-1).*)
(***************************************************************************)
EXTENDS Quantize, Ranking

CONSTANTS
  Cells,        \* [conf, probs, loc] the network may put out
  MaxCells,     \* bound: number of cells (the code: 25200)
  MaxResults,   \* OBJ_NUMB_MAX_SIZE
  Classes,      \* class ids
  ModelSize,    \* model_in_w = model_in_h
  zp, S         \* quantisation of the output tensors, scale = 1/S

Locations == [x : Int, y : Int, w : Nat, h : Nat]

ASSUME PostAssumption ==
  /\ MaxCells \in Nat /\ MaxResults \in Nat \ {0} /\ ModelSize \in Nat
  /\ Classes \subseteq Nat /\ zp \in Int8 /\ S \in Nat \ {0}
  /\ Cells \subseteq [conf : Int8, probs : [Classes -> Int8], loc : Locations]
ASSUME ProbabilityAssumption ==   \* class values are outputs of a sigmoid
  \A cell \in Cells, c \in Classes : Deqnt(cell.probs[c], zp) \in 0..S

VARIABLES
  pc,                   \* "idle", "decode", "sort", "class", "row", "emit"
  cells,                \* cells decoded so far
  passed,               \* history: those of them whose score passes
  validCount, cand,     \* candidates: filterBoxes, classId and first scores
  objProbs, indexArray, \* both permuted by the sort; -1: suppressed
  todo, filterId, i,    \* classes left for nms, the one under way, loop index
  count, results        \* od_results

nmsv == <<todo, filterId>>
list == <<count, results>>
vars == <<pc, cells, passed, validCount, cand, objProbs, indexArray, nmsv, i, list>>

Positions == 0..(validCount - 1)
Push(f, m, v) == [k \in 0..m |-> IF k = m THEN v ELSE f[k]]

Clamp_UpperOnly(v) == IF v < ModelSize THEN v ELSE ModelSize    \* mutant
Clamp(v) == IF v > 0 THEN (IF v < ModelSize THEN v ELSE ModelSize) ELSE 0

(* A detection as the list reports it; n, the candidate it was made from,   *)
(* is kept for the properties.                                              *)
Detection(m, prop) ==
  LET b == cand[m].loc
  IN  [n |-> m, prop |-> prop, cls_id |-> cand[m].cls,
       left |-> Clamp(b.x), top |-> Clamp(b.y),
       right |-> Clamp(b.x + b.w), bottom |-> Clamp(b.y + b.h)]

NoEntries == [k \in {} |-> 0]

Init ==
  /\ pc = "idle"
  /\ cells = 0 /\ passed = 0 /\ validCount = 0 /\ cand = NoEntries
  /\ objProbs = NoEntries /\ indexArray = NoEntries
  /\ todo = {} /\ filterId = 0 /\ i = 0
  /\ count = 0 /\ results = NoEntries

(* Mutant: the caller's list is not cleared.                                *)
Start_NoMemset ==
  /\ pc = "idle"
  /\ cells' = 0 /\ passed' = 0 /\ validCount' = 0 /\ cand' = NoEntries
  /\ objProbs' = NoEntries /\ indexArray' = NoEntries
  /\ todo' = {} /\ filterId' = 0 /\ i' = 0
  /\ pc' = "decode"
  /\ UNCHANGED list

(* A call begins: its vectors are empty; memset(od_results, 0, ...).        *)
Start ==
  /\ pc = "idle"
  /\ cells' = 0 /\ passed' = 0 /\ validCount' = 0 /\ cand' = NoEntries
  /\ objProbs' = NoEntries /\ indexArray' = NoEntries
  /\ todo' = {} /\ filterId' = 0 /\ i' = 0
  /\ count' = 0 /\ results' = NoEntries
  /\ pc' = "decode"

(* process_i8_rv1106, one cell: the first of the best classes wins.         *)
IsMaxClass(c, probs) ==
  \A d \in Classes : probs[d] < probs[c] \/ (probs[d] = probs[c] /\ c <= d)

Decode ==
  /\ pc = "decode" /\ cells < MaxCells
  /\ cells' = cells + 1
  /\ \E cell \in Cells, c \in Classes :
       /\ IsMaxClass(c, cell.probs)
       /\ passed' = IF ScorePasses(cell.conf, cell.probs[c], zp, S)
                      THEN passed + 1 ELSE passed
       /\ IF /\ Prefilter(cell.conf, zp, S)
             /\ ScorePasses(cell.conf, cell.probs[c], zp, S)
            THEN /\ validCount' = validCount + 1
                 /\ cand' = Push(cand, validCount,
                      [loc |-> cell.loc, cls |-> c,
                       score |-> Deqnt(cell.conf, zp) * Deqnt(cell.probs[c], zp)])
            ELSE UNCHANGED <<validCount, cand>>
  /\ UNCHANGED <<pc, objProbs, indexArray, nmsv, i, list>>

(* All three output layers are decoded; without a candidate the call        *)
(* returns here.                                                            *)
Decoded ==
  /\ pc = "decode"
  /\ pc' = IF validCount <= 0 THEN "idle" ELSE "sort"
  /\ UNCHANGED <<cells, passed, validCount, cand, objProbs, indexArray, nmsv, i, list>>

(* quick_sort_indice_inverse; class_set.  QuickSort shows that its result   *)
(* is a ranking; equal scores may come in any order here.                   *)
Sort ==
  /\ pc = "sort"
  /\ indexArray' \in Vectors(validCount, Positions)
  /\ objProbs' = [k \in Positions |-> cand[indexArray'[k]].score]
  /\ IsRanking(validCount, [k \in Positions |-> cand[k].score],
               objProbs', indexArray')
  /\ todo' = {cand[k].cls : k \in Positions}
  /\ pc' = "class"
  /\ UNCHANGED <<cells, passed, validCount, cand, filterId, i, list>>

(* for (auto c : class_set): in ascending order.                            *)
NextClass ==
  /\ pc = "class"
  /\ \/ /\ todo = {}
        /\ pc' = "emit"
        /\ UNCHANGED nmsv
     \/ /\ filterId' \in todo /\ \A d \in todo : filterId' <= d
        /\ todo' = todo \ {filterId'}
        /\ pc' = "row"
  /\ i' = 0
  /\ UNCHANGED <<cells, passed, validCount, cand, objProbs, indexArray, list>>

(* CalculateOverlap > NMS_THRESH (0.45): borders count as one pixel.        *)
Side(a, la, b, lb) ==
  LET hi == IF a + la < b + lb THEN a + la ELSE b + lb
      lo == IF a > b THEN a ELSE b
  IN  IF hi - lo + 1 > 0 THEN hi - lo + 1 ELSE 0
Intersection(b, c) == Side(b.x, b.w, c.x, c.w) * Side(b.y, b.h, c.y, c.h)
Area(b) == (b.w + 1) * (b.h + 1)
Overlaps(b, c) ==
  LET in == Intersection(b, c)
      un == Area(b) + Area(c) - in
  IN  un > 0 /\ 20 * in > 9 * un

(* Mutants: only the neighbour in the ranking is compared; a box can        *)
(* suppress better ones.                                                    *)
Suppressed_NextOnly(k) ==
  /\ k = i + 1 /\ indexArray[k] # -1
  /\ Overlaps(cand[indexArray[i]].loc, cand[indexArray[k]].loc)
Suppressed_Backwards(k) ==
  /\ k # i /\ indexArray[k] # -1
  /\ Overlaps(cand[indexArray[i]].loc, cand[indexArray[k]].loc)

(* The inner loop of nms, for a later position k.                           *)
Suppressed(k) ==
  /\ k > i /\ indexArray[k] # -1
  /\ Overlaps(cand[indexArray[i]].loc, cand[indexArray[k]].loc)

(* One iteration of the outer loop.  classIds is indexed by the position in *)
(* the ranking, as the code has it, and not by the candidate there.         *)
Row ==
  /\ pc = "row"
  /\ IF indexArray[i] = -1 \/ cand[i].cls # filterId
       THEN UNCHANGED indexArray
       ELSE indexArray' =
              [k \in Positions |-> IF Suppressed(k) THEN -1 ELSE indexArray[k]]
  /\ IF i + 1 < validCount THEN i' = i + 1 /\ UNCHANGED pc
                           ELSE i' = 0 /\ pc' = "class"
  /\ UNCHANGED <<cells, passed, validCount, cand, objProbs, nmsv, list>>

Skipped_NoLimit(k) == indexArray[k] = -1                    \* mutant
Skipped(k) == indexArray[k] = -1 \/ count >= MaxResults

(* The loop that fills od_results; the last iteration returns.              *)
Emit ==
  /\ pc = "emit"
  /\ IF Skipped(i)
       THEN UNCHANGED list
       ELSE /\ results' = Push(results, count,
                               Detection(indexArray[i], objProbs[i]))
            /\ count' = count + 1
  /\ IF i + 1 < validCount THEN i' = i + 1 /\ UNCHANGED pc
                           ELSE i' = 0 /\ pc' = "idle"
  /\ UNCHANGED <<cells, passed, validCount, cand, objProbs, indexArray, nmsv>>

Next == Start \/ Decode \/ Decoded \/ Sort \/ NextClass \/ Row \/ Emit

Spec == Init /\ [][Next]_vars

-----------------------------------------------------------------------------
(* Properties.                                                              *)

Results == 0..(count - 1)

TypeOK ==
  /\ pc \in {"idle", "decode", "sort", "class", "row", "emit"}
  /\ cells \in 0..MaxCells
  /\ validCount \in 0..cells /\ passed \in 0..cells
  /\ cand \in Vectors(validCount, [loc : Locations, cls : Classes, score : Int])
  /\ pc \in {"sort", "class", "row", "emit"} => validCount > 0
  /\ pc \in {"class", "row", "emit"} =>
       /\ objProbs \in Vectors(validCount, Int)
       /\ indexArray \in Vectors(validCount, -1..(validCount - 1))
  /\ todo \subseteq Classes
  /\ i \in Nat /\ (pc \in {"row", "emit"} => i < validCount)
  /\ count \in 0..MaxResults

(* The test on the quantised confidence, there to save time, costs no       *)
(* candidate: every decoded cell whose score passes BOX_THRESH is one.      *)
PrefilterLosesNothing == validCount = passed

Returned == pc = "idle"

(* Of the decoded boxes, as nms compares them, no two with an entry in the  *)
(* list overlap by more than the threshold, although nms takes the rows     *)
(* class by class and not in the order of the ranking.  It says nothing of  *)
(* the entries' own boxes: they are clamped to the picture after nms, and   *)
(* two that are cut off at its border may overlap by more.                  *)
SurvivorsDisjoint ==
  Returned => \A a, b \in Results : a # b =>
                ~Overlaps(cand[results[a].n].loc, cand[results[b].n].loc)

(* The list says what it is about: as many entries as count, each one with  *)
(* the score and the class of its own candidate, best first, and no         *)
(* candidate twice.                                                         *)
ResultsRanked ==
  /\ DOMAIN results = Results
  /\ \A a \in Results :
       /\ results[a].n \in Positions
       /\ results[a].prop = cand[results[a].n].score
       /\ results[a].cls_id = cand[results[a].n].cls
  /\ \A a, b \in Results : a < b => /\ results[a].n # results[b].n
                                    /\ results[a].prop >= results[b].prop

(* The list is full, of nothing worse than candidate m.                     *)
FullOfBetter(m) ==
  count = MaxResults /\ \A a \in Results : results[a].prop >= cand[m].score

(* The best candidate is always reported, and a candidate is missing only   *)
(* for a better one that it overlaps, or because the list is full of better *)
(* ones: the cut at OBJ_NUMB_MAX_SIZE takes out the worst.                  *)
NothingDroppedForNothing ==
  Returned =>
    \A m \in Positions :
      \/ \E a \in Results : results[a].n = m
      \/ FullOfBetter(m)
      \/ \E k \in Positions : /\ k # m
                              /\ cand[k].score >= cand[m].score
                              /\ Overlaps(cand[k].loc, cand[m].loc)

(* Every reported box lies in the picture and has its corners in order:     *)
(* draw_result maps them back without a check.                              *)
BoxesInPicture ==
  \A a \in Results :
    /\ results[a].left \in 0..results[a].right
    /\ results[a].top \in 0..results[a].bottom
    /\ results[a].right <= ModelSize /\ results[a].bottom <= ModelSize
=============================================================================
