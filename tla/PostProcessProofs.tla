-------------------------- MODULE PostProcessProofs --------------------------
(***************************************************************************)
(* Proofs about PostProcess: typing, no two decoded boxes that nms keeps   *)
(* overlap, every reported box lies in the picture, and the decoder's      *)
(* cheap test loses nothing.                                               *)
(***************************************************************************)
EXTENDS PostProcess, FiniteSetTheorems, TLAPS

USE PostAssumption

Candidates == [loc : Locations, cls : Classes, score : Int]

(* A vector nothing was pushed to has no entries.                           *)
LEMMA EmptyVector == \A X : NoEntries \in Vectors(0, X)
<1>1. 0..(0 - 1) = {}
  OBVIOUS
<1> QED
  BY <1>1 DEF NoEntries, Vectors

(* push_back makes a vector one entry longer.                               *)
LEMMA PushVector ==
  \A m \in Nat : \A X : \A f \in Vectors(m, X) : \A v \in X :
    Push(f, m, v) \in Vectors(m + 1, X)
<1> SUFFICES ASSUME NEW m \in Nat, NEW X, NEW f \in Vectors(m, X), NEW v \in X
             PROVE  Push(f, m, v) \in Vectors(m + 1, X)
  OBVIOUS
<1>1. 0..(m + 1 - 1) = 0..m
  OBVIOUS
<1>2. \A k \in 0..m : k # m => k \in 0..(m - 1)
  OBVIOUS
<1>3. \A k \in 0..m : (IF k = m THEN v ELSE f[k]) \in X
  BY <1>2 DEF Vectors
<1> QED
  BY <1>1, <1>3 DEF Push, Vectors

(* push_back writes the last entry and keeps the others.                    *)
LEMMA DetectionPushed ==
  \A f : \A m \in Nat : \A v :
    /\ Push(f, m, v)[m] = v
    /\ \A k \in 0..(m - 1) : Push(f, m, v)[k] = f[k]
  BY DEF Push

-----------------------------------------------------------------------------
(* The variables keep their types; in particular every index the loops use  *)
(* lies inside the vectors, and count never exceeds OBJ_NUMB_MAX_SIZE.      *)
THEOREM TypeCorrect == Spec => []TypeOK
<1>1. Init => TypeOK
  <2> SUFFICES ASSUME Init PROVE TypeOK
    OBVIOUS
  <2>1. cand \in Vectors(validCount, Candidates)
    BY EmptyVector DEF Init
  <2> QED
    BY <2>1 DEF Init, TypeOK, Candidates
<1>2. TypeOK /\ [Next]_vars => TypeOK'
  <2> SUFFICES ASSUME TypeOK, [Next]_vars PROVE TypeOK'
    OBVIOUS
  <2>1. CASE Start
    <3>1. (cand \in Vectors(validCount, Candidates))'
      BY <2>1, EmptyVector DEF Start
    <3> QED
      BY <2>1, <3>1 DEF Start, TypeOK, Candidates
  <2>2. CASE Decode
    <3>1. PICK cell \in Cells, c \in Classes :
            IF /\ Prefilter(cell.conf, zp, S)
               /\ ScorePasses(cell.conf, cell.probs[c], zp, S)
              THEN /\ validCount' = validCount + 1
                   /\ cand' = Push(cand, validCount,
                        [loc |-> cell.loc, cls |-> c,
                         score |-> Deqnt(cell.conf, zp) * Deqnt(cell.probs[c], zp)])
              ELSE UNCHANGED <<validCount, cand>>
      BY <2>2 DEF Decode
    <3> DEFINE v == [loc |-> cell.loc, cls |-> c,
                     score |-> Deqnt(cell.conf, zp) * Deqnt(cell.probs[c], zp)]
    <3>2. v \in Candidates
      <4>1. cell \in [conf : Int8, probs : [Classes -> Int8], loc : Locations]
        OBVIOUS
      <4>2. cell.conf \in Int /\ cell.probs[c] \in Int /\ cell.loc \in Locations
        BY <4>1, SMTT(30) DEF Int8
      <4>3. Deqnt(cell.conf, zp) \in Int /\ Deqnt(cell.probs[c], zp) \in Int
        BY <4>2 DEF Deqnt, Int8
      <4>4. Deqnt(cell.conf, zp) * Deqnt(cell.probs[c], zp) \in Int
        BY <4>3
      <4> QED
        BY <4>2, <4>4 DEF Candidates
    <3>3. validCount \in Nat /\ cand \in Vectors(validCount, Candidates)
      BY DEF TypeOK, Candidates
    <3>4. \/ validCount' = validCount + 1 /\ cand' = Push(cand, validCount, v)
          \/ UNCHANGED <<validCount, cand>>
      BY <3>1
    <3> HIDE DEF v
    <3>5. (cand \in Vectors(validCount, Candidates))'
      BY <3>2, <3>3, <3>4, PushVector
    <3>6. validCount' \in 0..cells' /\ cells' \in 0..MaxCells
      BY <2>2, <3>4 DEF Decode, TypeOK
    <3> QED
      BY <2>2, <3>5, <3>6 DEF Decode, TypeOK, Candidates, nmsv, list
  <2>3. CASE Decoded
    BY <2>3 DEF Decoded, TypeOK, nmsv, list
  <2>4. CASE Sort
    <3>1. \A k \in Positions : indexArray'[k] \in Positions
      BY <2>4 DEF Sort, Vectors, Positions
    <3>2. \A k \in Positions : cand[k] \in Candidates
      BY DEF TypeOK, Vectors, Positions, Candidates
    <3>3. objProbs' \in Vectors(validCount, Int)
      BY <2>4, <3>1, <3>2 DEF Sort, Vectors, Positions, Candidates
    <3>4. indexArray' \in Vectors(validCount, -1..(validCount - 1))
      <4>1. indexArray' \in Vectors(validCount, Positions)
        BY <2>4 DEF Sort
      <4>2. Positions \subseteq -1..(validCount - 1)
        BY DEF Positions
      <4> QED
        BY <4>1, <4>2 DEF Vectors
    <3>5. todo' \subseteq Classes
      BY <2>4, <3>2 DEF Sort, Candidates
    <3> QED
      BY <2>4, <3>3, <3>4, <3>5 DEF Sort, TypeOK, list
  <2>5. CASE NextClass
    BY <2>5 DEF NextClass, TypeOK, nmsv, list
  <2>6. CASE Row
    <3>1. indexArray' \in Vectors(validCount, -1..(validCount - 1))
      <4> DEFINE g == [k \in Positions |-> IF Suppressed(k) THEN -1 ELSE indexArray[k]]
      <4>1. indexArray \in [Positions -> -1..(validCount - 1)]
        BY <2>6 DEF Row, TypeOK, Vectors, Positions
      <4>2. -1 \in -1..(validCount - 1)
        BY DEF TypeOK
      <4>3. g \in [Positions -> -1..(validCount - 1)]
        BY <4>1, <4>2
      <4>4. indexArray' = indexArray \/ indexArray' = g
        BY <2>6 DEF Row
      <4> QED
        BY <4>1, <4>3, <4>4, Zenon DEF Vectors, Positions
    <3> QED
      BY <2>6, <3>1 DEF Row, TypeOK, nmsv, list
  <2>7. CASE Emit
    BY <2>7 DEF Emit, Skipped, TypeOK, nmsv, list
  <2>8. CASE UNCHANGED vars
    BY <2>8 DEF vars, nmsv, list, TypeOK
  <2> QED
    BY <2>1, <2>2, <2>3, <2>4, <2>5, <2>6, <2>7, <2>8 DEF Next
<1> QED
  BY <1>1, <1>2, PTL DEF Spec

-----------------------------------------------------------------------------
(* No two survivors overlap.  nms handles the rows of the ranking           *)
(* class by class; Handled(p) says that row p has had its turn, after which *)
(* a surviving p overlaps no surviving later row.  When the last class is   *)
(* done every row has had its turn, whatever the order was.                 *)
Survives(p) == indexArray[p] # -1
Loc(p) == cand[indexArray[p]].loc

Handled(p) ==
  CASE pc = "class" -> cand[p].cls \notin todo
    [] pc = "row"   -> \/ cand[p].cls \notin todo /\ cand[p].cls # filterId
                       \/ cand[p].cls = filterId /\ p < i
    [] OTHER        -> TRUE

RowsClear ==
  pc \in {"class", "row", "emit"} =>
    \A p, q \in Positions :
      p < q /\ Survives(p) /\ Survives(q) /\ Handled(p) => ~Overlaps(Loc(p), Loc(q))

Reported(a) == cand[results[a].n].loc

ListClear ==
  /\ pc = "row" => filterId \notin todo
  /\ pc \in {"decode", "sort", "class", "row"} => count = 0
  /\ pc = "emit" =>
       \A a \in Results : \E p \in Positions :
         p < i /\ Survives(p) /\ results[a].n = indexArray[p]
  /\ \A a, b \in Results : a < b => ~Overlaps(Reported(a), Reported(b))

NmsInv == RowsClear /\ ListClear

(* CalculateOverlap does not depend on the order of its boxes.              *)
LEMMA OverlapSymmetric ==
  \A b, c \in Locations : Overlaps(b, c) = Overlaps(c, b)
<1> SUFFICES ASSUME NEW b \in Locations, NEW c \in Locations
             PROVE  Overlaps(b, c) = Overlaps(c, b)
  OBVIOUS
<1>1. /\ b.x \in Int /\ b.y \in Int /\ b.w \in Int /\ b.h \in Int
      /\ c.x \in Int /\ c.y \in Int /\ c.w \in Int /\ c.h \in Int
  BY DEF Locations
<1>2. /\ Side(b.x, b.w, c.x, c.w) = Side(c.x, c.w, b.x, b.w)
      /\ Side(b.y, b.h, c.y, c.h) = Side(c.y, c.h, b.y, b.h)
  BY <1>1 DEF Side
<1>3. Intersection(b, c) = Intersection(c, b)
  BY <1>2, Zenon DEF Intersection
<1>4. Area(b) \in Int /\ Area(c) \in Int /\ Intersection(b, c) \in Int
  <2>1. Side(b.x, b.w, c.x, c.w) \in Int /\ Side(b.y, b.h, c.y, c.h) \in Int
    BY <1>1 DEF Side
  <2>2. Intersection(b, c) \in Int
    BY <2>1 DEF Intersection
  <2> QED
    BY <1>1, <2>2 DEF Area
<1>5. Area(b) + Area(c) - Intersection(b, c) = Area(c) + Area(b) - Intersection(c, b)
  BY <1>3, <1>4
<1>6. (20 * Intersection(b, c) > 9 * (Area(b) + Area(c) - Intersection(b, c)))
      = (20 * Intersection(c, b) > 9 * (Area(c) + Area(b) - Intersection(c, b)))
  BY <1>3, <1>5
<1>7. (Area(b) + Area(c) - Intersection(b, c) > 0)
      = (Area(c) + Area(b) - Intersection(c, b) > 0)
  BY <1>5
<1> QED
  BY <1>6, <1>7 DEF Overlaps

(* Every step keeps the rows nms has handled, and the list, free of overlaps.*)
LEMMA NmsStep == TypeOK /\ TypeOK' /\ NmsInv /\ [Next]_vars => NmsInv'
<1> SUFFICES ASSUME TypeOK, TypeOK', NmsInv, [Next]_vars PROVE NmsInv'
  OBVIOUS
<1>1. CASE Start
  BY <1>1 DEF Start, NmsInv, RowsClear, ListClear, Results
<1>2. CASE Decode
  BY <1>2 DEF Decode, NmsInv, RowsClear, ListClear, Results, list, nmsv, TypeOK
<1>3. CASE Decoded
  BY <1>3 DEF Decoded, NmsInv, RowsClear, ListClear, Results, Reported, list
<1>4. CASE Sort
  <2>1. pc' = "class" /\ count' = 0 /\ results' = results
    BY <1>4 DEF Sort, NmsInv, ListClear, list
  <2>2. \A p \in Positions : ~Handled(p)'
    BY <1>4 DEF Sort, Handled
  <2> QED
    BY <1>4, <2>1, <2>2 DEF Sort, NmsInv, RowsClear, ListClear, Results, Positions
<1>5. CASE NextClass
  <2>1. UNCHANGED <<cand, validCount, indexArray, list>>
    BY <1>5 DEF NextClass
  <2>2. \A p \in Positions : Handled(p)' => Handled(p)
    BY <1>5 DEF NextClass, Handled, nmsv, Positions
  <2>3. RowsClear'
    BY <1>5, <2>1, <2>2 DEF NextClass, NmsInv, RowsClear, Survives, Loc, Positions
  <2> QED
    BY <1>5, <2>1, <2>3 DEF NextClass, NmsInv, ListClear, Results, Reported, list
<1>6. CASE Row
  <2>1. UNCHANGED <<cand, validCount, count, results, todo, filterId>>
    BY <1>6 DEF Row, nmsv, list
  <2>2. ListClear'
    BY <1>6, <2>1 DEF Row, NmsInv, ListClear, Results, Reported
  <2>3. \A p \in Positions : Survives(p)' => Survives(p) /\ indexArray'[p] = indexArray[p]
    BY <1>6 DEF Row, Survives
  <2>4. \A p \in Positions : Handled(p)' =>
          Handled(p) \/ (p = i /\ cand[i].cls = filterId)
    BY <1>6, <2>1, SMTT(30)
       DEF Row, Handled, Positions, TypeOK, NmsInv, ListClear
  <2>5. Survives(i) /\ cand[i].cls = filterId =>
          \A q \in Positions : i < q /\ Survives(q)' => ~Overlaps(Loc(i), Loc(q))
    BY <1>6 DEF Row, Survives, Suppressed, Loc
  <2>6. \A p \in Positions : indexArray'[p] = indexArray[p] => Loc(p)' = Loc(p)
    BY <2>1 DEF Loc
  <2>7. RowsClear'
    <3> SUFFICES ASSUME NEW p \in Positions, NEW q \in Positions,
                        p < q, Survives(p)', Survives(q)', Handled(p)'
                 PROVE  ~Overlaps(Loc(p)', Loc(q)')
      BY <2>1 DEF RowsClear, Positions
    <3>1. /\ Survives(p) /\ Survives(q)
          /\ Loc(p)' = Loc(p) /\ Loc(q)' = Loc(q)
      BY <2>3, <2>6
    <3>2. CASE Handled(p)
      BY <1>6, <3>1, <3>2 DEF Row, NmsInv, RowsClear
    <3>3. CASE p = i /\ cand[i].cls = filterId
      BY <2>5, <3>1, <3>3
    <3> QED
      BY <2>4, <3>2, <3>3
  <2> QED
    BY <2>2, <2>7 DEF NmsInv
<1>7. CASE Emit
  <2>1. UNCHANGED <<cand, validCount, indexArray, todo, filterId>>
    BY <1>7 DEF Emit, nmsv
  <2>2. RowsClear'
    BY <1>7, <2>1 DEF Emit, NmsInv, RowsClear, Handled, Survives, Loc, Positions
  <2>3. i \in Positions /\ count \in Nat /\ pc = "emit"
    BY <1>7 DEF Emit, TypeOK, Positions
  <2>4. pc' \in {"emit", "idle"} /\ (pc' = "emit" => i' = i + 1)
    BY <1>7 DEF Emit
  <2>5. CASE Skipped(i)
    <3>1. UNCHANGED list
      BY <1>7, <2>5 DEF Emit
    <3> QED
      BY <2>1, <2>2, <2>3, <2>4, <3>1
      DEF NmsInv, ListClear, Results, Reported, Survives, list, Positions
  <2>6. CASE ~Skipped(i)
    <3> DEFINE d == Detection(indexArray[i], objProbs[i])
    <3>1. results' = Push(results, count, d) /\ count' = count + 1
      BY <1>7, <2>6 DEF Emit
    <3>2. d.n = indexArray[i] /\ Survives(i)
      BY <2>6 DEF Detection, Skipped, Survives
    <3> HIDE DEF d
    <3>3. results'[count] = d /\ \A a \in Results : results'[a] = results[a]
      BY <2>3, <3>1, DetectionPushed DEF Results
    <3>4. Results' = Results \cup {count} /\ \A a \in Results : a < count
      BY <2>3, <3>1 DEF Results
    <3>5. \A a \in Results' : \E p \in Positions :
            p < i + 1 /\ Survives(p) /\ results'[a].n = indexArray[p]
      <4> SUFFICES ASSUME NEW a \in Results'
                   PROVE  \E p \in Positions :
                            p < i + 1 /\ Survives(p) /\ results'[a].n = indexArray[p]
        OBVIOUS
      <4>1. CASE a = count
        BY <2>3, <3>2, <3>3, <4>1 DEF Positions
      <4>2. CASE a \in Results
        <5>1. PICK p \in Positions :
                p < i /\ Survives(p) /\ results[a].n = indexArray[p]
          BY <2>3, <4>2 DEF NmsInv, ListClear
        <5> QED
          BY <2>3, <3>3, <4>2, <5>1 DEF Positions
      <4> QED
        BY <3>4, <4>1, <4>2
    <3>6. \A a \in Results : ~Overlaps(Reported(a), Loc(i))
      <4> SUFFICES ASSUME NEW a \in Results PROVE ~Overlaps(Reported(a), Loc(i))
        OBVIOUS
      <4>1. PICK p \in Positions :
              p < i /\ Survives(p) /\ results[a].n = indexArray[p]
        BY <2>3 DEF NmsInv, ListClear
      <4>2. Handled(p)
        BY <2>3 DEF Handled
      <4>3. ~Overlaps(Loc(p), Loc(i))
        BY <2>3, <3>2, <4>1, <4>2 DEF NmsInv, RowsClear
      <4>4. Reported(a) = Loc(p)
        BY <4>1 DEF Reported, Loc
      <4> QED
        BY <4>3, <4>4
    <3>7. \A a, b \in Results' : a < b => ~Overlaps(Reported(a)', Reported(b)')
      <4> SUFFICES ASSUME NEW a \in Results', NEW b \in Results', a < b
                   PROVE  ~Overlaps(Reported(a)', Reported(b)')
        OBVIOUS
      <4>1. a \in Results
        BY <2>3, <3>4 DEF Results
      <4>2. Reported(a)' = Reported(a)
        BY <2>1, <3>3, <4>1 DEF Reported
      <4>3. CASE b \in Results
        <5>1. Reported(b)' = Reported(b)
          BY <2>1, <3>3, <4>3 DEF Reported
        <5> QED
          BY <4>1, <4>2, <4>3, <5>1 DEF NmsInv, ListClear
      <4>4. CASE b = count
        <5>1. Reported(b)' = Loc(i)
          BY <2>1, <3>2, <3>3, <4>4 DEF Reported, Loc
        <5> QED
          BY <3>6, <4>1, <4>2, <5>1
      <4> QED
        BY <3>4, <4>3, <4>4
    <3>8. ListClear'
      BY <2>1, <2>4, <3>5, <3>7 DEF ListClear, Survives, Positions
    <3> QED
      BY <2>2, <3>8 DEF NmsInv
  <2> QED
    BY <2>5, <2>6
<1>8. CASE UNCHANGED vars
  BY <1>8 DEF vars, nmsv, list, NmsInv, RowsClear, ListClear, Results, Reported,
              Handled, Survives, Loc, Positions
<1> QED
  BY <1>1, <1>2, <1>3, <1>4, <1>5, <1>6, <1>7, <1>8 DEF Next

(* The handled rows and the list are free of overlaps.                      *)
LEMMA NmsInvariant == Spec => []NmsInv
<1>1. Init => NmsInv
  BY DEF Init, NmsInv, RowsClear, ListClear, Results
<1> QED
  BY <1>1, NmsStep, TypeCorrect, PTL DEF Spec

(* Every reported detection was made from a candidate of this call.         *)
ListFromCandidates ==
  \A a \in Results : results[a].n \in Positions

(* The list holds only candidates of this call, one step further.           *)
LEMMA FromStep ==
  TypeOK /\ TypeOK' /\ NmsInv /\ ListFromCandidates /\ [Next]_vars
    => ListFromCandidates'
<1> SUFFICES ASSUME TypeOK, TypeOK', NmsInv, ListFromCandidates, [Next]_vars
             PROVE  ListFromCandidates'
  OBVIOUS
<1>1. CASE Emit
  <2>1. validCount' = validCount /\ i \in Positions /\ count \in Nat
    BY <1>1 DEF Emit, TypeOK, Positions
  <2>2. CASE Skipped(i)
    BY <1>1, <2>1, <2>2 DEF Emit, ListFromCandidates, Results, Positions, list
  <2>3. CASE ~Skipped(i)
    <3> DEFINE d == Detection(indexArray[i], objProbs[i])
    <3>1. results' = Push(results, count, d) /\ count' = count + 1
      BY <1>1, <2>3 DEF Emit
    <3>2. d.n \in Positions
      BY <1>1, <2>1, <2>3, SMTT(30)
         DEF Emit, Detection, Skipped, TypeOK, Vectors, Positions
    <3> HIDE DEF d
    <3>3. results'[count] = d /\ \A a \in Results : results'[a] = results[a]
      BY <2>1, <3>1, DetectionPushed DEF Results
    <3>4. Results' = Results \cup {count}
      BY <2>1, <3>1 DEF Results
    <3> QED
      BY <2>1, <3>2, <3>3, <3>4 DEF ListFromCandidates, Positions
  <2> QED
    BY <2>2, <2>3
<1>2. CASE UNCHANGED vars
  BY <1>2 DEF vars, list, ListFromCandidates, Results, Positions
<1>3. CASE count' = 0
  BY <1>3 DEF ListFromCandidates, Results
<1> QED
  BY <1>1, <1>2, <1>3 DEF Next, Start, Decode, Decoded, Sort, NextClass, Row,
     NmsInv, ListClear, list

(* No two decoded boxes that make it into the list overlap by more than     *)
(* NMS_THRESH, for every network output.  nms compares them as they were    *)
(* decoded; the list holds them clamped to the picture.                     *)
THEOREM DisjointSurvivors == Spec => []SurvivorsDisjoint
<1>1. TypeOK /\ NmsInv /\ ListFromCandidates => SurvivorsDisjoint
  <2> SUFFICES ASSUME TypeOK, NmsInv, ListFromCandidates,
                      NEW a \in Results, NEW b \in Results, a # b
               PROVE  ~Overlaps(Reported(a), Reported(b))
    BY DEF SurvivorsDisjoint, Reported
  <2>1. CASE a < b
    BY <2>1 DEF NmsInv, ListClear
  <2>2. CASE b < a
    <3>1. ~Overlaps(Reported(b), Reported(a))
      BY <2>2 DEF NmsInv, ListClear
    <3>2. Reported(a) \in Locations /\ Reported(b) \in Locations
      BY DEF ListFromCandidates, Reported, TypeOK, Vectors, Positions
    <3>3. Overlaps(Reported(b), Reported(a)) = Overlaps(Reported(a), Reported(b))
      BY <3>2, OverlapSymmetric
    <3> QED
      BY <3>1, <3>3
  <2> QED
    BY <2>1, <2>2 DEF Results
<1>2. Init => ListFromCandidates
  BY DEF Init, ListFromCandidates, Results
<1> QED
  BY <1>1, <1>2, FromStep, NmsInvariant, TypeCorrect, PTL DEF Spec

(* A detection made from a candidate has its corners in order and in the    *)
(* picture.                                                                 *)
InPicture(d) == /\ d.left \in 0..d.right /\ d.top \in 0..d.bottom
                /\ d.right <= ModelSize /\ d.bottom <= ModelSize

(* Clamping puts the box of any candidate inside the picture.               *)
LEMMA DetectionInPicture ==
  ASSUME TypeOK, NEW m \in Positions, NEW prop
  PROVE  InPicture(Detection(m, prop))
<1> DEFINE b == cand[m].loc
<1>1. b.x \in Int /\ b.y \in Int /\ b.w \in Nat /\ b.h \in Nat
  <2>1. cand[m] \in Candidates
    BY DEF TypeOK, Vectors, Positions, Candidates
  <2>2. b \in Locations
    BY <2>1 DEF Candidates
  <2> QED
    BY <2>2 DEF Locations
<1> DEFINE d == Detection(m, prop)
<1>2. /\ d.left = Clamp(b.x) /\ d.right = Clamp(b.x + b.w)
      /\ d.top = Clamp(b.y) /\ d.bottom = Clamp(b.y + b.h)
  BY DEF Detection
<1> HIDE DEF b, d
<1>3. d.left \in 0..d.right /\ d.right <= ModelSize
  BY <1>1, <1>2 DEF Clamp
<1>4. d.top \in 0..d.bottom /\ d.bottom <= ModelSize
  BY <1>1, <1>2 DEF Clamp
<1> QED
  BY <1>3, <1>4 DEF InPicture, d

(* The reported boxes stay in the picture.                                  *)
LEMMA PictureStep ==
  TypeOK /\ NmsInv /\ BoxesInPicture /\ [Next]_vars => BoxesInPicture'
<1> SUFFICES ASSUME TypeOK, NmsInv, BoxesInPicture, [Next]_vars
             PROVE  BoxesInPicture'
  OBVIOUS
<1>1. CASE Emit
  <2>1. i \in Positions /\ count \in Nat
    BY <1>1 DEF Emit, TypeOK, Positions
  <2>2. CASE Skipped(i)
    BY <1>1, <2>2 DEF Emit, BoxesInPicture, Results, list
  <2>3. CASE ~Skipped(i)
    <3> DEFINE d == Detection(indexArray[i], objProbs[i])
    <3>1. results' = Push(results, count, d) /\ count' = count + 1
      BY <1>1, <2>3 DEF Emit
    <3>2. indexArray[i] \in Positions
      BY <1>1, <2>1, <2>3, SMTT(30)
         DEF Emit, Skipped, TypeOK, Vectors, Positions
    <3>3. InPicture(d)
      BY <3>2, DetectionInPicture
    <3> HIDE DEF d
    <3>4. results'[count] = d /\ \A a \in Results : results'[a] = results[a]
      BY <2>1, <3>1, DetectionPushed DEF Results
    <3>5. Results' = Results \cup {count}
      BY <2>1, <3>1 DEF Results
    <3> QED
      BY <3>3, <3>4, <3>5 DEF BoxesInPicture, InPicture
  <2> QED
    BY <2>2, <2>3
<1>2. CASE UNCHANGED vars
  BY <1>2 DEF vars, list, BoxesInPicture, Results
<1>3. CASE count' = 0
  BY <1>3 DEF BoxesInPicture, Results
<1> QED
  BY <1>1, <1>2, <1>3 DEF Next, Start, Decode, Decoded, Sort, NextClass, Row,
     NmsInv, ListClear, list

(* Every box post_process reports lies in the model's picture with left <=  *)
(* right and top <= bottom: what TurretControl assumes of its boxes.        *)
THEOREM ResultsInPicture == Spec => []BoxesInPicture
<1>1. Init => BoxesInPicture
  BY DEF Init, BoxesInPicture, Results
<1> QED
  BY <1>1, PictureStep, NmsInvariant, TypeCorrect, PTL DEF Spec

-----------------------------------------------------------------------------
(* What the list says of its entries.  nms only ever takes rows out: those  *)
(* that survive keep the candidate and the score the sort has put there.    *)
RowsRanked ==
  pc \in {"class", "row", "emit"} =>
    /\ \A p \in Positions : Survives(p) => objProbs[p] = cand[indexArray[p]].score
    /\ \A p, q \in Positions : p < q =>
         /\ objProbs[p] >= objProbs[q]
         /\ Survives(p) /\ Survives(q) => indexArray[p] # indexArray[q]

(* The rows stay a ranking while the classes are gone through.              *)
LEMMA RowsStep == TypeOK /\ TypeOK' /\ RowsRanked /\ [Next]_vars => RowsRanked'
<1> SUFFICES ASSUME TypeOK, TypeOK', RowsRanked, [Next]_vars PROVE RowsRanked'
  OBVIOUS
<1>1. CASE Start
  BY <1>1 DEF Start, RowsRanked
<1>2. CASE Decode
  BY <1>2 DEF Decode, RowsRanked
<1>3. CASE Decoded
  BY <1>3 DEF Decoded, RowsRanked
<1>4. CASE Sort
  <2> DEFINE scores == [k \in Positions |-> cand[k].score]
  <2>1. IsRanking(validCount, scores, objProbs', indexArray')
        /\ UNCHANGED <<validCount, cand>>
    BY <1>4 DEF Sort
  <2>2. /\ \A p \in Positions : indexArray'[p] \in Positions
        /\ \A p, q \in Positions : p # q => indexArray'[p] # indexArray'[q]
    BY <2>1 DEF IsRanking, IsPermutation, Vectors, Positions
  <2>3. \A p \in Positions : objProbs'[p] = cand[indexArray'[p]].score
    BY <1>4 DEF Sort
  <2>4. \A p, q \in Positions : p < q => objProbs'[p] >= objProbs'[q]
    BY <2>1 DEF IsRanking, Descending, Positions
  <2>5. \A p, q \in Positions : p < q => p # q
    BY DEF Positions, TypeOK
  <2> QED
    BY <2>1, <2>2, <2>3, <2>4, <2>5 DEF RowsRanked, Positions
<1>5. CASE NextClass
  BY <1>5 DEF NextClass, RowsRanked, Survives, Positions
<1>6. CASE Row
  <2>1. UNCHANGED <<cand, validCount, objProbs>> /\ pc = "row"
    BY <1>6 DEF Row
  <2>2. \A p \in Positions : Survives(p)' => Survives(p) /\ indexArray'[p] = indexArray[p]
    BY <1>6 DEF Row, Survives
  <2> QED
    BY <2>1, <2>2 DEF RowsRanked, Positions, Survives
<1>7. CASE Emit
  BY <1>7 DEF Emit, RowsRanked, Survives, Positions
<1>8. CASE UNCHANGED vars
  BY <1>8 DEF vars, RowsRanked, Survives, Positions
<1> QED
  BY <1>1, <1>2, <1>3, <1>4, <1>5, <1>6, <1>7, <1>8 DEF Next

(* An entry is made of a row that survives, after all rows above it.        *)
LEMMA RankedStep ==
  TypeOK /\ TypeOK' /\ NmsInv /\ RowsRanked /\ ResultsRanked /\ [Next]_vars
    => ResultsRanked'
<1> SUFFICES ASSUME TypeOK, TypeOK', NmsInv, RowsRanked, ResultsRanked, [Next]_vars
             PROVE  ResultsRanked'
  OBVIOUS
<1>1. CASE Emit
  <2>1. /\ UNCHANGED <<cand, validCount, indexArray>>
        /\ i \in Positions /\ count \in Nat /\ pc = "emit"
    BY <1>1 DEF Emit, TypeOK, Positions
  <2>2. CASE Skipped(i)
    BY <1>1, <2>1, <2>2 DEF Emit, ResultsRanked, Results, Positions, list
  <2>3. CASE ~Skipped(i)
    <3> DEFINE d == Detection(indexArray[i], objProbs[i])
    <3>1. results' = Push(results, count, d) /\ count' = count + 1
      BY <1>1, <2>3 DEF Emit
    <3>2. Survives(i) /\ indexArray[i] \in Positions
      BY <2>1, <2>3, SMTT(30) DEF Skipped, Survives, TypeOK, Vectors, Positions
    <3>3. /\ d.n = indexArray[i] /\ d.prop = objProbs[i]
          /\ d.cls_id = cand[indexArray[i]].cls
      BY DEF Detection
    <3> HIDE DEF d
    <3>4. objProbs[i] = cand[indexArray[i]].score
      BY <2>1, <3>2 DEF RowsRanked
    <3>5. results'[count] = d /\ \A a \in Results : results'[a] = results[a]
      BY <2>1, <3>1, DetectionPushed DEF Results
    <3>6. /\ Results' = Results \cup {count} /\ DOMAIN results' = Results'
          /\ \A a \in Results : a < count
      BY <2>1, <3>1 DEF Results, Push
    <3>7. \A a \in Results :
            results[a].n # indexArray[i] /\ results[a].prop >= objProbs[i]
      <4> SUFFICES ASSUME NEW a \in Results
                   PROVE  results[a].n # indexArray[i] /\ results[a].prop >= objProbs[i]
        OBVIOUS
      <4>1. PICK p \in Positions :
              p < i /\ Survives(p) /\ results[a].n = indexArray[p]
        BY <2>1 DEF NmsInv, ListClear
      <4>2. results[a].prop = objProbs[p]
        BY <2>1, <4>1 DEF RowsRanked, ResultsRanked
      <4>3. indexArray[p] # indexArray[i] /\ objProbs[p] >= objProbs[i]
        BY <2>1, <3>2, <4>1 DEF RowsRanked
      <4> QED
        BY <4>1, <4>2, <4>3
    <3>8. \A a \in Results' :
            /\ results'[a].n \in Positions
            /\ results'[a].prop = cand[results'[a].n].score
            /\ results'[a].cls_id = cand[results'[a].n].cls
      <4>1. TAKE a \in Results'
      <4>2. CASE a = count
        BY <3>2, <3>3, <3>4, <3>5, <4>2
      <4>3. CASE a \in Results
        BY <3>5, <4>3 DEF ResultsRanked
      <4> QED
        BY <3>6, <4>2, <4>3
    <3>9. \A a, b \in Results' : a < b =>
            /\ results'[a].n # results'[b].n
            /\ results'[a].prop >= results'[b].prop
      <4> SUFFICES ASSUME NEW a \in Results', NEW b \in Results', a < b
                   PROVE  /\ results'[a].n # results'[b].n
                          /\ results'[a].prop >= results'[b].prop
        OBVIOUS
      <4>1. a \in Results
        BY <2>1, <3>6 DEF Results
      <4>2. CASE b \in Results
        BY <3>5, <4>1, <4>2 DEF ResultsRanked
      <4>3. CASE b = count
        BY <3>3, <3>5, <3>7, <4>1, <4>3
      <4> QED
        BY <3>6, <4>2, <4>3
    <3> QED
      BY <2>1, <3>6, <3>8, <3>9 DEF ResultsRanked, Positions
  <2> QED
    BY <2>2, <2>3
<1>2. CASE UNCHANGED vars
  BY <1>2 DEF vars, list, ResultsRanked, Results, Positions
<1>3. CASE Start
  <2>1. count' = 0 /\ DOMAIN results' = {} /\ Results' = {}
    BY <1>3 DEF Start, NoEntries, Results
  <2> QED
    BY <2>1 DEF ResultsRanked
<1>4. CASE Decode \/ Decoded \/ Sort \/ NextClass \/ Row
  <2>1. count = 0 /\ count' = 0 /\ results' = results
    BY <1>4 DEF Decode, Decoded, Sort, NextClass, Row, NmsInv, ListClear, list
  <2>2. Results = {} /\ Results' = {} /\ DOMAIN results' = {}
    BY <2>1 DEF Results, ResultsRanked
  <2> QED
    BY <2>2 DEF ResultsRanked
<1> QED
  BY <1>1, <1>2, <1>3, <1>4 DEF Next

(* The rows are ranked by score from quick_sort_indice_inverse on.          *)
LEMMA RowsInvariant == Spec => []RowsRanked
<1>1. Init => RowsRanked
  BY DEF Init, RowsRanked
<1> QED
  BY <1>1, RowsStep, TypeCorrect, PTL DEF Spec

(* od_results holds count entries, each with the score and the class of its *)
(* own candidate, best first and no candidate twice, at every moment of     *)
(* every call, although nms and the sort move rows and scores in place.     *)
THEOREM RankedResults == Spec => []ResultsRanked
<1>1. Init => ResultsRanked
  <2> SUFFICES ASSUME Init PROVE ResultsRanked
    OBVIOUS
  <2>1. Results = {} /\ DOMAIN results = {}
    BY DEF Init, NoEntries, Results
  <2> QED
    BY <2>1 DEF ResultsRanked
<1> QED
  BY <1>1, RankedStep, RowsInvariant, NmsInvariant, TypeCorrect, PTL DEF Spec

-----------------------------------------------------------------------------
(* No candidate is dropped for nothing.  A candidate that is no longer in   *)
(* the ranking was taken out by a better one that it overlaps; the loop     *)
(* over the rows reports those that are, until the list is full.            *)
Excused(m) ==
  \E k \in Positions : /\ k # m
                       /\ cand[k].score >= cand[m].score
                       /\ Overlaps(cand[k].loc, cand[m].loc)

AllAccounted ==
  /\ pc \in {"class", "row", "emit"} =>
       \A m \in Positions : Excused(m) \/ \E p \in Positions : indexArray[p] = m
  /\ pc = "emit" =>
       \A p \in Positions : p < i /\ Survives(p) =>
         FullOfBetter(indexArray[p]) \/ \E a \in Results : results[a].n = indexArray[p]

DropInv == AllAccounted /\ NothingDroppedForNothing

(* An array of all different positions has every position.                  *)
LEMMA PermutationOnto ==
  ASSUME NEW n \in Nat, NEW f, IsPermutation(n, f)
  PROVE  \A m \in 0..(n - 1) : \E p \in 0..(n - 1) : f[p] = m
<1> DEFINE D == 0..(n - 1)
<1>1. IsFiniteSet(D)
  BY FS_Interval
<1>2. f \in Injection(D, D)
  BY DEF IsPermutation, Vectors, Injection, IsInjective
<1> HIDE DEF D
<1>3. f \in Surjection(D, D)
  BY <1>1, <1>2, FS_Injection
<1> QED
  BY <1>3 DEF Surjection, D

(* Every step of post_process keeps a reason for every row it drops.        *)
LEMMA DropStep ==
  TypeOK /\ TypeOK' /\ NmsInv /\ RowsRanked /\ ResultsRanked /\ DropInv /\ [Next]_vars
    => DropInv'
<1> SUFFICES ASSUME TypeOK, TypeOK', NmsInv, RowsRanked, ResultsRanked, DropInv,
                    [Next]_vars
             PROVE  DropInv'
  OBVIOUS
<1> USE DEF DropInv
<1>1. CASE Start
  BY <1>1 DEF Start, AllAccounted, NothingDroppedForNothing, Returned
<1>2. CASE Decode
  BY <1>2 DEF Decode, AllAccounted, NothingDroppedForNothing, Returned
<1>3. CASE Decoded
  <2>1. AllAccounted'
    BY <1>3 DEF Decoded, AllAccounted
  <2>2. Returned' => Positions' = {}
    BY <1>3 DEF Decoded, Returned, Positions, TypeOK
  <2> QED
    BY <2>1, <2>2 DEF NothingDroppedForNothing
<1>4. CASE Sort
  <2>1. IsPermutation(validCount, indexArray') /\ validCount' = validCount
    BY <1>4 DEF Sort, IsRanking
  <2>2. \A m \in Positions : \E p \in Positions : indexArray'[p] = m
    <3>1. validCount \in Nat
      BY DEF TypeOK
    <3> DEFINE f == indexArray'
               Onto(g) == \A m \in 0..(validCount - 1) :
                            \E p \in 0..(validCount - 1) : g[p] = m
    <3>2. IsPermutation(validCount, f)
      BY <2>1
    <3> HIDE DEF f, DropInv
    <3>3. Onto(f)
      BY <3>1, <3>2, PermutationOnto
    <3> QED
      BY <3>3, Zenon DEF Positions, f
  <2> QED
    BY <1>4, <2>1, <2>2
       DEF Sort, AllAccounted, NothingDroppedForNothing, Returned, Positions
<1>5. CASE NextClass
  <2>1. UNCHANGED <<cand, validCount, indexArray>>
    BY <1>5 DEF NextClass
  <2>2. pc = "class" /\ pc' \in {"emit", "row"} /\ i' = 0
    BY <1>5 DEF NextClass
  <2>3. \A p \in Positions : ~(p < 0)
    BY DEF Positions
  <2> QED
    BY <2>1, <2>2, <2>3
       DEF AllAccounted, NothingDroppedForNothing, Returned, Excused, Positions
<1>6. CASE Row
  <2>1. UNCHANGED <<cand, validCount>> /\ pc = "row" /\ pc' \in {"row", "class"}
    BY <1>6 DEF Row
  <2>2. ASSUME NEW m \in Positions, NEW p \in Positions, indexArray[p] = m
        PROVE  Excused(m) \/ indexArray'[p] = m
    <3>1. CASE indexArray'[p] = indexArray[p]
      BY <2>2, <3>1
    <3>2. CASE indexArray'[p] # indexArray[p]
      <4>1. indexArray[i] # -1 /\ Suppressed(p)
        BY <1>6, <3>2 DEF Row
      <4>2. i \in Positions /\ i < p /\ Survives(i) /\ Survives(p)
        BY <2>1, <4>1 DEF Suppressed, Survives, TypeOK, Positions
      <4>3. indexArray[i] \in Positions
        <5>1. indexArray \in Vectors(validCount, -1..(validCount - 1))
          BY <2>1 DEF TypeOK
        <5>2. indexArray[i] \in -1..(validCount - 1)
          BY <4>2, <5>1 DEF Vectors, Positions
        <5>3. validCount \in Int
          BY DEF TypeOK
        <5> QED
          BY <4>1, <5>2, <5>3 DEF Positions
      <4>4. /\ indexArray[i] # m
            /\ objProbs[i] >= objProbs[p]
            /\ objProbs[i] = cand[indexArray[i]].score /\ objProbs[p] = cand[m].score
        BY <2>1, <2>2, <4>2 DEF RowsRanked
      <4>5. Overlaps(cand[indexArray[i]].loc, cand[m].loc)
        BY <2>2, <4>1 DEF Suppressed
      <4> QED
        BY <4>3, <4>4, <4>5 DEF Excused
    <3> QED
      BY <3>1, <3>2
  <2>3. \A m \in Positions : Excused(m)' = Excused(m)
    BY <2>1 DEF Excused, Positions
  <2>4. \A m \in Positions : Excused(m) \/ \E p \in Positions : indexArray'[p] = m
    BY <2>1, <2>2 DEF AllAccounted
  <2>5. \A m \in Positions' : Excused(m)' \/ \E p \in Positions' : indexArray'[p] = m
    BY <2>1, <2>3, <2>4 DEF Positions
  <2> QED
    BY <2>1, <2>5 DEF AllAccounted, NothingDroppedForNothing, Returned
<1>7. CASE Emit
  <2>1. /\ UNCHANGED <<cand, validCount, indexArray>>
        /\ i \in Positions /\ count \in Nat /\ count <= MaxResults /\ pc = "emit"
    BY <1>7 DEF Emit, TypeOK, Positions
  <2>2. \A m \in Positions : Excused(m)' = Excused(m)
    BY <2>1 DEF Excused, Positions
  <2>3. /\ \A a \in Results : a \in Results' /\ results'[a] = results[a]
        /\ count = MaxResults => UNCHANGED list
        /\ Survives(i) => \/ count = MaxResults
                          \/ \E a \in Results' : results'[a].n = indexArray[i]
    <3>1. CASE Skipped(i)
      <4>1. UNCHANGED list
        BY <1>7, <3>1 DEF Emit
      <4>2. Survives(i) => count = MaxResults
        BY <2>1, <3>1 DEF Skipped, Survives
      <4> QED
        BY <4>1, <4>2 DEF list, Results
    <3>2. CASE ~Skipped(i)
      <4> DEFINE d == Detection(indexArray[i], objProbs[i])
      <4>1. results' = Push(results, count, d) /\ count' = count + 1
        BY <1>7, <3>2 DEF Emit
      <4>2. d.n = indexArray[i]
        BY DEF Detection
      <4> HIDE DEF d
      <4>3. results'[count] = d /\ \A a \in Results : results'[a] = results[a]
        <5>1. count \in Nat
          BY <2>1
        <5> QED
          BY <4>1, <5>1, DetectionPushed DEF Results
      <4>4. count \in Results' /\ \A a \in Results : a \in Results'
        BY <2>1, <4>1 DEF Results
      <4>5. count # MaxResults
        BY <2>1, <3>2 DEF Skipped
      <4> QED
        BY <4>2, <4>3, <4>4, <4>5
    <3> QED
      BY <3>1, <3>2
  <2>4. \A m : FullOfBetter(m) => FullOfBetter(m)'
    BY <2>1, <2>3 DEF FullOfBetter, list, Results
  <2>5. Survives(i) /\ count = MaxResults => FullOfBetter(indexArray[i])
    <3> SUFFICES ASSUME Survives(i), NEW a \in Results
                 PROVE  results[a].prop >= cand[indexArray[i]].score
      BY DEF FullOfBetter
    <3>1. PICK p \in Positions : p < i /\ Survives(p) /\ results[a].n = indexArray[p]
      BY <2>1 DEF NmsInv, ListClear
    <3>2. results[a].prop = objProbs[p]
      BY <2>1, <3>1 DEF RowsRanked, ResultsRanked
    <3> QED
      BY <2>1, <3>1, <3>2 DEF RowsRanked
  <2>6. \A p \in Positions : p <= i /\ Survives(p) =>
          FullOfBetter(indexArray[p])' \/ \E a \in Results' : results'[a].n = indexArray[p]
    <3>1. TAKE p \in Positions
    <3>2. p <= i => p < i \/ p = i
      BY <2>1 DEF Positions
    <3>3. FullOfBetter(indexArray[p]) => FullOfBetter(indexArray[p])'
      BY <2>1, <2>4 DEF FullOfBetter
    <3>4. CASE p < i
      BY <2>1, <2>3, <3>3, <3>4 DEF AllAccounted
    <3>5. CASE p = i
      BY <2>3, <2>5, <3>3, <3>5
    <3> QED
      BY <3>2, <3>4, <3>5
  <2>7. CASE i + 1 < validCount
    <3>1. i' = i + 1 /\ pc' = pc
      BY <1>7, <2>7 DEF Emit
    <3>2. \A p \in Positions : p < i + 1 => p <= i
      BY <2>1 DEF Positions
    <3>3. \A m \in Positions : Excused(m) \/ \E p \in Positions : indexArray[p] = m
      BY <2>1 DEF AllAccounted
    <3>4. AllAccounted'
      BY <2>1, <2>2, <2>6, <3>1, <3>2, <3>3 DEF AllAccounted, Survives, Positions
    <3> QED
      BY <2>1, <3>1, <3>4 DEF NothingDroppedForNothing, Returned
  <2>8. CASE ~(i + 1 < validCount)
    <3>1. pc' = "idle"
      BY <1>7, <2>8 DEF Emit
    <3>2. \A p \in Positions : p <= i
      BY <2>1, <2>8 DEF Positions, TypeOK
    <3>3. ASSUME NEW m \in Positions
          PROVE  \/ \E a \in Results' : results'[a].n = m
                 \/ FullOfBetter(m)'
                 \/ Excused(m)
      <4>1. CASE Excused(m)
        BY <4>1
      <4>2. CASE ~Excused(m)
        <5>1. PICK p \in Positions : indexArray[p] = m
          BY <2>1, <4>2 DEF AllAccounted
        <5>2. Survives(p)
          BY <5>1 DEF Survives, Positions
        <5>3. FullOfBetter(indexArray[p])' => FullOfBetter(m)'
          BY <2>1, <5>1 DEF FullOfBetter
        <5> QED
          BY <2>6, <3>2, <5>1, <5>2, <5>3
      <4> QED
        BY <4>1, <4>2
    <3>4. NothingDroppedForNothing'
      BY <2>1, <3>3 DEF NothingDroppedForNothing, Excused, Positions
    <3> QED
      BY <3>1, <3>4 DEF AllAccounted
  <2> QED
    BY <2>7, <2>8
<1>8. CASE UNCHANGED vars
  BY <1>8 DEF vars, list, AllAccounted, NothingDroppedForNothing, Returned,
     Excused, FullOfBetter, Survives, Results, Positions
<1> QED
  BY <1>1, <1>2, <1>3, <1>4, <1>5, <1>6, <1>7, <1>8 DEF Next

(* When post_process returns, a candidate is missing from the list only     *)
(* because the list is full of better ones, or for a better one that it     *)
(* overlaps: going through the rows class by class, with the class of the   *)
(* position in place of the candidate's, takes out no box without a better  *)
(* one.                                                                     *)
THEOREM DroppedForAReason == Spec => []NothingDroppedForNothing
<1>1. Init => DropInv
  <2> SUFFICES ASSUME Init PROVE DropInv
    OBVIOUS
  <2>1. Positions = {} /\ pc = "idle"
    BY DEF Init, Positions
  <2> QED
    BY <2>1 DEF DropInv, AllAccounted, NothingDroppedForNothing
<1>2. DropInv => NothingDroppedForNothing
  BY DEF DropInv
<1> QED
  BY <1>1, <1>2, DropStep, RankedResults, RowsInvariant, NmsInvariant, TypeCorrect, PTL
     DEF Spec

-----------------------------------------------------------------------------
(* The decoder's test on the quantised confidence drops no cell whose score *)
(* passes, for every zero point and every scale.                            *)
THEOREM PrefilterIsSound ==
  \A q \in Int8, r \in Int8, z \in Int8, s \in Nat \ {0} : PrefilterSound(q, r, z, s)
<1> SUFFICES ASSUME NEW q \in Int8, NEW r \in Int8, NEW z \in Int8,
                    NEW s \in Nat \ {0},
                    Deqnt(r, z) \in 0..s, ScorePasses(q, r, z, s)
             PROVE  Prefilter(q, z, s)
  BY DEF PrefilterSound
<1> DEFINE c == q - z
           p == r - z
<1>1. c \in Int /\ p \in 0..s /\ 4 * (c * p) > s * s
  BY DEF Deqnt, ScorePasses, Int8
<1> HIDE DEF c, p
<1>2. 4 * c > s
  <2> SUFFICES ASSUME 4 * c <= s PROVE FALSE
    BY <1>1
  <2>1. (4 * c) * p <= s * p
    BY <1>1
  <2>2. s * p <= s * s
    BY <1>1
  <2>3. 4 * (c * p) = (4 * c) * p
    BY <1>1
  <2> QED
    BY <1>1, <2>1, <2>2, <2>3
<1>3. 4 * q > s + 4 * z
  BY <1>2 DEF c, Int8
<1> DEFINE d == s + 4 * z
<1>4. d \in Int /\ 4 * q > d /\ q \in -128..127
  BY <1>3 DEF Int8
<1> HIDE DEF d
<1>5. q >= Clip(d)
  BY <1>4 DEF Clip, Trunc
<1> QED
  BY <1>5 DEF d, Prefilter, Qnt_f32_to_affine

(* Every cell whose score passes becomes a candidate, for every network     *)
(* output made of probabilities: process_i8_rv1106 may skip the loop over   *)
(* the classes for the cells its first test rejects.                        *)
THEOREM NoScoreLost == Spec => []PrefilterLosesNothing
<1>1. Init => PrefilterLosesNothing
  BY DEF Init, PrefilterLosesNothing
<1>2. PrefilterLosesNothing /\ [Next]_vars => PrefilterLosesNothing'
  <2> SUFFICES ASSUME PrefilterLosesNothing, [Next]_vars
               PROVE  PrefilterLosesNothing'
    OBVIOUS
  <2>1. CASE Decode
    <3>1. PICK cell \in Cells, c \in Classes :
            /\ passed' = IF ScorePasses(cell.conf, cell.probs[c], zp, S)
                           THEN passed + 1 ELSE passed
            /\ IF /\ Prefilter(cell.conf, zp, S)
                  /\ ScorePasses(cell.conf, cell.probs[c], zp, S)
                 THEN validCount' = validCount + 1
                 ELSE validCount' = validCount
      BY <2>1 DEF Decode
    <3>2. cell.conf \in Int8 /\ cell.probs[c] \in Int8
      OBVIOUS
    <3>3. PrefilterSound(cell.conf, cell.probs[c], zp, S)
      BY <3>2, PrefilterIsSound
    <3>4. ScorePasses(cell.conf, cell.probs[c], zp, S) => Prefilter(cell.conf, zp, S)
      BY <3>3, ProbabilityAssumption DEF PrefilterSound
    <3> QED
      BY <3>1, <3>4 DEF PrefilterLosesNothing
  <2>2. CASE Start
    BY <2>2 DEF Start, PrefilterLosesNothing
  <2>3. CASE UNCHANGED <<passed, validCount>>
    BY <2>3 DEF PrefilterLosesNothing
  <2> QED
    BY <2>1, <2>2, <2>3
    DEF Next, Decoded, Sort, NextClass, Row, Emit, vars
<1> QED
  BY <1>1, <1>2, PTL DEF Spec
=============================================================================
