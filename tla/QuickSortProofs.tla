-------------------------- MODULE QuickSortProofs --------------------------
(***************************************************************************)
(* Proofs about QuickSort, for every number of candidates and every set of *)
(* scores.                                                                 *)
(*                                                                         *)
(* While a partition is under way one element is out of the vectors and    *)
(* the vectors have a hole.  The inductive invariant speaks of the vectors *)
(* with the pivot put into the hole: in these, MoveDown and MoveUp are     *)
(* exchanges of two elements.                                              *)
(***************************************************************************)
EXTENDS QuickSort, FiniteSetTheorems, TLAPS

Hole == IF pc = "low" THEN high ELSE low
Filled == IF pc = "call" THEN input ELSE [input EXCEPT ![Hole] = key]
FilledIndices ==
  IF pc = "call" THEN indices ELSE [indices EXCEPT ![Hole] = key_index]

(* Nothing is lost and no score leaves its index.                           *)
Accompanied ==
  IsPermutation(n, FilledIndices) /\ Paired(n, original, Filled, FilledIndices)

(* The ranges that are still to be sorted or are being sorted.              *)
Unsorted == pending \cup (IF pc = "call" THEN {} ELSE {<<left, right>>})

Inside(p, r) == r[1] <= p /\ p <= r[2]

(* No position is in two of them.                                           *)
Disjoint ==
  /\ pc # "call" => <<left, right>> \notin pending
  /\ \A r, s \in Unsorted : r # s => r[2] < s[1] \/ s[2] < r[1]

(* Two elements are in order unless they are in one of them.                *)
Ordered ==
  \A p, q \in 0..(n - 1) : p < q =>
    \/ Filled[p] >= Filled[q]
    \/ \E r \in Unsorted : Inside(p, r) /\ Inside(q, r)

(* The partition: what is left of low is no smaller than the pivot, what is *)
(* right of high no larger.                                                 *)
Partitioned ==
  pc # "call" =>
    /\ \A p \in left..(low - 1) : Filled[p] >= key
    /\ \A p \in (high + 1)..right : Filled[p] <= key
    /\ pc = "place" => low = high

SortInv == TypeOK /\ Accompanied /\ Disjoint /\ Ordered /\ Partitioned

-----------------------------------------------------------------------------
(* Exchanging two elements of a vector.                                     *)
Exchange(v, a, b) == [v EXCEPT ![a] = v[b], ![b] = v[a]]

(* What stands where after an exchange, of an element with itself too.      *)
LEMMA ExchangeValues ==
  ASSUME NEW m \in Nat, NEW S, NEW v \in Vectors(m, S),
         NEW a \in 0..(m - 1), NEW b \in 0..(m - 1)
  PROVE  /\ Exchange(v, a, b) \in Vectors(m, S)
         /\ Exchange(v, a, b)[a] = v[b] /\ Exchange(v, a, b)[b] = v[a]
         /\ \A p \in (0..(m - 1)) \ {a, b} : Exchange(v, a, b)[p] = v[p]
  BY DEF Exchange, Vectors

(* Copying an element of a vector over another one.                         *)
LEMMA CopyValues ==
  ASSUME NEW m \in Nat, NEW S, NEW v \in Vectors(m, S),
         NEW a \in 0..(m - 1), NEW b \in 0..(m - 1)
  PROVE  [v EXCEPT ![a] = v[b]] \in Vectors(m, S)
  BY DEF Vectors

(* Exchanging in both vectors keeps the scores with their indices.          *)
LEMMA ExchangeAccompanied ==
  ASSUME NEW m \in Nat, NEW o, NEW S, NEW v \in Vectors(m, S), NEW x,
         NEW a \in 0..(m - 1), NEW b \in 0..(m - 1),
         IsPermutation(m, x), Paired(m, o, v, x)
  PROVE  /\ IsPermutation(m, Exchange(x, a, b))
         /\ Paired(m, o, Exchange(v, a, b), Exchange(x, a, b))
<1>1. x \in Vectors(m, 0..(m - 1))
  BY DEF IsPermutation
<1>2. IsPermutation(m, Exchange(x, a, b))
  <2>1. Exchange(x, a, b) \in Vectors(m, 0..(m - 1))
    BY <1>1, ExchangeValues
  <2>2. /\ Exchange(x, a, b)[a] = x[b] /\ Exchange(x, a, b)[b] = x[a]
        /\ \A p \in (0..(m - 1)) \ {a, b} : Exchange(x, a, b)[p] = x[p]
    BY <1>1, ExchangeValues
  <2>3. \A p, q \in 0..(m - 1) :
          p # q => Exchange(x, a, b)[p] # Exchange(x, a, b)[q]
    BY <2>2 DEF IsPermutation
  <2> QED
    BY <2>1, <2>3 DEF IsPermutation
<1>3. Paired(m, o, Exchange(v, a, b), Exchange(x, a, b))
  <2>1. /\ Exchange(x, a, b)[a] = x[b] /\ Exchange(x, a, b)[b] = x[a]
        /\ \A p \in (0..(m - 1)) \ {a, b} : Exchange(x, a, b)[p] = x[p]
    BY <1>1, ExchangeValues
  <2>2. /\ Exchange(v, a, b)[a] = v[b] /\ Exchange(v, a, b)[b] = v[a]
        /\ \A p \in (0..(m - 1)) \ {a, b} : Exchange(v, a, b)[p] = v[p]
    BY ExchangeValues
  <2> QED
    BY <2>1, <2>2 DEF Paired
<1> QED
  BY <1>2, <1>3

-----------------------------------------------------------------------------
(* The steps of the partition.                                              *)

(* The types of the constants and of the vectors with the hole filled.      *)
LEMMA FilledTypes ==
  ASSUME TypeOK
  PROVE  /\ n \in Nat \ {0} /\ Scores \subseteq Int
         /\ Filled \in Vectors(n, Scores)
         /\ FilledIndices \in Vectors(n, 0..(n - 1))
         /\ \A p \in 0..(n - 1) : Filled[p] \in Int
         /\ low \in 0..(n - 1) /\ high \in 0..(n - 1)
<1> USE SortAssumption
<1>1. n \in Nat \ {0} /\ Scores \subseteq Int
  BY DEF TypeOK
<1>2. low \in 0..(n - 1) /\ high \in 0..(n - 1)
  BY DEF TypeOK
<1>3. Hole \in 0..(n - 1)
  BY <1>2 DEF Hole
<1>4. Filled \in Vectors(n, Scores) /\ FilledIndices \in Vectors(n, 0..(n - 1))
  BY <1>3 DEF TypeOK, Filled, FilledIndices, Vectors
<1>5. \A p \in 0..(n - 1) : Filled[p] \in Int
  BY <1>1, <1>4 DEF Vectors
<1> QED
  BY <1>1, <1>2, <1>4, <1>5

(* Every step keeps the types: no scan leaves the range that is sorted.     *)
LEMMA TypeStep == TypeOK /\ [Next]_vars => TypeOK'
<1> SUFFICES ASSUME TypeOK, [Next]_vars PROVE TypeOK'
  OBVIOUS
<1> USE SortAssumption DEF TypeOK, Vectors
<1>1. CASE Call
  <2>1. PICK r \in pending : /\ pending' = pending \ {r}
                             /\ left' = r[1] /\ right' = r[2]
    BY <1>1, Zenon DEF Call
  <2>2. PICK l, h \in 0..(n - 1) : l < h /\ r = <<l, h>>
    OBVIOUS
  <2>3. left' = l /\ right' = h
    BY <2>1, <2>2
  <2>4. key' \in Scores /\ key_index' \in 0..(n - 1)
    BY <1>1, <2>2, <2>3 DEF Call
  <2>5. \A s \in pending' : \E i, j \in 0..(n - 1) : i < j /\ s = <<i, j>>
    BY <2>1
  <2>6. left' \in 0..(n - 1) /\ right' \in left'..(n - 1)
    BY <2>2, <2>3
  <2>7. /\ low' = left' /\ high' = right' /\ pc' = "high"
        /\ UNCHANGED <<n, original, input, indices>>
    BY <1>1 DEF Call
  <2>8. low' \in left'..right' /\ high' \in low'..right'
    BY <2>6, <2>7
  <2> QED
    BY <2>4, <2>5, <2>6, <2>7, <2>8
<1>2. CASE ScanHigh
  BY <1>2, SMTT(30) DEF ScanHigh, StopsHigh
<1>3. CASE MoveDown
  <2>1. input' \in Vectors(n, Scores) /\ indices' \in Vectors(n, 0..(n - 1))
    <3>1. low \in 0..(n - 1) /\ high \in 0..(n - 1)
      OBVIOUS
    <3>2. /\ input' = [input EXCEPT ![low] = input[high]]
          /\ indices' = [indices EXCEPT ![low] = indices[high]]
          /\ n \in Nat
      BY <1>3 DEF MoveDown
    <3>3. input \in Vectors(n, Scores) /\ indices \in Vectors(n, 0..(n - 1))
      OBVIOUS
    <3> HIDE DEF Vectors, TypeOK
    <3> QED
      BY <3>1, <3>2, <3>3, CopyValues
  <2>2. pc' = "low" /\ UNCHANGED <<n, original, pending, part>>
    BY <1>3 DEF MoveDown
  <2> HIDE DEF Vectors
  <2> QED
    BY <2>1, <2>2 DEF part
<1>4. CASE ScanLow
  BY <1>4, SMTT(30) DEF ScanLow, StopsLow
<1>5. CASE MoveUp
  <2>1. input' \in Vectors(n, Scores) /\ indices' \in Vectors(n, 0..(n - 1))
    <3>1. low \in 0..(n - 1) /\ high \in 0..(n - 1)
      OBVIOUS
    <3>2. /\ input' = [input EXCEPT ![high] = input[low]]
          /\ indices' = [indices EXCEPT ![high] = indices[low]]
          /\ n \in Nat
      BY <1>5 DEF MoveUp
    <3>3. input \in Vectors(n, Scores) /\ indices \in Vectors(n, 0..(n - 1))
      OBVIOUS
    <3> HIDE DEF Vectors, TypeOK
    <3> QED
      BY <3>1, <3>2, <3>3, CopyValues
  <2>2. pc' \in {"high", "place"} /\ UNCHANGED <<n, original, pending, part>>
    BY <1>5 DEF MoveUp
  <2> HIDE DEF Vectors
  <2> QED
    BY <2>1, <2>2 DEF part
<1>6. CASE Place
  <2>1. \A r \in pending' : \E l, h \in 0..(n - 1) : l < h /\ r = <<l, h>>
    <3> SUFFICES ASSUME NEW r \in pending'
                 PROVE  \E l, h \in 0..(n - 1) : l < h /\ r = <<l, h>>
      OBVIOUS
    <3>1. CASE r \in pending
      BY <3>1
    <3>2. CASE r \in Segment(left, low - 1)
      <4>1. left < low - 1 /\ r = <<left, low - 1>>
        BY <3>2 DEF Segment
      <4> QED
        BY <4>1
    <3>3. CASE r \in RightPart
      <4>1. low + 1 < right /\ r = <<low + 1, right>>
        BY <3>3 DEF RightPart, Segment
      <4>2. low + 1 \in 0..(n - 1) /\ right \in 0..(n - 1)
        BY <4>1
      <4> QED
        BY <4>1, <4>2
    <3> QED
      BY <1>6, <3>1, <3>2, <3>3 DEF Place
  <2> QED
    BY <1>6, <2>1 DEF Place, part
<1>7. CASE UNCHANGED vars
  BY <1>7 DEF vars, part
<1> QED
  BY <1>1, <1>2, <1>3, <1>4, <1>5, <1>6, <1>7 DEF Next, Return

(* Taking the pivot out, scanning and putting it back change nothing in the *)
(* filled vectors; the two moves exchange low and high.                     *)
LEMMA FilledStep ==
  ASSUME TypeOK
  PROVE  /\ Call \/ ScanHigh \/ ScanLow \/ Place \/ UNCHANGED vars
              => UNCHANGED <<n, original, Filled, FilledIndices>>
         /\ MoveDown \/ MoveUp
              => /\ UNCHANGED <<n, original>>
                 /\ Filled' = Exchange(Filled, low, high)
                 /\ FilledIndices' = Exchange(FilledIndices, low, high)
<1> USE DEF Filled, FilledIndices, Hole
<1>0. /\ input \in [0..(n - 1) -> Scores] /\ indices \in [0..(n - 1) -> 0..(n - 1)]
      /\ low \in 0..(n - 1) /\ high \in 0..(n - 1)
  BY FilledTypes DEF TypeOK, Vectors
<1>1. Call => UNCHANGED <<n, original, Filled, FilledIndices>>
  <2> SUFFICES ASSUME Call PROVE UNCHANGED <<n, original, Filled, FilledIndices>>
    OBVIOUS
  <2>1. [input EXCEPT ![low'] = input[low']] = input
    BY <1>0
  <2>2. [indices EXCEPT ![low'] = indices[low']] = indices
    BY <1>0
  <2> QED
    BY <2>1, <2>2 DEF Call
<1>2. ScanHigh \/ ScanLow => UNCHANGED <<n, original, Filled, FilledIndices>>
  BY DEF ScanHigh, ScanLow
<1>3. Place => UNCHANGED <<n, original, Filled, FilledIndices>>
  BY DEF Place
<1>4. UNCHANGED vars => UNCHANGED <<n, original, Filled, FilledIndices>>
  BY DEF vars, part
<1>5. MoveDown => /\ UNCHANGED <<n, original>>
                  /\ Filled' = Exchange(Filled, low, high)
                  /\ FilledIndices' = Exchange(FilledIndices, low, high)
  <2> SUFFICES ASSUME MoveDown
               PROVE  /\ Filled' = Exchange(Filled, low, high)
                      /\ FilledIndices' = Exchange(FilledIndices, low, high)
    BY DEF MoveDown
  <2>1. /\ pc = "high" /\ pc' = "low" /\ UNCHANGED <<low, high, key, key_index>>
        /\ input' = [input EXCEPT ![low] = input[high]]
        /\ indices' = [indices EXCEPT ![low] = indices[high]]
    BY DEF MoveDown, part
  <2>2. Filled' = Exchange(Filled, low, high)
    BY <1>0, <2>1 DEF Exchange
  <2>3. FilledIndices' = Exchange(FilledIndices, low, high)
    BY <1>0, <2>1 DEF Exchange
  <2> QED
    BY <2>2, <2>3
<1>6. MoveUp => /\ UNCHANGED <<n, original>>
                /\ Filled' = Exchange(Filled, low, high)
                /\ FilledIndices' = Exchange(FilledIndices, low, high)
  <2> SUFFICES ASSUME MoveUp
               PROVE  /\ Filled' = Exchange(Filled, low, high)
                      /\ FilledIndices' = Exchange(FilledIndices, low, high)
    BY DEF MoveUp
  <2>1. /\ pc = "low" /\ pc' \in {"high", "place"}
        /\ UNCHANGED <<low, high, key, key_index>>
        /\ input' = [input EXCEPT ![high] = input[low]]
        /\ indices' = [indices EXCEPT ![high] = indices[low]]
    BY DEF MoveUp, part
  <2>2. Filled' = Exchange(Filled, low, high)
    BY <1>0, <2>1 DEF Exchange
  <2>3. FilledIndices' = Exchange(FilledIndices, low, high)
    BY <1>0, <2>1 DEF Exchange
  <2> QED
    BY <2>2, <2>3
<1> QED
  BY <1>1, <1>2, <1>3, <1>4, <1>5, <1>6

-----------------------------------------------------------------------------
(* Each conjunct of the invariant is kept by every step.                    *)

(* Every step keeps the scores with their indices.                          *)
LEMMA AccompaniedStep ==
  ASSUME TypeOK, Accompanied, [Next]_vars PROVE Accompanied'
<1>1. CASE MoveDown \/ MoveUp
  <2>1. /\ UNCHANGED <<n, original>>
        /\ Filled' = Exchange(Filled, low, high)
        /\ FilledIndices' = Exchange(FilledIndices, low, high)
    BY <1>1, FilledStep
  <2>2. /\ IsPermutation(n, Exchange(FilledIndices, low, high))
        /\ Paired(n, original, Exchange(Filled, low, high),
                  Exchange(FilledIndices, low, high))
    BY FilledTypes, ExchangeAccompanied DEF Accompanied
  <2> QED
    BY <2>1, <2>2 DEF Accompanied, IsPermutation, Paired, Vectors
<1>2. CASE ~(MoveDown \/ MoveUp)
  <2>1. UNCHANGED <<n, original, Filled, FilledIndices>>
    BY <1>2, FilledStep DEF Next, Return
  <2> QED
    BY <2>1 DEF Accompanied, IsPermutation, Paired, Vectors
<1> QED
  BY <1>1, <1>2

(* The unsorted ranges change at the end of a partition only, where the     *)
(* current one is replaced by the parts on either side of the pivot.        *)
LEMMA UnsortedStep ==
  ASSUME TypeOK, [Next]_vars
  PROVE  IF Place
           THEN Unsorted' = pending \cup Segment(left, low - 1) \cup RightPart
           ELSE Unsorted' = Unsorted
<1>1. CASE Place
  BY <1>1 DEF Place, Unsorted
<1>2. CASE Call
  <2>1. PICK r \in pending : /\ pending' = pending \ {r}
                             /\ left' = r[1] /\ right' = r[2]
    BY <1>2, Zenon DEF Call
  <2>2. r = <<left', right'>>
    <3>1. PICK l, h \in 0..(n - 1) : r = <<l, h>>
      BY DEF TypeOK
    <3> QED
      BY <2>1, <3>1
  <2>3. Unsorted = pending /\ Unsorted' = pending' \cup {<<left', right'>>}
    BY <1>2 DEF Unsorted, Call
  <2>4. ~Place
    BY <1>2 DEF Call, Place
  <2> QED
    BY <2>1, <2>2, <2>3, <2>4
<1>3. CASE ScanHigh \/ MoveDown \/ ScanLow \/ MoveUp
  BY <1>3 DEF ScanHigh, MoveDown, ScanLow, MoveUp, Unsorted, Place, part
<1>4. CASE UNCHANGED vars
  <2>1. ~Place
    BY <1>4 DEF Place, vars
  <2> QED
    BY <1>4, <2>1 DEF vars, part, Unsorted
<1> QED
  BY <1>1, <1>2, <1>3, <1>4 DEF Next, Return

(* Every step keeps the unsorted ranges apart.                              *)
LEMMA DisjointStep ==
  ASSUME TypeOK, Disjoint, [Next]_vars PROVE Disjoint'
<1>1. CASE Place
  <2>1. pc = "place" /\ pc' = "call"
    BY <1>1 DEF Place
  <2>2. Unsorted' = pending \cup Segment(left, low - 1) \cup RightPart
    BY <1>1, UnsortedStep
  <2>3. \A r \in pending : r[2] < left \/ right < r[1]
    <3>1. <<left, right>> \in Unsorted /\ \A r \in pending : r \in Unsorted
      BY <2>1 DEF Unsorted
    <3>2. \A r \in pending : r # <<left, right>>
      BY <2>1 DEF Disjoint
    <3> QED
      BY <3>1, <3>2 DEF Disjoint
  <2>4. \A r \in Segment(left, low - 1) : r[1] = left /\ r[2] = low - 1
    BY DEF Segment
  <2>5. \A r \in RightPart : r[1] = low + 1 /\ r[2] = right
    BY DEF RightPart, Segment
  <2>6. \A r \in pending : r[1] \in Int /\ r[2] \in Int
    BY DEF TypeOK
  <2>7. left \in Int /\ right \in Int /\ low \in Int /\ left <= low /\ low <= right
    BY DEF TypeOK
  <2>8. \A r, s \in pending : r # s => r[2] < s[1] \/ s[2] < r[1]
    BY DEF Disjoint, Unsorted
  <2>9. \A r, s \in Unsorted' : r # s => r[2] < s[1] \/ s[2] < r[1]
    <3> SUFFICES ASSUME NEW r \in Unsorted', NEW s \in Unsorted', r # s
                 PROVE  r[2] < s[1] \/ s[2] < r[1]
      OBVIOUS
    <3>1. CASE r \in pending
      BY <3>1, <2>2, <2>3, <2>4, <2>5, <2>6, <2>7, <2>8
    <3>2. CASE s \in pending
      BY <3>2, <2>2, <2>3, <2>4, <2>5, <2>6, <2>7, <2>8
    <3>3. CASE r \notin pending /\ s \notin pending
      <4>1. \A t \in Segment(left, low - 1) : t = <<left, low - 1>>
        BY DEF Segment
      <4>2. \A t \in RightPart : t = <<low + 1, right>>
        BY DEF RightPart, Segment
      <4> QED
        BY <3>3, <4>1, <4>2, <2>2, <2>4, <2>5, <2>7
    <3> QED
      BY <3>1, <3>2, <3>3
  <2> QED
    BY <2>1, <2>9 DEF Disjoint
<1>2. CASE ~Place
  <2>1. Unsorted' = Unsorted
    BY <1>2, UnsortedStep
  <2>2. pc' # "call" => <<left', right'>> \notin pending'
    <3>1. CASE Call
      <4>1. PICK r \in pending : /\ pending' = pending \ {r}
                                 /\ left' = r[1] /\ right' = r[2]
        BY <3>1, Zenon DEF Call
      <4>2. PICK l, h \in 0..(n - 1) : r = <<l, h>>
        BY DEF TypeOK
      <4> QED
        BY <4>1, <4>2
    <3>2. CASE ~Call
      BY <1>2, <3>2 DEF Next, Return, ScanHigh, MoveDown, ScanLow, MoveUp,
         vars, part, Disjoint
    <3> QED
      BY <3>1, <3>2
  <2> QED
    BY <2>1, <2>2 DEF Disjoint
<1> QED
  BY <1>1, <1>2

(* Every step keeps the pivot between the two ends of its range.            *)
LEMMA PartitionedStep ==
  ASSUME TypeOK, Partitioned, [Next]_vars PROVE Partitioned'
<1>0. /\ left \in Int /\ right \in Int /\ low \in Int /\ high \in Int /\ n \in Int
      /\ 0 <= left /\ left <= low /\ low <= high /\ high <= right /\ right <= n - 1
  BY SortAssumption DEF TypeOK
<1>1. CASE Call
  <2>1. low' = left' /\ high' = right' /\ pc' = "high"
    BY <1>1 DEF Call
  <2>2. left' \in Int /\ right' \in Int
    BY TypeStep DEF TypeOK
  <2>3. \A l, h \in Int : l..(l - 1) = {} /\ (h + 1)..h = {}
    OBVIOUS
  <2>4. left'..(low' - 1) = {} /\ (high' + 1)..right' = {}
    BY <2>1, <2>2, <2>3
  <2> QED
    BY <2>1, <2>4 DEF Partitioned
<1>2. CASE ScanHigh \/ ScanLow
  <2>1. Filled' = Filled
    BY <1>2, FilledStep
  <2>2. CASE ScanHigh
    <3>1. Filled[high] = input[high] /\ input[high] <= key
      BY <1>0, <2>2 DEF ScanHigh, StopsHigh, Filled, Hole, TypeOK, Vectors
    <3>2. \A p \in high..right : Filled[p] <= key
      BY <1>0, <2>2, <3>1 DEF Partitioned, ScanHigh
    <3> QED
      BY <1>0, <2>1, <2>2, <3>2 DEF ScanHigh, Partitioned
  <2>3. CASE ScanLow
    <3>1. Filled[low] = input[low] /\ input[low] >= key
      BY <1>0, <2>3 DEF ScanLow, StopsLow, Filled, Hole, TypeOK, Vectors
    <3>2. \A p \in left..low : Filled[p] >= key
      BY <1>0, <2>3, <3>1 DEF Partitioned, ScanLow
    <3> QED
      BY <1>0, <2>1, <2>3, <3>2 DEF ScanLow, Partitioned
  <2> QED
    BY <1>2, <2>2, <2>3
<1>3. CASE MoveDown \/ MoveUp
  <2>1. Filled' = Exchange(Filled, low, high)
    BY <1>3, FilledStep
  <2>2. \A p \in (0..(n - 1)) \ {low, high} : Filled'[p] = Filled[p]
    <3>1. /\ n \in Nat /\ Filled \in Vectors(n, Scores)
          /\ low \in 0..(n - 1) /\ high \in 0..(n - 1)
      BY FilledTypes
    <3>2. \A p \in (0..(n - 1)) \ {low, high} :
            Exchange(Filled, low, high)[p] = Filled[p]
      BY <3>1, ExchangeValues
    <3> QED
      BY <2>1, <3>2
  <2>3. pc # "call" /\ UNCHANGED <<left, right, low, high, key>>
    BY <1>3 DEF MoveDown, MoveUp, part
  <2>4. pc' = "place" => low = high
    BY <1>0, <1>3 DEF MoveDown, MoveUp
  <2>5. \A p \in left..(low - 1) : Filled'[p] >= key
    BY <1>0, <2>2, <2>3 DEF Partitioned
  <2>6. \A p \in (high + 1)..right : Filled'[p] <= key
    BY <1>0, <2>2, <2>3 DEF Partitioned
  <2> QED
    BY <2>3, <2>4, <2>5, <2>6 DEF Partitioned
<1>4. CASE Place
  BY <1>4 DEF Place, Partitioned
<1>5. CASE UNCHANGED vars
  <2>1. Filled' = Filled
    BY <1>5, FilledStep
  <2> QED
    BY <1>5, <2>1 DEF vars, part, Partitioned
<1> QED
  BY <1>1, <1>2, <1>3, <1>4, <1>5 DEF Next, Return

(* Inside the range that is being partitioned everything is in order with   *)
(* what is outside.                                                         *)
LEMMA OutsideInOrder ==
  ASSUME TypeOK, Disjoint, Ordered, pc # "call"
  PROVE  \A p, q \in 0..(n - 1) :
           /\ p < left /\ q \in left..right => Filled[p] >= Filled[q]
           /\ p \in left..right /\ right < q => Filled[p] >= Filled[q]
<1> SUFFICES ASSUME NEW p \in 0..(n - 1), NEW q \in 0..(n - 1),
                    \/ p < left /\ q \in left..right
                    \/ p \in left..right /\ right < q
             PROVE  Filled[p] >= Filled[q]
  OBVIOUS
<1>0. /\ left \in Int /\ right \in Int /\ n \in Int /\ left <= right
  BY SortAssumption DEF TypeOK
<1>1. <<left, right>> \in Unsorted
  BY DEF Unsorted
<1>2. \A r \in Unsorted : r[1] \in Int /\ r[2] \in Int
  BY <1>0 DEF Unsorted, TypeOK
<1>3. ~\E r \in Unsorted : Inside(p, r) /\ Inside(q, r)
  <2> SUFFICES ASSUME NEW r \in Unsorted, Inside(p, r), Inside(q, r)
               PROVE  FALSE
    OBVIOUS
  <2>1. r # <<left, right>>
    BY <1>0 DEF Inside
  <2>2. r[2] < left \/ right < r[1]
    BY <1>1, <2>1 DEF Disjoint
  <2> QED
    BY <1>0, <1>2, <2>2 DEF Inside
<1>4. p < q
  BY <1>0
<1> QED
  BY <1>3, <1>4 DEF Ordered

(* Every step keeps the order between the unsorted ranges.                  *)
LEMMA OrderedStep ==
  ASSUME TypeOK, Disjoint, Ordered, Partitioned, [Next]_vars PROVE Ordered'
<1>0. /\ left \in Int /\ right \in Int /\ low \in Int /\ high \in Int /\ n \in Nat
      /\ 0 <= left /\ left <= low /\ low <= high /\ high <= right /\ right <= n - 1
  BY SortAssumption DEF TypeOK
<1>1. CASE Place
  <2>1. UNCHANGED <<n, Filled>>
    BY <1>1, FilledStep
  <2>2. Unsorted' = pending \cup Segment(left, low - 1) \cup RightPart
    BY <1>1, UnsortedStep
  <2>3. pc = "place" /\ Unsorted = pending \cup {<<left, right>>}
    BY <1>1 DEF Place, Unsorted
  <2>4. Filled[low] = key /\ low = high
    BY <1>0, <2>3 DEF Filled, Hole, Partitioned, TypeOK, Vectors
  <2>5. \A p \in 0..(n - 1) : Filled[p] \in Int
    BY FilledTypes
  <2> SUFFICES ASSUME NEW p \in 0..(n - 1), NEW q \in 0..(n - 1), p < q,
                      ~(Filled[p] >= Filled[q])
               PROVE  \E r \in Unsorted' : Inside(p, r) /\ Inside(q, r)
    BY <2>1 DEF Ordered
  <2>6. PICK r \in Unsorted : Inside(p, r) /\ Inside(q, r)
    BY DEF Ordered
  <2>7. CASE r \in pending
    BY <2>2, <2>6, <2>7
  <2>8. CASE r = <<left, right>>
    <3>1. left <= p /\ q <= right
      BY <2>6, <2>8 DEF Inside
    <3>2. /\ \A i \in left..(low - 1) : Filled[i] >= Filled[low]
          /\ \A i \in (low + 1)..right : Filled[i] <= Filled[low]
      BY <2>3, <2>4 DEF Partitioned
    <3>3. q < low \/ low < p
      <4> SUFFICES ASSUME p <= low, low <= q PROVE FALSE
        BY <1>0
      <4>1. Filled[p] >= Filled[low]
        BY <1>0, <2>5, <3>1, <3>2
      <4>2. Filled[low] >= Filled[q]
        BY <1>0, <2>5, <3>1, <3>2
      <4>3. Filled[p] \in Int /\ Filled[low] \in Int /\ Filled[q] \in Int
        BY <1>0, <2>5
      <4> QED
        BY <4>1, <4>2, <4>3
    <3>4. CASE q < low
      <4>1. <<left, low - 1>> \in Segment(left, low - 1)
        BY <1>0, <3>1, <3>4 DEF Segment
      <4>2. Inside(p, <<left, low - 1>>) /\ Inside(q, <<left, low - 1>>)
        BY <1>0, <3>1, <3>4 DEF Inside
      <4> QED
        BY <2>2, <4>1, <4>2
    <3>5. CASE low < p
      <4>1. <<low + 1, right>> \in RightPart
        BY <1>0, <3>1, <3>5 DEF RightPart, Segment
      <4>2. Inside(p, <<low + 1, right>>) /\ Inside(q, <<low + 1, right>>)
        BY <1>0, <3>1, <3>5 DEF Inside
      <4> QED
        BY <2>2, <4>1, <4>2
    <3> QED
      BY <3>3, <3>4, <3>5
  <2> QED
    BY <2>3, <2>6, <2>7, <2>8
<1>2. CASE MoveDown \/ MoveUp
  <2>1. n' = n /\ Filled' = Exchange(Filled, low, high)
    BY <1>2, FilledStep
  <2>2. pc # "call" /\ Unsorted' = Unsorted
    BY <1>2, UnsortedStep DEF MoveDown, MoveUp, Place
  <2>3. /\ low \in 0..(n - 1) /\ high \in 0..(n - 1)
        /\ Filled'[low] = Filled[high] /\ Filled'[high] = Filled[low]
        /\ \A p \in (0..(n - 1)) \ {low, high} : Filled'[p] = Filled[p]
    <3>1. /\ n \in Nat /\ Filled \in Vectors(n, Scores)
          /\ low \in 0..(n - 1) /\ high \in 0..(n - 1)
      BY FilledTypes
    <3> QED
      BY <2>1, <3>1, ExchangeValues, SMTT(30)
  <2> SUFFICES ASSUME NEW p \in 0..(n - 1), NEW q \in 0..(n - 1), p < q
               PROVE  \/ Filled'[p] >= Filled'[q]
                      \/ \E r \in Unsorted : Inside(p, r) /\ Inside(q, r)
    BY <2>1, <2>2 DEF Ordered
  <2>4. CASE p \in left..right /\ q \in left..right
    <3>1. <<left, right>> \in Unsorted
      BY <2>2 DEF Unsorted
    <3> QED
      BY <1>0, <2>4, <3>1 DEF Inside
  <2>5. CASE p < left /\ q \in left..right
    <3>1. PICK i \in left..right : Filled'[q] = Filled[i]
      BY <1>0, <2>3, <2>5
    <3>2. Filled'[p] = Filled[p]
      BY <1>0, <2>3, <2>5
    <3>3. i \in 0..(n - 1)
      BY <1>0
    <3> QED
      BY <2>2, <2>5, <3>1, <3>2, <3>3, OutsideInOrder
  <2>6. CASE p \in left..right /\ right < q
    <3>1. PICK i \in left..right : Filled'[p] = Filled[i]
      BY <1>0, <2>3, <2>6
    <3>2. Filled'[q] = Filled[q]
      BY <1>0, <2>3, <2>6
    <3>3. i \in 0..(n - 1)
      BY <1>0
    <3> QED
      BY <2>2, <2>6, <3>1, <3>2, <3>3, OutsideInOrder
  <2>7. CASE p \notin left..right /\ q \notin left..right
    <3>1. Filled'[p] = Filled[p] /\ Filled'[q] = Filled[q]
      BY <1>0, <2>3, <2>7
    <3> QED
      BY <3>1 DEF Ordered
  <2> QED
    BY <1>0, <2>4, <2>5, <2>6, <2>7
<1>3. CASE ~(Place \/ MoveDown \/ MoveUp)
  <2>1. UNCHANGED <<n, Filled>>
    BY <1>3, FilledStep DEF Next, Return
  <2>2. Unsorted' = Unsorted
    BY <1>3, UnsortedStep
  <2> QED
    BY <2>1, <2>2 DEF Ordered
<1> QED
  BY <1>1, <1>2, <1>3

-----------------------------------------------------------------------------
(* post_process hands over one vector of scores and the identity.           *)
LEMMA SortInvInit == Init => SortInv
<1> SUFFICES ASSUME Init PROVE SortInv
  OBVIOUS
<1> USE SortAssumption DEF Init
<1>1. n \in Nat \ {0} /\ original \in [0..(n - 1) -> Scores] /\ 0 \in 0..(n - 1)
  BY DEF Vectors
<1>2. TypeOK
  <2>1. original[0] \in Scores
    BY <1>1
  <2>2. \A r \in pending : \E l, h \in 0..(n - 1) : l < h /\ r = <<l, h>>
    BY <1>1 DEF Segment
  <2> QED
    BY <1>1, <2>1, <2>2 DEF TypeOK, Vectors
<1>3. Accompanied
  BY <1>1 DEF Accompanied, Filled, FilledIndices, IsPermutation, Paired, Vectors
<1>4. Disjoint
  BY DEF Disjoint, Unsorted, Segment
<1>5. Ordered
  <2> SUFFICES ASSUME NEW p \in 0..(n - 1), NEW q \in 0..(n - 1), p < q
               PROVE  \E r \in Unsorted : Inside(p, r) /\ Inside(q, r)
    BY DEF Ordered
  <2>1. <<0, n - 1>> \in Unsorted
    BY <1>1 DEF Unsorted, Segment
  <2>2. Inside(p, <<0, n - 1>>) /\ Inside(q, <<0, n - 1>>)
    BY <1>1 DEF Inside
  <2> QED
    BY <2>1, <2>2
<1>6. Partitioned
  BY DEF Partitioned
<1> QED
  BY <1>2, <1>3, <1>4, <1>5, <1>6 DEF SortInv

(* Every step keeps the whole invariant.                                    *)
LEMMA SortInvStep == SortInv /\ [Next]_vars => SortInv'
  BY TypeStep, AccompaniedStep, DisjointStep, OrderedStep, PartitionedStep
     DEF SortInv

(* The types of all variables: no index of the scans or of the recursion    *)
(* leaves the vectors, for any number of candidates.                        *)
THEOREM TypeCorrect == Spec => []TypeOK
<1>1. SortInv => TypeOK
  BY DEF SortInv
<1> QED
  BY <1>1, SortInvInit, SortInvStep, PTL DEF Spec

(* quick_sort_indice_inverse keeps the promise of Ranking, which the model  *)
(* of post_process relies on: when it is done, the scores stand in          *)
(* descending order, each beside the index it came with, whatever the       *)
(* scores are and however many are equal.                                   *)
THEOREM RankingCorrect == Spec => []RanksScores
<1>1. SortInv => RanksScores
  <2> SUFFICES ASSUME SortInv, Sorted
               PROVE  IsRanking(n, original, input, indices)
    BY DEF RanksScores
  <2>1. Filled = input /\ FilledIndices = indices /\ Unsorted = {}
    BY DEF Sorted, Filled, FilledIndices, Unsorted
  <2> QED
    BY <2>1 DEF SortInv, Accompanied, Ordered, IsRanking, Descending
<1> QED
  BY <1>1, SortInvInit, SortInvStep, PTL DEF Spec
-----------------------------------------------------------------------------
(* The sort ends: an upper bound of the steps that are left.  A position in *)
(* an unsorted range costs at most one partition, for every partition takes *)
(* its pivot out of them; and a partition takes at most 3n steps.           *)

UnsortedPositions == {p \in 0..(n - 1) : \E r \in Unsorted : Inside(p, r)}

(* The steps left until the pivot is placed: three for each position        *)
(* between the scans, two of them for a move on either side.                *)
StepsOfPartition ==
  CASE pc = "call"  -> 3 * n
    [] pc = "high"  -> 3 * (high - low) + (IF StopsHigh THEN 2 ELSE 1)
    [] pc = "low"   -> 3 * (high - low) + (IF low < high /\ StopsLow THEN 2 ELSE 1)
    [] pc = "place" -> 0

Work == (3 * n + 1) * Cardinality(UnsortedPositions) + StepsOfPartition

(* The number of unsorted positions is a number of at most n.               *)
LEMMA UnsortedPositionsFinite ==
  ASSUME TypeOK
  PROVE  /\ IsFiniteSet(UnsortedPositions)
         /\ Cardinality(UnsortedPositions) \in 0..n
<1>1. n \in Nat \ {0}
  BY FilledTypes
<1>2. IsFiniteSet(0..(n - 1)) /\ Cardinality(0..(n - 1)) = n
  BY <1>1, FS_Interval
<1>3. UnsortedPositions \in SUBSET (0..(n - 1))
  BY DEF UnsortedPositions
<1>4. /\ IsFiniteSet(UnsortedPositions)
      /\ Cardinality(UnsortedPositions) <= Cardinality(0..(n - 1))
  BY <1>2, <1>3, FS_Subset
<1>5. Cardinality(UnsortedPositions) \in Nat
  BY <1>4, FS_CardinalityType
<1> QED
  BY <1>1, <1>2, <1>4, <1>5

(* A partition never has more than 3n steps left.                           *)
LEMMA StepsOfPartitionType ==
  ASSUME TypeOK
  PROVE  /\ StepsOfPartition \in 0..(3 * n)
         /\ pc # "call" => StepsOfPartition <= 3 * n - 1
<1>1. n \in Nat \ {0} /\ low \in 0..(n - 1) /\ high \in low..(n - 1)
  BY FilledTypes DEF TypeOK
<1>2. CASE pc = "call"
  BY <1>1, <1>2 DEF StepsOfPartition
<1>3. CASE pc = "high"
  BY <1>1, <1>3 DEF StepsOfPartition
<1>4. CASE pc = "low"
  BY <1>1, <1>4 DEF StepsOfPartition
<1>5. CASE pc = "place"
  BY <1>1, <1>5 DEF StepsOfPartition
<1> QED
  BY <1>2, <1>3, <1>4, <1>5 DEF TypeOK

(* Placing the pivot takes a position out of the unsorted ranges for good,  *)
(* and no step puts one in.                                                 *)
LEMMA UnsortedPositionsStep ==
  ASSUME TypeOK, Disjoint, [Next]_vars
  PROVE  /\ Cardinality(UnsortedPositions') \in Nat
         /\ IF Place
              THEN Cardinality(UnsortedPositions') < Cardinality(UnsortedPositions)
              ELSE UnsortedPositions' = UnsortedPositions
<1>0. n' = n
  BY FilledStep DEF Next, Return
<1>1. CASE Place
  <2>1. Unsorted' = pending \cup Segment(left, low - 1) \cup RightPart
    BY <1>1, UnsortedStep
  <2>2. pc = "place" /\ Unsorted = pending \cup {<<left, right>>}
    BY <1>1 DEF Place, Unsorted
  <2>3. /\ left \in Int /\ right \in Int /\ low \in 0..(n - 1)
        /\ left <= low /\ low <= right
    BY FilledTypes DEF TypeOK
  <2>4. \A r \in Segment(left, low - 1) : r[1] = left /\ r[2] = low - 1
    BY DEF Segment
  <2>5. \A r \in RightPart : r[1] = low + 1 /\ r[2] = right
    BY DEF RightPart, Segment
  <2>6. \A p \in 0..(n - 1), r \in Unsorted' :
          Inside(p, r) => \E s \in Unsorted : Inside(p, s)
    <3> SUFFICES ASSUME NEW p \in 0..(n - 1), NEW r \in Unsorted', Inside(p, r)
                 PROVE  \E s \in Unsorted : Inside(p, s)
      OBVIOUS
    <3>1. CASE r \in pending
      BY <2>2, <3>1
    <3>2. CASE r \in Segment(left, low - 1) \cup RightPart
      <4>1. Inside(p, <<left, right>>)
        BY <2>3, <2>4, <2>5, <3>2 DEF Inside
      <4> QED
        BY <2>2, <4>1
    <3> QED
      BY <2>1, <3>1, <3>2
  <2>7. UnsortedPositions' \subseteq UnsortedPositions
    BY <1>0, <2>6 DEF UnsortedPositions
  <2>8. low \in UnsortedPositions
    <3>1. Inside(low, <<left, right>>)
      BY <2>3 DEF Inside
    <3> QED
      BY <2>2, <2>3, <3>1 DEF UnsortedPositions
  <2>9. low \notin UnsortedPositions'
    <3> SUFFICES ASSUME NEW r \in Unsorted', Inside(low, r)
                 PROVE  FALSE
      BY <1>0 DEF UnsortedPositions
    <3>1. CASE r \in pending
      <4>1. r # <<left, right>> /\ <<left, right>> \in Unsorted
        BY <2>2, <3>1 DEF Disjoint
      <4>2. r[2] < left \/ right < r[1]
        BY <2>2, <3>1, <4>1 DEF Disjoint
      <4>3. r[1] \in Int /\ r[2] \in Int
        BY <3>1 DEF TypeOK
      <4> QED
        BY <2>3, <4>2, <4>3 DEF Inside
    <3>2. CASE r \in Segment(left, low - 1) \cup RightPart
      BY <2>3, <2>4, <2>5, <3>2 DEF Inside
    <3> QED
      BY <2>1, <3>1, <3>2
  <2>10. IsFiniteSet(UnsortedPositions)
    BY UnsortedPositionsFinite
  <2>11. /\ IsFiniteSet(UnsortedPositions')
         /\ Cardinality(UnsortedPositions') <= Cardinality(UnsortedPositions)
         /\ Cardinality(UnsortedPositions') # Cardinality(UnsortedPositions)
    BY <2>7, <2>8, <2>9, <2>10, FS_Subset
  <2>12. /\ Cardinality(UnsortedPositions) \in Nat
         /\ Cardinality(UnsortedPositions') \in Nat
    BY <2>10, <2>11, FS_CardinalityType
  <2> QED
    BY <1>1, <2>11, <2>12
<1>2. CASE ~Place
  <2>1. UnsortedPositions' = UnsortedPositions
    BY <1>0, <1>2, UnsortedStep DEF UnsortedPositions
  <2> QED
    BY <1>2, <2>1, UnsortedPositionsFinite, FS_CardinalityType
<1> QED
  BY <1>1, <1>2

(* Every other step brings the partition nearer to its end: a move leaves   *)
(* the other scan, unless it is done, an element that it passes.            *)
LEMMA StepsOfPartitionStep ==
  ASSUME TypeOK, Partitioned, Next, ~Place, ~Return
  PROVE  StepsOfPartition' < StepsOfPartition /\ StepsOfPartition' \in Int
<1>1. n \in Nat \ {0} /\ Scores \subseteq Int /\ low \in 0..(n - 1) /\ high \in 0..(n - 1)
  BY FilledTypes
<1>2. low <= high /\ key \in Int
  BY <1>1 DEF TypeOK
<1>3. input \in [0..(n - 1) -> Scores]
  BY DEF TypeOK, Vectors
<1>4. \A p \in 0..(n - 1) : input[p] \in Int
  BY <1>1, <1>3
<1>5. CASE Call
  <2>1. pc = "call" /\ pc' = "high" /\ n' = n
    BY <1>5 DEF Call
  <2>2. StepsOfPartition' <= 3 * (n - 1) + 2 /\ StepsOfPartition' \in Int
    <3>1. low' \in 0..(n - 1) /\ high' \in 0..(n - 1)
      BY <1>1, <2>1, TypeStep DEF TypeOK
    <3> QED
      BY <1>1, <2>1, <3>1 DEF StepsOfPartition
  <2>3. StepsOfPartition = 3 * n
    BY <2>1 DEF StepsOfPartition
  <2> QED
    BY <1>1, <2>1, <2>2, <2>3
<1>6. CASE ScanHigh
  <2>1. pc = "high" /\ ~StopsHigh /\ pc' = "high" /\ high' = high - 1 /\ low' = low
    BY <1>6 DEF ScanHigh
  <2>2. StepsOfPartition = 3 * (high - low) + 1
    BY <2>1 DEF StepsOfPartition
  <2>3. StepsOfPartition' <= 3 * (high' - low') + 2
    BY <1>1, <2>1 DEF StepsOfPartition
  <2> QED
    BY <1>1, <2>1, <2>2, <2>3 DEF StepsOfPartition
<1>7. CASE ScanLow
  <2>1. pc = "low" /\ ~StopsLow /\ pc' = "low" /\ low' = low + 1 /\ high' = high
    BY <1>7 DEF ScanLow
  <2>2. StepsOfPartition = 3 * (high - low) + 1
    BY <2>1 DEF StepsOfPartition
  <2>3. StepsOfPartition' <= 3 * (high' - low') + 2
    BY <1>1, <2>1 DEF StepsOfPartition
  <2> QED
    BY <1>1, <2>1, <2>2, <2>3 DEF StepsOfPartition
<1>8. CASE MoveDown
  <2>1. /\ pc = "high" /\ StopsHigh /\ pc' = "low"
        /\ UNCHANGED <<low, high, key>>
        /\ input' = [input EXCEPT ![low] = input[high]]
    BY <1>8 DEF MoveDown, part
  <2>2. StepsOfPartition = 3 * (high - low) + 2
    BY <2>1 DEF StepsOfPartition
  <2>3. low < high => ~StopsLow'
    <3>1. input'[low] = input[high] /\ input[high] \in Int
      BY <1>1, <1>3, <1>4, <2>1
    <3> QED
      BY <1>2, <2>1, <3>1 DEF StopsHigh, StopsLow
  <2>4. StepsOfPartition' = 3 * (high - low) + 1
    BY <2>1, <2>3 DEF StepsOfPartition
  <2> QED
    BY <1>1, <2>2, <2>4
<1>9. CASE MoveUp
  <2>1. /\ pc = "low" /\ StopsLow /\ pc' = IF low < high THEN "high" ELSE "place"
        /\ UNCHANGED <<low, high, key>>
        /\ input' = [input EXCEPT ![high] = input[low]]
    BY <1>9 DEF MoveUp, part
  <2>2. CASE low < high
    <3>1. StepsOfPartition = 3 * (high - low) + 2
      BY <2>1, <2>2 DEF StepsOfPartition
    <3>2. ~StopsHigh'
      <4>1. input'[high] = input[low] /\ input[low] \in Int
        BY <1>1, <1>3, <1>4, <2>1
      <4> QED
        BY <1>2, <2>1, <2>2, <4>1 DEF StopsHigh, StopsLow
    <3>3. StepsOfPartition' = 3 * (high - low) + 1
      BY <2>1, <2>2, <3>2 DEF StepsOfPartition
    <3> QED
      BY <1>1, <3>1, <3>3
  <2>3. CASE ~(low < high)
    <3>1. low = high
      BY <1>1, <1>2, <2>3
    <3>2. StepsOfPartition = 3 * (high - low) + 1 /\ StepsOfPartition' = 0
      BY <2>1, <2>3 DEF StepsOfPartition
    <3> QED
      BY <1>1, <3>1, <3>2
  <2> QED
    BY <2>2, <2>3
<1> QED
  BY <1>5, <1>6, <1>7, <1>8, <1>9 DEF Next

(* The bound is a natural number, quadratic in the number of candidates.    *)
LEMMA WorkType ==
  ASSUME TypeOK
  PROVE  Work \in 0..(3 * n * n + 4 * n)
<1> DEFINE c == Cardinality(UnsortedPositions)
<1>1. n \in Nat \ {0} /\ c \in 0..n /\ StepsOfPartition \in 0..(3 * n)
  BY FilledTypes, UnsortedPositionsFinite, StepsOfPartitionType
<1>2. \A m \in Nat : \A d \in 0..m : (3 * m + 1) * d \in 0..((3 * m + 1) * m)
  OBVIOUS
<1>3. (3 * n + 1) * c \in 0..((3 * n + 1) * n)
  BY <1>1, <1>2
<1>4. (3 * n + 1) * n = 3 * n * n + n
  BY <1>1
<1> HIDE DEF c
<1>5. (3 * n + 1) * c + StepsOfPartition \in 0..(3 * n * n + 4 * n)
  BY <1>1, <1>3, <1>4
<1> QED
  BY <1>5 DEF Work, c

(* Every step of the sort lowers the bound.                                 *)
LEMMA WorkStep ==
  ASSUME TypeOK, Disjoint, Partitioned, Next, ~Return
  PROVE  Work' < Work
<1> DEFINE c == Cardinality(UnsortedPositions)
<1>1. n \in Nat \ {0} /\ c \in Nat /\ StepsOfPartition \in Nat
  BY FilledTypes, UnsortedPositionsFinite, StepsOfPartitionType
<1>2. n' = n
  BY FilledStep DEF Next
<1>3. c' \in Nat
  BY UnsortedPositionsStep
<1>4. CASE Place
  <2>1. c' <= c - 1
    BY <1>1, <1>3, <1>4, UnsortedPositionsStep
  <2>2. StepsOfPartition = 0 /\ StepsOfPartition' = 3 * n
    BY <1>2, <1>4 DEF Place, StepsOfPartition
  <2>3. \A m, d, e \in Nat :
          d <= e - 1 => (3 * m + 1) * d <= (3 * m + 1) * e - (3 * m + 1)
    OBVIOUS
  <2>4. (3 * n + 1) * c' <= (3 * n + 1) * c - (3 * n + 1)
    BY <1>1, <1>3, <2>1, <2>3
  <2>5. (3 * n + 1) * c' \in Int /\ (3 * n + 1) * c \in Int
    BY <1>1, <1>3
  <2> HIDE DEF c
  <2>6. (3 * n + 1) * c' + 3 * n < (3 * n + 1) * c + 0
    <3>1. \A x, y, m \in Int : x <= y - (m + 1) => x + m < y + 0
      OBVIOUS
    <3> QED
      BY <1>1, <2>4, <2>5, <3>1
  <2> QED
    BY <1>2, <2>2, <2>6 DEF Work, c
<1>5. CASE ~Place
  <2>1. c' = c
    BY <1>2, <1>5, UnsortedPositionsStep
  <2>2. StepsOfPartition' < StepsOfPartition
    BY <1>5, StepsOfPartitionStep
  <2>3. (3 * n + 1) * c \in Int
    BY <1>1
  <2>4. StepsOfPartition \in Int /\ StepsOfPartition' \in Int
    BY <1>1, <1>5, StepsOfPartitionStep
  <2> HIDE DEF c
  <2>5. PICK x \in Int : x = (3 * n + 1) * c
    BY <2>3
  <2>6. x + StepsOfPartition' < x + StepsOfPartition
    <3>1. \A s, t \in Int : t < s => x + t < x + s
      OBVIOUS
    <3> QED
      BY <2>2, <2>4, <3>1
  <2> QED
    BY <1>2, <2>1, <2>5, <2>6 DEF Work, c
<1> QED
  BY <1>4, <1>5

(* The recursion cannot go on for ever, equal scores included: a sort of n  *)
(* candidates takes at most 3n^2 + 4n steps.  Terminates only needs beyond  *)
(* this that the code runs on.                                              *)
THEOREM SortIsBounded ==
  Spec => /\ [](Work \in 0..(3 * n * n + 4 * n))
          /\ [][Work' < Work /\ n' = n]_vars
<1>1. SortInv => Work \in 0..(3 * n * n + 4 * n)
  BY WorkType DEF SortInv
<1>2. SortInv /\ [Next]_vars => [Work' < Work /\ n' = n]_vars
  <2> SUFFICES ASSUME SortInv, Next, ~Return PROVE Work' < Work /\ n' = n
    BY DEF Return
  <2>1. Work' < Work
    BY WorkStep DEF SortInv
  <2>2. n' = n
    BY FilledStep DEF SortInv, Next
  <2> QED
    BY <2>1, <2>2
<1> QED
  BY <1>1, <1>2, SortInvInit, SortInvStep, PTL DEF Spec

(* The ranges that start furthest left: the smallest of a set of numbers.   *)
LEMMA LeftmostRange ==
  ASSUME TypeOK, pending # {}
  PROVE  \E r \in pending : \A s \in pending : r[1] <= s[1]
<1> DEFINE starts == {r[1] : r \in pending}
<1>1. starts \subseteq Nat /\ starts # {}
  BY FilledTypes DEF TypeOK
<1>2. PICK l \in starts : \A k \in starts : <<k, l>> \notin OpToRel(<, Nat)
  BY <1>1, NatLessThanWellFounded, WFMin
<1>3. \A k, m \in Nat : k < m => <<k, m>> \in OpToRel(<, Nat)
  BY DEF OpToRel
<1>4. \A k \in starts : ~(k < l)
  BY <1>1, <1>2, <1>3
<1>5. \A k \in starts : l <= k
  <2> HIDE DEF starts
  <2> SUFFICES ASSUME NEW k \in starts PROVE l <= k
    OBVIOUS
  <2>1. k \in Nat /\ l \in Nat /\ ~(k < l)
    BY <1>1, <1>4
  <2> QED
    BY <2>1
<1> QED
  BY <1>5

(* And the sort does not stop before it is done: the one step whose guard   *)
(* could fail, the call for the leftmost range, always finds one.           *)
THEOREM NextRangeExists ==
  Spec => [](pc = "call" /\ ~Sorted
               => \E r \in pending : \A s \in pending : r[1] <= s[1])
<1>1. SortInv => (pc = "call" /\ ~Sorted
                    => \E r \in pending : \A s \in pending : r[1] <= s[1])
  BY LeftmostRange DEF SortInv, Sorted
<1> QED
  BY <1>1, SortInvInit, SortInvStep, PTL DEF Spec
=============================================================================
