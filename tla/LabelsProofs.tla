---------------------------- MODULE LabelsProofs ----------------------------
(***************************************************************************)
(* Proofs about Labels, for every label file, every number of names and    *)
(* every combination of failures.                                          *)
(***************************************************************************)
EXTENDS Labels, FiniteSetTheorems, TLAPS

TypeInv ==
  /\ pc \in {"open", "malloc", "fgetc", "close", "ready", "freed"}
  /\ file \in Files /\ pos \in 0..Len(file)
  /\ buffer \in Seq(Chars)
  /\ i \in 0..MaxLabels
  /\ labels \in [Entries -> Seq(Chars) \cup {Null}]
  /\ failed \in BOOLEAN

(* The characters behind the first p of the file are a new line, number i;  *)
(* or the last line had no newline and is a name already.                   *)
LineStart(p) == NewlinesUpTo(p) = i /\ (p = 0 \/ file[p] = Newline)
LastTaken ==
  /\ pos = Len(file) /\ pos > 0 /\ file[pos] # Newline
  /\ NewlinesUpTo(pos) = i - 1

(* What readLine has stored is the line from its beginning to pos.          *)
PartOfLine ==
  LET p == pos - Len(buffer)
  IN  /\ p >= 0 /\ LineStart(p) /\ NewlinesUpTo(pos) = i
      /\ \A k \in 1..Len(buffer) : buffer[k] = file[p + k]

Reading ==
  /\ pc = "open" => pos = 0 /\ i = 0 /\ failed = FALSE
  /\ pc \in {"malloc", "fgetc"} => i < MaxLabels
  /\ pc = "malloc" => LineStart(pos) \/ LastTaken
  /\ pc = "fgetc" => PartOfLine \/ (LastTaken /\ buffer = <<>>)
  /\ pc \in {"close", "ready"} /\ failed = FALSE =>
       \A c \in Entries : HasLine(c) => c < i

(* The names are the first i lines; each has its block.                     *)
Stored ==
  /\ pc # "freed" => /\ \A k \in Entries : labels[k] # Null <=> k < i
                     /\ blocks = i + (IF pc = "fgetc" THEN 1 ELSE 0)
  /\ pc = "freed" => blocks = 0 /\ \A k \in Entries : labels[k] = Null
  /\ \A k \in Entries : labels[k] # Null => HasLine(k) /\ IsLine(k, labels[k])

LabelInv == TypeInv /\ Reading /\ Stored

(* Counting the newlines of the file.                                       *)
LEMMA Counting ==
  ASSUME NEW p \in Nat
  PROVE  /\ NewlinesUpTo(p) \in Nat
         /\ NewlinesUpTo(0) = 0
         /\ NewlinesUpTo(p + 1) = IF file[p + 1] = Newline THEN NewlinesUpTo(p) + 1
                                                           ELSE NewlinesUpTo(p)
         /\ \A r \in Nat : p <= r => NewlinesUpTo(p) <= NewlinesUpTo(r)
<1> DEFINE N(r) == {q \in 1..r : file[q] = Newline}
<1>1. \A r \in Nat : IsFiniteSet(N(r)) /\ Cardinality(N(r)) \in Nat
  <2> SUFFICES ASSUME NEW r \in Nat PROVE IsFiniteSet(N(r)) /\ Cardinality(N(r)) \in Nat
    OBVIOUS
  <2>1. IsFiniteSet(1..r)
    BY FS_Interval
  <2>2. N(r) \subseteq 1..r
    OBVIOUS
  <2>3. IsFiniteSet(N(r))
    BY <2>1, <2>2, FS_Subset
  <2> QED
    BY <2>3, FS_CardinalityType
<1>2. N(0) = {} /\ Cardinality({}) = 0
  BY FS_EmptySet
<1>3. ASSUME file[p + 1] = Newline PROVE NewlinesUpTo(p + 1) = NewlinesUpTo(p) + 1
  <2>1. N(p + 1) = N(p) \cup {p + 1} /\ p + 1 \notin N(p)
    BY <1>3
  <2>2. Cardinality(N(p) \cup {p + 1}) = Cardinality(N(p)) + 1
    BY <1>1, <2>1, FS_AddElement
  <2>3. NewlinesUpTo(p + 1) = NewlinesUpTo(p) + 1
    BY <2>1, <2>2, Zenon DEF NewlinesUpTo
  <2> QED
    BY <2>3
<1>4. ASSUME file[p + 1] # Newline PROVE NewlinesUpTo(p + 1) = NewlinesUpTo(p)
  <2>1. N(p + 1) = N(p)
    BY <1>4
  <2>3. NewlinesUpTo(p + 1) = NewlinesUpTo(p)
    BY <2>1, Zenon DEF NewlinesUpTo
  <2> QED
    BY <2>3
<1>5. ASSUME NEW r \in Nat, p <= r PROVE NewlinesUpTo(p) <= NewlinesUpTo(r)
  <2>1. N(p) \subseteq N(r)
    BY <1>5
  <2>2. Cardinality(N(p)) <= Cardinality(N(r))
    BY <1>1, <2>1, FS_Subset
  <2> QED
    BY <2>2 DEF NewlinesUpTo
<1>6. NewlinesUpTo(p) \in Nat
  BY <1>1 DEF NewlinesUpTo
<1>7. NewlinesUpTo(0) = 0
  BY <1>2, Zenon DEF NewlinesUpTo
<1>8. NewlinesUpTo(p + 1) = IF file[p + 1] = Newline THEN NewlinesUpTo(p) + 1
                                                     ELSE NewlinesUpTo(p)
  BY <1>3, <1>4
<1> QED
  BY <1>5, <1>6, <1>7, <1>8

(* A sequence that agrees with the file from p on is that part of it.       *)
LEMMA PartIsSubSeq ==
  ASSUME NEW C, NEW f \in Seq(C), NEW s \in Seq(C), NEW p \in Nat,
         p + Len(s) <= Len(f), \A k \in 1..Len(s) : s[k] = f[p + k]
  PROVE  s = SubSeq(f, p + 1, p + Len(s))
<1> DEFINE t == SubSeq(f, p + 1, p + Len(s))
<1>1. /\ Len(s) \in Nat /\ s = [k \in 1..Len(s) |-> s[k]]
  OBVIOUS
<1>2. t = [k \in 1..Len(s) |-> f[p + k]]
  <2>1. p + Len(s) + 1 - (p + 1) = Len(s)
    BY <1>1
  <2>2. \A k \in 1..Len(s) : (p + 1) + k - 1 = p + k
    BY <1>1
  <2> QED
    BY <1>1, <2>1, <2>2, SMTT(30)
<1> QED
  BY <1>1, <1>2

(* Nothing is read, stored or allocated before loadLabelName opens the      *)
(* file.                                                                    *)
LEMMA LabelInvInit == Init => LabelInv
<1> SUFFICES ASSUME Init PROVE LabelInv
  OBVIOUS
<1>1. 0 \in 0..Len(file) /\ <<>> \in Seq(Chars) /\ 0 \in 0..MaxLabels
  <2>1. file \in Seq(Chars \cup {Newline})
    BY LabelsAssumption DEF Init
  <2>2. Len(file) \in Nat
    BY <2>1
  <2> QED
    BY <2>2, LabelsAssumption
<1>2. labels \in [Entries -> Seq(Chars) \cup {Null}]
  BY DEF Init
<1>3. TypeInv
  BY <1>1, <1>2 DEF Init, TypeInv
<1> QED
  BY <1>3 DEF Init, LabelInv, Reading, Stored

(* The characters of the file, and what of it has been read.                *)
LEMMA FileTypes ==
  ASSUME TypeInv
  PROVE  /\ file \in Seq(Chars \cup {Newline})
         /\ Len(file) \in Nat /\ pos \in Nat /\ pos <= Len(file)
         /\ buffer \in Seq(Chars) /\ Len(buffer) \in Nat
         /\ i \in Nat /\ MaxLabels \in Nat
         /\ \A k \in 1..Len(file) : file[k] # Newline => file[k] \in Chars
         /\ \A k \in 1..Len(buffer) : buffer[k] \in Chars /\ buffer[k] # Newline
<1>1. file \in Seq(Chars \cup {Newline}) /\ buffer \in Seq(Chars)
  BY LabelsAssumption DEF TypeInv
<1>2. \A k \in 1..Len(file) : file[k] \in Chars \cup {Newline}
  BY <1>1
<1>3. \A k \in 1..Len(buffer) : buffer[k] \in Chars
  BY <1>1
<1> QED
  BY <1>1, <1>2, <1>3, LabelsAssumption DEF TypeInv

(* As many entries are names as lines were stored.                          *)
LEMMA NamesCounted ==
  ASSUME LabelInv, pc # "freed" PROVE Cardinality(Named) = i
<1>1. i \in 0..MaxLabels /\ MaxLabels \in Nat
  BY LabelsAssumption DEF LabelInv, TypeInv
<1>2. Named = 0..(i - 1)
  BY <1>1 DEF LabelInv, TypeInv, Stored, Named, Entries
<1>3. Cardinality(0..(i - 1)) = i
  BY <1>1, FS_Interval
<1> QED
  BY <1>2, <1>3

(* What leaves the names alone and accounts for the block of the line being *)
(* read keeps what is stored: when a line is given up its block is freed.   *)
LEMMA NamesKept ==
  ASSUME LabelInv, pc # "freed", pc' # "freed", UNCHANGED <<file, list>>,
         blocks' = i + (IF pc' = "fgetc" THEN 1 ELSE 0)
  PROVE  Stored'
<1>1. i' = i /\ labels' = labels /\ file' = file /\ i \in Nat
  BY FileTypes DEF LabelInv, list
<1>2. /\ \A k \in Entries : labels[k] # Null <=> k < i
      /\ \A k \in Entries : labels[k] # Null => HasLine(k) /\ IsLine(k, labels[k])
  BY DEF LabelInv, Stored
<1>3. \A k \in Entries : labels'[k] # Null <=> k < i'
  BY <1>1, <1>2
<1>4. \A k \in Entries : labels'[k] # Null => HasLine(k)' /\ IsLine(k, labels[k])'
  <2> SUFFICES ASSUME NEW k \in Entries, labels'[k] # Null
               PROVE  HasLine(k)' /\ IsLine(k, labels[k])'
    OBVIOUS
  <2>1. HasLine(k) /\ IsLine(k, labels[k])
    BY <1>1, <1>2
  <2>2. HasLine(k)'
    BY <1>1, <2>1 DEF HasLine, NewlinesUpTo
  <2>3. IsLine(k, labels[k])'
    BY <1>1, <2>1 DEF IsLine, NewlinesUpTo
  <2> QED
    BY <2>2, <2>3
<1>5. pc' # "freed" /\ blocks' = i' + (IF pc' = "fgetc" THEN 1 ELSE 0)
  BY <1>1
<1> QED
  BY <1>3, <1>4, <1>5, Zenon DEF Stored

(* A character of the line is read, and appended if there is memory for it. *)
LEMMA GetcStep ==
  ASSUME LabelInv, Getc PROVE LabelInv'
<1> USE DEF LabelInv
<1>0. /\ file' = file /\ pc = "fgetc" /\ pos' = pos + 1 /\ pos < Len(file)
      /\ file[pos + 1] # Newline /\ UNCHANGED list
  BY DEF Getc, AtNewline, GiveUp
<1>1. pos' \in 0..Len(file') /\ pos' \in Nat
  BY <1>0, FileTypes
<1>2. CASE buffer' = Append(buffer, file[pos + 1]) /\ UNCHANGED <<pc, list, blocks, failed>>
  <2>1. file[pos + 1] \in Chars
    BY <1>0, FileTypes
  <2>2. /\ buffer' \in Seq(Chars) /\ Len(buffer') = Len(buffer) + 1
        /\ \A k \in 1..Len(buffer) : buffer'[k] = buffer[k]
        /\ buffer'[Len(buffer) + 1] = file[pos + 1]
    BY <1>2, <2>1, FileTypes
  <2>3. TypeInv'
    BY <1>0, <1>1, <1>2, <2>2 DEF TypeInv, list
  <2>4. PartOfLine
    BY <1>0 DEF Reading, LastTaken
  <2>5. pos' - Len(buffer') = pos - Len(buffer)
    BY <1>0, <2>2, FileTypes
  <2>6. \A k \in 1..Len(buffer') : buffer'[k] = file[pos - Len(buffer) + k]
    <3>1. TAKE k \in 1..Len(buffer')
    <3>2. k \in 1..Len(buffer) \/ k = Len(buffer) + 1
      BY <2>2, FileTypes
    <3>3. CASE k \in 1..Len(buffer)
      BY <2>2, <2>4, <3>3 DEF PartOfLine
    <3>4. CASE k = Len(buffer) + 1
      <4>1. pos - Len(buffer) + k = pos + 1
        BY <3>4, FileTypes
      <4> QED
        BY <2>2, <3>4, <4>1
    <3> QED
      BY <3>2, <3>3, <3>4
  <2>7. NewlinesUpTo(pos + 1) = NewlinesUpTo(pos)
    BY <1>0, Counting, FileTypes
  <2>8. PartOfLine'
    BY <1>0, <1>2, <2>4, <2>5, <2>6, <2>7
       DEF PartOfLine, LineStart, NewlinesUpTo, list
  <2>9. Reading'
    BY <1>0, <1>2, <2>8 DEF Reading, list
  <2>10. Stored'
    BY <1>0, <1>2 DEF Stored, list, HasLine, IsLine, NewlinesUpTo, TypeInv
  <2> QED
    BY <2>3, <2>9, <2>10
<1>3. CASE GiveUp /\ failed' = TRUE /\ UNCHANGED buffer
  <2>1. pc' = "close" /\ blocks' = i
    <3>1. blocks = i + 1
      BY <1>0 DEF Stored
    <3> QED
      BY <1>3, <3>1, FileTypes DEF GiveUp
  <2>2. TypeInv'
    BY <1>0, <1>1, <1>3, <2>1 DEF TypeInv, list
  <2>3. Reading'
    BY <1>3, <2>1 DEF Reading
  <2>4. Stored'
    BY <1>0, <1>3, <2>1, NamesKept DEF GiveUp
  <2> QED
    BY <2>2, <2>3, <2>4
<1> QED
  BY <1>2, <1>3 DEF Getc

(* At the end of the file every line is a name.                             *)
LEMMA AllLinesRead ==
  ASSUME LabelInv, pc = "fgetc", buffer = <<>>, pos = Len(file)
  PROVE  \A c \in Entries : HasLine(c) => c < i
<1> USE DEF LabelInv
<1>1. NewlinesUpTo(Len(file)) \in Nat /\ i \in Nat
  BY Counting, FileTypes
<1>2. CASE LastTaken
  BY <1>1, <1>2 DEF LastTaken, HasLine, Entries
<1>3. CASE PartOfLine
  <2>1. Len(buffer) = 0 /\ pos - Len(buffer) = Len(file)
    BY FileTypes
  <2>2. NewlinesUpTo(Len(file)) = i
        /\ (Len(file) = 0 \/ file[Len(file)] = Newline)
    BY <1>3, <2>1 DEF PartOfLine, LineStart
  <2>3. Len(file) = 0 => file = <<>>
    BY FileTypes
  <2> QED
    BY <1>1, <2>2, <2>3 DEF HasLine, Entries
<1> QED
  BY <1>2, <1>3 DEF Reading

(* The line that has been read is line i of the file.                       *)
LEMMA LineRead ==
  ASSUME LabelInv, PartOfLine, pc = "fgetc",
         AtNewline \/ (pos = Len(file) /\ buffer # <<>>)
  PROVE  IsLine(i, buffer) /\ HasLine(i)
<1> USE DEF LabelInv
<1> DEFINE p == pos - Len(buffer)
<1>1. /\ p \in Nat /\ p <= pos /\ p + Len(buffer) = pos /\ pos <= Len(file)
      /\ LineStart(p) /\ NewlinesUpTo(pos) = i
      /\ \A k \in 1..Len(buffer) : buffer[k] = file[p + k]
  BY FileTypes DEF PartOfLine
<1> HIDE DEF p
<1>2. buffer = SubSeq(file, p + 1, p + Len(buffer))
  <2>1. buffer \in Seq(Chars \cup {Newline}) /\ file \in Seq(Chars \cup {Newline})
    BY FileTypes
  <2>2. p + Len(buffer) <= Len(file)
    BY <1>1
  <2> QED
    BY <1>1, <2>1, <2>2, PartIsSubSeq
<1>3. pos = Len(file) \/ file[pos + 1] = Newline
  BY DEF AtNewline
<1>4. IsLine(i, buffer)
  <2>1. p \in 0..Len(file)
    BY <1>1, FileTypes
  <2> QED
    BY <1>1, <1>2, <1>3, <2>1 DEF IsLine, LineStart
<1>5. HasLine(i)
  <2>1. CASE AtNewline
    <3>1. pos < Len(file) /\ file[pos + 1] = Newline /\ pos + 1 \in Nat
      BY <2>1, FileTypes DEF AtNewline
    <3>2. NewlinesUpTo(pos + 1) = i + 1
      BY <1>1, <3>1, Counting, FileTypes
    <3>3. NewlinesUpTo(pos + 1) <= NewlinesUpTo(Len(file))
          /\ NewlinesUpTo(Len(file)) \in Nat
      BY <3>1, Counting, FileTypes, SMTT(30)
    <3> QED
      BY <3>2, <3>3, FileTypes DEF HasLine
  <2>2. CASE pos = Len(file) /\ buffer # <<>>
    <3>1. Len(buffer) \in 1..Len(buffer) /\ p + Len(buffer) = Len(file)
      BY <1>1, <2>2, FileTypes
    <3>2. file[Len(file)] # Newline /\ Len(file) # 0
      BY <1>1, <3>1, FileTypes
    <3>3. file # <<>>
      BY <3>2
    <3> QED
      BY <1>1, <2>2, <3>2, <3>3 DEF HasLine
  <2> QED
    BY <2>1, <2>2
<1> QED
  BY <1>4, <1>5

(* What follows a line: its name is stored at its own index, or the reading *)
(* ends, and the next line begins where this one ended.                     *)
LEMMA EndOfLineStep ==
  ASSUME LabelInv, EndOfLine PROVE LabelInv'
<1> USE DEF LabelInv
<1>1. PICK ch \in {"newline", "eof", "error"} :
        /\ ch = "newline" => AtNewline
        /\ ch = "eof" => pos = Len(file)
        /\ pos' = IF ch = "newline" THEN pos + 1 ELSE pos
        /\ failed' = (failed \/ ch = "error")
        /\ IF Ends(ch)
             THEN GiveUp
             ELSE /\ labels' = [k \in DOMAIN labels \cup {i} |->
                                  IF k = i THEN buffer ELSE labels[k]]
                  /\ i' = i + 1
                  /\ pc' = IF Full(i + 1) THEN "close" ELSE "malloc"
                  /\ UNCHANGED blocks
  BY DEF EndOfLine
<1>2. /\ pc = "fgetc" /\ UNCHANGED <<file, buffer>> /\ i < MaxLabels
      /\ PartOfLine \/ (LastTaken /\ buffer = <<>>)
      /\ blocks = i + 1
  BY DEF EndOfLine, Reading, Stored
<1>3. pos' \in 0..Len(file') /\ pos' \in Nat
  BY <1>1, <1>2, FileTypes DEF AtNewline
<1>4. failed' \in BOOLEAN
  BY <1>1 DEF TypeInv
<1>5. CASE Ends(ch)
  <2>1. pc' = "close" /\ blocks' = i /\ UNCHANGED list
    BY <1>1, <1>2, <1>5, FileTypes DEF GiveUp
  <2>2. TypeInv'
    BY <1>2, <1>3, <1>4, <2>1 DEF TypeInv, list
  <2>3. failed' = FALSE => buffer = <<>> /\ pos = Len(file)
    BY <1>1, <1>5 DEF Ends
  <2>4. failed' = FALSE => \A c \in Entries : HasLine(c) => c < i
    BY <1>2, <2>3, AllLinesRead
  <2>5. Reading'
    BY <1>2, <2>1, <2>4 DEF Reading, list, HasLine, NewlinesUpTo
  <2>6. Stored'
    <3>1. pc # "freed" /\ pc' # "freed" /\ UNCHANGED <<file, list>>
          /\ blocks' = i + (IF pc' = "fgetc" THEN 1 ELSE 0)
      BY <1>2, <2>1, FileTypes
    <3> QED
      BY <3>1, NamesKept
  <2> QED
    BY <2>2, <2>5, <2>6
<1>6. CASE ~Ends(ch)
  <2>1. /\ i \in Entries /\ i' = i + 1 /\ blocks' = blocks
        /\ pc' = IF i + 1 >= MaxLabels THEN "close" ELSE "malloc"
        /\ labels' = [k \in Entries |-> IF k = i THEN buffer ELSE labels[k]]
    <3>1. i \in Entries
      BY <1>2, FileTypes DEF Entries
    <3>2. DOMAIN labels \cup {i} = Entries
      BY <3>1 DEF TypeInv
    <3> QED
      BY <1>1, <1>6, <3>1, <3>2 DEF Full
  <2>2. \/ ch = "newline" /\ AtNewline
        \/ ch = "eof" /\ pos = Len(file) /\ buffer # <<>>
    <3>1. ch = "newline" \/ (buffer # <<>> /\ ch # "error")
      BY <1>6, Zenon DEF Ends
    <3>2. (ch = "newline" => AtNewline) /\ (ch = "eof" => pos = Len(file))
      BY <1>1, Zenon
    <3>3. ch = "newline" \/ ch = "eof" \/ ch = "error"
      BY Zenon
    <3> QED
      BY <3>1, <3>2, <3>3
  <2>3. PartOfLine
    BY <1>2, <2>2 DEF LastTaken, AtNewline
  <2>4. IsLine(i, buffer) /\ HasLine(i)
    BY <1>2, <2>2, <2>3, LineRead
  <2>5. TypeInv'
    BY <1>2, <1>3, <1>4, <2>1, FileTypes DEF TypeInv, Entries
  <2>6. ASSUME ch = "newline" PROVE LineStart(pos)'
    <3>1. pos' = pos + 1 /\ file[pos + 1] = Newline
      BY <1>1, <2>2, <2>6 DEF AtNewline
    <3>2. NewlinesUpTo(pos + 1) = i + 1
      BY <2>3, <3>1, Counting, FileTypes DEF PartOfLine
    <3>3. LineStart(pos)'
      BY <1>2, <2>1, <3>1, <3>2 DEF LineStart, NewlinesUpTo
    <3> QED
      BY <3>3
  <2>7. ASSUME ch = "eof" PROVE LastTaken'
    <3>1. pos' = pos /\ pos = Len(file) /\ buffer # <<>>
      BY <1>1, <2>2, <2>7
    <3>2. Len(buffer) \in 1..Len(buffer)
      BY <3>1, FileTypes
    <3>3. pos - Len(buffer) + Len(buffer) = pos
      BY FileTypes
    <3>4. file[pos] # Newline /\ pos > 0 /\ NewlinesUpTo(pos) = i
      <4>1. buffer[Len(buffer)] = file[pos - Len(buffer) + Len(buffer)]
        BY <2>3, <3>2 DEF PartOfLine
      <4>2. buffer[Len(buffer)] # Newline
        BY <3>2, FileTypes
      <4>3. pos >= Len(buffer) /\ Len(buffer) >= 1
        BY <2>3, <3>2, FileTypes DEF PartOfLine
      <4> QED
        BY <2>3, <3>3, <4>1, <4>2, <4>3, FileTypes DEF PartOfLine
    <3>5. NewlinesUpTo(pos)' = NewlinesUpTo(pos) /\ file' = file
      BY <1>2, <3>1 DEF NewlinesUpTo
    <3>6. pos' = Len(file') /\ pos' > 0 /\ file'[pos'] # Newline
      BY <3>1, <3>4, <3>5
    <3>7. NewlinesUpTo(pos)' = i' - 1
      BY <2>1, <3>4, <3>5, FileTypes
    <3> QED
      BY <3>6, <3>7, Zenon DEF LastTaken
  <2>8. Reading'
    <3>1. pc' = "malloc" => i' < MaxLabels /\ (LineStart(pos)' \/ LastTaken')
      BY <2>1, <2>2, <2>6, <2>7, FileTypes
    <3>2. pc' = "close" => \A c \in Entries : c < i'
      BY <2>1, FileTypes DEF Entries
    <3> QED
      BY <2>1, <3>1, <3>2 DEF Reading
  <2>9. Stored'
    <3>1. \A k \in Entries : labels'[k] # Null <=> k < i'
      <4>1. buffer # Null
        BY LabelsAssumption, FileTypes
      <4>2. \A k \in Entries : labels[k] # Null <=> k < i
        BY <1>2 DEF Stored
      <4> QED
        BY <2>1, <4>1, <4>2, FileTypes DEF Entries
    <3>2. \A k \in Entries : labels'[k] # Null => HasLine(k) /\ IsLine(k, labels'[k])
      BY <2>1, <2>4 DEF Stored
    <3>3. \A k \in Entries : labels'[k] # Null => HasLine(k)' /\ IsLine(k, labels[k])'
      BY <1>2, <3>2 DEF HasLine, IsLine, NewlinesUpTo
    <3> QED
      BY <1>2, <2>1, <3>1, <3>3 DEF Stored
  <2> QED
    BY <2>5, <2>8, <2>9
<1> QED
  BY <1>5, <1>6

(* Every step of loadLabelName, readLine and deinit_post_process keeps      *)
(* names and blocks accounted for.                                          *)
LEMMA LabelInvStep == LabelInv /\ [Next]_vars => LabelInv'
<1> SUFFICES ASSUME LabelInv, [Next]_vars PROVE LabelInv'
  OBVIOUS
<1> USE DEF LabelInv
<1>1. CASE Open
  <2>1. UNCHANGED <<file, pos, buffer, list, blocks>>
        /\ (pc' = "malloc" \/ (pc' = "ready" /\ failed' = TRUE))
    BY <1>1 DEF Open
  <2>2. TypeInv'
    BY <1>1, <2>1 DEF Open, TypeInv, list
  <2>3. NewlinesUpTo(0) = 0
    BY Counting
  <2>4. Reading'
    BY <1>1, <2>1, <2>3, LabelsAssumption
       DEF Open, Reading, LineStart, NewlinesUpTo, list
  <2>5. pc = "open" /\ blocks' = i
    BY <1>1, <2>1, FileTypes DEF Open, Stored
  <2>6. Stored'
    BY <2>1, <2>5, FileTypes, NamesKept
  <2> QED
    BY <2>2, <2>4, <2>6
<1>2. CASE Malloc
  <2>1. UNCHANGED <<file, pos, list>> /\ pc = "malloc"
    BY <1>2 DEF Malloc
  <2>2. CASE pc' = "fgetc" /\ blocks' = blocks + 1 /\ buffer' = <<>> /\ UNCHANGED failed
    <3>1. <<>> \in Seq(Chars) /\ Len(<<>>) = 0 /\ pos - 0 = pos /\ pos >= 0
      BY FileTypes
    <3>2. TypeInv'
      BY <2>1, <2>2, <3>1 DEF TypeInv, list
    <3>3. LineStart(pos) => PartOfLine'
      <4>1. Len(buffer') = 0 /\ pos' - Len(buffer') = pos /\ pos >= 0
        BY <2>1, <2>2, <3>1
      <4>2. UNCHANGED <<file, i>>
        BY <2>1 DEF list
      <4>3. \A k \in 1..Len(buffer') : FALSE
        BY <4>1
      <4> QED
        BY <2>1, <4>1, <4>2, <4>3 DEF LineStart, PartOfLine, NewlinesUpTo
    <3>4. LastTaken => LastTaken' /\ buffer' = <<>>
      BY <2>1, <2>2 DEF LastTaken, NewlinesUpTo, list
    <3>5. Reading'
      BY <2>1, <2>2, <3>3, <3>4 DEF Reading, list
    <3>6. blocks' = i + 1
      BY <2>1, <2>2, FileTypes DEF Stored
    <3>7. Stored'
      BY <2>1, <2>2, <3>6, NamesKept
    <3> QED
      BY <3>2, <3>5, <3>7
  <2>3. CASE pc' = "close" /\ failed' = TRUE /\ UNCHANGED <<buffer, blocks>>
    <3>1. TypeInv' /\ Reading'
      BY <2>1, <2>3 DEF TypeInv, Reading, list
    <3>2. blocks' = i
      BY <2>1, <2>3, FileTypes DEF Stored
    <3>3. Stored'
      BY <2>1, <2>3, <3>2, FileTypes, NamesKept
    <3> QED
      BY <3>1, <3>3
  <2> QED
    BY <1>2, <2>2, <2>3 DEF Malloc
<1>3. CASE Getc
  BY <1>3, GetcStep
<1>4. CASE EndOfLine
  BY <1>4, EndOfLineStep
<1>5. CASE Close
  <2>1. /\ pc = "close" /\ pc' = "ready"
        /\ UNCHANGED <<file, pos, buffer, list, blocks, failed>>
    BY <1>5 DEF Close
  <2>2. TypeInv'
    BY <2>1 DEF TypeInv, list
  <2>3. Reading'
    BY <2>1 DEF Reading, HasLine, NewlinesUpTo, list
  <2>4. blocks' = i
    BY <2>1, FileTypes DEF Stored
  <2>5. Stored'
    BY <2>1, <2>4, FileTypes, NamesKept
  <2> QED
    BY <2>2, <2>3, <2>5
<1>6. CASE Deinit_post_process
  <2>1. /\ pc = "ready" /\ pc' = "freed" /\ UNCHANGED <<file, pos, buffer, i, failed>>
        /\ blocks' = blocks - Cardinality(Named)
        /\ labels' = [k \in Entries |-> Null]
    BY <1>6 DEF Deinit_post_process, TypeInv
  <2>2. blocks = i /\ Cardinality(Named) = i
    <3>1. blocks = i
      BY <2>1, FileTypes DEF Stored
    <3> QED
      BY <2>1, <3>1, NamesCounted
  <2>3. blocks' = 0
    BY <2>1, <2>2, FileTypes
  <2>4. TypeInv' /\ Reading'
    BY <2>1 DEF TypeInv, Reading
  <2>5. Stored'
    BY <2>1, <2>3 DEF Stored
  <2> QED
    BY <2>4, <2>5
<1>7. CASE UNCHANGED vars
  <2>1. UNCHANGED <<pc, file, pos, buffer, i, labels, list, blocks, failed>>
    BY <1>7 DEF vars, list
  <2>2. TypeInv'
    BY <2>1 DEF TypeInv
  <2>3. Reading'
    <3>1. LineStart(pos)' <=> LineStart(pos)
      BY <2>1 DEF LineStart, NewlinesUpTo
    <3>2. LastTaken' <=> LastTaken
      BY <2>1 DEF LastTaken, NewlinesUpTo
    <3>3. PartOfLine' <=> PartOfLine
      BY <2>1 DEF PartOfLine, LineStart, NewlinesUpTo
    <3>4. (\A c \in Entries : HasLine(c) => c < i)'
              <=> \A c \in Entries : HasLine(c) => c < i
      BY <2>1 DEF HasLine, NewlinesUpTo
    <3> QED
      BY <2>1, <3>1, <3>2, <3>3, <3>4 DEF Reading, LineStart, NewlinesUpTo
  <2>4. Stored'
    <3>1. CASE pc # "freed"
      BY <2>1, <3>1, FileTypes, NamesKept DEF Stored
    <3>2. CASE pc = "freed"
      BY <2>1, <3>2 DEF Stored
    <3> QED
      BY <3>1, <3>2
  <2> QED
    BY <2>2, <2>3, <2>4
<1> QED
  BY <1>1, <1>2, <1>3, <1>4, <1>5, <1>6, <1>7 DEF Next

(* The invariant of the reading loop holds in every state.                  *)
LEMMA LabelInvariant == Spec => []LabelInv
  BY LabelInvInit, LabelInvStep, PTL DEF Spec

(* For every label file and any failures: a class has the name on its own   *)
(* line, whole, or none, nothing is written behind labels[], and without a  *)
(* failure every class that has a line has a name.                          *)
THEOREM NamesCorrect == Spec => []NamesAreTheLines
<1>1. LabelInv => NamesAreTheLines
  <2> SUFFICES ASSUME LabelInv PROVE NamesAreTheLines
    OBVIOUS
  <2>1. DOMAIN labels = Entries
    BY DEF LabelInv, TypeInv
  <2>2. ASSUME NEW c \in Named PROVE HasLine(c) /\ IsLine(c, Coco_cls_to_name(c))
    <3>1. c \in Entries /\ labels[c] # Null
      BY <2>1, <2>2 DEF Named
    <3>2. ~(c >= MaxLabels)
      BY <3>1, LabelsAssumption DEF Entries
    <3>3. Coco_cls_to_name(c) = labels[c]
      BY <3>2 DEF Coco_cls_to_name
    <3> QED
      BY <3>1, <3>3 DEF LabelInv, Stored
  <2>3. ASSUME pc = "ready", ~failed, NEW c \in Entries, HasLine(c) PROVE c \in Named
    <3>1. failed = FALSE
      BY <2>3 DEF LabelInv, TypeInv
    <3>2. c < i
      BY <2>3, <3>1 DEF LabelInv, Reading
    <3> QED
      BY <2>1, <2>3, <3>2 DEF LabelInv, Stored, Named
  <2> QED
    BY <2>1, <2>2, <2>3 DEF NamesAreTheLines
<1> QED
  BY <1>1, LabelInvariant, PTL

(* Every block is a name or the line being read, whichever step fails, and  *)
(* deinit_post_process leaves none.                                         *)
THEOREM BlocksAccounted == Spec => []NoBlockIsLost
<1>1. LabelInv => NoBlockIsLost
  <2> SUFFICES ASSUME LabelInv PROVE NoBlockIsLost
    OBVIOUS
  <2>1. CASE pc # "freed"
    BY <2>1, NamesCounted DEF LabelInv, Stored, NoBlockIsLost
  <2>2. CASE pc = "freed"
    <3>1. Named = {} /\ blocks = 0
      BY <2>2 DEF LabelInv, Stored, TypeInv, Named
    <3>2. Cardinality(Named) = 0
      BY <3>1, FS_EmptySet
    <3> QED
      BY <2>2, <3>1, <3>2 DEF NoBlockIsLost
  <2> QED
    BY <2>1, <2>2
<1> QED
  BY <1>1, LabelInvariant, PTL
=============================================================================
