-------------------------------- MODULE Labels --------------------------------
(***************************************************************************)
(* The class names of src/postprocess.cc.  init_post_process reads one     *)
(* name per line of a text file into labels[] (loadLabelName, readLines,   *)
(* readLine), coco_cls_to_name looks them up while main draws, and         *)
(* deinit_post_process, which main has behind its endless loop, frees      *)
(* them.  Opening, reading and allocating may each fail; loadLabelName     *)
(* returns 0 all the same, so a failure shows in the names only.           *)
(***************************************************************************)
EXTENDS Integers, Sequences, FiniteSets

CONSTANTS
  Chars,      \* characters of names
  Newline,
  Files,      \* contents the label file may have
  MaxLabels,  \* OBJ_CLASS_NUM
  Null        \* a null entry of labels[]

ASSUME LabelsAssumption ==
  /\ Newline \notin Chars
  /\ Files \subseteq Seq(Chars \cup {Newline})
  /\ MaxLabels \in Nat \ {0}
  /\ Null \notin Seq(Chars)

VARIABLES
  pc,       \* "open", "malloc", "fgetc", "close", "ready", "freed"
  file,     \* the contents of the file
  pos,      \* characters read
  buffer,   \* readLine: characters stored
  i,        \* readLines: labels stored
  labels,
  blocks,   \* allocated blocks
  failed    \* history: something failed

list == <<i, labels>>
vars == <<pc, file, pos, buffer, list, blocks, failed>>

Entries == 0..(MaxLabels - 1)

Init ==
  /\ pc = "open" /\ file \in Files /\ pos = 0
  /\ buffer = <<>>
  /\ i = 0 /\ labels = [k \in Entries |-> Null]
  /\ blocks = 0 /\ failed = FALSE

(* fopen.  A file that cannot be opened leaves all names null.              *)
Open ==
  /\ pc = "open"
  /\ \/ pc' = "malloc" /\ UNCHANGED failed
     \/ pc' = "ready" /\ failed' = TRUE
  /\ UNCHANGED <<file, pos, buffer, list, blocks>>

(* readLine begins with room for the terminator; when it returns null       *)
(* readLines stops.                                                         *)
Malloc ==
  /\ pc = "malloc"
  /\ \/ /\ pc' = "fgetc" /\ blocks' = blocks + 1
        /\ buffer' = <<>>
        /\ UNCHANGED failed
     \/ pc' = "close" /\ failed' = TRUE /\ UNCHANGED <<buffer, blocks>>
  /\ UNCHANGED <<file, pos, list>>

AtNewline == pos < Len(file) /\ file[pos + 1] = Newline

(* A line is given up: its block is freed (mutant: it is not).              *)
GiveUp_Leaks == pc' = "close" /\ UNCHANGED <<list, blocks>>
GiveUp == pc' = "close" /\ blocks' = blocks - 1 /\ UNCHANGED list

(* A character of the line: the buffer grows by one byte and takes it, or   *)
(* there is no memory.                                                      *)
Getc ==
  /\ pc = "fgetc" /\ pos < Len(file) /\ ~AtNewline
  /\ pos' = pos + 1
  /\ \/ /\ buffer' = Append(buffer, file[pos + 1])
        /\ UNCHANGED <<pc, list, blocks, failed>>
     \/ GiveUp /\ failed' = TRUE /\ UNCHANGED buffer
  /\ UNCHANGED file

(* ch == EOF && (i == 0 || ferror(fp)).                                     *)
Ends_NoFerror(ch) == ch # "newline" /\ buffer = <<>>    \* mutant
Ends(ch) == ch # "newline" /\ (buffer = <<>> \/ ch = "error")

(* The loop of readLines after a line.                                      *)
Full(n) == n >= MaxLabels

(* readLine's loop is over: by a newline, at the end of the file, or by a   *)
(* read error, which fgetc reports as EOF too.  The terminator is written,  *)
(* and the line is either given up or becomes the next label.               *)
EndOfLine ==
  /\ pc = "fgetc"
  /\ \E ch \in {"newline", "eof", "error"} :
       /\ ch = "newline" => AtNewline
       /\ ch = "eof" => pos = Len(file)
       /\ pos' = IF ch = "newline" THEN pos + 1 ELSE pos
       /\ failed' = (failed \/ ch = "error")
       /\ IF Ends(ch)
            THEN GiveUp
            ELSE /\ labels' = [k \in DOMAIN labels \cup {i} |->
                                 IF k = i THEN buffer ELSE labels[k]]
                 /\ i' = i + 1
                 /\ pc' = IF Full(i + 1) THEN "close" ELSE "malloc"
                 /\ UNCHANGED blocks
  /\ UNCHANGED <<file, buffer>>

Close ==
  /\ pc = "close" /\ pc' = "ready"
  /\ UNCHANGED <<file, pos, buffer, list, blocks, failed>>

Named == {k \in DOMAIN labels : labels[k] # Null}

(* deinit_post_process.                                                     *)
Deinit_post_process ==
  /\ pc = "ready" /\ pc' = "freed"
  /\ blocks' = blocks - Cardinality(Named)
  /\ labels' = [k \in DOMAIN labels |-> Null]
  /\ UNCHANGED <<file, pos, buffer, i, failed>>

Next == Open \/ Malloc \/ Getc \/ EndOfLine \/ Close \/ Deinit_post_process

Spec == Init /\ [][Next]_vars

(* What coco_cls_to_name prints for a class id; "null" is a string of its   *)
(* own and cannot be told from a null entry here.                           *)
Coco_cls_to_name(cls_id) ==
  IF cls_id >= MaxLabels THEN Null ELSE labels[cls_id]

-----------------------------------------------------------------------------
(* Properties.                                                              *)

(* Reference, by counting: the line of class c begins behind c newlines and *)
(* extends to the next newline or to the end of the file; the last line     *)
(* needs no newline, unless it is empty.                                    *)
NewlinesUpTo(p) == Cardinality({q \in 1..p : file[q] = Newline})

IsLine(c, s) ==
  \E p \in 0..Len(file) :
    LET end == p + Len(s)
    IN  /\ NewlinesUpTo(p) = c /\ (p = 0 \/ file[p] = Newline)
        /\ end <= Len(file) /\ s = SubSeq(file, p + 1, end)
        /\ end = Len(file) \/ file[end + 1] = Newline

HasLine(c) ==
  \/ c < NewlinesUpTo(Len(file))
  \/ /\ c = NewlinesUpTo(Len(file))
     /\ file # <<>> /\ file[Len(file)] # Newline

(* A class has the name on its own line of the file, whole, or no name: an  *)
(* error in the middle of the file leaves no part of a line behind and      *)
(* shifts no other name, and a long file writes nothing behind labels[].    *)
(* Without a failure every class that has a line has a name, whether the    *)
(* file ends with a newline or not.                                         *)
NamesAreTheLines ==
  /\ DOMAIN labels = Entries
  /\ \A c \in Named : HasLine(c) /\ IsLine(c, Coco_cls_to_name(c))
  /\ pc = "ready" /\ ~failed => {c \in Entries : HasLine(c)} \subseteq Named

(* Every allocated block is a label or the line being read, so nothing is   *)
(* lost where reading stops, and deinit_post_process frees everything.      *)
NoBlockIsLost ==
  blocks = Cardinality(Named) + (IF pc = "fgetc" THEN 1 ELSE 0)
=============================================================================
