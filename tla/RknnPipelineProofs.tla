-------------------------- MODULE RknnPipelineProofs --------------------------
(***************************************************************************)
(* Proofs about RknnPipeline, for every number of frames and every choice  *)
(* of the library's outcomes.                                              *)
(***************************************************************************)
EXTENDS RknnPipeline, TLAPS

-----------------------------------------------------------------------------
(* Types.  rknn_thread indexes the queue only once idx has been set, and    *)
(* reads the second half of a picture only of a Mat that has data.          *)
IndexSet == /\ rpc # "scan" => idx \in Slots
            /\ rpc = "copy_bottom" => temp_image # Empty

TypeInv == TypeOK /\ IndexSet

(* The types, and that idx is set when it is used, in every state.          *)
LEMMA TypeInvInvariant == Spec => []TypeInv
<1>1. Init => TypeInv
  BY ConstantsAssumption
     DEF Init, TypeInv, IndexSet, TypeOK, Slots, Frames, Mats, Empty, Unset,
         Lists, Cells, Zeros
<1>2. TypeInv /\ [Next]_vars => TypeInv'
  <2> SUFFICES ASSUME TypeInv, [Next]_vars PROVE TypeInv'
    OBVIOUS
  <2> USE ConstantsAssumption DEF TypeInv, IndexSet, TypeOK
  <2>1. CASE Main
    <3>1. CASE GetChnFrame
      BY <3>1 DEF GetChnFrame, shared, rknn, Frames
    <3>2. CASE LetterboxClear
      BY <3>2 DEF LetterboxClear, rknn
    <3>3. CASE LetterboxResize
      BY <3>3 DEF LetterboxResize, LetterboxResult, shared, rknn, Frames, Mats,
                  DstBuf, Empty, Slots
    <3>4. CASE QueueAddScan
      BY <3>4 DEF QueueAddScan, shared, rknn, Slots
    <3>5. CASE QueueAddDropOld
      BY <3>5 DEF QueueAddDropOld, rknn, Mats, Empty
    <3>6. CASE QueueAddAssign
      BY <3>6 DEF QueueAddAssign, rknn
    <3>7. CASE QueueAddFlag
      BY <3>7 DEF QueueAddFlag, rknn, Slots
    <3>8. CASE ResultGetScan
      BY <3>8 DEF ResultGetScan, shared, rknn, Slots
    <3>9. CASE ResultGetCopyCount
      BY <3>9 DEF ResultGetCopyCount, shared, rknn, Lists
    <3>10. CASE ResultGetCopyResults
      BY <3>10 DEF ResultGetCopyResults, shared, rknn, Lists
    <3>11. CASE ResultGetTake
      BY <3>11 DEF ResultGetTake, rknn
    <3>12. CASE DrawResult
      BY <3>12 DEF DrawResult, shared, rknn, Mats, Empty
    <3>13. CASE ReleaseChnFrame
      BY <3>13 DEF ReleaseChnFrame, shared, rknn
    <3> QED
      BY <2>1, <3>1, <3>2, <3>3, <3>4, <3>5, <3>6, <3>7, <3>8, <3>9, <3>10,
         <3>11, <3>12, <3>13 DEF Main
  <2>2. CASE Rknn
    <3>1. CASE RknnScan
      BY <3>1 DEF RknnScan, ScanEnds, ScanIdx, shared, main, Slots, Unset
    <3>2. CASE RknnCopyHeader
      BY <3>2 DEF RknnCopyHeader, shared, main
    <3>3. CASE RknnAddRef
      BY <3>3 DEF RknnAddRef, shared, main
    <3>4. CASE RknnCopyTop
      BY <3>4 DEF RknnCopyTop, Content, shared, main, Frames, Mats, Empty, DstBuf
    <3>5. CASE RknnCopyBottom
      BY <3>5 DEF RknnCopyBottom, Content, shared, main, Frames, Mats, Empty, DstBuf
    <3>6. CASE RknnRun
      BY <3>6 DEF RknnRun, shared, main
    <3>7. CASE PostZeroCount
      BY <3>7, ZenonT(60) DEF PostZeroCount, Zeros, main, Lists, Cells
    <3>8. CASE PostZeroResults
      BY <3>8, ZenonT(60) DEF PostZeroResults, Zeros, main, Lists, Cells
    <3>9. CASE PostFill
      BY <3>9, ZenonT(60) DEF PostFill, Filled, main, Lists, Cells
    <3>10. CASE PostCount
      BY <3>10, ZenonT(60) DEF PostCount, Filled, main, Lists, Cells
    <3>11. CASE RknnUnflag
      BY <3>11 DEF RknnUnflag, main
    <3>12. CASE RknnDone
      BY <3>12 DEF RknnDone, main, Mats, Empty
    <3> QED
      BY <2>2, <3>1, <3>2, <3>3, <3>4, <3>5, <3>6, <3>7, <3>8, <3>9, <3>10,
         <3>11, <3>12 DEF Rknn
  <2>3. CASE UNCHANGED vars
    BY <2>3 DEF vars, shared, main, rknn
  <2> QED
    BY <2>1, <2>2, <2>3 DEF Next
<1> QED
  BY <1>1, <1>2, PTL DEF Spec

(* Type correctness of the two threads and of what they share.              *)
THEOREM TypeCorrect == Spec => []TypeOK
  BY TypeInvInvariant, PTL DEF TypeInv

-----------------------------------------------------------------------------
(* The queue uses slot 0 only.  OneSlotSuffices is not inductive: that the  *)
(* flag of slot 0 is down when a picture is queued goes back to             *)
(* rkn_result_get at the end of the round before.                           *)
FlagOwned ==
  mpc \notin {"poll", "copy_count", "copy_results", "take"} => resize_ok[0] = 0

SlotZero ==
  /\ mpc \in {"add", "drop_old", "assign", "flag",
              "copy_count", "copy_results", "take"} => mi = 0
  /\ resize_ok[1] = 0 /\ rkndo_ok[1] = 0
  /\ idx # 1

SlotInv == FlagOwned /\ SlotZero

(* Only slot 0 of the queue is in use, in every state.                      *)
LEMMA SlotInvInvariant == Spec => [](TypeInv /\ SlotInv)
<1>1. Init => SlotInv
  BY DEF Init, SlotInv, FlagOwned, SlotZero, Slots, Unset
<1>2. TypeInv /\ SlotInv /\ [Next]_vars => SlotInv'
  <2> SUFFICES ASSUME TypeInv, SlotInv, [Next]_vars PROVE SlotInv'
    OBVIOUS
  <2> USE DEF TypeInv, IndexSet, TypeOK, SlotInv, FlagOwned, SlotZero, Slots
  <2>1. CASE Main
    <3>1. CASE GetChnFrame \/ LetterboxClear \/ LetterboxResize
      BY <3>1 DEF GetChnFrame, LetterboxClear, LetterboxResize, shared, rknn
    <3>2. CASE QueueAddScan \/ QueueAddDropOld \/ QueueAddAssign
      BY <3>2 DEF QueueAddScan, QueueAddDropOld, QueueAddAssign, shared, rknn
    <3>3. CASE QueueAddFlag
      BY <3>3 DEF QueueAddFlag, rknn
    <3>4. CASE ResultGetScan \/ ResultGetCopyCount \/ ResultGetCopyResults
      BY <3>4 DEF ResultGetScan, ResultGetCopyCount, ResultGetCopyResults,
                  shared, rknn
    <3>5. CASE ResultGetTake
      BY <3>5 DEF ResultGetTake, rknn
    <3>6. CASE DrawResult \/ ReleaseChnFrame
      BY <3>6 DEF DrawResult, ReleaseChnFrame, shared, rknn
    <3> QED
      BY <2>1, <3>1, <3>2, <3>3, <3>4, <3>5, <3>6 DEF Main
  <2>2. CASE Rknn
    <3>1. CASE RknnScan
      BY <3>1 DEF RknnScan, ScanEnds, ScanIdx, shared, main, Unset
    <3>2. CASE RknnCopyHeader \/ RknnAddRef \/ RknnCopyTop \/ RknnCopyBottom
                 \/ RknnRun
      BY <3>2 DEF RknnCopyHeader, RknnAddRef, RknnCopyTop, RknnCopyBottom,
                  RknnRun, shared, main
    <3>3. CASE PostZeroCount \/ PostZeroResults \/ PostFill \/ PostCount
      BY <3>3 DEF PostZeroCount, PostZeroResults, PostFill, PostCount, main
    <3>4. CASE RknnUnflag
      BY <3>4 DEF RknnUnflag, main
    <3>5. CASE RknnDone
      BY <3>5 DEF RknnDone, main
    <3> QED
      BY <2>2, <3>1, <3>2, <3>3, <3>4, <3>5 DEF Rknn
  <2>3. CASE UNCHANGED vars
    BY <2>3 DEF vars, shared, main, rknn
  <2> QED
    BY <2>1, <2>2, <2>3 DEF Next
<1> QED
  BY <1>1, <1>2, TypeInvInvariant, PTL DEF Spec

(* The two-slot queue degenerates to slot 0, and rkn_queue_add never fails, *)
(* whatever letterbox(), rknn_run() and the camera do.                      *)
THEOREM OneSlot == Spec => []OneSlotSuffices
<1>1. SlotInv => OneSlotSuffices
  BY DEF SlotInv, FlagOwned, SlotZero, OneSlotSuffices
<1> QED
  BY <1>1, SlotInvInvariant, PTL

-----------------------------------------------------------------------------
(* The first hand-off.  As long as nothing has been published, rknn_thread  *)
(* is past its scan only while main waits in rkn_result_get, so nobody      *)
(* changes the slot, the picture or the frame under it.                     *)
PictureReady ==
  /\ mpc \in {"resize", "add", "drop_old", "assign", "flag", "poll"} =>
       dst_buf = frame
  /\ mpc \in {"add", "drop_old", "assign", "flag", "poll"} =>
       letterboxImage \in {Empty, DstBuf, frame}
  /\ mpc \in {"flag", "poll"} => resizeImages[0] = letterboxImage

MainWaits ==
  /\ mpc \notin {"copy_count", "copy_results", "take", "draw"}
  /\ rpc # "scan" => mpc = "poll"
  /\ rpc = "scan" => idx = Unset

CopyInProgress ==
  /\ rpc \in {"addref", "copy_top", "copy_bottom"} => temp_image = letterboxImage
  /\ rpc = "copy_bottom" => input.top = frame
  /\ rpc \in {"run", "zero_count", "zero_results", "fill", "count"} =>
       input.top = frame /\ input.bottom = frame

HandOff == rkndo_ok[0] = 0 =>
             /\ PictureReady /\ MainWaits /\ CopyInProgress
             /\ letterboxImage # Empty => fault = "none"

(* Every step up to the first result keeps the hand-off clean.              *)
LEMMA HandOffStep ==
  ASSUME TypeInv, SlotInv, HandOff, [Next]_vars
  PROVE  HandOff'
<1> USE ConstantsAssumption
    DEF TypeInv, IndexSet, TypeOK, SlotInv, FlagOwned, SlotZero, Slots,
        HandOff, PictureReady, MainWaits, CopyInProgress
<1>1. CASE Main
  <2>1. CASE GetChnFrame \/ LetterboxClear
    BY <2>1 DEF GetChnFrame, LetterboxClear, shared, rknn
  <2>2. CASE LetterboxResize
    <3>1. fault = "none"
      BY <1>1 DEF Main
    <3> QED
      BY <2>2, <3>1 DEF LetterboxResize, LetterboxResult, shared, rknn
  <2>3. CASE QueueAddScan \/ QueueAddDropOld \/ QueueAddAssign \/ QueueAddFlag
    BY <2>3 DEF QueueAddScan, QueueAddDropOld, QueueAddAssign, QueueAddFlag,
                shared, rknn
  <2>4. CASE ResultGetScan
    BY <2>4 DEF ResultGetScan, shared, rknn
  <2>5. CASE ResultGetCopyCount \/ ResultGetCopyResults \/ ResultGetTake
               \/ DrawResult
    BY <2>5 DEF ResultGetCopyCount, ResultGetCopyResults, ResultGetTake,
                DrawResult, shared, rknn
  <2>6. CASE ReleaseChnFrame
    BY <2>6 DEF ReleaseChnFrame, shared, rknn
  <2> QED
    BY <1>1, <2>1, <2>2, <2>3, <2>4, <2>5, <2>6 DEF Main
<1>2. CASE Rknn
  <2>1. CASE RknnScan
    BY <2>1 DEF RknnScan, ScanEnds, ScanIdx, shared, main, Unset
  <2>2. CASE RknnCopyHeader
    BY <2>2 DEF RknnCopyHeader, shared, main
  <2>3. CASE RknnAddRef
    BY <2>3 DEF RknnAddRef, Owned, shared, main
  <2>4. CASE RknnCopyTop
    BY <2>4 DEF RknnCopyTop, Content, shared, main, Empty, DstBuf, Frames
  <2>5. CASE RknnCopyBottom
    BY <2>5 DEF RknnCopyBottom, Content, shared, main, Empty, DstBuf, Frames
  <2>6. CASE RknnRun
    BY <2>6 DEF RknnRun, shared, main
  <2>7. CASE PostZeroCount \/ PostZeroResults \/ PostFill \/ PostCount
    BY <2>7 DEF PostZeroCount, PostZeroResults, PostFill, PostCount, main
  <2>8. CASE RknnUnflag
    BY <2>8 DEF RknnUnflag, main
  <2>9. CASE RknnDone
    BY <2>9 DEF RknnDone, main
  <2> QED
    BY <1>2, <2>1, <2>2, <2>3, <2>4, <2>5, <2>6, <2>7, <2>8, <2>9 DEF Rknn
<1>3. CASE UNCHANGED vars
  BY <1>3 DEF vars, shared, main, rknn
<1> QED
  BY <1>1, <1>2, <1>3 DEF Next

(* Up to the first published result the flags hand the picture over without *)
(* an invalid access and without mixing frames, unless letterbox() has      *)
(* returned an empty Mat.                                                   *)
THEOREM FirstHandOff == Spec => []FirstHandOffIsClean
<1>1. Init => HandOff
  BY DEF Init, HandOff, PictureReady, MainWaits, CopyInProgress
<1>2. TypeInv /\ SlotInv /\ HandOff /\ [Next]_vars => HandOff'
  BY HandOffStep
<1>3. HandOff => FirstHandOffIsClean
  BY DEF HandOff, CopyInProgress, FirstHandOffIsClean
<1> QED
  BY <1>1, <1>2, <1>3, SlotInvInvariant, PTL DEF Spec

-----------------------------------------------------------------------------
(* Order of the tags, when the RGA does every resize.  All Mats then are    *)
(* empty or wrap dst_buf, whose tag only grows.  While post_process is at   *)
(* work the tags it has written are those of the NPU input; a count that    *)
(* says there are detections is written last.                               *)
OnlyDstBuf ==
  /\ letterboxImage \in {Empty, DstBuf}
  /\ \A i \in Slots : resizeImages[i] \in {Empty, DstBuf}
  /\ temp_image \in {Empty, DstBuf}

ListInProgress ==
  /\ rpc \in {"zero_results", "fill", "count"} =>
       /\ od_results[0].count.src = input.bottom
       /\ od_results[0].count.full = 0
  /\ rpc \in {"fill", "count"} => od_results[0].results.src = input.bottom
  /\ od_results[0].count.full = 1 =>
       od_results[0].count.src <= od_results[0].results.src
  /\ mpc = "copy_results" /\ run_result.count.full = 1 =>
       run_result.count.src <= od_results[0].results.src

OrderInv == OnlyDstBuf /\ ListInProgress /\ TagsOrdered

(* With the RGA path, every step keeps the order of the data.               *)
LEMMA OrderStep ==
  ASSUME ResizeOutcomes = {"rga"},
         TypeInv, SlotInv, OrderInv, [Next]_vars
  PROVE  OrderInv'
<1> USE ConstantsAssumption
    DEF TypeInv, IndexSet, TypeOK, SlotInv, SlotZero, Slots, Frames, Lists, Cells,
        OrderInv, OnlyDstBuf, ListInProgress, TagsOrdered
<1>1. CASE Main
  <2>1. CASE GetChnFrame
    BY <2>1 DEF GetChnFrame, shared, rknn
  <2>2. CASE LetterboxClear
    BY <2>2 DEF LetterboxClear, rknn
  <2>3. CASE LetterboxResize
    BY <2>3 DEF LetterboxResize, LetterboxResult, shared, rknn
  <2>4. CASE QueueAddScan \/ QueueAddDropOld \/ QueueAddAssign \/ QueueAddFlag
    BY <2>4 DEF QueueAddScan, QueueAddDropOld, QueueAddAssign, QueueAddFlag,
                shared, rknn
  <2>5. CASE ResultGetScan
    BY <2>5 DEF ResultGetScan, shared, rknn
  <2>6. CASE ResultGetCopyCount
    BY <2>6 DEF ResultGetCopyCount, shared, rknn
  <2>7. CASE ResultGetCopyResults
    BY <2>7 DEF ResultGetCopyResults, shared, rknn
  <2>8. CASE ResultGetTake \/ DrawResult \/ ReleaseChnFrame
    BY <2>8, SMTT(30)
       DEF ResultGetTake, DrawResult, ReleaseChnFrame, shared, rknn
  <2> QED
    BY <1>1, <2>1, <2>2, <2>3, <2>4, <2>5, <2>6, <2>7, <2>8 DEF Main
<1>2. CASE Rknn
  <2>1. CASE RknnScan \/ RknnCopyHeader \/ RknnAddRef
    BY <2>1 DEF RknnScan, RknnCopyHeader, RknnAddRef, shared, main
  <2>2. CASE RknnCopyTop
    BY <2>2 DEF RknnCopyTop, Content, shared, main, Empty, DstBuf
  <2>3. CASE RknnCopyBottom
    BY <2>3 DEF RknnCopyBottom, Content, shared, main, Empty, DstBuf
  <2>4. CASE RknnRun
    BY <2>4 DEF RknnRun, shared, main
  <2>5. CASE PostZeroCount
    BY <2>5 DEF PostZeroCount, Zeros, main
  <2>6. CASE PostZeroResults
    BY <2>6 DEF PostZeroResults, Zeros, main
  <2>7. CASE PostFill
    BY <2>7 DEF PostFill, Filled, main
  <2>8. CASE PostCount
    BY <2>8 DEF PostCount, Filled, main
  <2>9. CASE RknnUnflag \/ RknnDone
    BY <2>9 DEF RknnUnflag, RknnDone, main
  <2> QED
    BY <1>2, <2>1, <2>2, <2>3, <2>4, <2>5, <2>6, <2>7, <2>8, <2>9 DEF Rknn
<1>3. CASE UNCHANGED vars
  BY <1>3 DEF vars, shared, main, rknn
<1> QED
  BY <1>1, <1>2, <1>3, SMTT(30) DEF Next

(* With the RGA path, the order of the data holds in every state.           *)
LEMMA OrderInvInvariant ==
  ASSUME ResizeOutcomes = {"rga"}
  PROVE  Spec => [](TypeInv /\ SlotInv /\ OrderInv)
<1>1. Init => OrderInv
  BY DEF Init, OrderInv, OnlyDstBuf, ListInProgress, TagsOrdered, Slots, Zeros
<1>2. TypeInv /\ SlotInv /\ OrderInv /\ [Next]_vars => OrderInv'
  BY OrderStep
<1> QED
  BY <1>1, <1>2, SlotInvInvariant, PTL DEF Spec

(* With the RGA doing every resize, no stage of the pipeline is ahead of    *)
(* the one that feeds it.                                                   *)
THEOREM TagsStayOrdered ==
  ASSUME ResizeOutcomes = {"rga"}
  PROVE  Spec => []TagsOrdered
  BY OrderInvInvariant, PTL DEF OrderInv

-----------------------------------------------------------------------------
(* Each step of the pipeline is a step of the register or leaves it alone:  *)
(* taking a frame submits it, post_process (writing results[]) moves the    *)
(* register, copying results[] reads it.                                    *)
LEMMA ChannelStep ==
  ASSUME ResizeOutcomes = {"rga"},
         TypeInv, SlotInv, OrderInv, [Next]_vars
  PROVE  [Channel!Next]_(Channel!vars)
<1> USE ConstantsAssumption
    DEF TypeInv, IndexSet, TypeOK, SlotInv, SlotZero, Slots, Frames, Lists, Cells,
        OrderInv, ListInProgress, TagsOrdered, Channel!vars
<1>1. CASE Main
  <2>1. CASE GetChnFrame
    BY <2>1 DEF GetChnFrame, shared, rknn, Channel!Next, Channel!Submit
  <2>2. CASE LetterboxClear \/ LetterboxResize \/ QueueAddScan \/ QueueAddDropOld
               \/ QueueAddAssign \/ QueueAddFlag \/ ResultGetScan
               \/ ResultGetTake \/ DrawResult \/ ReleaseChnFrame
    BY <2>2 DEF LetterboxClear, LetterboxResize, QueueAddScan, QueueAddDropOld,
                QueueAddAssign, QueueAddFlag, ResultGetScan, ResultGetTake,
                DrawResult, ReleaseChnFrame, shared
  <2>3. CASE ResultGetCopyCount
    BY <2>3 DEF ResultGetCopyCount, shared
  <2>4. CASE ResultGetCopyResults
    BY <2>4 DEF ResultGetCopyResults, shared, Channel!Next, Channel!Draw
  <2> QED
    BY <1>1, <2>1, <2>2, <2>3, <2>4 DEF Main
<1>2. CASE Rknn
  <2>1. CASE RknnScan \/ RknnCopyHeader \/ RknnAddRef \/ RknnCopyTop
               \/ RknnCopyBottom \/ RknnRun \/ RknnUnflag \/ RknnDone
    BY <2>1 DEF RknnScan, RknnCopyHeader, RknnAddRef, RknnCopyTop,
                RknnCopyBottom, RknnRun, RknnUnflag, RknnDone, shared, main
  <2>2. CASE PostZeroCount \/ PostCount
    BY <2>2 DEF PostZeroCount, PostCount, main
  <2>3. CASE PostZeroResults \/ PostFill
    BY <2>3 DEF PostZeroResults, PostFill, Zeros, Filled, main,
                Channel!Next, Channel!Infer
  <2> QED
    BY <1>2, <2>1, <2>2, <2>3 DEF Rknn
<1>3. CASE UNCHANGED vars
  BY <1>3 DEF vars, shared, main
<1> QED
  BY <1>1, <1>2, <1>3 DEF Next

(* With the RGA doing every resize, the shared slots, flags and lists       *)
(* implement the register of ResultChannel: main's results may lag but      *)
(* never go back and never run ahead of the frames.                         *)
THEOREM QueueIsARegister ==
  ASSUME ResizeOutcomes = {"rga"}
  PROVE  Spec => ImplementsChannel
<1>1. Init => Channel!Init
  BY DEF Init, Channel!Init, Slots, Zeros
<1>2. TypeInv /\ SlotInv /\ OrderInv /\ [Next]_vars => [Channel!Next]_(Channel!vars)
  BY ChannelStep
<1> QED
  BY <1>1, <1>2, OrderInvInvariant, PTL DEF Spec, ImplementsChannel, Channel!Spec

-----------------------------------------------------------------------------
(* Results before the first inference, when rknn_run does not fail.  Every  *)
(* picture that refers to anything refers to a frame of the camera, and the *)
(* flag of the slot is raised after the list has been written for one.      *)
Pictures == {letterboxImage, temp_image} \cup {resizeImages[i] : i \in Slots}

PictureNumbered ==
  /\ mpc \in {"clear", "resize"} => frame >= 1
  /\ mpc = "resize" => dst_buf >= 1
  /\ DstBuf \in Pictures => dst_buf >= 1

ListWritten ==
  /\ rpc \in {"run", "zero_count", "zero_results", "fill", "count"} =>
       input.bottom >= 1
  /\ rpc \in {"zero_results", "fill", "count", "unflag", "done"} =>
       od_results[0].count.src >= 1
  /\ rkndo_ok[0] = 1 => od_results[0].count.src >= 1
  /\ mpc = "copy_count" => rkndo_ok[0] = 1

WrittenInv == PictureNumbered /\ ListWritten /\ NoResultBeforeInference

(* Every step keeps the lists that can be read written, unless it is an     *)
(* rknn_run that fails.                                                     *)
LEMMA WrittenStep ==
  ASSUME RunOutcomes = {0},
         TypeInv, SlotInv, WrittenInv, [Next]_vars
  PROVE  WrittenInv'
<1> USE ConstantsAssumption
    DEF TypeInv, IndexSet, TypeOK, SlotInv, SlotZero, Slots, Frames, Lists, Cells,
        WrittenInv, PictureNumbered, ListWritten, NoResultBeforeInference, Pictures
<1>1. CASE Main
  <2>1. CASE GetChnFrame
    BY <2>1 DEF GetChnFrame, shared, rknn
  <2>2. CASE LetterboxClear
    BY <2>2 DEF LetterboxClear, rknn
  <2>3. CASE LetterboxResize
    BY <2>3 DEF LetterboxResize, LetterboxResult, DstBuf, Empty, shared, rknn
  <2>4. CASE QueueAddScan \/ QueueAddFlag
    BY <2>4 DEF QueueAddScan, QueueAddFlag, shared, rknn
  <2>5. CASE QueueAddDropOld
    BY <2>5 DEF QueueAddDropOld, DstBuf, Empty, rknn
  <2>6. CASE QueueAddAssign
    BY <2>6 DEF QueueAddAssign, rknn
  <2>7. CASE ResultGetScan
    BY <2>7 DEF ResultGetScan, shared, rknn
  <2>8. CASE ResultGetCopyCount
    BY <2>8 DEF ResultGetCopyCount, shared, rknn
  <2>9. CASE ResultGetCopyResults
    BY <2>9 DEF ResultGetCopyResults, shared, rknn
  <2>10. CASE ResultGetTake \/ ReleaseChnFrame
    BY <2>10 DEF ResultGetTake, ReleaseChnFrame, shared, rknn
  <2>11. CASE DrawResult
    BY <2>11 DEF DrawResult, DstBuf, Empty, shared, rknn
  <2> QED
    BY <1>1, <2>1, <2>2, <2>3, <2>4, <2>5, <2>6, <2>7, <2>8, <2>9, <2>10, <2>11
       DEF Main
<1>2. CASE Rknn
  <2>1. CASE RknnScan
    BY <2>1 DEF RknnScan, shared, main
  <2>2. CASE RknnCopyHeader
    BY <2>2 DEF RknnCopyHeader, shared, main
  <2>3. CASE RknnAddRef \/ RknnCopyTop
    BY <2>3 DEF RknnAddRef, RknnCopyTop, shared, main
  <2>4. CASE RknnCopyBottom
    <3>1. Content >= 1
      BY <2>4 DEF RknnCopyBottom, Content, Mats, Empty, DstBuf
    <3> QED
      BY <2>4, <3>1 DEF RknnCopyBottom, shared, main
  <2>5. CASE RknnRun
    BY <2>5 DEF RknnRun, shared, main
  <2>6. CASE PostZeroCount
    BY <2>6 DEF PostZeroCount, Zeros, main
  <2>7. CASE PostZeroResults \/ PostFill
    BY <2>7 DEF PostZeroResults, PostFill, main
  <2>8. CASE PostCount
    BY <2>8 DEF PostCount, Filled, main
  <2>9. CASE RknnUnflag
    BY <2>9 DEF RknnUnflag, main
  <2>10. CASE RknnDone
    BY <2>10 DEF RknnDone, DstBuf, Empty, main
  <2> QED
    BY <1>2, <2>1, <2>2, <2>3, <2>4, <2>5, <2>6, <2>7, <2>8, <2>9, <2>10 DEF Rknn
<1>3. CASE UNCHANGED vars
  BY <1>3 DEF vars, shared, main, rknn
<1> QED
  BY <1>1, <1>2, <1>3 DEF Next

(* When rknn_run does not fail, rkn_result_get never hands out a list that  *)
(* no inference has written, however letterbox() makes the picture.         *)
THEOREM ResultsAreInferred ==
  ASSUME RunOutcomes = {0}
  PROVE  Spec => []NoResultBeforeInference
<1>1. Init => WrittenInv
  BY DEF Init, WrittenInv, PictureNumbered, ListWritten, NoResultBeforeInference,
         Pictures, Slots, DstBuf, Empty
<1>2. TypeInv /\ SlotInv /\ WrittenInv /\ [Next]_vars => WrittenInv'
  BY WrittenStep
<1>3. WrittenInv => NoResultBeforeInference
  BY DEF WrittenInv
<1> QED
  BY <1>1, <1>2, <1>3, SlotInvInvariant, PTL DEF Spec

-----------------------------------------------------------------------------
(* What FrameIsReleased rests on besides fairness: the steps main has left  *)
(* in its round, and, while it polls for the very first result, those       *)
(* rknn_thread has left until it publishes one.                             *)
AwaitsFirst == mpc = "poll" /\ rkndo_ok[0] = 0

MainLeft ==
  CASE mpc = "clear"        -> 14
    [] mpc = "resize"       -> 13
    [] mpc = "add"          -> 12
    [] mpc = "drop_old"     -> 11
    [] mpc = "assign"       -> 10
    [] mpc = "flag"         -> 9
    [] mpc = "poll"         -> IF rkndo_ok[0] = 0 THEN 8 ELSE 6 + mi
    [] mpc = "copy_count"   -> 5
    [] mpc = "copy_results" -> 4
    [] mpc = "take"         -> 3
    [] mpc = "draw"         -> 2
    [] mpc = "release"      -> 1
    [] mpc = "get"          -> 0

RknnLeft ==
  CASE rpc = "scan"         -> 12 + ri
    [] rpc = "header"       -> 11
    [] rpc = "addref"       -> 10
    [] rpc = "copy_top"     -> 9
    [] rpc = "copy_bottom"  -> 8
    [] rpc = "run"          -> 7
    [] rpc = "zero_count"   -> 6
    [] rpc = "zero_results" -> 5
    [] rpc = "fill"         -> 4
    [] rpc = "count"        -> 3
    [] rpc = "unflag"       -> 2
    [] rpc = "done"         -> 1

(* The first picture stays flagged until rknn_thread has seen it.           *)
FirstFlagged == AwaitsFirst => resize_ok[0] = 1 \/ rpc = "done"

(* A step of main: nearer to the release, unless main spins.                *)
MainProgress ==
  \/ MainLeft' < MainLeft
  \/ AwaitsFirst /\ UNCHANGED <<MainLeft, RknnLeft>>

(* A step of rknn_thread: main is no further from the release; and if main  *)
(* spins, the first result is nearer or there.                              *)
RknnProgress ==
  /\ MainLeft' <= MainLeft
  /\ AwaitsFirst => MainLeft' < MainLeft \/ RknnLeft' < RknnLeft

(* The flag of the first picture is up when main begins to poll, and only   *)
(* rknn_thread takes it down before there is a result.                      *)
LEMMA FirstFlaggedStep ==
  ASSUME TypeInv, SlotInv, HandOff, FirstFlagged, [Next]_vars
  PROVE  FirstFlagged'
<1> USE DEF TypeInv, TypeOK, Slots, FirstFlagged, AwaitsFirst
<1>1. CASE Main
  <2>1. CASE QueueAddFlag
    BY <2>1 DEF QueueAddFlag, rknn, SlotInv, SlotZero
  <2>2. CASE ResultGetScan
    BY <2>2 DEF ResultGetScan, shared, rknn
  <2>3. CASE GetChnFrame \/ LetterboxClear \/ LetterboxResize \/ QueueAddScan
               \/ QueueAddDropOld \/ QueueAddAssign
    BY <2>3 DEF GetChnFrame, LetterboxClear, LetterboxResize, QueueAddScan,
                QueueAddDropOld, QueueAddAssign
  <2>4. CASE ResultGetCopyCount \/ ResultGetCopyResults \/ ResultGetTake
               \/ DrawResult \/ ReleaseChnFrame
    BY <2>4 DEF ResultGetCopyCount, ResultGetCopyResults, ResultGetTake,
                DrawResult, ReleaseChnFrame
  <2> QED
    BY <1>1, <2>1, <2>2, <2>3, <2>4 DEF Main
<1>2. CASE Rknn
  <2>1. CASE RknnUnflag
    BY <2>1 DEF RknnUnflag
  <2>2. CASE RknnDone
    <3>1. idx = 0
      BY <2>2 DEF RknnDone, IndexSet, SlotInv, SlotZero
    <3> QED
      BY <2>2, <3>1 DEF RknnDone
  <2>3. CASE RknnScan \/ RknnCopyHeader \/ RknnAddRef \/ RknnCopyTop
               \/ RknnCopyBottom \/ RknnRun
    BY <2>3 DEF RknnScan, RknnCopyHeader, RknnAddRef, RknnCopyTop,
                RknnCopyBottom, RknnRun, shared, main
  <2>4. CASE PostZeroCount \/ PostZeroResults \/ PostFill \/ PostCount
    BY <2>4 DEF PostZeroCount, PostZeroResults, PostFill, PostCount, main
  <2> QED
    BY <1>2, <2>1, <2>2, <2>3, <2>4 DEF Rknn
<1>3. CASE UNCHANGED vars
  BY <1>3, SMTT(30) DEF vars, shared, main, rknn
<1> QED
  BY <1>1, <1>2, <1>3 DEF Next

(* Outside the two scans of the queue every step of main is one of a fixed  *)
(* sequence; the scan for a free slot succeeds at once, the scan for a      *)
(* result as soon as there has been one.                                    *)
LEMMA MainStep ==
  ASSUME TypeInv, SlotInv, Main, mpc # "get"
  PROVE  MainProgress
<1> USE DEF TypeInv, TypeOK, Slots, MainProgress, MainLeft, AwaitsFirst
<1>1. CASE LetterboxClear
  BY <1>1 DEF LetterboxClear
<1>2. CASE LetterboxResize
  BY <1>2 DEF LetterboxResize
<1>3. CASE QueueAddScan
  BY <1>3 DEF QueueAddScan, SlotInv, FlagOwned, SlotZero
<1>4. CASE QueueAddDropOld
  BY <1>4 DEF QueueAddDropOld
<1>5. CASE QueueAddAssign
  BY <1>5 DEF QueueAddAssign
<1>6. CASE QueueAddFlag
  BY <1>6 DEF QueueAddFlag
<1>7. CASE ResultGetScan
  <2>1. CASE rkndo_ok[0] = 0
    <3>1. mpc = "poll" /\ mpc' = "poll" /\ rkndo_ok' = rkndo_ok /\ UNCHANGED rknn
      BY <1>7, <2>1 DEF ResultGetScan, shared, SlotInv, SlotZero
    <3> QED
      BY <2>1, <3>1 DEF RknnLeft, rknn
  <2>2. CASE rkndo_ok[0] = 1 /\ mi = 0
    BY <1>7, <2>2 DEF ResultGetScan
  <2>3. CASE rkndo_ok[0] = 1 /\ mi = 1
    BY <1>7, <2>3 DEF ResultGetScan, shared, SlotInv, SlotZero
  <2>4. rkndo_ok[0] \in {0, 1} /\ mi \in {0, 1}
    OBVIOUS
  <2> HIDE DEF MainProgress, TypeInv, TypeOK
  <2> QED
    BY <2>1, <2>2, <2>3, <2>4
<1>8. CASE ResultGetCopyCount
  BY <1>8 DEF ResultGetCopyCount
<1>9. CASE ResultGetCopyResults
  BY <1>9 DEF ResultGetCopyResults
<1>10. CASE ResultGetTake
  BY <1>10 DEF ResultGetTake
<1>11. CASE DrawResult
  BY <1>11 DEF DrawResult
<1>12. CASE ReleaseChnFrame
  BY <1>12 DEF ReleaseChnFrame
<1> QED
  BY <1>1, <1>2, <1>3, <1>4, <1>5, <1>6, <1>7, <1>8, <1>9, <1>10, <1>11, <1>12
     DEF Main, GetChnFrame

(* Before the first result rknn_thread finds the picture within a scan, and *)
(* every outcome of the inference leads to rkndo_ok.                        *)
LEMMA RknnStep ==
  ASSUME TypeInv, SlotInv, HandOff, FirstFlagged, Rknn, fault' = "none"
  PROVE  RknnProgress
<1> USE DEF TypeInv, TypeOK, Slots
<1>1. CASE RknnDone
  <2>1. /\ rkndo_ok' = [rkndo_ok EXCEPT ![idx] = 1]
        /\ mpc' = mpc /\ mi' = mi
    BY <1>1 DEF RknnDone, main
  <2>2. rkndo_ok'[0] = 1
    <3>1. idx = 0
      BY <1>1 DEF RknnDone, IndexSet, SlotInv, SlotZero
    <3> QED
      BY <2>1, <3>1
  <2>3. MainLeft' <= MainLeft /\ (AwaitsFirst => MainLeft' < MainLeft)
    BY <2>1, <2>2 DEF MainLeft, AwaitsFirst
  <2> QED
    BY <2>3 DEF RknnProgress
<1>2. CASE ~RknnDone
  <2>1. UNCHANGED <<mpc, mi, rkndo_ok>>
    BY <1>2 DEF Rknn, RknnScan, RknnCopyHeader, RknnAddRef, RknnCopyTop,
       RknnCopyBottom, RknnRun, PostZeroCount, PostZeroResults, PostFill,
       PostCount, RknnUnflag, shared, main
  <2>2. MainLeft' <= MainLeft
    BY <2>1 DEF MainLeft
  <2>3. AwaitsFirst => RknnLeft' < RknnLeft
    <3> SUFFICES ASSUME AwaitsFirst PROVE RknnLeft' < RknnLeft
      OBVIOUS
    <3> USE DEF RknnLeft
    <3>1. CASE RknnScan
      <4>1. resize_ok[0] = 1 /\ idx = Unset /\ resize_ok[1] = 0 /\ rpc = "scan"
        BY <3>1 DEF RknnScan, FirstFlagged, AwaitsFirst, HandOff, MainWaits,
           SlotInv, SlotZero
      <4>2. CASE ri = 0
        BY <3>1, <4>1, <4>2 DEF RknnScan, ScanEnds, ScanIdx, Unset
      <4>3. CASE ri = 1
        BY <3>1, <4>1, <4>3 DEF RknnScan, ScanEnds, ScanIdx, Unset
      <4>4. ri \in {0, 1}
        OBVIOUS
      <4> HIDE DEF RknnLeft, TypeInv, TypeOK
      <4> QED
        BY <4>2, <4>3, <4>4
    <3>2. CASE RknnCopyHeader \/ RknnAddRef
      BY <3>2 DEF RknnCopyHeader, RknnAddRef
    <3>3. CASE RknnCopyTop
      BY <3>3 DEF RknnCopyTop
    <3>4. CASE RknnCopyBottom
      BY <3>4 DEF RknnCopyBottom
    <3>5. CASE RknnRun
      BY <3>5 DEF RknnRun
    <3>6. CASE PostZeroCount \/ PostZeroResults
      BY <3>6 DEF PostZeroCount, PostZeroResults
    <3>7. CASE PostFill \/ PostCount
      BY <3>7 DEF PostFill, PostCount
    <3>8. CASE RknnUnflag
      BY <3>8 DEF RknnUnflag
    <3> QED
      BY <1>2, <3>1, <3>2, <3>3, <3>4, <3>5, <3>6, <3>7, <3>8 DEF Rknn
  <2> QED
    BY <2>2, <2>3 DEF RknnProgress
<1> QED
  BY <1>1, <1>2

(* A frame taken from the VPSS comes nearer to its release with every step  *)
(* of main, except while main polls for the very first result; and then the *)
(* result comes nearer with every step of rknn_thread.  So at most 14 steps *)
(* of main and 13 of rknn_thread, which polling does not set back, separate *)
(* FrameIsReleased from a frame; that both threads run is all that is       *)
(* missing.                                                                 *)
THEOREM RoundEnds ==
  Spec => [][fault' = "none" =>
               /\ Main /\ mpc # "get" => MainProgress
               /\ Rknn => RknnProgress]_vars
<1>1. Init => HandOff /\ FirstFlagged
  BY DEF Init, HandOff, PictureReady, MainWaits, CopyInProgress, FirstFlagged,
     AwaitsFirst
<1>2. TypeInv /\ SlotInv /\ HandOff /\ FirstFlagged /\ [Next]_vars
        => HandOff' /\ FirstFlagged'
  BY HandOffStep, FirstFlaggedStep
<1>3. TypeInv /\ SlotInv /\ HandOff /\ FirstFlagged /\ [Next]_vars
        => [fault' = "none" => /\ Main /\ mpc # "get" => MainProgress
                               /\ Rknn => RknnProgress]_vars
  BY MainStep, RknnStep
<1> QED
  BY <1>1, <1>2, <1>3, SlotInvInvariant, PTL DEF Spec

-----------------------------------------------------------------------------
(* What EveryFrameReachesNpu rests on besides fairness: the steps of        *)
(* rknn_thread until it has copied a picture, once one has been queued.     *)
Queued == resize_ok[0] = 1 \/ idx = 0

NpuLeft ==
  CASE rpc = "run"          -> 14
    [] rpc = "zero_count"   -> 13
    [] rpc = "zero_results" -> 12
    [] rpc = "fill"         -> 11
    [] rpc = "count"        -> 10
    [] rpc = "unflag"       -> 9
    [] rpc = "done"         -> 8
    [] rpc = "scan"         -> IF ri = 0 THEN 6 ELSE IF idx = 0 THEN 5 ELSE 7
    [] rpc = "header"       -> 4
    [] rpc = "addref"       -> 3
    [] rpc = "copy_top"     -> 2
    [] rpc = "copy_bottom"  -> 1

(* rknn_thread does not forget the slot it has taken a result from.         *)
IdxSticks == rkndo_ok[0] = 1 => idx = 0

(* A step of main neither hides a queued picture from rknn_thread nor sends *)
(* rknn_thread back.                                                        *)
NpuUndisturbed ==
  /\ dst_buf' >= dst_buf /\ input' = input
  /\ Queued => Queued' /\ NpuLeft' = NpuLeft

(* A step of rknn_thread brings the next copy nearer or is one.             *)
NpuNearer ==
  /\ dst_buf' = dst_buf /\ input'.bottom >= input.bottom
  /\ Queued => Queued' /\ (NpuLeft' < NpuLeft \/ input'.bottom = dst_buf)

(* Whatever main takes, the slot it has come from is known to rknn_thread:  *)
(* taking the flag back does not take the picture back.                     *)
LEMMA IdxSticksStep ==
  ASSUME TypeInv, SlotInv, IdxSticks, [Next]_vars
  PROVE  IdxSticks'
<1> USE DEF TypeInv, TypeOK, IdxSticks
<1>1. CASE RknnDone
  <2>1. idx = 0 /\ idx' = idx
    BY <1>1 DEF RknnDone, IndexSet, SlotInv, SlotZero, Slots
  <2> QED
    BY <2>1
<1>2. CASE RknnScan
  BY <1>2 DEF RknnScan, ScanIdx, SlotInv, SlotZero, Slots, shared
<1>3. CASE Next /\ ~RknnDone /\ ~RknnScan
  <2>1. UNCHANGED <<rkndo_ok, idx>>
    BY <1>3 DEF Next, Main, GetChnFrame, LetterboxClear, LetterboxResize,
       QueueAddScan, QueueAddDropOld, QueueAddAssign, QueueAddFlag,
       ResultGetScan, ResultGetCopyCount, ResultGetCopyResults, ResultGetTake,
       DrawResult, ReleaseChnFrame, Rknn, RknnCopyHeader, RknnAddRef,
       RknnCopyTop, RknnCopyBottom, RknnRun, PostZeroCount, PostZeroResults,
       PostFill, PostCount, RknnUnflag, shared, rknn
  <2> QED
    BY <2>1
<1>4. CASE UNCHANGED vars
  BY <1>4 DEF vars, shared, rknn
<1> QED
  BY <1>1, <1>2, <1>3, <1>4

(* What main takes back is the flag, and after a result at the earliest.    *)
LEMMA NpuMainStep ==
  ASSUME TypeInv, SlotInv, HandOff, IdxSticks, TagsOrdered, Main
  PROVE  NpuUndisturbed
<1> USE DEF TypeInv, TypeOK
<1>1. input' = input /\ NpuLeft' = NpuLeft /\ UNCHANGED rknn
  <2>1. UNCHANGED rknn
    BY DEF Main, GetChnFrame, LetterboxClear, LetterboxResize,
       QueueAddScan, QueueAddDropOld, QueueAddAssign, QueueAddFlag,
       ResultGetScan, ResultGetCopyCount, ResultGetCopyResults, ResultGetTake,
       DrawResult, ReleaseChnFrame
  <2> QED
    BY <2>1 DEF rknn, NpuLeft
<1>2. dst_buf' >= dst_buf
  <2>1. CASE LetterboxClear
    BY <2>1, ConstantsAssumption DEF LetterboxClear, TagsOrdered, Frames
  <2>2. CASE ~LetterboxClear
    <3>1. dst_buf' = dst_buf
      BY <2>2 DEF Main, GetChnFrame, LetterboxResize,
         QueueAddScan, QueueAddDropOld, QueueAddAssign, QueueAddFlag,
         ResultGetScan, ResultGetCopyCount, ResultGetCopyResults, ResultGetTake,
         DrawResult, ReleaseChnFrame, shared
    <3> QED
      BY <3>1, ConstantsAssumption DEF Frames
  <2> QED
    BY <2>1, <2>2
<1>3. Queued => Queued'
  <2>1. CASE ResultGetTake
    <3>1. rkndo_ok[0] = 1
      BY <2>1 DEF ResultGetTake, HandOff, MainWaits, Slots
    <3> QED
      BY <1>1, <3>1 DEF IdxSticks, Queued, rknn
  <2>2. CASE QueueAddFlag
    BY <1>1, <2>2 DEF QueueAddFlag, Queued, Slots, rknn
  <2>3. CASE ~ResultGetTake /\ ~QueueAddFlag
    <3>1. resize_ok' = resize_ok
      BY <2>3 DEF Main, GetChnFrame, LetterboxClear, LetterboxResize,
         QueueAddScan, QueueAddDropOld, QueueAddAssign,
         ResultGetScan, ResultGetCopyCount, ResultGetCopyResults,
         DrawResult, ReleaseChnFrame, shared
    <3> QED
      BY <1>1, <3>1 DEF Queued, rknn
  <2> QED
    BY <2>1, <2>2, <2>3
<1> QED
  BY <1>1, <1>2, <1>3 DEF NpuUndisturbed

(* rknn_thread finds a queued picture, or the slot of the last one again,   *)
(* within a scan; an inference that fails does not keep it from the next.   *)
LEMMA NpuRknnStep ==
  ASSUME TypeInv, SlotInv, OnlyDstBuf, TagsOrdered, Rknn, fault' = "none"
  PROVE  NpuNearer
<1> USE ConstantsAssumption DEF TypeInv, TypeOK
<1>1. dst_buf' = dst_buf /\ dst_buf \in Int /\ input.bottom \in Int
  BY DEF Rknn, RknnScan, RknnCopyHeader, RknnAddRef, RknnCopyTop, RknnCopyBottom,
     RknnRun, PostZeroCount, PostZeroResults, PostFill, PostCount, RknnUnflag,
     RknnDone, shared, Frames
<1>2. CASE RknnCopyBottom
  <2>1. input'.bottom = dst_buf /\ idx' = idx /\ resize_ok' = resize_ok
    BY <1>2 DEF RknnCopyBottom, Content, OnlyDstBuf, IndexSet, shared
  <2> QED
    BY <1>1, <2>1 DEF NpuNearer, Queued, TagsOrdered
<1>3. CASE ~RknnCopyBottom
  <2>1. input'.bottom = input.bottom
    BY <1>3 DEF Rknn, RknnScan, RknnCopyHeader, RknnAddRef, RknnCopyTop, RknnRun,
       PostZeroCount, PostZeroResults, PostFill, PostCount, RknnUnflag, RknnDone
  <2>2. Queued => Queued' /\ NpuLeft' < NpuLeft
    <3> SUFFICES ASSUME Queued PROVE Queued' /\ NpuLeft' < NpuLeft
      OBVIOUS
    <3> USE DEF NpuLeft, Queued
    <3>1. CASE RknnScan
      <4>1. ri \in {0, 1} /\ resize_ok[1] = 0 /\ idx \in {0, Unset} /\ rpc = "scan"
        BY <3>1 DEF RknnScan, SlotInv, SlotZero, Slots
      <4>2. CASE ri = 0
        BY <3>1, <4>1, <4>2 DEF RknnScan, ScanEnds, ScanIdx, shared, Unset
      <4>3. CASE ri = 1
        BY <3>1, <4>1, <4>3 DEF RknnScan, ScanEnds, ScanIdx, shared, Unset
      <4> HIDE DEF NpuLeft, Queued
      <4> QED
        BY <4>1, <4>2, <4>3
    <3>2. CASE RknnCopyHeader \/ RknnAddRef
      BY <3>2 DEF RknnCopyHeader, RknnAddRef, shared
    <3>3. CASE RknnCopyTop
      BY <3>3 DEF RknnCopyTop, shared
    <3>4. CASE RknnRun
      BY <3>4 DEF RknnRun, shared
    <3>5. CASE PostZeroCount \/ PostZeroResults
      BY <3>5 DEF PostZeroCount, PostZeroResults
    <3>6. CASE PostFill \/ PostCount
      BY <3>6 DEF PostFill, PostCount
    <3>7. CASE RknnUnflag \/ RknnDone
      <4>1. idx = 0 /\ idx' = idx
        BY <3>7 DEF RknnUnflag, RknnDone, IndexSet, SlotInv, SlotZero, Slots
      <4> QED
        BY <3>7, <4>1 DEF RknnUnflag, RknnDone
    <3> QED
      BY <1>3, <3>1, <3>2, <3>3, <3>4, <3>5, <3>6, <3>7 DEF Rknn
  <2> QED
    BY <1>1, <2>1, <2>2 DEF NpuNearer
<1> QED
  BY <1>2, <1>3

(* With the RGA path no picture is forgotten: once one has been queued,     *)
(* every step of rknn_thread brings a copy of dst_buf nearer, main does not *)
(* set it back, although it takes resize_ok back, and neither dst_buf nor   *)
(* the NPU input ever goes back to an older frame.  EveryFrameReachesNpu    *)
(* only needs beyond this that rknn_thread runs.                            *)
THEOREM PicturesArrive ==
  ASSUME ResizeOutcomes = {"rga"}
  PROVE  Spec => [][/\ Main => NpuUndisturbed
                    /\ Rknn /\ fault' = "none" => NpuNearer]_vars
<1>1. Init => HandOff /\ IdxSticks
  BY DEF Init, HandOff, PictureReady, MainWaits, CopyInProgress, IdxSticks, Slots
<1>2. TypeInv /\ SlotInv /\ HandOff /\ IdxSticks /\ [Next]_vars
        => HandOff' /\ IdxSticks'
  BY HandOffStep, IdxSticksStep
<1>3. TypeInv /\ SlotInv /\ HandOff /\ IdxSticks /\ OrderInv /\ [Next]_vars
        => [/\ Main => NpuUndisturbed
            /\ Rknn /\ fault' = "none" => NpuNearer]_vars
  BY NpuMainStep, NpuRknnStep DEF OrderInv
<1> QED
  BY <1>1, <1>2, <1>3, SlotInvInvariant, OrderInvInvariant, PTL DEF Spec
=============================================================================
