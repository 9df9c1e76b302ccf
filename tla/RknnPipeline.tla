---------------------------- MODULE RknnPipeline ----------------------------
(***************************************************************************)
(* The detection pipeline of the camera program: the main loop             *)
(* (src/src/rtsp_opencv.cc) crops and letterboxes every VPSS frame and     *)
(* hands the picture to rknn_thread (src/src/image_handle.cc) through the  *)
(* two-slot "queue" resizeImages / resize_ok / rkndo_ok / od_results.      *)
(*                                                                         *)
(* The two threads share plain globals without a lock.  The build passes   *)
(* no -O flag and the RV1106 has a single core, so every access happens in *)
(* program order and an execution is an interleaving of the accesses.  One *)
(* action below is the code between two accesses to shared memory.         *)
(*                                                                         *)
(* Data are abstracted to the number of the camera frame they come from.   *)
(* The tag of a memory area is the frame on whose behalf it was written    *)
(* last, be it by a memset or by the picture (or the detections) itself.   *)
(***************************************************************************)
EXTENDS Integers

CONSTANTS
  MaxFrame,        \* bound: number of frames the camera delivers
  ResizeOutcomes,  \* outcomes of letterbox(): "rga", "cv", "import_error"
  RunOutcomes,     \* return codes of rknn_run(): 0, -1
  GetMayFail       \* may RK_MPI_VPSS_GetChnFrame return an error

ASSUME ConstantsAssumption ==
  /\ MaxFrame \in Nat \ {0}
  /\ ResizeOutcomes \subseteq {"rga", "cv", "import_error"}
  /\ ResizeOutcomes # {}
  /\ RunOutcomes \subseteq {0, -1}
  /\ RunOutcomes # {}
  /\ GetMayFail \in BOOLEAN

Slots  == 0..1           \* resizeImages(2), resize_ok[2], rkndo_ok[2], ...
Unset  == 255            \* idx = 0xff
Frames == 0..MaxFrame    \* 0: not written on behalf of any frame

(* What a cv::Mat refers to: nothing, the DMA buffer dst_buf, or heap       *)
(* storage of its own (named by the frame in it).                           *)
Empty  == -1
DstBuf == 0
Mats   == -1..MaxFrame

(* One part of an object_detect_result_list: the frame it was written for,  *)
(* and whether it holds detections (1) or the zeros of a memset (0).        *)
Cells  == [src : Frames, full : {0, 1}]
Zeros(f)   == [src |-> f, full |-> 0]
Filled(f)  == [src |-> f, full |-> 1]
Lists      == [count : Cells, results : Cells]

VARIABLES
  resize_ok, rkndo_ok, resizeImages, od_results,   \* the shared queue
  dst_buf,          \* tag of the DMA buffer letterbox() resizes into
  mpc, mi,          \* main: next access, loop index i of the queue calls
  frame,            \* main: number of the VPSS frame in hand
  letterboxImage,   \* main: the picture of that frame
  run_result,       \* main: its copy of a result list
  rpc, ri, idx,     \* rknn_thread: next access, loop index i, idx
  temp_image,       \* rknn_thread: its copy of a slot's header ...
  counted,          \* ... and whether that copy is reference counted (0/1)
  input,            \* tags of the two halves of input_mems[0]
  fault             \* first invalid memory access: "none", "null", "freed"

shared == <<resize_ok, rkndo_ok, resizeImages, od_results, dst_buf>>
main   == <<mpc, mi, frame, letterboxImage, run_result>>
rknn   == <<rpc, ri, idx, temp_image, counted, input>>
vars   == <<shared, main, rknn, fault>>

TypeOK ==
  /\ resize_ok \in [Slots -> {0, 1}] /\ rkndo_ok \in [Slots -> {0, 1}]
  /\ resizeImages \in [Slots -> Mats]
  /\ od_results \in [Slots -> Lists]
  /\ dst_buf \in Frames
  /\ mpc \in {"get", "clear", "resize", "add", "drop_old", "assign", "flag",
              "poll", "copy_count", "copy_results", "take", "draw", "release"}
  /\ mi \in Slots
  /\ frame \in Frames
  /\ letterboxImage \in Mats
  /\ run_result \in Lists
  /\ rpc \in {"scan", "header", "addref", "copy_top", "copy_bottom", "run",
              "zero_count", "zero_results", "fill", "count", "unflag", "done"}
  /\ ri \in Slots
  /\ idx \in Slots \cup {Unset}
  /\ temp_image \in Mats
  /\ counted \in {0, 1}
  /\ input \in [top : Frames, bottom : Frames]
  /\ fault \in {"none", "null", "freed"}

Init ==
  /\ resize_ok = [i \in Slots |-> 0] /\ rkndo_ok = [i \in Slots |-> 0]
  /\ resizeImages = [i \in Slots |-> Empty]
  /\ od_results = [i \in Slots |-> [count |-> Zeros(0), results |-> Zeros(0)]]
  /\ dst_buf = 0
  /\ mpc = "get" /\ mi = 0 /\ frame = 0 /\ letterboxImage = Empty
  /\ run_result = [count |-> Zeros(0), results |-> Zeros(0)]
  /\ rpc = "scan" /\ ri = 0 /\ idx = Unset
  /\ temp_image = Empty /\ counted = 0
  /\ input = [top |-> 0, bottom |-> 0]
  /\ fault = "none"

-----------------------------------------------------------------------------
(* The main loop, rtsp_opencv.cc.                                           *)

(* RK_MPI_VPSS_GetChnFrame blocks for the next frame; when it fails the     *)
(* loop body is skipped, the release is not.                                *)
GetChnFrame ==
  /\ mpc = "get"
  /\ \/ /\ frame < MaxFrame
        /\ frame' = frame + 1
        /\ mpc' = "clear"
     \/ /\ GetMayFail
        /\ mpc' = "release"
        /\ UNCHANGED frame
  /\ UNCHANGED <<shared, mi, letterboxImage, run_result, rknn, fault>>

(* pollingdecetbox -> letterbox: memset(dst_buf, 0, dst_buf_size).          *)
LetterboxClear ==
  /\ mpc = "clear"
  /\ dst_buf' = frame
  /\ mpc' = "resize"
  /\ UNCHANGED <<resize_ok, rkndo_ok, resizeImages, od_results, mi, frame,
                 letterboxImage, run_result, rknn, fault>>

(* The rest of letterbox(): imresize into dst_buf, and a Mat that wraps     *)
(* dst_buf; or, when the RGA refuses, cv::resize into a Mat with storage of *)
(* its own; or, when importbuffer_fd fails, an empty Mat.                   *)
LetterboxResult(outcome) == CASE outcome = "rga" -> DstBuf
                              [] outcome = "cv"  -> frame
                              [] OTHER           -> Empty

LetterboxResize ==
  /\ mpc = "resize"
  /\ \E outcome \in ResizeOutcomes : letterboxImage' = LetterboxResult(outcome)
  /\ mpc' = "add"
  /\ mi' = 0
  /\ UNCHANGED <<shared, frame, run_result, rknn, fault>>

(* rkn_queue_add: look for a slot without a pending picture.  Returning -1  *)
(* makes the caller call again, so the scan starts over.                    *)
QueueAddScan ==
  /\ mpc = "add"
  /\ IF resize_ok[mi] = 0 THEN mpc' = "drop_old" /\ UNCHANGED mi
                          ELSE mi' = 1 - mi /\ UNCHANGED mpc
  /\ UNCHANGED <<shared, frame, letterboxImage, run_result, rknn, fault>>

(* Mutant: the flag is raised before the picture is in the slot.            *)
QueueAddDropOld_FlagsEarly ==
  /\ mpc = "drop_old"
  /\ resizeImages' = [resizeImages EXCEPT ![mi] = Empty]
  /\ resize_ok' = [resize_ok EXCEPT ![mi] = 1]
  /\ mpc' = "assign"
  /\ UNCHANGED <<rkndo_ok, od_results, dst_buf, mi, frame,
                 letterboxImage, run_result, rknn, fault>>

(* resizeImages.at(i) = frame: cv::Mat assignment first releases the old    *)
(* header (its data pointer becomes null) ...                               *)
QueueAddDropOld ==
  /\ mpc = "drop_old"
  /\ resizeImages' = [resizeImages EXCEPT ![mi] = Empty]
  /\ mpc' = "assign"
  /\ UNCHANGED <<resize_ok, rkndo_ok, od_results, dst_buf, mi, frame,
                 letterboxImage, run_result, rknn, fault>>

(* ... and then takes over the new one.                                     *)
QueueAddAssign ==
  /\ mpc = "assign"
  /\ resizeImages' = [resizeImages EXCEPT ![mi] = letterboxImage]
  /\ mpc' = "flag"
  /\ UNCHANGED <<resize_ok, rkndo_ok, od_results, dst_buf, mi, frame,
                 letterboxImage, run_result, rknn, fault>>

QueueAddFlag ==
  /\ mpc = "flag"
  /\ resize_ok' = [resize_ok EXCEPT ![mi] = 1]
  /\ mpc' = "poll"
  /\ mi' = 0
  /\ UNCHANGED <<rkndo_ok, resizeImages, od_results, dst_buf, frame,
                 letterboxImage, run_result, rknn, fault>>

(* Mutants: the loop index runs past the last slot; the flag is not tested. *)
ResultGetScan_NoWrap ==
  /\ mpc = "poll"
  /\ IF rkndo_ok[mi] = 1 THEN mpc' = "copy_count" /\ UNCHANGED mi
                         ELSE mi' = mi + 1 /\ UNCHANGED mpc
  /\ UNCHANGED <<shared, frame, letterboxImage, run_result, rknn, fault>>

ResultGetScan_NoTest ==
  /\ mpc = "poll"
  /\ mpc' = "copy_count"
  /\ UNCHANGED <<shared, mi, frame, letterboxImage, run_result, rknn, fault>>

(* rkn_result_get: look for a slot whose inference is done; on -1 the       *)
(* caller calls again.                                                      *)
ResultGetScan ==
  /\ mpc = "poll"
  /\ IF rkndo_ok[mi] = 1 THEN mpc' = "copy_count" /\ UNCHANGED mi
                         ELSE mi' = 1 - mi /\ UNCHANGED mpc
  /\ UNCHANGED <<shared, frame, letterboxImage, run_result, rknn, fault>>

(* memcpy(result, &od_results[i], ...): count lies before results[].        *)
ResultGetCopyCount ==
  /\ mpc = "copy_count"
  /\ run_result' = [run_result EXCEPT !.count = od_results[mi].count]
  /\ mpc' = "copy_results"
  /\ UNCHANGED <<shared, mi, frame, letterboxImage, rknn, fault>>

ResultGetCopyResults ==
  /\ mpc = "copy_results"
  /\ run_result' = [run_result EXCEPT !.results = od_results[mi].results]
  /\ mpc' = "take"
  /\ UNCHANGED <<shared, mi, frame, letterboxImage, rknn, fault>>

(* Mutant: the result is consumed, as its name suggests, and the picture's  *)
(* flag is left to rknn_thread.                                             *)
ResultGetTake_Consumes ==
  /\ mpc = "take"
  /\ rkndo_ok' = [rkndo_ok EXCEPT ![mi] = 0]
  /\ mpc' = "draw"
  /\ UNCHANGED <<resize_ok, resizeImages, od_results, dst_buf, mi, frame,
                 letterboxImage, run_result, rknn, fault>>

(* rkn_result_get ends by clearing resize_ok[i]; rkndo_ok[i] stays 1.       *)
ResultGetTake ==
  /\ mpc = "take"
  /\ resize_ok' = [resize_ok EXCEPT ![mi] = 0]
  /\ mpc' = "draw"
  /\ UNCHANGED <<rkndo_ok, resizeImages, od_results, dst_buf, mi, frame,
                 letterboxImage, run_result, rknn, fault>>

(* draw_result(frame, &run_result) (module TurretControl); the block ends   *)
(* and letterboxImage is destroyed.                                         *)
DrawResult ==
  /\ mpc = "draw"
  /\ letterboxImage' = Empty
  /\ mpc' = "release"
  /\ UNCHANGED <<shared, mi, frame, run_result, rknn, fault>>

ReleaseChnFrame ==
  /\ mpc = "release"
  /\ mpc' = "get"
  /\ UNCHANGED <<shared, mi, frame, letterboxImage, run_result, rknn, fault>>

Main ==
  /\ fault = "none"
  /\ \/ GetChnFrame \/ LetterboxClear \/ LetterboxResize
     \/ QueueAddScan \/ QueueAddDropOld \/ QueueAddAssign \/ QueueAddFlag
     \/ ResultGetScan \/ ResultGetCopyCount \/ ResultGetCopyResults
     \/ ResultGetTake \/ DrawResult \/ ReleaseChnFrame

-----------------------------------------------------------------------------
(* rknn_thread, image_handle.cc.                                            *)

(* for (i = 0; i < 2; i++) if (resize_ok[i]) { idx = i; break; }            *)
(* idx keeps the slot of an earlier round when no flag is up.               *)
ScanEnds  == resize_ok[ri] = 1 \/ ri = 1
ScanIdx   == IF resize_ok[ri] = 1 THEN ri ELSE idx
RknnScan ==
  /\ rpc = "scan"
  /\ idx' = ScanIdx
  /\ ri' = IF ScanEnds THEN 0 ELSE ri + 1
  /\ rpc' = IF ScanEnds /\ idx' # Unset THEN "header" ELSE "scan"
  /\ UNCHANGED <<shared, main, temp_image, counted, input, fault>>

(* cv::Mat temp_image = resizeImages.at(idx): the fields are copied ...     *)
RknnCopyHeader ==
  /\ rpc = "header"
  /\ temp_image' = resizeImages[idx]
  /\ rpc' = "addref"
  /\ UNCHANGED <<shared, main, ri, idx, counted, input, fault>>

(* ... and, when they own storage, its reference count is raised.  By then  *)
(* the last owner may be gone.                                              *)
Owned(m) == m = letterboxImage \/ \E i \in Slots : resizeImages[i] = m

RknnAddRef ==
  /\ rpc = "addref"
  /\ IF temp_image \in {Empty, DstBuf}
       THEN UNCHANGED <<counted, fault>>
       ELSE /\ counted' = 1
            /\ fault' = IF Owned(temp_image) THEN fault ELSE "freed"
  /\ rpc' = "copy_top"
  /\ UNCHANGED <<shared, main, ri, idx, temp_image, input>>

(* memcpy(input_mems[0]->virt_addr, temp_image.data, ...) while main may    *)
(* be writing dst_buf; one step per half.                                   *)
Content == IF temp_image = DstBuf THEN dst_buf ELSE temp_image

RknnCopyTop ==
  /\ rpc = "copy_top"
  /\ IF temp_image = Empty
       THEN /\ fault' = "null"
            /\ UNCHANGED <<input, rpc>>
       ELSE /\ input' = [input EXCEPT !.top = Content]
            /\ rpc' = "copy_bottom"
            /\ UNCHANGED fault
  /\ UNCHANGED <<shared, main, ri, idx, temp_image, counted>>

RknnCopyBottom ==
  /\ rpc = "copy_bottom"
  /\ input' = [input EXCEPT !.bottom = Content]
  /\ rpc' = "run"
  /\ UNCHANGED <<shared, main, ri, idx, temp_image, counted, fault>>

(* Mutant: a failed run is not reported to main.                            *)
RknnRun_DropsFailure ==
  /\ rpc = "run"
  /\ \E ret \in RunOutcomes :
        rpc' = IF ret < 0 THEN "scan" ELSE "zero_count"
  /\ UNCHANGED <<shared, main, ri, idx, temp_image, counted, input, fault>>

(* inference_yolov5_model: rknn_run; on failure od_results[idx] is left as  *)
(* it was, and rknn_thread does not look at the return code.                *)
RknnRun ==
  /\ rpc = "run"
  /\ \E ret \in RunOutcomes :
        rpc' = IF ret < 0 THEN "unflag" ELSE "zero_count"
  /\ UNCHANGED <<shared, main, ri, idx, temp_image, counted, input, fault>>

(* Mutant: the list's count is written before its entries.                  *)
PostZeroCount_CountFirst ==
  /\ rpc = "zero_count"
  /\ od_results' = [od_results EXCEPT ![idx].count = Filled(input.bottom)]
  /\ rpc' = "zero_results"
  /\ UNCHANGED <<resize_ok, rkndo_ok, resizeImages, dst_buf, main,
                 ri, idx, temp_image, counted, input, fault>>

(* post_process: memset(od_results, 0, ...), from the front ...             *)
PostZeroCount ==
  /\ rpc = "zero_count"
  /\ od_results' = [od_results EXCEPT ![idx].count = Zeros(input.bottom)]
  /\ rpc' = "zero_results"
  /\ UNCHANGED <<resize_ok, rkndo_ok, resizeImages, dst_buf, main,
                 ri, idx, temp_image, counted, input, fault>>

PostZeroResults ==
  /\ rpc = "zero_results"
  /\ od_results' = [od_results EXCEPT ![idx].results = Zeros(input.bottom)]
  /\ rpc' = "fill"
  /\ UNCHANGED <<resize_ok, rkndo_ok, resizeImages, dst_buf, main,
                 ri, idx, temp_image, counted, input, fault>>

(* ... then results[], and count last.                                      *)
PostFill ==
  /\ rpc = "fill"
  /\ od_results' = [od_results EXCEPT ![idx].results = Filled(input.bottom)]
  /\ rpc' = "count"
  /\ UNCHANGED <<resize_ok, rkndo_ok, resizeImages, dst_buf, main,
                 ri, idx, temp_image, counted, input, fault>>

PostCount ==
  /\ rpc = "count"
  /\ od_results' = [od_results EXCEPT ![idx].count = Filled(input.bottom)]
  /\ rpc' = "unflag"
  /\ UNCHANGED <<resize_ok, rkndo_ok, resizeImages, dst_buf, main,
                 ri, idx, temp_image, counted, input, fault>>

RknnUnflag ==
  /\ rpc = "unflag"
  /\ resize_ok' = [resize_ok EXCEPT ![idx] = 0]
  /\ rpc' = "done"
  /\ UNCHANGED <<rkndo_ok, resizeImages, od_results, dst_buf, main,
                 ri, idx, temp_image, counted, input, fault>>

(* Mutant: idx is reset after every inference.                              *)
RknnDone_ResetsIdx ==
  /\ rpc = "done"
  /\ rkndo_ok' = [rkndo_ok EXCEPT ![idx] = 1]
  /\ rpc' = "scan"
  /\ idx' = Unset
  /\ temp_image' = Empty
  /\ counted' = 0
  /\ UNCHANGED <<resize_ok, resizeImages, od_results, dst_buf, main,
                 ri, input, fault>>

(* rkndo_ok[idx] = 1; temp_image is destroyed at the end of the block, idx  *)
(* is not reset.                                                            *)
RknnDone ==
  /\ rpc = "done"
  /\ rkndo_ok' = [rkndo_ok EXCEPT ![idx] = 1]
  /\ rpc' = "scan"
  /\ temp_image' = Empty
  /\ counted' = 0
  /\ UNCHANGED <<resize_ok, resizeImages, od_results, dst_buf, main,
                 ri, idx, input, fault>>

Rknn ==
  /\ fault = "none"
  /\ \/ RknnScan \/ RknnCopyHeader \/ RknnAddRef
     \/ RknnCopyTop \/ RknnCopyBottom \/ RknnRun
     \/ PostZeroCount \/ PostZeroResults \/ PostFill \/ PostCount
     \/ RknnUnflag \/ RknnDone

-----------------------------------------------------------------------------
Next == Main \/ Rknn

Spec == Init /\ [][Next]_vars

(* Both threads are ordinary time-shared threads that never wait on a lock, *)
(* so each keeps running; only the camera need not deliver another frame.   *)
FairSpec == Spec /\ WF_vars(Main /\ mpc # "get") /\ WF_vars(Rknn)
-----------------------------------------------------------------------------
(* Properties.                                                              *)

(* The two-slot queue degenerates to one slot: rkn_result_get clears        *)
(* resize_ok[0] in every round, so rkn_queue_add always finds slot 0 free   *)
(* and never has to be called again, slot 1 is never filled, and            *)
(* rknn_thread never turns to it.                                           *)
OneSlotSuffices ==
  /\ mpc \in {"add", "drop_old", "assign", "flag"} => resize_ok[0] = 0 /\ mi = 0
  /\ resize_ok[1] = 0 /\ rkndo_ok[1] = 0
  /\ idx # 1

(* Up to the first published result the flags are a proper hand-off:        *)
(* rknn_thread touches the slot only after the picture is complete and main *)
(* leaves it alone until rkndo_ok is up, so there is no invalid access and  *)
(* no picture mixed of two frames.  (Afterwards idx sticks and the          *)
(* protection is gone.)  Excepted is an empty Mat: letterbox() has returned *)
(* it after an import error, and main queues it like any picture.           *)
FirstHandOffIsClean ==
  rkndo_ok[0] = 0 /\ letterboxImage # Empty =>
    /\ fault = "none"
    /\ rpc \in {"run", "zero_count", "zero_results", "fill", "count"} =>
          input.top = frame /\ input.bottom = frame

(* Tags only age downstream: what main has copied is no newer than the      *)
(* published list, that no newer than the NPU input, that no newer than     *)
(* dst_buf, and that no newer than the frame in hand.  A picture read while *)
(* it is being overwritten mixes old with newer, never the other way round, *)
(* and a count that says there are detections is never followed by the      *)
(* entries of an older inference.  Holds as long as the RGA does every      *)
(* resize.                                                                  *)
TagsOrdered ==
  /\ mpc # "copy_results" /\ run_result.count.full = 1 =>
       run_result.count.src <= run_result.results.src
  /\ run_result.results.src <= od_results[0].results.src
  /\ od_results[0].results.src <= od_results[0].count.src
  /\ od_results[0].count.src <= input.bottom
  /\ rpc = "copy_bottom" => input.bottom <= input.top
  /\ rpc # "copy_bottom" => input.top <= input.bottom
  /\ input.top <= dst_buf /\ input.bottom <= dst_buf
  /\ dst_buf <= frame

(* rkn_result_get returns nothing before an inference has written the list: *)
(* the detections main draws always belong to a camera frame.  Needs an     *)
(* rknn_run that does not fail.                                             *)
NoResultBeforeInference ==
  mpc \in {"copy_results", "take", "draw"} => run_result.count.src >= 1

(* The queue implements the register of ResultChannel.                      *)
Channel == INSTANCE ResultChannel WITH
             submitted <- frame,
             inferred  <- od_results[0].results.src,
             drawn     <- run_result.results.src
ImplementsChannel == Channel!Spec

(* Main does not get stuck on the queue: the two retry loops around         *)
(* rkn_queue_add and rkn_result_get end for every frame taken from the      *)
(* VPSS, whatever letterbox() and rknn_run() return, so the frame is        *)
(* released again (unless an invalid access has ended the process).         *)
FrameIsReleased == mpc = "clear" ~> (mpc = "release" \/ fault # "none")

(* No picture is forgotten although main takes resize_ok back before        *)
(* rknn_thread may have seen it: every queued frame, or a newer one, is     *)
(* copied to the NPU input.                                                 *)
EveryFrameReachesNpu ==
  \A f \in 1..MaxFrame :
    (mpc = "poll" /\ frame = f) ~> (input.bottom >= f \/ fault # "none")

(* The comment at rtsp_opencv.cc:315: the results lag the output image by   *)
(* one frame.                                                               *)
LagsByOneFrame == mpc = "draw" => frame - run_result.results.src <= 1
=============================================================================
