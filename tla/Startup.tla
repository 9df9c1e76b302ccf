------------------------------ MODULE Startup ------------------------------
(***************************************************************************)
(* From the start of main (src/src/rtsp_opencv.cc) to the first result     *)
(* list: init_yolov5_model, the camera, the MQTT clients, the creation of  *)
(* rknn_thread, image_hanlde_init with its two DMA buffers, and one round  *)
(* of the two loops.  Main looks at two of the many return codes, so that  *)
(* it may enter its loop with any part of the program missing.  A model    *)
(* file with another number of outputs than the three the code is written  *)
(* for is not refused either.                                              *)
(*                                                                         *)
(* Later rounds, and the single accesses of a round, are the matter of     *)
(* RknnPipeline; in the first round slot 0 is the only one in use.  The    *)
(* model ends with the first invalid access.  Most of them end the process *)
(* too; a write behind output_mems only reaches img_dma_buf, which nothing *)
(* uses, but what follows from it is not defined.                          *)
(***************************************************************************)
EXTENDS Naturals

CONSTANT OutputCounts     \* the n_output a model file may have

ASSUME OutputsAssumption == OutputCounts \subseteq Nat \ {0}

OutputMems == 3           \* rknn_tensor_mem* output_mems[3]

VARIABLES
  mpc, rpc,               \* main; rknn_thread ("none" before it is created)
  n_output,               \* outputs of the model (0: not asked yet)
  rknn_ctx,               \* of rknn_app_ctx: the context (1: some context),
  input_mems,             \*   there is a memory for the input,
  output_mems,            \*   number of outputs with a memory,
  attrs,                  \*   the attributes have been copied
  video,                  \* the parts of the camera that were set up
  src_buf, dst_buf,       \* "null", "mapped", "unmapped"
  heap_fds, buf_fds,      \* the buffers whose heap, or own, descriptor is open
  image,                  \* resizeImages[0]: "empty", "picture"
  resize_ok, rkndo_ok,    \* of slot 0
  failed,                 \* what has failed so far
  fault                   \* the first invalid access: the model ends there

mems    == <<input_mems, output_mems>>
model   == <<n_output, rknn_ctx, mems, attrs>>
buffers == <<src_buf, dst_buf, heap_fds, buf_fds>>
slot    == <<image, resize_ok, rkndo_ok>>
vars    == <<mpc, rpc, model, video, buffers, slot, failed, fault>>

VideoParts == {"dev", "chn", "vpss"}
Buffers    == {"src", "dst"}
InitSteps  == {"rknn_init", "set_input", "set_output", "set_context", "media", "bind",
               "mqtt", "thread", "alloc_src", "alloc_dst", "free_src"}
LoopSteps  == {"get", "letterbox", "queue", "result", "drawn"}
Failures   == {"rknn_init", "set_input", "set_output", "malloc", "thread",
               "src", "dst", "import"}

TypeOK ==
  /\ mpc \in InitSteps \cup LoopSteps \cup {"exit"}
  /\ rpc \in {"none", "scan", "copy", "run", "post", "done", "idle"}
  /\ n_output \in OutputCounts \cup {0}
  /\ rknn_ctx \in {0, 1} /\ input_mems \in {"null", "mem"}
  /\ output_mems \in 0..OutputMems /\ attrs \in {"null", "copied"}
  /\ video \subseteq VideoParts
  /\ src_buf \in {"null", "mapped", "unmapped"} /\ dst_buf \in {"null", "mapped"}
  /\ heap_fds \subseteq Buffers /\ buf_fds \subseteq Buffers
  /\ image \in {"empty", "picture"}
  /\ resize_ok \in {0, 1} /\ rkndo_ok \in {0, 1}
  /\ failed \subseteq Failures
  /\ fault \in {"none", "outputs", "attrs", "buffer", "input", "picture"}

Init ==
  /\ mpc = "rknn_init" /\ rpc = "none"
  /\ n_output = 0 /\ rknn_ctx = 0 /\ input_mems = "null" /\ output_mems = 0 /\ attrs = "null"
  /\ video = {}
  /\ src_buf = "null" /\ dst_buf = "null" /\ heap_fds = {} /\ buf_fds = {}
  /\ image = "empty" /\ resize_ok = 0 /\ rkndo_ok = 0
  /\ failed = {} /\ fault = "none"

Alive == fault = "none"
Fails(what) == failed' = failed \cup {what}

-----------------------------------------------------------------------------
(* init_yolov5_model, whose result main ignores.                            *)

(* rknn_init and the queries, which tell how many outputs there are.        *)
Rknn_init ==
  /\ mpc = "rknn_init"
  /\ \/ /\ mpc' = "set_input" /\ n_output' \in OutputCounts
        /\ UNCHANGED failed
     \/ mpc' = "media" /\ Fails("rknn_init") /\ UNCHANGED n_output
  /\ UNCHANGED <<rpc, rknn_ctx, mems, attrs, video, buffers, slot, fault>>

(* Mutant: the result of rknn_set_io_mem is not looked at.                  *)
SetInputMem_Unchecked ==
  /\ mpc = "set_input" /\ mpc' = "set_output"
  /\ input_mems' \in {"null", "mem"}
  /\ UNCHANGED <<rpc, n_output, rknn_ctx, output_mems, attrs, video, buffers, slot,
                 failed, fault>>

(* rknn_create_mem may return NULL, which rknn_set_io_mem refuses.          *)
SetInputMem ==
  /\ mpc = "set_input"
  /\ input_mems' \in {"null", "mem"}
  /\ \/ input_mems' = "mem" /\ mpc' = "set_output" /\ UNCHANGED failed
     \/ mpc' = "media" /\ Fails("set_input")
  /\ UNCHANGED <<rpc, n_output, rknn_ctx, output_mems, attrs, video, buffers, slot, fault>>

(* One output.  The array has OutputMems entries, whatever n_output is.     *)
SetOutputMem ==
  /\ mpc = "set_output"
  /\ \/ /\ output_mems < OutputMems
        /\ \/ /\ output_mems' = output_mems + 1
              /\ mpc' = IF output_mems' = n_output THEN "set_context" ELSE mpc
              /\ UNCHANGED failed
           \/ mpc' = "media" /\ Fails("set_output") /\ UNCHANGED output_mems
        /\ UNCHANGED fault
     \/ /\ output_mems = OutputMems
        /\ fault' = "outputs"
        /\ UNCHANGED <<mpc, output_mems, failed>>
  /\ UNCHANGED <<rpc, n_output, rknn_ctx, input_mems, attrs, video, buffers, slot>>

(* The context is kept, and copies of the attributes, into what malloc      *)
(* returned.                                                                *)
SetContext ==
  /\ mpc = "set_context"
  /\ rknn_ctx' = 1
  /\ \/ attrs' = "copied" /\ mpc' = "media" /\ UNCHANGED <<failed, fault>>
     \/ Fails("malloc") /\ fault' = "attrs" /\ UNCHANGED <<attrs, mpc>>
  /\ UNCHANGED <<rpc, n_output, mems, video, buffers, slot>>

-----------------------------------------------------------------------------
(* RK_MPI_SYS_Init, vi_dev_init, vi_chn_init and dm_vpss_init: main leaves  *)
(* only if the first fails.                                                 *)
MediaInit ==
  /\ mpc = "media"
  /\ \/ mpc' = "exit" /\ UNCHANGED video
     \/ mpc' = "bind" /\ video' \in SUBSET VideoParts
  /\ UNCHANGED <<rpc, model, buffers, slot, failed, fault>>

(* RK_MPI_SYS_Bind and dm_venc_init.                                        *)
Bind ==
  /\ mpc = "bind" /\ mpc' \in {"exit", "mqtt"}
  /\ UNCHANGED <<rpc, model, video, buffers, slot, failed, fault>>

(* mqtt_init and mqttsub_init may call exit().                              *)
MqttInit ==
  /\ mpc = "mqtt" /\ mpc' \in {"exit", "thread"}
  /\ UNCHANGED <<rpc, model, video, buffers, slot, failed, fault>>

(* pthread_create of rknn_thread; a failure is only printed.                *)
CreateThread ==
  /\ mpc = "thread" /\ mpc' = "alloc_src"
  /\ \/ rpc' = "scan" /\ UNCHANGED failed
     \/ Fails("thread") /\ UNCHANGED rpc
  /\ UNCHANGED <<model, video, buffers, slot, fault>>

-----------------------------------------------------------------------------
(* image_hanlde_init; its missing return value on success only decides what *)
(* main prints.                                                             *)

(* dma_buf_alloc for buffer b: the call that fails, or "ok".  Only success  *)
(* closes the descriptor of the heap.                                       *)
Dma_buf_alloc(b, result) ==
  /\ heap_fds' = IF result \in {"ioctl", "mmap"} THEN heap_fds \cup {b} ELSE heap_fds
  /\ buf_fds'  = IF result \in {"mmap", "ok"} THEN buf_fds \cup {b} ELSE buf_fds

AllocSrc ==
  /\ mpc = "alloc_src"
  /\ \E result \in {"ok", "open", "ioctl", "mmap"} :
       /\ Dma_buf_alloc("src", result)
       /\ IF result = "ok" THEN src_buf' = "mapped" /\ mpc' = "alloc_dst" /\ UNCHANGED failed
                           ELSE mpc' = "get" /\ Fails("src") /\ UNCHANGED src_buf
  /\ UNCHANGED <<rpc, model, video, dst_buf, slot, fault>>

AllocDst ==
  /\ mpc = "alloc_dst"
  /\ \E result \in {"ok", "open", "ioctl", "mmap"} :
       /\ Dma_buf_alloc("dst", result)
       /\ IF result = "ok" THEN dst_buf' = "mapped" /\ mpc' = "get" /\ UNCHANGED failed
                           ELSE mpc' = "free_src" /\ Fails("dst") /\ UNCHANGED dst_buf
  /\ UNCHANGED <<rpc, model, video, src_buf, slot, fault>>

(* Mutant: the address of the other buffer is used.                         *)
Dma_buf_free_Dst ==
  /\ mpc = "free_src" /\ mpc' = "get"
  /\ dst_buf' = "unmapped" /\ buf_fds' = buf_fds \ {"src"}
  /\ UNCHANGED <<rpc, model, video, src_buf, heap_fds, slot, failed, fault>>

(* Mutant: the source buffer is kept.                                       *)
Dma_buf_free_Nothing ==
  /\ mpc = "free_src" /\ mpc' = "get"
  /\ UNCHANGED <<rpc, model, video, buffers, slot, failed, fault>>

(* dma_buf_free of the source; src_buf keeps its value.                     *)
Dma_buf_free ==
  /\ mpc = "free_src" /\ mpc' = "get"
  /\ src_buf' = "unmapped" /\ buf_fds' = buf_fds \ {"src"}
  /\ UNCHANGED <<rpc, model, video, dst_buf, heap_fds, slot, failed, fault>>

-----------------------------------------------------------------------------
(* The first round of main.                                                 *)

(* RK_MPI_VPSS_GetChnFrame yields no frame if the camera is incomplete.     *)
GetChnFrame ==
  /\ mpc = "get" /\ video = VideoParts
  /\ mpc' = "letterbox"
  /\ UNCHANGED <<rpc, model, video, buffers, slot, failed, fault>>

(* letterbox writes both buffers before it looks at anything.               *)
Letterbox ==
  /\ mpc = "letterbox"
  /\ IF src_buf = "mapped" /\ dst_buf = "mapped"
       THEN /\ mpc' = "queue"
            /\ \/ image' = "picture" /\ UNCHANGED failed
               \/ image' = "empty" /\ Fails("import")
            /\ UNCHANGED fault
       ELSE fault' = "buffer" /\ UNCHANGED <<mpc, image, failed>>
  /\ UNCHANGED <<rpc, model, video, buffers, resize_ok, rkndo_ok>>

QueueAdd ==
  /\ mpc = "queue" /\ mpc' = "result"
  /\ resize_ok' = 1
  /\ UNCHANGED <<rpc, model, video, buffers, image, rkndo_ok, failed, fault>>

ResultGet ==
  /\ mpc = "result" /\ rkndo_ok = 1 /\ mpc' = "drawn"
  /\ resize_ok' = 0
  /\ UNCHANGED <<rpc, model, video, buffers, image, rkndo_ok, failed, fault>>

-----------------------------------------------------------------------------
(* The first round of rknn_thread.                                          *)

(* Mutant: idx starts with 0.                                               *)
RknnScan_AtOnce ==
  /\ rpc = "scan"
  /\ rpc' = "copy"
  /\ UNCHANGED <<mpc, model, video, buffers, slot, failed, fault>>

RknnScan ==
  /\ rpc = "scan"
  /\ resize_ok = 1
  /\ rpc' = "copy"
  /\ UNCHANGED <<mpc, model, video, buffers, slot, failed, fault>>

(* memcpy to input_mems[0]->virt_addr.                                      *)
RknnCopy ==
  /\ rpc = "copy"
  /\ IF input_mems = "null" THEN fault' = "input" /\ UNCHANGED rpc
     ELSE IF image = "empty" THEN fault' = "picture" /\ UNCHANGED rpc
     ELSE rpc' = "run" /\ UNCHANGED fault
  /\ UNCHANGED <<mpc, model, video, buffers, slot, failed>>

(* Mutant: a failed inference is not reported.                              *)
RknnRun_Silent ==
  /\ rpc = "run"
  /\ \/ rknn_ctx # 0 /\ rpc' = "post"
     \/ rpc' = "idle"
  /\ UNCHANGED <<mpc, model, video, buffers, slot, failed, fault>>

(* rknn_run fails without a context.                                        *)
RknnRun ==
  /\ rpc = "run"
  /\ \/ rknn_ctx # 0 /\ rpc' = "post"
     \/ rpc' = "done"
  /\ UNCHANGED <<mpc, model, video, buffers, slot, failed, fault>>

(* post_process reads the memories and the attributes of outputs 0 to 2.    *)
Post_process ==
  /\ rpc = "post"
  /\ IF attrs = "copied" /\ output_mems = OutputMems
       THEN rpc' = "done" /\ UNCHANGED fault
       ELSE fault' = "outputs" /\ UNCHANGED rpc
  /\ UNCHANGED <<mpc, model, video, buffers, slot, failed>>

RknnDone ==
  /\ rpc = "done" /\ rpc' = "idle"
  /\ resize_ok' = 0 /\ rkndo_ok' = 1
  /\ UNCHANGED <<mpc, model, video, buffers, image, failed, fault>>

ModelInit == Rknn_init \/ SetInputMem \/ SetOutputMem \/ SetContext
ImageInit == AllocSrc \/ AllocDst \/ Dma_buf_free
Round == GetChnFrame \/ Letterbox \/ QueueAdd \/ ResultGet
Main ==
  /\ Alive
  /\ ModelInit \/ MediaInit \/ Bind \/ MqttInit \/ CreateThread \/ ImageInit \/ Round
RknnThread ==
  /\ Alive
  /\ RknnScan \/ RknnCopy \/ RknnRun \/ Post_process \/ RknnDone

Next == Main \/ RknnThread

Spec == Init /\ [][Next]_vars

FairSpec == Spec /\ WF_vars(Main) /\ WF_vars(RknnThread)

-----------------------------------------------------------------------------
(* Properties.                                                              *)

(* rknn_thread is created before image_hanlde_init has run.  It touches the *)
(* picture and the model only after main is through with all of it.         *)
ThreadWaitsForInit ==
  rpc \notin {"none", "scan"} => mpc \in {"result", "drawn"} /\ dst_buf = "mapped"

(* In the loop, the open descriptors are those of the two buffers, or all   *)
(* of them belong to the one allocation that failed: a failure leaks, but   *)
(* the buffer that had been allocated before is given back.                 *)
LeakIsOfOneFailure ==
  mpc \in LoopSteps =>
    \/ /\ heap_fds = {} /\ buf_fds = Buffers
       /\ src_buf = "mapped" /\ dst_buf = "mapped"
    \/ \E b \in Buffers : b \in failed /\ heap_fds \cup buf_fds \subseteq {b}

(* Nobody checks what init_yolov5_model returned, and still every invalid    *)
(* access of the first round goes back to a failure that main, letterbox or *)
(* init_yolov5_model did not act upon, or to a model that has not the three *)
(* outputs the program is written for.                                      *)
FaultHasACause ==
  /\ fault = "outputs" => n_output # OutputMems
  /\ fault = "attrs"   => "malloc" \in failed
  /\ fault = "buffer"  => "src" \in failed \/ "dst" \in failed
  /\ fault = "input"   => "rknn_init" \in failed \/ "set_input" \in failed
  /\ fault = "picture" => "import" \in failed

(* With a camera and a thread, the first result comes, even if the model    *)
(* failed to load or rknn_run fails, unless the process dies of an invalid  *)
(* access.                                                                  *)
FirstResult ==
  (mpc = "get" /\ video = VideoParts /\ rpc # "none") ~> (mpc = "drawn" \/ ~Alive)
=============================================================================
