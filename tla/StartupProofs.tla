---------------------------- MODULE StartupProofs ----------------------------
(***************************************************************************)
(* The safety properties of Startup, for every set of model files, with    *)
(* three outputs or not, and every combination of failures.                *)
(***************************************************************************)
EXTENDS Startup, TLAPS

ModelSteps == {"rknn_init", "set_input", "set_output", "set_context"}

(* The context is stored last, when the memories are there, and without the *)
(* attributes the model has ended.                                          *)
ModelInv ==
  /\ mpc \in ModelSteps => rknn_ctx = 0 \/ ~Alive
  /\ mpc \in {"rknn_init", "set_input"} => output_mems = 0
  /\ mpc \in ModelSteps \ {"rknn_init"} => n_output \in OutputCounts
  /\ mpc \in {"set_output", "set_context"} => input_mems = "mem"
  /\ mpc = "set_output"  => output_mems < n_output
  /\ mpc = "set_context" => output_mems = n_output
  /\ rknn_ctx # 0 =>
       /\ input_mems = "mem" /\ output_mems = n_output
       /\ attrs = "copied" \/ ~Alive
  /\ rpc = "post" => rknn_ctx # 0
  /\ input_mems = "null" =>
       mpc \in ModelSteps \/ "rknn_init" \in failed \/ "set_input" \in failed

(* How far image_hanlde_init has come, and the descriptors it holds.        *)
BufferInv ==
  /\ mpc \in InitSteps \ {"alloc_dst", "free_src"}
       => heap_fds = {} /\ buf_fds = {} /\ src_buf = "null" /\ dst_buf = "null"
  /\ mpc = "alloc_dst" =>
       heap_fds = {} /\ buf_fds = {"src"} /\ src_buf = "mapped" /\ dst_buf = "null"
  /\ mpc = "free_src" => "dst" \in failed /\ heap_fds \subseteq {"dst"}
  /\ LeakIsOfOneFailure

(* The thread leaves its scan after main has queued a picture.              *)
ThreadInv ==
  /\ mpc \in InitSteps => rpc \in {"none", "scan"}
  /\ mpc \in {"queue", "result", "drawn"} =>
       dst_buf = "mapped" /\ (image = "picture" \/ "import" \in failed)
  /\ resize_ok = 1 \/ rpc \notin {"none", "scan"} => mpc \in {"result", "drawn"}

(* A fault has an ignored failure before it, or a model file of another     *)
(* kind.                                                                    *)
CauseInv ==
  /\ fault = "outputs" => n_output # OutputMems
  /\ fault = "attrs"   => "malloc" \in failed
  /\ fault = "buffer"  => "src" \in failed \/ "dst" \in failed
  /\ fault = "input"   => "rknn_init" \in failed \/ "set_input" \in failed
  /\ fault = "picture" => "import" \in failed

IInv == TypeOK /\ ModelInv /\ BufferInv /\ ThreadInv /\ CauseInv

USE DEF InitSteps, LoopSteps, ModelSteps

(* The invariant holds before main has done anything.                       *)
LEMMA InitIInv == Init => IInv
  BY OutputsAssumption
  DEF Init, IInv, TypeOK, ModelInv, BufferInv, ThreadInv, CauseInv,
      LeakIsOfOneFailure, VideoParts, Buffers, Failures, OutputMems, Alive

(* The sets of TypeOK first.                                                *)
LEMMA SetTypes ==
  ASSUME TypeOK, [Next]_vars
  PROVE  /\ video' \subseteq VideoParts /\ failed' \subseteq Failures
         /\ heap_fds' \subseteq Buffers /\ buf_fds' \subseteq Buffers
<1> USE DEF model, mems, buffers, slot, ModelInit, Rknn_init, SetInputMem,
        SetOutputMem, SetContext, MediaInit, Bind, MqttInit, CreateThread, ImageInit, AllocSrc, AllocDst,
        Dma_buf_free, Round, GetChnFrame, Letterbox, QueueAdd, ResultGet, RknnThread,
        RknnScan, RknnCopy, RknnRun, Post_process, RknnDone, vars, Next, Main
<1>1. video' = video \/ video' \subseteq VideoParts
  OBVIOUS
<1>2. failed' = failed \/ \E f \in Failures : failed' = failed \cup {f}
  BY DEF Fails, Failures
<1>3. \/ UNCHANGED <<heap_fds, buf_fds>>
      \/ heap_fds' = heap_fds /\ buf_fds' = buf_fds \ {"src"}
      \/ \E b \in Buffers : /\ heap_fds' \in {heap_fds, heap_fds \cup {b}}
                           /\ buf_fds' \in {buf_fds, buf_fds \cup {b}}
  BY DEF Dma_buf_alloc, Buffers
<1>4. QED BY <1>1, <1>2, <1>3 DEF TypeOK

(* Every step keeps the types.                                              *)
LEMMA TypeStep ==
  ASSUME TypeOK, ModelInv, [Next]_vars
  PROVE  TypeOK'
<1> USE OutputsAssumption, SetTypes DEF TypeOK, ModelInv, Alive, OutputMems, model, mems, buffers, slot
<1>1. CASE ModelInit
  BY <1>1 DEF ModelInit, Rknn_init, SetInputMem, SetOutputMem, SetContext
<1>2. CASE MediaInit \/ Bind \/ MqttInit \/ CreateThread
  BY <1>2 DEF MediaInit, Bind, MqttInit, CreateThread
<1>3. CASE ImageInit
  BY <1>3 DEF ImageInit, AllocSrc, AllocDst, Dma_buf_free
<1>4. CASE Round
  BY <1>4 DEF Round, GetChnFrame, Letterbox, QueueAdd, ResultGet
<1>5. CASE RknnThread
  BY <1>5 DEF RknnThread, RknnScan, RknnCopy, RknnRun, Post_process, RknnDone
<1>6. CASE UNCHANGED vars
  BY <1>6 DEF vars
<1>7. QED BY <1>1, <1>2, <1>3, <1>4, <1>5, <1>6 DEF Next, Main

(* Every step keeps the context behind what it needs.                       *)
LEMMA ModelStep ==
  ASSUME TypeOK, ModelInv, ThreadInv, [Next]_vars
  PROVE  ModelInv'
<1> USE OutputsAssumption DEF TypeOK, ModelInv, Fails, Alive, model, mems, buffers, slot
<1>1. CASE Alive /\ ModelInit
  <2>1. rpc' \in {"none", "scan"}
    BY <1>1 DEF ModelInit, Rknn_init, SetInputMem, SetOutputMem, SetContext, ThreadInv
  <2>2. CASE Rknn_init BY <1>1, <2>1, <2>2 DEF Rknn_init
  <2>3. CASE SetInputMem BY <2>1, <2>3 DEF SetInputMem
  <2>4. CASE SetOutputMem BY <2>1, <2>4 DEF SetOutputMem, OutputMems
  <2>5. CASE SetContext BY <2>1, <2>5 DEF SetContext
  <2>6. QED BY <1>1, <2>2, <2>3, <2>4, <2>5 DEF ModelInit
<1>2. CASE MediaInit \/ Bind \/ MqttInit \/ CreateThread
  BY <1>2 DEF MediaInit, Bind, MqttInit, CreateThread
<1>3. CASE ImageInit
  BY <1>3 DEF ImageInit, AllocSrc, AllocDst, Dma_buf_free
<1>4. CASE Round
  BY <1>4 DEF Round, GetChnFrame, Letterbox, QueueAdd, ResultGet
<1>5. CASE RknnThread
  BY <1>5 DEF RknnThread, RknnScan, RknnCopy, RknnRun, Post_process, RknnDone
<1>6. CASE UNCHANGED vars
  BY <1>6 DEF vars
<1>7. QED BY <1>1, <1>2, <1>3, <1>4, <1>5, <1>6 DEF Next, Main

(* Every step keeps account of the descriptors.                             *)
LEMMA BufferStep ==
  ASSUME TypeOK, BufferInv, [Next]_vars
  PROVE  BufferInv'
<1> USE DEF TypeOK, BufferInv, LeakIsOfOneFailure, Buffers, Fails, Alive, model, mems,
            buffers, slot
<1>1. CASE ModelInit
  BY <1>1 DEF ModelInit, Rknn_init, SetInputMem, SetOutputMem, SetContext
<1>2. CASE MediaInit \/ Bind \/ MqttInit \/ CreateThread
  BY <1>2 DEF MediaInit, Bind, MqttInit, CreateThread
<1>3. CASE AllocSrc
  BY <1>3 DEF AllocSrc, Dma_buf_alloc
<1>4. CASE AllocDst
  BY <1>4 DEF AllocDst, Dma_buf_alloc
<1>5. CASE Dma_buf_free
  BY <1>5 DEF Dma_buf_free
<1>6. CASE Round
  BY <1>6 DEF Round, GetChnFrame, Letterbox, QueueAdd, ResultGet
<1>7. CASE RknnThread
  BY <1>7 DEF RknnThread, RknnScan, RknnCopy, RknnRun, Post_process, RknnDone
<1>8. CASE UNCHANGED vars
  BY <1>8 DEF vars
<1>9. QED BY <1>1, <1>2, <1>3, <1>4, <1>5, <1>6, <1>7, <1>8 DEF Next, Main, ImageInit

(* Every step keeps rknn_thread behind main.                                *)
LEMMA ThreadStep ==
  ASSUME TypeOK, ThreadInv, [Next]_vars
  PROVE  ThreadInv'
<1> USE DEF TypeOK, ThreadInv, Fails, Alive, model, mems, buffers, slot
<1>1. CASE ModelInit
  BY <1>1 DEF ModelInit, Rknn_init, SetInputMem, SetOutputMem, SetContext
<1>2. CASE MediaInit \/ Bind \/ MqttInit \/ CreateThread
  BY <1>2 DEF MediaInit, Bind, MqttInit, CreateThread
<1>3. CASE ImageInit
  BY <1>3 DEF ImageInit, AllocSrc, AllocDst, Dma_buf_free
<1>4. CASE Round
  BY <1>4 DEF Round, GetChnFrame, Letterbox, QueueAdd, ResultGet
<1>5. CASE RknnThread
  BY <1>5 DEF RknnThread, RknnScan, RknnCopy, RknnRun, Post_process, RknnDone
<1>6. CASE UNCHANGED vars
  BY <1>6 DEF vars
<1>7. QED BY <1>1, <1>2, <1>3, <1>4, <1>5, <1>6 DEF Next, Main

(* A step that faults has its cause before it.                              *)
LEMMA CauseStep ==
  ASSUME IInv, [Next]_vars
  PROVE  CauseInv'
<1> USE DEF IInv, TypeOK, CauseInv, Fails, Alive, model, mems, buffers, slot
<1>0. Alive \/ UNCHANGED vars
  BY DEF Next, Main, RknnThread
<1>1. CASE Letterbox
  BY <1>1 DEF Letterbox, BufferInv, LeakIsOfOneFailure, Buffers
<1>2. CASE RknnCopy
  BY <1>2 DEF RknnCopy, ModelInv, ThreadInv
<1>3. CASE SetOutputMem
  BY <1>3 DEF SetOutputMem, ModelInv, OutputMems
<1>4. CASE SetContext
  BY <1>4 DEF SetContext
<1>5. CASE Post_process
  BY <1>0, <1>5 DEF Post_process, ModelInv, OutputMems, vars
<1>6. CASE Rknn_init
  BY <1>0, <1>6 DEF Rknn_init, vars
<1>7. CASE ~Letterbox /\ ~RknnCopy /\ ~SetOutputMem /\ ~SetContext
              /\ ~Post_process /\ ~Rknn_init
  <2>1. UNCHANGED <<fault, n_output>> /\ failed \subseteq failed'
    BY <1>7 DEF Next, Main, ModelInit, SetInputMem, MediaInit, Bind, MqttInit, CreateThread, ImageInit, AllocSrc, AllocDst,
       Dma_buf_free, Round, GetChnFrame, QueueAdd, ResultGet, RknnThread, RknnScan,
       RknnRun, RknnDone, vars
  <2>2. QED BY <2>1
<1>8. QED BY <1>1, <1>2, <1>3, <1>4, <1>5, <1>6, <1>7

(* The inductive invariant holds in every state.                            *)
LEMMA Invariance == Spec => []IInv
<1>1. IInv /\ [Next]_vars => IInv'
  BY TypeStep, ModelStep, BufferStep, ThreadStep, CauseStep DEF IInv
<1>2. QED BY InitIInv, <1>1, PTL DEF Spec

(* Type correctness for every set of model files.                           *)
THEOREM TypeCorrect == Spec => []TypeOK
<1>1. IInv => TypeOK BY DEF IInv
<1>2. QED BY Invariance, <1>1, PTL

(* rknn_thread, created before image_hanlde_init has run, does not touch    *)
(* the picture or the model before main is through with it.                 *)
THEOREM ThreadWaits == Spec => []ThreadWaitsForInit
<1>1. IInv => ThreadWaitsForInit BY DEF IInv, ThreadInv, ThreadWaitsForInit
<1>2. QED BY Invariance, <1>1, PTL

(* The descriptors dma_buf_alloc leaks are those of one failed allocation.  *)
THEOREM LeakBound == Spec => []LeakIsOfOneFailure
<1>1. IInv => LeakIsOfOneFailure BY DEF IInv, BufferInv
<1>2. QED BY Invariance, <1>1, PTL

(* Although the result of init_yolov5_model is ignored, every invalid       *)
(* access of the first round goes back to a failure nobody acted upon, or   *)
(* to a model file with another number of outputs than three: with three,   *)
(* output_mems is never overrun, and post_process never reads a memory or   *)
(* an attribute that is not there.                                          *)
THEOREM NoFaultWithoutCause == Spec => []FaultHasACause
<1>1. IInv => FaultHasACause BY DEF IInv, CauseInv, FaultHasACause
<1>2. QED BY Invariance, <1>1, PTL
=============================================================================
