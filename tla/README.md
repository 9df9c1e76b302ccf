# Verification of the RV1106 cat detector

TLA+ models, TLC runs and TLAPS proofs for the camera program of this
repository: a Luckfox Pico (RV1106) that looks for cats with YOLOv5 and points a
laser turret at them over MQTT.  Paths below are relative to the repository.

## 1. The system

The program's own code is about 2400 lines; the rest of the tree is vendored
(OpenCV, RGA, RKNN, Rockchip media, OpenSSL, Paho).  There are no tests.  Of the
vendored code the Paho MQTT client is modelled from its source
(`mqttlib/paho/src`), because its two threads call the program back.

| component | code | state | operations |
|---|---|---|---|
| detection pipeline | `src/rtsp_opencv.cc` (main loop), `src/image_handle.cc` (`letterbox`, `rkn_queue_add`, `rkn_result_get`, `rknn_thread`), `yolov5.cc` (`inference_yolov5_model`) | `resize_ok[2]`, `rkndo_ok[2]`, `resizeImages[2]`, `od_results[2]`, `dst_buf`, `input_mems[0]`; `idx` of the thread | one loop per thread, no lock |
| region tracking and turret | `src/image_handle.cc` (`pollingdecetbox`, `mapCoordinates`, `draw_result`), `src/paho_c_pub.c` (`mqtt_guard_ps_set`) | `region_sX`, `pollingarea`, `target_*`, `usecond_le`, `shake_val` | crop, draw, limit, command, select |
| post-processing | `postprocess.cc` | local vectors, the caller's result list | decode, sort, nms, emit |
| teasing switch | `src/paho_c_sub.c` | `Teasing_sw`, `subscribed`, `finished` | callbacks on Paho's receive thread |
| publisher | `src/paho_c_pub.c` | `connected`, `published` | callbacks, `MQTTAsync_send` |
| model life cycle | `yolov5.cc` | `rknn_app_ctx` | init, release |
| labels | `postprocess.cc` | `labels[80]` | read a file, look up, free |
| Paho client | `mqttlib/paho/src/MQTTAsync.c`, `MQTTAsyncUtils.c`, `Socket.c` | per client: connect options, `shouldBeConnected`, `retrying`, command list, pending write | a send thread and a receive thread |
| start-up | `src/rtsp_opencv.cc`, `src/image_handle.cc` | VI, VPSS, VENC, DMA buffers, threads | sequential set-up |
| DMA buffers | `3rdparty/allocator/dma/dma_alloc.cpp` | file descriptors, mappings | alloc, free |

How they interact.  The main loop takes a frame from the VPSS, crops 1080 x 1080
pixels, scales them to 640 x 640 (by the RGA into the one DMA buffer `dst_buf`, or
by OpenCV into a Mat of its own), hands the Mat to `rknn_thread` through a queue of
flags, takes a result list from the same queue, draws it, sends a turret command
and selects the next region.  `rknn_thread` copies the picture to the NPU, runs
the network and `post_process`, and raises a flag.  Paho's receive thread writes
`Teasing_sw`, which `draw_result` reads.

What is hard.  All shared state is plain globals: every order of the accesses of
two threads is possible, headers of `cv::Mat` are copied while they are assigned,
one DMA buffer backs all pictures.  Failures (RGA, import, `rknn_run`, VPSS) are
mostly ignored by the callers.  The rate limiter looks at microseconds only.  A
result list is used with whatever crop offset is current.  `PROJECT.json` lists
the hazards line by line.

What makes each part correct.  Pipeline: main never blocks while it holds a
frame; nothing invalid is accessed; pictures and results are not mixed and do not
go backwards; no picture is forgotten.  Turret: every command is in range, at a
limited rate, silent soon after the switch is off, and aimed with the right
offset.  Post-processing: a ranked list inside the picture, of boxes that do not
overlap as decoded, in which nothing is missing without a reason.  Switch and publisher: the last switch
message wins, also after a reconnect; no stale commands.  Start-up: no use of what
failed to initialise, no leaks.

## 2. Modules

| module | models | composed from |
|---|---|---|
| `RknnPipeline` | main loop and `rknn_thread`, one action per access to shared memory | `ResultChannel` (as its abstract specification) |
| `ResultChannel` | what the queue promises its clients: a register with the newest result | |
| `TurretControl` | `pollingdecetbox`, `draw_result`, `mqtt_guard_ps_set`, `messageArrived_s`, the clock | `TeasingSwitch` |
| `TeasingSwitch` | what a switch message means (`messageArrived_s`) | |
| `PahoConnection` | the connection of one Paho client (`MQTTAsync.c`, `MQTTAsyncUtils.c`) | |
| `SwitchLink` | `mqttsub_init`, the subscriber's callbacks, library, broker and user | `PahoConnection`, `TeasingSwitch` |
| `CommandLink` | `mqtt_init`, the publisher's callbacks, `mqtt_guard_ps_set`, library, socket and turret | `PahoConnection` |
| `TeasingSystem` | both MQTT clients in one program, from the user's message to the turret | `CommandLink`, `SwitchLink` |
| `Labels` | `readLine`, `readLines`, `coco_cls_to_name`, `deinit_post_process` | |
| `Startup` | `main` to its first result, `init_yolov5_model`, `image_hanlde_init`, `dma_buf_alloc`, `dma_buf_free` | |
| `PostProcess` | `post_process`, `process_i8_rv1106`, `CalculateOverlap`, `nms` | `Quantize`, `Ranking` |
| `QuickSort` | `quick_sort_indice_inverse`, one action per loop iteration | `Ranking` |
| `Ranking` | what the sort promises `post_process` | |
| `Quantize` | the int8 arithmetic of the decoder | |
| `MC*` | values of the constants for TLC | |
| `*Proofs` | theorems | |

### RknnPipeline

Two program counters, `mpc` (main) and `rpc` (`rknn_thread`), step through the
accesses in program order; the actions are named after the function they belong
to (`QueueAdd...`, `ResultGet...`, `Letterbox...`, `Rknn...`, `Post...`).  The
build passes no `-O` and the RV1106 has one core, so the compiler keeps each
access and an execution is an interleaving of them.  Data are reduced to the
number of the frame they were written for: `dst_buf`, the halves `input.top` and
`input.bottom` of the NPU input, and the parts `count` and `results` of a list.
A `cv::Mat` is empty, refers to `dst_buf`, or owns storage.  Its assignment first
releases the old header and then takes the new one (OpenCV 4.9,
`include/opencv4/opencv2/core/mat.hpp:1065-1073`), so a reader may find it empty in
between: two actions, `QueueAddDropOld` and `QueueAddAssign`; the copy into
`temp_image` reads the fields and raises the reference count afterwards, also two
actions.  `fault` records the first invalid access (a null source of the copy, a
reference count of freed storage); the process has then ended and nothing moves
any more, which is why these runs do not check deadlock.

Outcomes of `letterbox` (`rga`, `cv`, `import_error`), of `rknn_run` (0, -1) and of
`RK_MPI_VPSS_GetChnFrame` are chosen nondeterministically from constants, so that a
run can say under which of them its properties hold.  `PostFill` stands for the
whole emitting loop of `post_process` (module `PostProcess` has its content).

### TurretControl

One action per part of a round: `Pollingdecetbox` crops and receives a result list
that belongs to any crop so far (`RknnPipeline` does not bound the lag);
`Detection` is one iteration of the loop of `draw_result`; `CheckLimiter` and
`Mqtt_guard_ps_set` are separate because the MQTT thread may change `Teasing_sw`
between the test and the command; `SelectRegion` is the end of `draw_result`.
`MessageArrived` and `Tick` interleave with all of them.  Coordinates are exact:
the float expressions of `mapCoordinates` and `mqtt_guard_ps_set` equal the integer
divisions of the model for every input in range.  Unsigned subtraction is modelled
with its width.  A list may be torn (see `RknnPipeline`): a phantom entry is an
ordinary box of class 0 here, and a box may have its left corner from one picture
and its right one from another, so nothing assumes `left <= right` (`Half` is C's
truncating division of a possibly negative width).  The history variable `polls`
counts the rounds in which polling, and not a target, selected the region.

### PostProcess, QuickSort, Quantize

`PostProcess` is a loop over calls, so that what one call leaves in the caller's
list is there when the next begins.  `Decode` is one cell, `Row` one iteration of
the outer loop of `nms` (with its whole inner loop: the code is sequential), `Emit`
one iteration of the last loop.  `nms` tests `classIds[i]` with `i` a position in
the ranking, and the model does the same.  Where a box lies (anchor, stride) is
given with the cell.  `nms` compares the boxes as decoded and the emitting loop clamps
them to the picture: `cand` has the former, `results` the latter.  The sort is any ranking in `PostProcess`; `QuickSort` shows
that the code's sort yields one.  Its recursion is a set of pending ranges of
which the leftmost is taken, the order in which the calls really happen.
`Quantize` has the fixed threshold 1/4 and scales of the form 1/S, in exact
integers; float rounding is not modelled.  The history variable `passed` counts the
cells whose score passes, whatever the cheap test on the confidence says.

### Labels

The file is a sequence of characters; `Getc` is one iteration of the loop of
`readLine` (one `realloc` per character), `EndOfLine` what follows it up to the next
call.  Every `fopen`, `malloc`, `realloc` and `fgetc` may fail.  `loadLabelName`
returns 0 whatever happens, so `init_post_process` cannot fail and main looks at
nothing; the names alone show what was read.  The lines of a file are defined by
counting newlines, independently of the reading loop.

### PahoConnection, SwitchLink, CommandLink

The library runs a send thread, which takes commands (CONNECT, DISCONNECT,
SUBSCRIBE, PUBLISH) off a list, and a receive thread, which reads packets and calls
back.  Its source is in the repository, in the version of the library the program
links.  `PahoConnection` has the part both clients share.  What matters to the
program is the life of the callbacks in the connect options: they are called at
most once per attempt and then dropped, except that a connection that cannot even
be begun (`ConnectError`) keeps them for the next attempt, while one that is refused
or closed later (`NextOrClose`) does not; and a CONNECT that is taken off the list
late carries its own copy and arms them again.  A DISCONNECT taken in the middle of an
attempt calls `onFailure5` and drops them (`GivesUpAttempt`).  `ending` holds what is about to close
the connection: a socket error that the receive thread has seen, or the internal
DISCONNECT a failed write puts at the head of the list.  `Ready` is
`processCommand`'s condition for sending anything else.  The environment chooses the
order of all this, so every order is explored.

`SwitchLink` adds the subscription: queued by `onConnect5_s` (it stays in the queue
if the connection breaks before it is sent), sent, answered, forgotten with the
session.  `wanted` is the switch as it would be if all the broker forwarded had
arrived, `cut` that a fault has cost the only subscription.  `CloseSession` forgets it with the
session, `AwaitsAnswer` is the SUBSCRIBE still to be answered.  `CommandLink` adds the
bounded buffer (`sendWhileDisconnected`), one packet that may be half written, and
the socket, whose packets may still arrive after the client has given the
connection up.  `should` is `shouldBeConnected`: an attempt that cannot be begun clears
it (`ConnectRefused`) and sets it again (`ConnectFails`) without the lock that
`MQTTAsync_send` takes, so a command decided in between is refused.  A connection that
breaks loses its socket, the half-written packet and one more that the send thread
writes before the receive thread has closed the socket, which is where the `+ 2` of
`LossIsBounded` comes from.  `accepted`, `executed` and `late` are history variables.  `Decide`
and `Mqtt_guard_ps_set` are separate steps for the same reason as in `TurretControl`.
The topic, the payload and the will are left out; what the broker does with a
command it has received (the program sends a message expiry of 0) is outside.

### TeasingSystem

The program's `main` calls `mqtt_init`, then `mqttsub_init`, then enters its loop.
`TeasingSystem` joins the two links: `CommandLink` is extended, `SwitchLink` is an
instance whose variables have names of their own, except `Teasing_sw`, which both
share.  In `CommandLink` the switch may change at any time; here it changes only in
`MessageArrived`, when a message of the user reaches `messageArrived_s`.  The library
keeps one command list for both clients, but a client whose first command has to
wait is skipped, CONNECT and DISCONNECT are drained before `checkTimeouts` adds
another, and each step holds `mqttasync_mutex`: each client sees a list of its own.
If one of the clients ends the process (`exit`) the other stops with it; broker,
turret and user go on.

The composition is shown to implement both specifications, and so every safety
property of either holds in the whole program.  New is `OffMeansRest`, which needs
both clients: an off message that stays on the topic ends with an empty buffer, an
empty socket and a turret at rest.

### Startup

Main looks at two return codes (`RK_MPI_SYS_Init`, `RK_MPI_SYS_Bind`); all others are
nondeterministic and recorded only in the history variable `failed`.  The media
calls are reduced to the set `video` of parts that stand, because all main ever sees
of them is whether a frame comes.  `init_yolov5_model` asks the model for its number of
outputs, any member of `OutputCounts`, and fills that many entries of `output_mems`,
which has three, while `post_process` reads three whatever the model has; the copies of the
attributes go into what `malloc` returned, unchecked.  `rknn_thread` runs from `CreateThread` on, beside
`image_hanlde_init`.  The model ends with the first result; `fault` is the first
invalid access, as in `RknnPipeline`, and ends the model too.  (A write behind `output_mems`
reaches `img_dma_buf`, which nothing uses: the process may survive it, but what it does then
is not defined.)  That `image_hanlde_init` returns nothing on
success only decides a printed line in this build.

## 3. Runs

| run | question | bounds and result |
|---|---|---|
| `pipeline_rga` | while the RGA resizes and `rknn_run` succeeds: typing, order of data, no result before an inference, the register, every frame reaches the NPU | 5 frames, enough for a result to be overtaken several times; holds |
| `pipeline_failures` | with every failure the code knows: does main ever block, is slot 1 ever used, is everything sound until the first published result | 3 frames: a second slot would be needed by the third at the latest; holds |
| `pipeline_lag` | the comment at `src/rtsp_opencv.cc:315`: results lag by one frame | violated |
| `turret` | the code's assertions (in `TypeOK`), range, offset, rate and late commands | boxes in all corners of the picture and a torn one; a second of 5 units and a gap of 2, so that two commands fit into a second and the subtraction wraps; holds |
| `turret_crop` | the comments at `src/image_handle.cc:136-138`: three regions are searched | violated: polling has selected all three, only one has been cropped (`region_sX = 420; /* todo */`) |
| `sort` | does the sort rank, keep pairs together, end | all vectors up to length 5 over 4 scores, ties included; holds |
| `post_process` | no score lost by the prefilter; decoded boxes that are kept disjoint; the list ranked, justified, inside the picture, capped | all lists of up to 4 of 8 cells, two of them on either side of the quantised threshold; list of 3 entries, so that it overflows; holds |
| `switch_link` | is the switch obeyed, what happens after a reconnection | 3 faults, so that a reconnection fails as well, 2 retained messages; holds |
| `command_link` | order, duplicates, loss and lateness of commands | buffer of 2 and socket of 1, both filled by the 6 commands with some refused, 2 faults; holds |
| `teasing_system` | do the two links still behave as specified in one program; does an off message bring the turret to rest | buffer and socket of 1, 3 commands (one executed, one in the socket, one buffered), 2 messages (the switch goes off and on again), 1 fault on each link; holds |
| `labels` | has every class its own name, is memory lost | every file of up to 5 characters over two letters and the newline, 2 labels: longer, shorter and unterminated files, empty lines; holds |
| `startup` | every combination of ignored failures | models with 2, 3 and 4 outputs: fewer than `output_mems` has entries, as many, more; the state space is finite without further bounds; holds |

Fairness.  `RknnPipeline!FairSpec` assumes weak fairness of each thread: both are
ordinary time-shared threads that spin and never wait on a lock.  Main is not
assumed to get another frame (`mpc # "get"`): that is the camera's business.
`QuickSort!FairSpec` says that sequential code runs on.  `SwitchLink!FairSpec` and
`CommandLink!FairSpec` let the library's threads and the broker move on, and ask
nothing of the network: the liveness properties have a connection that stands in the
end (`<>[](link = "up")`) as their hypothesis.  `TeasingSystem!SystemFairSpec` is the
conjunction of both for the actions of the composition, and lets main send what it
has decided to send; `OffMeansRest` does not ask main to decide anything, and the
bound on commands plays no part in it, since nothing is decided once the switch is
off.  `Startup!FairSpec` is fair to the two
threads.  These runs do not check deadlock: the program may exit, and the
bounds on faults and commands end a behaviour.  `labels` ends when the names are freed.

The two violations are disagreements between comments and code, listed under
`findings`.  Other behaviour worth knowing is reachable in the models but
contradicts nothing the repository says, so it is not asserted: after the first
result `rknn_thread` keeps reading slot 0 without a flag and may copy a header that
is being assigned (`fault = "null"`) or storage that was freed (`"freed"`, OpenCV
fallback only); the network may see a picture of two frames; main may copy an old
count with zeroed entries; `nms` drops candidates because of boxes of other classes; two
reported boxes of one class that are cut off at the border of the picture may overlap by
more than `NMS_THRESH`, because they are clamped after `nms` (decoded x = -4..5 and 0..9
share less than half of what they cover, 0..5 and 0..9 more); two commands on either side of a
second's boundary may follow each other at once; after a failed `rknn_run` the old list is
published again.

## 4. Proofs

All theorems hold for every value of the constants that satisfies the modules'
assumptions; where a theorem assumes more it says so (`ResizeOutcomes`, `RunOutcomes`
below).  Every invariant, every safety action property and both refinements that a
passing run checks are stated by a theorem.  The inductive invariants were checked by
TLC as invariants of the runs before they were proved.

A liveness property cannot be proved here, because it rests on fairness.  What it rests
on besides can: a measure that the steps of the scheduled threads lower and that other
steps do not raise.  The theorems named *progress* below say this for each system, with
the exceptions each has (a poll, a new command, a message of the user); TLC checks the
liveness property itself on a small instance.

`RknnPipelineProofs` (assumption `ConstantsAssumption`)
- `TypeCorrect`: `TypeOK` is inductive.
- `OneSlot`: `OneSlotSuffices`.  The inductive invariant adds that the loop indices
  and `idx` are 0 whenever they are used, and that slot 0's flag is down from
  `ResultGetTake` to the next `QueueAddFlag`.
- `FirstHandOff`: `FirstHandOffIsClean`, whatever fails (an empty Mat is excepted in it).
  The invariant ties the two program counters together while `rkndo_ok[0] = 0`:
  `rknn_thread` is past its scan only if main waits in `rkn_result_get`.
- `TagsStayOrdered`, `QueueIsARegister`: with `ResizeOutcomes = {"rga"}`, the chain of
  inequalities between the tags is inductive once the steps inside a copy are
  distinguished, and every step is a step of `ResultChannel` or leaves it unchanged.
- `ResultsAreInferred`: `NoResultBeforeInference`, with `RunOutcomes = {0}` and any outcome
  of `letterbox`.  `WrittenInv` says that a picture which refers to anything refers to
  a frame of the camera, and that the flag is raised after the list is written.  The
  hypothesis is needed: after an `rknn_run` that fails `rknn_thread` raises the flag all
  the same, and a first list is then one that nothing has filled.
- `RoundEnds` (progress, behind `FrameIsReleased`): `MainLeft` counts the steps of main
  up to the release of its frame.  Every step of main lowers it but one: the poll for the
  very first result.  Meanwhile every step of `rknn_thread` lowers `RknnLeft`, which needs
  that the flag of the first picture is still up (`FirstFlagged`).  So 14 steps of main and
  13 of `rknn_thread` are enough, unless one of them crashes.
- `PicturesArrive` (progress, behind `EveryFrameReachesNpu`, `ResizeOutcomes = {"rga"}`):
  `NpuLeft` counts the steps of `rknn_thread` up to a copy of `dst_buf`.  Main takes
  `resize_ok` back at will, but `rknn_thread` still knows the slot (`IdxSticks`), so
  no step of main raises it; neither `dst_buf` nor the NPU input goes back to an older frame.

`TurretControlProofs` (`ClockAssumption`, `BoxesAssumption`)
- `TypeCorrect`; `TurretRange` and `OwnCrop` from the invariant that `region_sX` and all
  crops are 420 while a list is handled and the box at hand lies in the crop;
  `OneLateCommand` (a command that passed the test but is not sent counts as late
  already); `RateLimit` (each grant of a second lies `Gap` after the one before, so
  the last one lies at least `(granted - 1) * Gap` into the second).

`PostProcessProofs` (`PostAssumption`)
- `TypeCorrect`: all indices lie inside their vectors, `count` within the list.
- `DisjointSurvivors`: `SurvivorsDisjoint`, of the decoded boxes; the clamped ones of the
  list may overlap (section 3).  The rows are visited class by class, so
  "earlier rows are done" is not inductive; the invariant says which rows have had
  their turn (`Handled`) and that a surviving one of these overlaps no surviving
  later row.  After the last class all rows have.
- `ResultsInPicture`: `BoxesInPicture`, each coordinate in the range
  `BoxesAssumption` of `TurretControl` asks for.
- `RankedResults`: `ResultsRanked`.  `RowsRanked` says that `nms`, which overwrites entries
  of `indexArray`, leaves the surviving rows a ranking; the emitting loop then goes
  down it, and what it has reported is no worse than what is to come.
- `DroppedForAReason`: `NothingDroppedForNothing`.  `AllAccounted` says that every candidate
  is still in the ranking or overlaps a better one (`Excused`), and that the rows the
  emitting loop has passed are reported or the list is full of better ones, which is
  where `ResultsRanked` comes in.  It rests on the fact
  that an injection of the positions into themselves reaches every position.
- `NoScoreLost`: `PrefilterLosesNothing`, from `PrefilterIsSound` (for every zero point
  and inverse scale) and `ProbabilityAssumption`: class values are outputs of a sigmoid.

`QuickSortProofs` (`SortAssumption`)
- `TypeCorrect`: no scan and no recursive call leaves the vectors.
- `RankingCorrect`: `RanksScores`, so `quick_sort_indice_inverse` yields what `PostProcess`
  takes for granted.  During a partition one element is out of the vectors, so neither
  the pairing nor the order can be stated of them as they are.  The invariant speaks of
  the vectors with the pivot put into the hole (`Filled`), in which `MoveDown` and
  `MoveUp` are exchanges of two elements: they stay a permutation with each score beside
  its index (`Accompanied`), any two elements stand in order unless one pending range
  holds both (`Ordered`), and the ranges are disjoint.  When no range is left, all is
  in order.
- `SortIsBounded` (progress, behind `Terminates`): `Work` weighs the positions still in a
  range that has to be sorted, a number that falls when a pivot is placed and never grows,
  with the most steps a partition can take, and adds what is left of the current one.  Every
  step lowers it, from 3n^2 + 4n at most: the sort is quadratic at worst, ties included.
- `NextRangeExists`: as long as a range is pending the recursion has a leftmost one to go
  on with; it cannot stop before the vectors are sorted.

`SwitchLinkProofs` (`LinkAssumption`)
- `TypeCorrect`: with the invariant that nothing is sent, granted or on the wire without
  a connection.
- `Deafness`: `StaysDeaf`.  `Deaf` is closed under every step: without an armed
  callback, here or in a queued CONNECT, `onConnect5_s` is not called, and it is the
  only one that subscribes.
- `DeafOnlyByFault`: `Deaf` implies `cut`.  `SubscriptionInv`: unless a fault has been charged
  with the loss, the way to a subscription is open somewhere (callbacks armed, a CONNECT
  that arms them, a SUBSCRIBE queued or sent, or a session that has it).  `UserIsObeyed`
  excepts `cut`; this shows that the exception covers every way to become deaf.
- `SwitchFollows`: with nothing on the wire, `Teasing_sw = wanted`.  `WireInv` says that the
  last packet on the wire that decides makes `wanted` of `Teasing_sw`, and without one
  they are equal; no message is taken twice, skipped or overtaken.
- `SettledIsObeyed`, `StandingLinkSettles` (progress, behind `UserIsObeyed`): `Pending`
  weighs the requests in the queue, those at the broker and the packets on the wire.  While
  the connection stands no step raises it but a message of the user, the session is not lost,
  and when it is 0 the program is subscribed and the switch is what the user wanted,
  unless a fault has been charged (`cut`).  `AskedInv` is the invariant: `onConnect5_s` is called
  when the connection comes up, or its request is in the queue, at the broker or granted.

`TeasingSystemProofs` (`LinkAssumption`, `SystemAssumption`): first the publisher alone
(`CommandLink`), then the program with both clients
- `TypeCorrect`, with the invariant that a decided command has a number.
- `LateCommands`: `LateIsBounded`.  While the switch is off the late commands and the
  committed ones (buffer, packet being written, socket, the decided one) together
  stay below the bound, because nothing new is decided.  With the program's buffer of
  100 the turret may still make 100 moves and those of the socket.
- `RefusedForAReason`: `AcceptedWhileDown`, from the invariant that `should` is down, after
  the start, only while a CONNECT that fails is being given up (`GivingUp`).
- `InOrder`: `InOrderAtMostOnce`.  `OrderInv`: executed commands, those in the socket, the one
  half written, those buffered and the next one stand in the order of their decisions.
- `LossBounded`: `LossIsBounded`.  The bound itself is not inductive, because a connection
  that breaks loses its packets only later.  `LossInv` adds what the faults counted so
  far may still cost (`Debt`): the packets in the socket, and one command while the send
  thread has not seen that the socket is broken.  `Cardinality(Lost) + Debt` grows by at
  most `SocketSize + 2` with a fault and never without one.
- `CommandsMoveOn`, `OffDrains` (progress, behind `BufferDrains` and `OffMeansRest`):
  `Moves` counts the moves left to the commands in buffer, packet and socket.  Every step
  that touches one lowers it, except the one by which `draw_result` queues a new one; with the
  switch off and nothing decided there is no such step, and what is left is at most
  `3 * MaxBuffered + SocketSize + 2` moves.
- `LinksAsSpecified`: `ImplementsLinks`.  Every step of the program is a step of
  `CommandLink` and of `SwitchLink`, or leaves the variables of either unchanged.  The
  invariant says that the subscriber does not start before `mqtt_init` is through, so
  that the switch changes only when `CommandLink` lets it.
- `LateInProgram`, `RefusedInProgram`, `OrderInProgram`, `LossInProgram`,
  `OffDrainsInProgram`, `DeafInProgram`, `SwitchInProgram`, `SettledInProgram`: the links'
  theorems carried over.  The last three come from `SwitchLinkProofs`, instantiated with
  the program's variables.

`LabelsProofs` (`LabelsAssumption`)
- `NamesCorrect`: `NamesAreTheLines`.  `Reading` says what the position in the file means:
  `malloc` is called at the beginning of line `i` or behind an unterminated last line,
  and `buffer` is the part of line `i` read so far.  `Stored` says that the names are the
  first `i` lines.  Lines are defined by counting newlines, so the lemmas are about
  the cardinality of a set that grows with the position.
- `BlocksAccounted`: `NoBlockIsLost`, from `blocks` = the names and the line being read.

`StartupProofs` (`OutputsAssumption`)
- `TypeCorrect`, `ThreadWaits`, `LeakBound`, `NoFaultWithoutCause` from
  one inductive invariant: the context is stored after everything it needs
  (`ModelInv`), the descriptors held at each step of `image_hanlde_init` (`BufferInv`),
  and the thread behind main (`ThreadInv`).  `NoFaultWithoutCause` is about any set of model
  files: an `"outputs"` fault needs a model without exactly three outputs.

Only model-checked: the liveness properties (`FrameIsReleased`,
`EveryFrameReachesNpu`, `Terminates`, `UserIsObeyed`, `BufferDrains`, `OffMeansRest`,
`FirstResult`), which are out of the prover's reach because they rest on fairness.  Of the
first six the measure is proved; what is left to TLC is that a fair step is enabled
as long as the measure is not 0, and the induction over the measure.  For `FirstResult`
no measure is stated.  The two properties of section 3 that TLC refutes are not theorems.

## 5. Plan

Done, in this order: the pipeline and its abstract channel, the turret, the
post-processing, the MQTT links, the start-up, the links mapped to the library's
source and composed, the labels; then the proofs of all safety properties, and of what
the liveness properties rest on besides fairness.  Left open: the **composition** of
`RknnPipeline` with `TurretControl`, that is, which crop the list behind a command can be
from.  `TurretControl` allows any crop so far, which covers it, so the composition would
only narrow what its properties are checked for.

## 6. Not modelled

Float rounding in the decoder and the overlap; the truncation of box corners to whole
pixels (boxes are integers from the start); the arithmetic that places a box (grid,
stride, anchor: exact fractions of it exceed TLC's integers); the pixel operations of the RGA and
OpenCV; drawing and printing; the functions that are not compiled in or never
called (`process_i8`, `process_fp32`, `dm_cat_is_dected`, RTSP and the encoder
thread); the cleanup after main's endless loop, `release_yolov5_model` with it, which no
execution reaches (`Labels` has `deinit_post_process` all the same, to say what is to be
freed); of the Paho client QoS 1 and 2, persistence, TLS, proxies, several servers and
the synchronous API, which the program does not use; all other vendored libraries,
except for what the program uses of `cv::Mat`.  The parts of section 5 are open.

## 7. Running

    tlc -config PipelineRga.cfg MCRknnPipeline
    tlapm RknnPipelineProofs.tla

and likewise for the other configurations and proof modules; `PROJECT.json` lists
which configuration belongs to which module, the mutations that each property
detects, and the source lines of every definition.
