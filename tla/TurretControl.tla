---------------------------- MODULE TurretControl ----------------------------
(***************************************************************************)
(* What the main loop does with a result list: pollingdecetbox chooses the *)
(* 1080 x 1080 region the next picture is cropped from, draw_result        *)
(* (src/src/image_handle.cc) maps the boxes back to the 1920 x 1080 image, *)
(* aims the laser turret at cats and dogs (mqtt_guard_ps_set,              *)
(* src/src/paho_c_pub.c) at a limited rate and while the teasing switch is *)
(* on, and selects the next region.  The switch is written by              *)
(* messageArrived_s (src/src/paho_c_sub.c) on the MQTT client's receive    *)
(* thread, and the clock runs on by itself.                                *)
(*                                                                         *)
(* A result list may belong to any frame cropped so far (RknnPipeline      *)
(* bounds neither the lag nor the number of frames skipped).  It may also  *)
(* be torn, copied while post_process rewrites it, so that a box may have  *)
(* its left corner from one picture and its right one from another.        *)
(***************************************************************************)
EXTENDS Integers, TeasingSwitch

CONSTANTS
  Boxes,    \* boxes in model coordinates, [left, top, right]
  Second,   \* clock units per second (the code's unit is the microsecond)
  Gap,      \* least difference of tv_usec between commands (300*1000)
  Word      \* 2^32 in clock units: the width of u32 usecond_le

ModelSize == 640

ASSUME ClockAssumption ==
  /\ Second \in Nat \ {0} /\ Gap \in Nat \ {0} /\ Word \in Nat
  /\ Gap <= Second /\ Second + Gap <= Word
ASSUME BoxesAssumption ==
  Boxes \subseteq [left : 0..ModelSize, top : 0..ModelSize, right : 0..ModelSize]

Person  == 0
Cat     == 15
Dog     == 16
Classes == {Person, Cat, Dog}      \* all others are skipped by the code

pos_x_dect   == [i \in 0..2 |-> 420 * i]   \* {0, 420, 840}
pos_mid_dect == [i \in 0..1 |-> 750 + 420 * i]
Areas        == 3                          \* pollingareacnt

VARIABLES
  pc,           \* main: "crop", "detect" (loop over the list), "check", "send"
  region_sX, pollingarea,
  target_have, target_s_x, target_e_x,     \* kept between rounds
  have_cat, have_target,                   \* locals of draw_result
  sX, sY,                                  \* top left corner of the mapped box
  t, usecond_le, shake_val,                \* rate limiter, turret shake
  Teasing_sw,                              \* written by messageArrived_s
  usec,                                    \* the clock's tv_usec
  crops, origin,  \* regions cropped so far; region the list at hand is from
  polls,          \* rounds whose region was chosen by polling, up to Areas
  granted,        \* commands the limiter let through in this second
  late,           \* commands sent since the switch went off
  command         \* the command sent last, [x, y], in degrees

tracker == <<region_sX, pollingarea, target_have, target_s_x, target_e_x>>
locals  == <<have_cat, have_target, sX, sY>>
limiter == <<t, usecond_le, shake_val>>
history == <<crops, origin, polls, granted, late, command>>
vars    == <<pc, tracker, locals, limiter, Teasing_sw, usec, history>>

Coordinates == 0..1920

(* The two assertions of the code, region_sX <= 840 in pollingdecetbox and  *)
(* pollingarea <= 2 in draw_result, hold in every state.                    *)
TypeOK ==
  /\ pc \in {"crop", "detect", "check", "send"}
  /\ region_sX \in {0, 420, 840} /\ pollingarea \in 0..2
  /\ target_have \in {0, 1}
  /\ target_s_x \in Coordinates /\ target_e_x \in Coordinates
  /\ have_cat \in {0, 1} /\ have_target \in {0, 1}
  /\ sX \in Coordinates /\ sY \in Coordinates
  /\ t \in 0..(Second - 1) /\ usecond_le \in 0..(Second - 1)
  /\ shake_val \in {-5, 5}
  /\ Teasing_sw \in {0, 1}
  /\ usec \in 0..(Second - 1)
  /\ crops \subseteq {0, 420, 840} /\ origin \in {0, 420, 840}
  /\ polls \in 0..Areas
  /\ granted \in Nat /\ late \in Nat
  /\ command \in [x : Int, y : Int]

Init ==
  /\ pc = "crop"
  /\ region_sX = 0 /\ pollingarea = 0
  /\ target_have = 0 /\ target_s_x = 0 /\ target_e_x = 0
  /\ have_cat = 0 /\ have_target = 0 /\ sX = 0 /\ sY = 0
  /\ t = 0 /\ usecond_le = 0 /\ shake_val = 5
  /\ Teasing_sw = 1
  /\ usec \in 0..(Second - 1)
  /\ crops = {} /\ origin = 0 /\ polls = 0
  /\ granted = 0 /\ late = 0
  /\ command = [x |-> 90, y |-> 60]     \* none yet: a harmless direction

-----------------------------------------------------------------------------
(* letterbox() scales by 640/1080 without padding, so mapCoordinates        *)
(* multiplies by 1080/640 and truncates.                                    *)
Unscale(v) == (27 * v) \div 16

(* u32 subtraction, for operands below Word.                                *)
SubU32(a, b) == IF a >= b THEN a - b ELSE a - b + Word

(* pollingdecetbox, and the result list that main gets for this round.      *)
CropRegion_Unpinned == region_sX           \* mutant: without the todo line
CropRegion == 420                          \* region_sX = 420; /* todo */

Pollingdecetbox ==
  /\ pc = "crop"
  /\ region_sX' = CropRegion
  /\ crops' = crops \cup {region_sX'}
  /\ origin' \in crops'
  /\ have_cat' = 0 /\ have_target' = 0
  /\ pc' = "detect"
  /\ UNCHANGED <<pollingarea, target_have, target_s_x, target_e_x, sX, sY,
                 limiter, Teasing_sw, usec, polls, granted, late, command>>

(* One iteration of the loop over the list.  A cat or a dog goes on to the  *)
(* rate limiter; a person is a target only while the list has shown no cat. *)
IsTarget(c) == c \in {Cat, Dog} \/ (c = Person /\ have_cat = 0)

Detection ==
  /\ pc = "detect"
  /\ \E c \in Classes, b \in Boxes :
       /\ sX' = Unscale(b.left) + region_sX
       /\ sY' = Unscale(b.top)
       /\ IF IsTarget(c)
            THEN /\ have_target' = 1
                 /\ target_s_x' = sX'
                 /\ target_e_x' = Unscale(b.right) + region_sX
            ELSE UNCHANGED <<have_target, target_s_x, target_e_x>>
       /\ IF c \in {Cat, Dog} THEN have_cat' = 1 /\ pc' = "check"
                              ELSE UNCHANGED <<have_cat, pc>>
  /\ UNCHANGED <<region_sX, pollingarea, target_have, limiter, Teasing_sw,
                 usec, history>>

(* Mutant: the switch is not tested.                                        *)
Allowed_NoSwitch == SubU32(usec, usecond_le) >= Gap

(* gettimeofday(&t); t.tv_usec - usecond_le >= 300*1000 && Get_TeasingSW()  *)
Allowed == SubU32(usec, usecond_le) >= Gap /\ Teasing_sw = 1

CheckLimiter ==
  /\ pc = "check"
  /\ t' = usec
  /\ IF Allowed
       THEN pc' = "send" /\ granted' = granted + 1
       ELSE pc' = "detect" /\ UNCHANGED granted
  /\ UNCHANGED <<tracker, locals, usecond_le, shake_val, Teasing_sw, usec,
                 crops, origin, polls, late, command>>

(* mqtt_guard_ps_set flips shake_val and sends the angles truncated to      *)
(* whole degrees; MQTTAsync_send's return code is not looked at.            *)
AngleX(x, shake) == (5 * x) \div 96 + 40 + shake     \* x / 19.2 + 40 + shake
AngleY(y)        == (5 * y) \div 216 + 50            \* y / 43.2 + 50

NextLimit_Stale  == usecond_le             \* mutant: no assignment
NextLimit        == t                      \* usecond_le = t.tv_usec

Mqtt_guard_ps_set ==
  /\ pc = "send"
  /\ shake_val' = -1 * shake_val
  /\ command' = [x |-> AngleX(sX, shake_val'), y |-> AngleY(sY)]
  /\ usecond_le' = NextLimit
  /\ late' = IF Teasing_sw = 0 THEN late + 1 ELSE late
  /\ pc' = "detect"
  /\ UNCHANGED <<tracker, locals, t, Teasing_sw, usec, crops, origin, polls,
                 granted>>

(* The end of draw_result: select the next region by the target_have of the *)
(* round before, and only then remember whether this round had a target.    *)
Half(d) == IF d >= 0 THEN d \div 2 ELSE -((-d) \div 2)     \* truncates
MidPos == Half(target_e_x - target_s_x) + target_s_x
AreaOfTarget == IF MidPos < pos_mid_dect[0] THEN 0
                ELSE IF MidPos < pos_mid_dect[1] THEN 1 ELSE 2
NextArea_OffByOne == (pollingarea + 1) % (Areas + 1)   \* mutant
NextArea == (pollingarea + 1) % Areas

SelectRegion ==
  /\ pc = "detect"
  /\ IF target_have = 0
       THEN /\ region_sX' = pos_x_dect[pollingarea]
            /\ pollingarea' = NextArea
            /\ polls' = IF polls < Areas THEN polls + 1 ELSE polls
       ELSE /\ region_sX' = pos_x_dect[AreaOfTarget]
            /\ UNCHANGED <<pollingarea, polls>>
  /\ target_have' = have_target
  /\ pc' = "crop"
  /\ UNCHANGED <<target_s_x, target_e_x, locals, limiter, Teasing_sw, usec,
                 crops, origin, granted, late, command>>

Main == Pollingdecetbox \/ Detection \/ CheckLimiter \/ Mqtt_guard_ps_set
          \/ SelectRegion

(* messageArrived_s.                                                        *)
MessageArrived ==
  /\ \E payload \in Payloads :
       Teasing_sw' = SwitchValue(payload, Teasing_sw)
  /\ late' = IF Teasing_sw' = Teasing_sw THEN late ELSE 0
  /\ UNCHANGED <<pc, tracker, locals, limiter, usec,
                 crops, origin, polls, granted, command>>

(* tv_usec starts over every second.                                        *)
Tick ==
  /\ IF usec + 1 < Second THEN usec' = usec + 1 /\ UNCHANGED granted
                          ELSE usec' = 0 /\ granted' = 0
  /\ UNCHANGED <<pc, tracker, locals, limiter, Teasing_sw,
                 crops, origin, polls, late, command>>

Next == Main \/ MessageArrived \/ Tick

Spec == Init /\ [][Next]_vars

-----------------------------------------------------------------------------
(* Properties.                                                              *)

(* Every command lies in the turret's range, which the comment above        *)
(* mqtt_guard_ps_set gives as x 40-140, y 50-75, the shake included.        *)
CommandInTurretRange == command.x \in 40..140 /\ command.y \in 50..75

(* A box is mapped back with the offset of the crop it was found in, though *)
(* the list may be many frames old and region_sX has been assigned since.   *)
MappedWithItsOwnCrop == pc # "crop" => origin = region_sX

(* Although only the microseconds are compared, and as u32, the limiter     *)
(* lets no more commands through per second than one every Gap.             *)
RateIsLimited == granted = 0 \/ (granted - 1) * Gap < Second

(* After the switch is turned off at most one command still goes out: the   *)
(* one draw_result had already been allowed.                                *)
AtMostOneLateCommand == late <= 1

(* The comments above pollingdecetbox: the search for a cat goes on in three *)
(* regions of 1080 x 1080.  Once polling has gone round them, a cat anywhere *)
(* in the 1920 pixels has been in some picture.                              *)
ThreeAreasAreSearched ==
  pc = "detect" /\ polls = Areas => crops = {pos_x_dect[i] : i \in 0..(Areas - 1)}
=============================================================================
