-------------------------- MODULE TurretControlProofs --------------------------
(***************************************************************************)
(* Proofs about TurretControl, for every set of boxes in the 640 x 640     *)
(* picture and every clock unit (the code's: Second = 10^6, Gap = 3*10^5,  *)
(* Word = 2^32).                                                           *)
(***************************************************************************)
EXTENDS TurretControl, TLAPS

(* The crop region chosen for a target is one of the three columns of the   *)
(* table pos_x_dect.                                                        *)
LEMMA AreaRange ==
  ASSUME TypeOK
  PROVE  pos_x_dect[AreaOfTarget] \in {0, 420, 840}
  BY DEF AreaOfTarget, pos_x_dect

(* Reporting one detection keeps the coordinates inside the camera picture. *)
LEMMA DetectionTypes ==
  ASSUME TypeOK, Detection
  PROVE  TypeOK'
<1>1. PICK b \in Boxes, c \in Classes :
        /\ sX' = Unscale(b.left) + region_sX
        /\ sY' = Unscale(b.top)
        /\ IF IsTarget(c)
             THEN /\ have_target' = 1
                  /\ target_s_x' = sX'
                  /\ target_e_x' = Unscale(b.right) + region_sX
             ELSE UNCHANGED <<have_target, target_s_x, target_e_x>>
        /\ IF c \in {Cat, Dog} THEN have_cat' = 1 /\ pc' = "check"
                               ELSE UNCHANGED <<have_cat, pc>>
  BY DEF Detection
<1>2. /\ b.left \in 0..640 /\ b.top \in 0..640 /\ b.right \in 0..640
  <2>1. b \in [left : 0..640, top : 0..640, right : 0..640]
    BY BoxesAssumption, SMTT(30) DEF ModelSize
  <2> QED
    BY <2>1
<1>3. region_sX \in {0, 420, 840}
  BY DEF TypeOK
<1>4. /\ Unscale(b.left) + region_sX \in Coordinates
      /\ Unscale(b.right) + region_sX \in Coordinates
      /\ Unscale(b.top) \in Coordinates
  <2>1. Unscale(b.left) + region_sX \in Coordinates
    BY <1>2, <1>3, SMTT(60) DEF Unscale, Coordinates
  <2>2. Unscale(b.right) + region_sX \in Coordinates
    BY <1>2, <1>3, SMTT(60) DEF Unscale, Coordinates
  <2>3. Unscale(b.top) \in Coordinates
    BY <1>2, SMTT(60) DEF Unscale, Coordinates
  <2> QED
    BY <2>1, <2>2, <2>3, SMTT(30)
<1>5. sX' \in Coordinates /\ sY' \in Coordinates
  BY <1>1, <1>4, Zenon
<1>6. target_s_x' \in Coordinates /\ target_e_x' \in Coordinates
  <2>1. CASE IsTarget(c)
    BY <2>1, <1>1, <1>4, <1>5, Zenon
  <2>2. CASE ~IsTarget(c)
    <3>1. target_s_x' = target_s_x /\ target_e_x' = target_e_x
      BY <2>2, <1>1, Zenon
    <3> QED
      BY <3>1 DEF TypeOK
  <2> QED
    BY <2>1, <2>2, Zenon
<1> QED
  BY <1>1, <1>5, <1>6 DEF Detection, limiter, history, TypeOK

(* Every step of the loop and of the MQTT callback preserves the types.     *)
LEMMA TypeStep == TypeOK /\ [Next]_vars => TypeOK'
<1> SUFFICES ASSUME TypeOK, [Next]_vars PROVE TypeOK'
  OBVIOUS
<1> USE ClockAssumption DEF TypeOK
<1>1. CASE Pollingdecetbox
  BY <1>1 DEF Pollingdecetbox, CropRegion, limiter
<1>2. CASE Detection
  BY <1>2, DetectionTypes
<1>3. CASE CheckLimiter
  BY <1>3 DEF CheckLimiter, tracker, locals
<1>4. CASE Mqtt_guard_ps_set
  <2>1. AngleX(sX, -1 * shake_val) \in Int /\ AngleY(sY) \in Int
    BY DEF AngleX, AngleY, Coordinates
  <2> QED
    BY <1>4, <2>1 DEF Mqtt_guard_ps_set, NextLimit, tracker, locals
<1>5. CASE SelectRegion
  BY <1>5, AreaRange DEF SelectRegion, NextArea, Areas, pos_x_dect, locals, limiter
<1>6. CASE MessageArrived
  BY <1>6 DEF MessageArrived, SwitchValue, tracker, locals, limiter
<1>7. CASE Tick
  BY <1>7 DEF Tick, tracker, locals, limiter
<1>8. CASE UNCHANGED vars
  BY <1>8 DEF vars, tracker, locals, limiter, history
<1> QED
  BY <1>1, <1>2, <1>3, <1>4, <1>5, <1>6, <1>7, <1>8 DEF Next, Main

(* Type correctness of the tracker, the limiter and the switch; it includes *)
(* that region_sX and pollingarea stay in the tables' ranges.               *)
THEOREM TypeCorrect == Spec => []TypeOK
<1>1. Init => TypeOK
  BY ClockAssumption DEF Init, TypeOK, Coordinates, Areas
<1> QED
  BY <1>1, TypeStep, PTL DEF Spec

-----------------------------------------------------------------------------
(* Aiming.  Every picture is cropped at 420, whatever draw_result selected, *)
(* so a mapped corner has 420 <= sX <= 1500 and 0 <= sY <= 1080.            *)
Pinned ==
  /\ crops \subseteq {420}
  /\ pc # "crop" => region_sX = 420 /\ origin = 420

Aimed == pc \in {"check", "send"} => sX \in 420..1500 /\ sY \in 0..1080

AimInv == Pinned /\ Aimed /\ CommandInTurretRange

(* Every step keeps the crop pinned and the command in range.               *)
LEMMA AimStep == TypeOK /\ AimInv /\ [Next]_vars => AimInv'
<1> SUFFICES ASSUME TypeOK, AimInv, [Next]_vars PROVE AimInv'
  OBVIOUS
<1>1. CASE Pollingdecetbox
  BY <1>1 DEF Pollingdecetbox, CropRegion, AimInv, Pinned, Aimed,
              CommandInTurretRange
<1>2. CASE Detection
  <2>1. PICK b \in Boxes : sX' = Unscale(b.left) + region_sX /\ sY' = Unscale(b.top)
    BY <1>2 DEF Detection
  <2>2. Unscale(b.left) \in 0..1080 /\ Unscale(b.top) \in 0..1080
    <3>1. b.left \in 0..640 /\ b.top \in 0..640
      <4>1. b \in [left : 0..640, top : 0..640, right : 0..640]
        BY BoxesAssumption, SMTT(30) DEF ModelSize
      <4> QED
        BY <4>1
    <3>2. Unscale(b.left) \in 0..1080
      BY <3>1, SMTT(60) DEF Unscale
    <3>3. Unscale(b.top) \in 0..1080
      BY <3>1, SMTT(60) DEF Unscale
    <3> QED
      BY <3>2, <3>3
  <2>3. region_sX = 420
    BY <1>2 DEF Detection, AimInv, Pinned
  <2>5. sX' \in 420..1500 /\ sY' \in 0..1080
    <3>1. sX' = Unscale(b.left) + 420 /\ sY' = Unscale(b.top)
      BY <2>1, <2>3
    <3> QED
      BY <3>1, <2>2, SMTT(30)
  <2>6. UNCHANGED <<region_sX, crops, origin, command>>
    BY <1>2 DEF Detection, history
  <2>7. pc = "detect"
    BY <1>2 DEF Detection
  <2> QED
    BY <2>5, <2>6, <2>7 DEF AimInv, Pinned, Aimed, CommandInTurretRange
<1>3. CASE CheckLimiter
  BY <1>3 DEF CheckLimiter, tracker, locals, AimInv, Pinned, Aimed,
              CommandInTurretRange
<1>4. CASE Mqtt_guard_ps_set
  <2>1. /\ sX \in 420..1500 /\ sY \in 0..1080
        /\ shake_val' = -5 \/ shake_val' = 5
    BY <1>4 DEF Mqtt_guard_ps_set, AimInv, Aimed, TypeOK
  <2>2. command' = [x |-> (5 * sX) \div 96 + 40 + shake_val',
                    y |-> (5 * sY) \div 216 + 50]
    BY <1>4 DEF Mqtt_guard_ps_set, AngleX, AngleY
  <2> DEFINE dx == (5 * sX) \div 96
             dy == (5 * sY) \div 216
  <2>3. dx \in 21..78 /\ dy \in 0..25
    BY <2>1
  <2>4. command'.x = dx + 40 + shake_val' /\ command'.y = dy + 50
    BY <2>2
  <2> HIDE DEF dx, dy
  <2>5. CommandInTurretRange'
    <3>1. command'.x \in 40..140
      BY <2>1, <2>3, <2>4
    <3>2. command'.y \in 50..75
      BY <2>3, <2>4
    <3> QED
      BY <3>1, <3>2 DEF CommandInTurretRange
  <2> QED
    BY <1>4, <2>5 DEF Mqtt_guard_ps_set, tracker, locals, AimInv, Pinned, Aimed
<1>5. CASE SelectRegion
  BY <1>5 DEF SelectRegion, AimInv, Pinned, Aimed, CommandInTurretRange
<1>6. CASE MessageArrived
  BY <1>6 DEF MessageArrived, tracker, locals, AimInv, Pinned, Aimed,
              CommandInTurretRange
<1>7. CASE Tick
  BY <1>7 DEF Tick, tracker, locals, AimInv, Pinned, Aimed, CommandInTurretRange
<1>8. CASE UNCHANGED vars
  BY <1>8 DEF vars, tracker, locals, history, AimInv, Pinned, Aimed,
              CommandInTurretRange
<1> QED
  BY <1>1, <1>2, <1>3, <1>4, <1>5, <1>6, <1>7, <1>8 DEF Next, Main

(* The crop is pinned and the command in range, in every state.             *)
LEMMA AimInvariant == Spec => []AimInv
<1>1. Init => AimInv
  BY DEF Init, AimInv, Pinned, Aimed, CommandInTurretRange
<1> QED
  BY <1>1, AimStep, TypeCorrect, PTL DEF Spec

(* No command leaves the turret's documented range, wherever the model puts *)
(* a box in its picture.                                                    *)
THEOREM TurretRange == Spec => []CommandInTurretRange
  BY AimInvariant, PTL DEF AimInv

(* Boxes are mapped with the offset of the crop they were found in, however *)
(* old the result list is.                                                  *)
THEOREM OwnCrop == Spec => []MappedWithItsOwnCrop
<1>1. AimInv => MappedWithItsOwnCrop
  BY DEF AimInv, Pinned, MappedWithItsOwnCrop
<1> QED
  BY <1>1, AimInvariant, PTL

-----------------------------------------------------------------------------
(* The switch.  A command that has passed Get_TeasingSW() but is not sent   *)
(* yet counts as the one late command.                                      *)
LateInv == /\ Teasing_sw = 1 => late = 0
           /\ late <= 1
           /\ Teasing_sw = 0 /\ pc = "send" => late = 0

(* Every step keeps the late command single.                                *)
LEMMA LateStep == TypeOK /\ LateInv /\ [Next]_vars => LateInv'
<1> SUFFICES ASSUME TypeOK, LateInv, [Next]_vars PROVE LateInv'
  OBVIOUS
<1> USE DEF TypeOK, LateInv
<1>1. CASE Pollingdecetbox \/ SelectRegion
  BY <1>1 DEF Pollingdecetbox, SelectRegion
<1>2. CASE Detection
  BY <1>2 DEF Detection, history
<1>3. CASE CheckLimiter
  BY <1>3 DEF CheckLimiter, Allowed
<1>4. CASE Mqtt_guard_ps_set
  BY <1>4 DEF Mqtt_guard_ps_set
<1>5. CASE MessageArrived
  <2>1. Teasing_sw' \in {0, 1}
    BY <1>5, TypeStep DEF vars, MessageArrived, Next
  <2> QED
    BY <1>5, <2>1 DEF MessageArrived
<1>6. CASE Tick
  BY <1>6 DEF Tick
<1>7. CASE UNCHANGED vars
  BY <1>7 DEF vars, history
<1> QED
  BY <1>1, <1>2, <1>3, <1>4, <1>5, <1>6, <1>7 DEF Next, Main

(* Turning the switch off lets at most one more command through.            *)
THEOREM OneLateCommand == Spec => []AtMostOneLateCommand
<1>1. Init => LateInv
  BY DEF Init, LateInv
<1>2. LateInv => AtMostOneLateCommand
  BY DEF LateInv, AtMostOneLateCommand
<1> QED
  BY <1>1, <1>2, LateStep, TypeCorrect, PTL DEF Spec

-----------------------------------------------------------------------------
(* The rate limiter.  The time of the last grant of this second is          *)
(* usecond_le, or t while the command is on its way; each grant is at least *)
(* Gap after the one before, the first one anywhere in the second.          *)
LastGrant == IF pc = "send" THEN t ELSE usecond_le

RateInv == granted = 0 \/ ((granted - 1) * Gap <= LastGrant /\ LastGrant <= usec)

(* Every step keeps the grants of a second Gap apart.                       *)
LEMMA RateStep == TypeOK /\ RateInv /\ [Next]_vars => RateInv'
<1> SUFFICES ASSUME TypeOK, RateInv, [Next]_vars PROVE RateInv'
  OBVIOUS
<1> USE ClockAssumption DEF TypeOK, RateInv, LastGrant
<1>1. CASE Pollingdecetbox \/ SelectRegion
  BY <1>1 DEF Pollingdecetbox, SelectRegion, limiter
<1>2. CASE Detection
  BY <1>2 DEF Detection, limiter, history
<1>3. CASE CheckLimiter
  <2>1. CASE ~Allowed
    BY <1>3, <2>1 DEF CheckLimiter
  <2>2. CASE Allowed /\ granted = 0
    BY <1>3, <2>2 DEF CheckLimiter
  <2>3. CASE Allowed /\ granted # 0
    <3>1. (granted - 1) * Gap <= usecond_le /\ usecond_le + Gap <= usec
      BY <1>3, <2>3 DEF CheckLimiter, Allowed, SubU32
    <3>2. granted * Gap = (granted - 1) * Gap + Gap
      OBVIOUS
    <3>3. granted * Gap <= usec
      BY <3>1, <3>2
    <3> QED
      BY <1>3, <2>3, <3>3 DEF CheckLimiter
  <2> QED
    BY <2>1, <2>2, <2>3
<1>4. CASE Mqtt_guard_ps_set
  BY <1>4 DEF Mqtt_guard_ps_set, NextLimit
<1>5. CASE MessageArrived
  BY <1>5 DEF MessageArrived, limiter
<1>6. CASE Tick
  BY <1>6 DEF Tick, limiter
<1>7. CASE UNCHANGED vars
  BY <1>7 DEF vars, limiter, history
<1> QED
  BY <1>1, <1>2, <1>3, <1>4, <1>5, <1>6, <1>7 DEF Next, Main

(* No second sees more grants than one every Gap, although only tv_usec is  *)
(* compared and as an unsigned word.                                        *)
THEOREM RateLimit == Spec => []RateIsLimited
<1>1. Init => RateInv
  BY DEF Init, RateInv
<1>2. TypeOK /\ RateInv => RateIsLimited
  BY ClockAssumption DEF TypeOK, RateInv, LastGrant, RateIsLimited
<1> QED
  BY <1>1, <1>2, RateStep, TypeCorrect, PTL DEF Spec
=============================================================================
