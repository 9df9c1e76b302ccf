------------------------------ MODULE Quantize ------------------------------
(***************************************************************************)
(* The int8 arithmetic of process_i8_rv1106 (src/postprocess.cc).  A tensor *)
(* value q stands for (q - zp) * scale; scale is the fraction 1/S and       *)
(* BOX_THRESH is 1/4, so everything below is exact in integers.  (The code  *)
(* computes in float; rounding errors are not modelled.)                    *)
(***************************************************************************)
EXTENDS Integers

Int8 == -128..127

(* A C conversion of num/den to an integer truncates towards zero.          *)
Trunc(num, den) == IF num >= 0 THEN num \div den ELSE -((-num) \div den)

(* qnt_f32_to_affine(BOX_THRESH, zp, scale): the fraction d/4, clipped to   *)
(* int8 by __clip and truncated.                                            *)
Clip(d) == IF d <= 4 * (-128) THEN -128
           ELSE IF d >= 4 * 127 THEN 127 ELSE Trunc(d, 4)
Qnt_f32_to_affine_NoZp(zp, S) == Clip(S)          \* mutant
Qnt_f32_to_affine(zp, S) == Clip(S + 4 * zp)

(* deqnt_affine_to_f32, in units of scale.                                  *)
Deqnt(q, zp) == q - zp

(* limit_score > threshold.                                                 *)
ScorePasses(conf, prob, zp, S) == 4 * (Deqnt(conf, zp) * Deqnt(prob, zp)) > S * S

(* box_confidence >= thres_i8: the test that saves the loop over the        *)
(* classes for most cells.                                                  *)
Prefilter(conf, zp, S) == conf >= Qnt_f32_to_affine(zp, S)

(* The cheap test on the confidence drops no cell that the test on the      *)
(* score would keep, although the quantised threshold is truncated towards  *)
(* zero and clipped, as long as class values are probabilities (0 to 1).    *)
PrefilterSound(conf, prob, zp, S) ==
  /\ Deqnt(prob, zp) \in 0..S
  /\ ScorePasses(conf, prob, zp, S)
  => Prefilter(conf, zp, S)
=============================================================================
