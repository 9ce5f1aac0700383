-------------------------------- MODULE Sizing --------------------------------
(***************************************************************************)
(* The arithmetic of domain/sizing.ts, over integers.  The code computes   *)
(* with square roots of rationals in floating point and then rounds; the   *)
(* comparisons below are the same ones, squared and cleared of fractions,  *)
(* so they are exact.  Where the real value lies exactly on the edge of    *)
(* two roundings the floating-point error decides, and both are allowed.   *)
(***************************************************************************)
EXTENDS Integers

Resolutions == {"480p", "720p"}

PixelBudget == [r \in Resolutions |-> IF r = "480p" THEN 480 * 832 ELSE 720 * 1280]

MaxDimension == [r \in Resolutions |-> IF r = "480p" THEN 832 ELSE 1280]

\* Both budgets are MaxDimension times this.
ShortSide == [r \in Resolutions |-> IF r = "480p" THEN 480 ELSE 720]

\* Frames are a whole number of macroblocks of 16 pixels wide and high; one
\* more than the longest side has is never reached.
Blocks(r) == 1..(MaxDimension[r] \div 16 + 1)

\* align16(n / d) = 16 * a
Align16(n, d, a) ==
  /\ a > 1 => (32 * a - 1) * d <= 2 * n
  /\ 2 * n <= (32 * a + 31) * d

\* Faulty form: align16 rounds to the nearest multiple of 16.
Align16SqrtNearest(n, d, a) ==
  /\ a > 1 => (32 * a - 16) * (32 * a - 16) * d <= 4 * n
  /\ 4 * n <= (32 * a + 16) * (32 * a + 16) * d

\* align16(sqrt(n / d)) = 16 * a
Align16Sqrt(n, d, a) ==
  /\ a > 1 => (32 * a - 1) * (32 * a - 1) * d <= 4 * n
  /\ 4 * n <= (32 * a + 31) * (32 * a + 31) * d

\* The side x of an x by y image, scaled to the pixel budget, is longer than
\* MaxDimension allows.
TooLong(x, y, r) == ShortSide[r] * x > MaxDimension[r] * y

\* The lengths fitSize may give side x of an x by y image.
FitSide(x, y, r) ==
  IF TooLong(x, y, r) THEN {MaxDimension[r]}
  ELSE {16 * a : a \in {b \in Blocks(r) :
          IF TooLong(y, x, r) THEN Align16(MaxDimension[r] * x, y, b)
          ELSE Align16Sqrt(PixelBudget[r] * x, y, b)}}

FitSize(width, height, r) ==
  [w : FitSide(width, height, r), h : FitSide(height, width, r)]

Fits(frame, r) ==
  /\ frame.w * frame.h <= PixelBudget[r]
  /\ frame.w <= MaxDimension[r] /\ frame.h <= MaxDimension[r]

\* The resolution a frame named by the client lands in: the smallest that fits.
CheckSize(frame) ==
  IF frame.w % 16 # 0 \/ frame.h % 16 # 0 THEN "none"
  ELSE IF Fits(frame, "480p") THEN "480p"
       ELSE IF Fits(frame, "720p") THEN "720p" ELSE "none"
===============================================================================
