----------------------------- MODULE ImagesProofs -----------------------------
(***************************************************************************)
(* Proofs about module Images: for uploads of any length, any length       *)
(* fields and any dimensions, the probe stays inside the buffer and the    *)
(* gateway derives only frames it would accept.                            *)
(***************************************************************************)
EXTENDS Images, TLAPS

(* Arithmetic of the two roundings. *)

\* Multiplication is monotone.
LEMMA TimesMonotone ==
  ASSUME NEW a \in Nat, NEW b \in Nat, NEW c \in Nat, a <= b
  PROVE  a * c <= b * c
<1>1. PICK d \in Nat : b = a + d
  <2>1. b - a \in Nat /\ b = a + (b - a)
    OBVIOUS
  <2> QED BY <2>1
<1>2. b * c = a * c + d * c
  BY <1>1
<1>3. d * c >= 0
  OBVIOUS
<1> QED BY <1>2, <1>3

\* A positive factor cancels from an inequality.
LEMMA TimesCancels ==
  ASSUME NEW a \in Nat, NEW b \in Nat, NEW c \in Nat \ {0}, a * c <= b * c
  PROVE  a <= b
<1>1. SUFFICES ASSUME b + 1 <= a PROVE FALSE
  OBVIOUS
<1>2. (b + 1) * c <= a * c
  BY <1>1, TimesMonotone
<1> QED BY <1>2

\* The root is monotone.
LEMMA SquareCancels ==
  ASSUME NEW a \in Nat, NEW b \in Nat, a * a <= b * b
  PROVE  a <= b
<1>1. SUFFICES ASSUME b + 1 <= a PROVE FALSE
  OBVIOUS
<1>2. (b + 1) * (b + 1) <= a * (b + 1)
  BY <1>1, TimesMonotone
<1>3. (b + 1) * a <= a * a
  BY <1>1, TimesMonotone
<1> QED BY <1>2, <1>3

\* Two sides scaled to the budget B by the square root: the rounded-up halves
\* multiply to no more than four times the budget.
LEMMA ProductOfSides ==
  ASSUME NEW B \in Nat, NEW w \in Nat \ {0}, NEW h \in Nat \ {0},
         NEW x \in Nat, NEW y \in Nat,
         x * x * h <= 4 * (B * w), y * y * w <= 4 * (B * h)
  PROVE  x * y <= 4 * B
<1> DEFINE X == x * x
           Y == y * y
           C == 4 * B
<1>0. X \in Nat /\ Y \in Nat /\ C \in Nat
  OBVIOUS
<1>1. X * h <= C * w /\ Y * w <= C * h
  OBVIOUS
<1> HIDE DEF X, Y, C
<1>2. (X * h) * Y <= (C * w) * Y
  BY <1>0, <1>1, TimesMonotone
<1>3. (Y * w) * C <= (C * h) * C
  BY <1>0, <1>1, TimesMonotone
<1>4. (X * Y) * h <= (C * C) * h
  BY <1>0, <1>2, <1>3
<1>5. X * Y <= C * C
  BY <1>0, <1>4, TimesCancels
<1>6. (x * y) * (x * y) <= C * C
  BY <1>5 DEF X, Y
<1> QED BY <1>6, <1>0, SquareCancels DEF C

\* The two products of macroblocks between which the rounding could overshoot
\* the budget do not occur among frames no longer than the limit.
LEMMA NoOvershoot480 ==
  ASSUME NEW a \in 1..52, NEW b \in 1..52, (32 * a - 1) * (32 * b - 1) <= 4 * (480 * 832)
  PROVE  (16 * a) * (16 * b) <= 480 * 832
<1> QED BY SMTT(60)

\* The same for the budget of 720p.
LEMMA NoOvershoot720 ==
  ASSUME NEW a \in 1..80, NEW b \in 1..80, (32 * a - 1) * (32 * b - 1) <= 4 * (720 * 1280)
  PROVE  (16 * a) * (16 * b) <= 720 * 1280
<1> QED BY SMTT(60)

(* The frame fitSize derives is in the bucket it was asked for. *)

\* The two resolutions, as numbers.
LEMMA Limits ==
  ASSUME NEW r \in Resolutions
  PROVE  /\ PixelBudget[r] \in Nat /\ MaxDimension[r] \in Nat /\ ShortSide[r] \in Nat
         /\ r = "480p" => PixelBudget[r] = 399360 /\ MaxDimension[r] = 832
                          /\ ShortSide[r] = 480 /\ Blocks(r) = 1..53
         /\ r = "720p" => PixelBudget[r] = 921600 /\ MaxDimension[r] = 1280
                          /\ ShortSide[r] = 720 /\ Blocks(r) = 1..81
<1> QED BY DEF Resolutions, PixelBudget, MaxDimension, ShortSide, Blocks

\* The area of a frame is at most the budget, its sides at most the limit, and
\* one of the frame's sides is past the smaller limit at "720p".
Good(W, H, r) ==
  /\ W \in Nat /\ H \in Nat /\ W % 16 = 0 /\ H % 16 = 0
  /\ W * H <= PixelBudget[r] /\ W <= MaxDimension[r] /\ H <= MaxDimension[r]
  /\ r = "720p" => W > 832 \/ H > 832

\* Such a frame is one that checkSize takes, in the resolution asked for.
LEMMA GoodIsAccepted ==
  ASSUME NEW W, NEW H, NEW r \in Resolutions, Good(W, H, r)
  PROVE  CheckSize([w |-> W, h |-> H]) = r
<1>1. CASE r = "480p"
  BY <1>1, Limits DEF Good, CheckSize, Fits
<1>2. CASE r = "720p"
  BY <1>2, Limits DEF Good, CheckSize, Fits, PixelBudget, MaxDimension, Resolutions
<1> QED BY <1>1, <1>2 DEF Resolutions

\* A side that is too long is cut to the limit, and the other follows.
LEMMA LongFrame ==
  ASSUME NEW x \in Nat \ {0}, NEW y \in Nat \ {0}, NEW r \in Resolutions,
         TooLong(y, x, r), NEW side \in FitSide(x, y, r)
  PROVE  side \in Nat /\ side % 16 = 0 /\ side <= ShortSide[r]
<1>1. ~TooLong(x, y, r)
  BY Limits DEF TooLong, Resolutions
<1>2. PICK a \in Blocks(r) : side = 16 * a /\ Align16(MaxDimension[r] * x, y, a)
  BY <1>1 DEF FitSide
<1>3. a > 1 => (32 * a - 1) * y <= 2 * (MaxDimension[r] * x)
  BY <1>2 DEF Align16
<1>4. MaxDimension[r] * x < ShortSide[r] * y
  BY DEF TooLong
<1>5. ASSUME a > 1 PROVE 32 * a - 1 <= 2 * ShortSide[r]
  <2>1. a \in Nat
    BY <1>2, Limits DEF Resolutions
  <2>2. (32 * a - 1) * y <= (2 * ShortSide[r]) * y
    BY <1>3, <1>4, <1>5, <2>1, Limits
  <2> QED BY <1>5, <2>1, <2>2, Limits, TimesCancels
<1> QED BY <1>2, <1>5, Limits DEF Resolutions

\* A side of an image that needs no cut is no longer than the limit, and the
\* longer one is at least the short side of the bucket.
LEMMA SquareSide ==
  ASSUME NEW x \in Nat \ {0}, NEW y \in Nat \ {0}, NEW r \in Resolutions,
         ~TooLong(x, y, r), NEW a \in Nat \ {0}, Align16Sqrt(PixelBudget[r] * x, y, a)
  PROVE  /\ 16 * a <= MaxDimension[r]
         /\ x >= y /\ r = "720p" => 16 * a > 832
<1> DEFINE B == PixelBudget[r]
           L == MaxDimension[r]
           S == ShortSide[r]
           lo == 32 * a - 1
           hi == 32 * a + 31
<1>0. B \in Nat /\ L \in Nat /\ S \in Nat /\ lo \in Nat /\ hi \in Nat /\ B = S * L
  BY Limits DEF Resolutions
<1>1. a > 1 => lo * lo * y <= 4 * (B * x)
  BY DEF Align16Sqrt
<1>2. 4 * (B * x) <= hi * hi * y
  BY DEF Align16Sqrt
<1>3. S * x <= L * y
  BY Limits DEF TooLong
<1>4. ASSUME a > 1 PROVE lo <= 2 * L
  <2>1. (S * x) * L <= (L * y) * L
    BY <1>0, <1>3, TimesMonotone
  <2>2. B * x = (S * x) * L
    BY <1>0
  <2> HIDE DEF lo, hi, B, L, S
  <2>3. lo * lo * y <= 4 * ((L * y) * L)
    BY <1>1, <1>4, <2>1, <2>2, <1>0
  <2>4. 4 * ((L * y) * L) = ((2 * L) * (2 * L)) * y
    BY <1>0
  <2>5. lo * lo <= (2 * L) * (2 * L)
    BY <2>3, <2>4, <1>0, TimesCancels
  <2> QED BY <2>5, <1>0, SquareCancels
<1>5. 16 * a <= L
  BY <1>4, Limits DEF Resolutions
<1>6. ASSUME x >= y, r = "720p" PROVE 16 * a > 832
  <2>1. (4 * B) * y <= (4 * B) * x
    BY <1>0, <1>6, TimesMonotone
  <2>2. (4 * B) * y <= (hi * hi) * y
    BY <2>1, <1>2, <1>0
  <2>3. 4 * B <= hi * hi
    BY <2>2, <1>0, TimesCancels
  <2>4. hi > 1735
    <3>1. SUFFICES ASSUME hi <= 1735 PROVE FALSE
      BY <1>0
    <3>2. hi * hi <= 1735 * hi /\ hi * 1735 <= 1735 * 1735
      BY <1>0, <3>1, TimesMonotone
    <3> QED BY <2>3, <3>2, <1>0, <1>6, Limits
  <2> QED BY <2>4
<1> QED BY <1>5, <1>6

\* Neither side is too long: both roots are rounded, and may overshoot together.
LEMMA SquareFrame ==
  ASSUME NEW w \in Nat \ {0}, NEW h \in Nat \ {0}, NEW r \in Resolutions,
         ~TooLong(w, h, r), ~TooLong(h, w, r),
         NEW W \in FitSide(w, h, r), NEW H \in FitSide(h, w, r)
  PROVE  Good(W, H, r)
<1>1. PICK a \in Blocks(r) : W = 16 * a /\ Align16Sqrt(PixelBudget[r] * w, h, a)
  BY DEF FitSide
<1>2. PICK b \in Blocks(r) : H = 16 * b /\ Align16Sqrt(PixelBudget[r] * h, w, b)
  BY DEF FitSide
<1>3. a \in Nat \ {0} /\ b \in Nat \ {0}
  BY Limits DEF Resolutions
<1>4. W <= MaxDimension[r] /\ (w >= h /\ r = "720p" => W > 832)
  BY <1>1, <1>3, SquareSide
<1>5. H <= MaxDimension[r] /\ (h >= w /\ r = "720p" => H > 832)
  BY <1>2, <1>3, SquareSide
<1>6. ASSUME a > 1, b > 1 PROVE (32 * a - 1) * (32 * b - 1) <= 4 * PixelBudget[r]
  <2> DEFINE x == 32 * a - 1
             y == 32 * b - 1
             B == PixelBudget[r]
  <2>1. x * x * h <= 4 * (B * w) /\ y * y * w <= 4 * (B * h)
    BY <1>1, <1>2, <1>6 DEF Align16Sqrt
  <2>2. x \in Nat /\ y \in Nat /\ B \in Nat
    BY <1>3, Limits
  <2> HIDE DEF x, y, B
  <2>3. x * y <= 4 * B
    BY <2>1, <2>2, ProductOfSides
  <2> QED BY <2>3 DEF x, y, B
<1>7. W * H <= PixelBudget[r]
  <2>1. CASE r = "480p" /\ a > 1 /\ b > 1
    BY <2>1, <1>1, <1>2, <1>3, <1>4, <1>5, <1>6, Limits, NoOvershoot480
  <2>2. CASE r = "720p" /\ a > 1 /\ b > 1
    BY <2>2, <1>1, <1>2, <1>3, <1>4, <1>5, <1>6, Limits, NoOvershoot720
  <2>3. CASE a = 1
    BY <2>3, <1>1, <1>5, Limits DEF Resolutions
  <2>4. CASE b = 1
    BY <2>4, <1>2, <1>4, Limits DEF Resolutions
  <2> QED BY <2>1, <2>2, <2>3, <2>4, <1>3 DEF Resolutions
<1> QED BY <1>1, <1>2, <1>3, <1>4, <1>5, <1>7 DEF Good

\* The products the case of a cut side compares.
LEMMA CutFrame ==
  ASSUME NEW L \in Nat, NEW S \in Nat, NEW side \in Nat, side <= S
  PROVE  L * side <= L * S /\ side * L <= S * L
<1> QED BY TimesMonotone

\* Whatever the dimensions, the frame is accepted at the resolution asked for.
THEOREM DerivedFramesAreAccepted ==
  ASSUME NEW w \in Nat \ {0}, NEW h \in Nat \ {0}, NEW r \in Resolutions,
         NEW frame \in FitSize(w, h, r)
  PROVE  CheckSize(frame) = r
<1>1. /\ frame = [w |-> frame.w, h |-> frame.h]
      /\ frame.w \in FitSide(w, h, r) /\ frame.h \in FitSide(h, w, r)
  BY DEF FitSize
<1>2. SUFFICES Good(frame.w, frame.h, r)
  BY <1>1, GoodIsAccepted
<1>3. CASE TooLong(w, h, r)
  <2>1. frame.w = MaxDimension[r]
    BY <1>1, <1>3 DEF FitSide
  <2>2. frame.h \in Nat /\ frame.h % 16 = 0 /\ frame.h <= ShortSide[r]
    BY <1>1, <1>3, LongFrame
  <2> QED BY <2>1, <2>2, Limits, CutFrame DEF Good, Resolutions
<1>4. CASE TooLong(h, w, r)
  <2>1. frame.h = MaxDimension[r]
    BY <1>1, <1>4 DEF FitSide
  <2>2. frame.w \in Nat /\ frame.w % 16 = 0 /\ frame.w <= ShortSide[r]
    BY <1>1, <1>4, LongFrame
  <2> QED BY <2>1, <2>2, Limits, CutFrame DEF Good, Resolutions
<1>5. CASE ~TooLong(w, h, r) /\ ~TooLong(h, w, r)
  BY <1>1, <1>5, SquareFrame
<1> QED BY <1>3, <1>4, <1>5

-----------------------------------------------------------------------------
(* The state machine *)

\* The sniff has seen the magic bytes it matched.
Sniffed ==
  pc = "sniff" => image.format \in Formats /\ MagicBytes[image.format] <= image.length

IInv == TypeOK /\ Sniffed /\ FitIsAccepted

\* The magic bytes of each format are counted.
LEMMA Magic == MagicBytes \in [Formats -> Nat]
<1> QED BY DEF MagicBytes, Formats

\* The sides of a derived frame are numbers.
LEMMA SidesOfFit ==
  ASSUME NEW x \in Nat, NEW y \in Nat, NEW r \in Resolutions
  PROVE  FitSide(x, y, r) \subseteq Nat
<1> QED BY Limits DEF FitSide, Resolutions

\* An answer ends the work of an upload and keeps the types.
LEMMA TypedAnswer ==
  ASSUME TypeOK, NEW r, Answer(r), need' \in Nat,
         r \in [st : {"none", "accepted", "refused", "failed"},
                frame : [w : Nat, h : Nat], resolution : Resolutions \cup {"none"}]
  PROVE  TypeOK'
<1> QED BY DEF TypeOK, Answer, NoDims, Formats

\* A refusal keeps the invariant.
LEMMA RefusedIsTyped ==
  ASSUME TypeOK, Refused, need' \in Nat
  PROVE  TypeOK' /\ Sniffed' /\ FitIsAccepted'
<1>1. TypeOK'
  BY TypedAnswer DEF Refused, NoReply, NoDims
<1> QED BY <1>1 DEF Refused, Answer, NoReply, Sniffed, FitIsAccepted

\* Dimensions found in a header keep the invariant.
LEMMA FoundIsTyped ==
  ASSUME IInv, NEW f \in {"png", "jpeg", "vp8", "vp8l", "vp8x"}, Found(f), need' \in Nat
  PROVE  IInv'
<1> QED BY DEF IInv, TypeOK, Found, Sniffed, FitIsAccepted, Formats

\* A step of the walk over the segments keeps the invariant.
LEMMA WalkIsTyped ==
  ASSUME IInv, NEW next \in Nat, pc = "walk", WalkTo(next), need' \in Nat
  PROVE  IInv'
<1> QED BY DEF IInv, TypeOK, WalkTo, Sniffed, FitIsAccepted

\* A frame that is accepted keeps the invariant.
LEMMA AcceptedIsTyped ==
  ASSUME IInv, NEW frame \in [w : Nat, h : Nat], NEW r \in Resolutions,
         CheckSize(frame) = r, Accepted(frame, r), need' \in Nat
  PROVE  IInv'
<1>1. TypeOK'
  BY TypedAnswer DEF Accepted, IInv
<1> QED BY <1>1 DEF Accepted, Answer, IInv, Sniffed, FitIsAccepted

\* Every step keeps the invariant.
LEMMA NextInv ==
  ASSUME IInv, [Step]_vars
  PROVE  IInv'
<1>0. TypeOK /\ Sniffed /\ FitIsAccepted /\ offset \in Nat /\ image.length \in Nat
  BY DEF IInv, TypeOK
<1>1. CASE ReadImage
  <2>1. need' \in Nat
    BY <1>0, <1>1, Magic DEF ReadImage, Sniffed
  <2>2. CASE Refused
    BY <1>0, <2>1, <2>2, RefusedIsTyped DEF IInv
  <2>3. CASE ~Refused
    BY <1>0, <1>1, <2>1, <2>3 DEF ReadImage, IInv, TypeOK, Sniffed, FitIsAccepted
  <2> QED BY <2>2, <2>3
<1>2. CASE ProbePng
  <2>1. need' \in Nat /\ (Refused \/ Found("png"))
    BY <1>2 DEF ProbePng
  <2> QED BY <1>0, <2>1, RefusedIsTyped, FoundIsTyped DEF IInv
<1>3. CASE ProbeWebp
  <2>1. need' \in Nat /\ (Refused \/ Found("vp8") \/ Found("vp8l") \/ Found("vp8x"))
    BY <1>3 DEF ProbeWebp
  <2> QED BY <1>0, <2>1, RefusedIsTyped, FoundIsTyped DEF IInv
<1>4. CASE ProbeJpeg
  <2>1. CASE image.length < 4
    BY <1>0, <1>4, <2>1, RefusedIsTyped DEF ProbeJpeg, IInv
  <2>2. CASE ~(image.length < 4)
    BY <1>4, <2>2 DEF ProbeJpeg, IInv, TypeOK, Sniffed, FitIsAccepted
  <2> QED BY <2>1, <2>2
<1>5. CASE Resync
  BY <1>0, <1>5, WalkIsTyped DEF Resync
<1>6. CASE Standalone
  BY <1>0, <1>6, WalkIsTyped DEF Standalone
<1>7. CASE StartOfScan
  BY <1>0, <1>7, RefusedIsTyped DEF StartOfScan, IInv
<1>8. CASE StartOfFrame
  <2>1. need' \in Nat /\ (Refused \/ Found("jpeg"))
    BY <1>0, <1>8 DEF StartOfFrame
  <2> QED BY <1>0, <2>1, RefusedIsTyped, FoundIsTyped DEF IInv
<1>9. CASE WalkEnd
  BY <1>0, <1>9, RefusedIsTyped DEF WalkEnd, IInv
<1>10. ASSUME NEW length \in 0..MaxSegment, Segment(length) PROVE IInv'
  <2>1. length \in Nat /\ need' \in Nat /\ pc = "walk"
    BY <1>0, <1>10, LengthAssumption DEF Segment
  <2>2. Refused \/ WalkTo(offset + 2 + length)
    BY <1>10 DEF Segment
  <2> QED BY <1>0, <2>1, <2>2, RefusedIsTyped, WalkIsTyped DEF IInv
<1>11. ASSUME NEW width \in Sides, NEW height \in Sides, ReadDims(width, height) PROVE IInv'
  <2>1. width \in Nat /\ height \in Nat /\ need' \in Nat
    BY <1>11, SidesAssumption DEF ReadDims
  <2>2. CASE Refused
    BY <1>0, <2>1, <2>2, RefusedIsTyped DEF IInv
  <2>3. CASE ~Refused
    BY <1>0, <1>11, <2>1, <2>3 DEF ReadDims, IInv, TypeOK, Sniffed, FitIsAccepted, Formats
  <2> QED BY <2>2, <2>3
<1>12. ASSUME NEW r \in Resolutions, DeriveSize(r) PROVE IInv'
  <2>1. dims.w \in Nat /\ dims.h \in Nat /\ need' \in Nat
    BY <1>0, <1>12 DEF DeriveSize, TypeOK
  <2>2. CASE dims.w = 0 \/ dims.h = 0
    <3>1. Answer([NoReply EXCEPT !.st = "failed"])
      BY <1>12, <2>2 DEF DeriveSize
    <3>2. TypeOK'
      BY <1>0, <2>1, <3>1, TypedAnswer DEF NoReply, NoDims
    <3> QED BY <3>1, <3>2 DEF IInv, Answer, Sniffed, FitIsAccepted, NoReply
  <2>3. CASE dims.w # 0 /\ dims.h # 0
    <3>1. PICK frame \in FitSize(dims.w, dims.h, r) : Accepted(frame, r)
      BY <1>12, <2>3 DEF DeriveSize
    <3>2. CheckSize(frame) = r
      BY <2>1, <2>3, DerivedFramesAreAccepted
    <3>3. frame \in [w : Nat, h : Nat]
      BY <2>1, SidesOfFit DEF FitSize
    <3> QED BY <2>1, <3>1, <3>2, <3>3, AcceptedIsTyped
  <2> QED BY <2>2, <2>3
<1>13. ASSUME NEW frame \in [w : FrameSides, h : FrameSides], NamedSize(frame) PROVE IInv'
  <2>1. frame \in [w : Nat, h : Nat] /\ need' \in Nat
    BY <1>13, SidesAssumption DEF NamedSize
  <2>2. CheckSize(frame) \in Resolutions \cup {"none"}
    BY DEF CheckSize, Resolutions
  <2>3. CASE Refused
    BY <1>0, <2>1, <2>3, RefusedIsTyped DEF IInv
  <2>4. CASE ~Refused
    BY <1>13, <2>1, <2>2, <2>4, AcceptedIsTyped DEF NamedSize
  <2> QED BY <2>3, <2>4
<1>14. CASE UNCHANGED vars
  BY <1>14 DEF IInv, TypeOK, Sniffed, FitIsAccepted, vars
<1> QED BY <1>1, <1>2, <1>3, <1>4, <1>5, <1>6, <1>7, <1>8, <1>9, <1>10, <1>11,
           <1>12, <1>13, <1>14 DEF Step

\* The invariant holds before the first byte is read.
LEMMA InitInv == Init => IInv
<1> QED BY DEF Init, IInv, TypeOK, Sniffed, FitIsAccepted, NoDims, NoReply, Formats

\* The inductive invariant of an upload's way from bytes to frame holds.
THEOREM Inductive == Spec => []IInv
<1> QED BY InitInv, NextInv, PTL DEF Spec

\* Whatever is uploaded and asked for, an accepted frame is 16-aligned, within
\* the limits of its resolution, and in the smallest resolution that holds it
\* (videos.ts:224-252).
THEOREM AcceptedFramesFit == Spec => []FitIsAccepted
<1> QED BY Inductive, PTL DEF IInv

\* A step relies on no byte past the end of the image.
LEMMA StepInBounds ==
  ASSUME IInv, Step
  PROVE  need' <= image.length
<1>0. offset \in Nat /\ image.length \in Nat
  BY DEF IInv, TypeOK
<1>1. ReadImage => need' <= image.length
  BY DEF ReadImage, IInv, Sniffed
<1>2. ProbePng \/ ProbeWebp \/ ProbeJpeg => need' <= image.length
  BY <1>0 DEF ProbePng, ProbeWebp, ProbeJpeg
<1>3. Resync \/ Standalone \/ StartOfScan \/ StartOfFrame \/ WalkEnd => need' <= image.length
  BY <1>0 DEF Resync, Standalone, StartOfScan, StartOfFrame, WalkEnd, InLoop
<1>4. (\E length \in 0..MaxSegment : Segment(length)) => need' <= image.length
  BY <1>0 DEF Segment, InLoop
<1>5. (\E width, height \in Sides : ReadDims(width, height)) => need' <= image.length
  BY <1>0 DEF ReadDims
<1>6. (\E r \in Resolutions : DeriveSize(r)) => need' <= image.length
  BY <1>0 DEF DeriveSize
<1>7. (\E frame \in [w : FrameSides, h : FrameSides] : NamedSize(frame)) => need' <= image.length
  BY <1>0 DEF NamedSize
<1> QED BY <1>1, <1>2, <1>3, <1>4, <1>5, <1>6, <1>7 DEF Step, vars

\* No step of the probe relies on a byte past the end of the upload, whatever
\* the bytes and length fields are (domain/probe.ts:11).
THEOREM ReadsInBounds == Spec => InBounds
<1>1. IInv /\ [Step]_vars => [need' <= image.length]_vars
  BY StepInBounds
<1> QED BY <1>1, Inductive, PTL DEF Spec, InBounds
===============================================================================
