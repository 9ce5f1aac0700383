-------------------------------- MODULE Images --------------------------------
(***************************************************************************)
(* What POST /v1/videos makes of one input image: the format is sniffed,   *)
(* the header is read for the dimensions, and a frame is derived or        *)
(* checked.  No byte is read twice (but the first three, which the sniff   *)
(* fixes), so each is chosen when the code reads it: the walk over a JPEG  *)
(* meets every possible content.                                           *)
(***************************************************************************)
EXTENDS Sizing

CONSTANTS
  MaxLength,      \* bound of the model: the longest upload
  MaxInputBytes,  \* config.maxInputBytes
  MaxSegment,     \* largest length field of a JPEG segment (65535)
  Sides,          \* the widths and heights a header may state
  FrameSides      \* the widths and heights a client may name in a size

ASSUME LengthAssumption == MaxLength \in Nat /\ MaxInputBytes \in Nat /\ MaxSegment \in Nat
ASSUME SidesAssumption == Sides \subseteq Nat /\ FrameSides \subseteq Nat

VARIABLES
  pc,      \* "sniff", "probe", "walk", "found", "size" or "done"
  image,   \* what is known of the bytes: format and length
  offset,  \* of the JPEG walk
  need,    \* how many leading bytes the last step relied on
  dims,    \* the dimensions read
  reply    \* the outcome: "accepted", "refused" (400) or "failed" (500)

vars == <<pc, image, offset, need, dims, reply>>

Formats == {"jpeg", "png", "webp", "other"}
NoDims == [w |-> 0, h |-> 0]
NoReply == [st |-> "none", frame |-> NoDims, resolution |-> "none"]

\* The shortest upload the sniff recognises as each format.
MagicBytes == [f \in Formats |-> CASE f = "jpeg" -> 3 [] f = "png" -> 8
                                   [] f = "webp" -> 12 [] f = "other" -> 0]

Init ==
  /\ pc = "sniff" /\ offset = 0 /\ need = 0 /\ dims = NoDims /\ reply = NoReply
  /\ image \in [format : Formats, length : 0..MaxLength]
  /\ image.length >= MagicBytes[image.format]

Answer(r) ==
  /\ pc' = "done" /\ reply' = r
  /\ image' = [format |-> "other", length |-> 0]
  /\ offset' = 0 /\ dims' = NoDims

Refused == Answer([NoReply EXCEPT !.st = "refused"])

-----------------------------------------------------------------------------
(* readImage and probeDimensions *)

ReadImage ==
  /\ pc = "sniff" /\ need' = MagicBytes[image.format]
  /\ IF image.length = 0 \/ image.length > MaxInputBytes \/ image.format = "other"
     THEN Refused
     ELSE pc' = "probe" /\ UNCHANGED <<image, offset, dims, reply>>

\* The header is complete; its dimensions come next.
Found(f) ==
  /\ pc' = "found" /\ image' = [format |-> f, length |-> 0]
  /\ offset' = 0
  /\ UNCHANGED <<dims, reply>>

ProbePng ==
  /\ pc = "probe" /\ image.format = "png"
  /\ \/ image.length < 24 /\ need' = 0 /\ Refused
     \/ image.length >= 24 /\ need' = 16 /\ Refused     \* no IHDR
     \/ image.length >= 24 /\ need' = 24 /\ Found("png")

\* A lossy, a lossless or an extended header; another chunk or a wrong
\* signature is refused.
ProbeWebp ==
  /\ pc = "probe" /\ image.format = "webp"
  /\ IF image.length < 30 THEN need' = 0 /\ Refused
     ELSE \/ need' = 26 /\ Refused
          \/ need' = 30 /\ Found("vp8")
          \/ need' = 25 /\ Found("vp8l")
          \/ need' = 30 /\ Found("vp8x")

ProbeJpeg ==
  /\ pc = "probe" /\ image.format = "jpeg"
  /\ IF image.length < 4 THEN need' = 0 /\ Refused
     ELSE /\ pc' = "walk" /\ offset' = 2 /\ need' = 2
          /\ UNCHANGED <<image, dims, reply>>

InLoop == offset + 3 < image.length

WalkTo(next) == offset' = next /\ UNCHANGED <<pc, image, dims, reply>>

\* No 0xff here.  (The third byte is one: the sniff saw it.)
Resync ==
  /\ pc = "walk" /\ InLoop /\ offset # 2
  /\ need' = offset + 1 /\ WalkTo(offset + 1)

Standalone ==
  /\ pc = "walk" /\ InLoop
  /\ need' = offset + 2 /\ WalkTo(offset + 2)

StartOfScan ==
  /\ pc = "walk" /\ InLoop
  /\ need' = offset + 2 /\ Refused

\* Faulty form: the length is taken for the next offset.
SegmentAbsolute(length) ==
  /\ pc = "walk" /\ InLoop
  /\ need' = offset + 4
  /\ IF length < 2 THEN Refused ELSE WalkTo(length)

\* A marker with a length: too short a one ends the walk, another is skipped.
Segment(length) ==
  /\ pc = "walk" /\ InLoop
  /\ need' = offset + 4
  /\ IF length < 2 THEN Refused ELSE WalkTo(offset + 2 + length)

\* Faulty form: the payload of the frame header is not checked to be there.
StartOfFrameUnchecked ==
  /\ pc = "walk" /\ InLoop
  /\ need' = offset + 9 /\ Found("jpeg")

StartOfFrame ==
  /\ pc = "walk" /\ InLoop
  /\ IF offset + 9 >= image.length THEN need' = offset + 4 /\ Refused
     ELSE need' = offset + 9 /\ Found("jpeg")

WalkEnd ==
  /\ pc = "walk" /\ ~InLoop
  /\ need' = 0 /\ Refused

\* PNG and JPEG refuse a zero; VP8L and VP8X store one less than the size; the
\* 14 bits of VP8 are returned as they are.
ReadDims(width, height) ==
  /\ pc = "found" /\ need' = 0
  /\ image.format \in {"vp8l", "vp8x"} => width > 0 /\ height > 0
  /\ IF image.format \in {"png", "jpeg"} /\ (width = 0 \/ height = 0) THEN Refused
     ELSE /\ pc' = "size" /\ dims' = [w |-> width, h |-> height]
          /\ image' = [format |-> "other", length |-> 0]
          /\ UNCHANGED <<offset, reply>>

-----------------------------------------------------------------------------
(* The frame *)

Accepted(frame, r) == Answer([st |-> "accepted", frame |-> frame, resolution |-> r])

\* size omitted (then "480p") or a resolution: fitSize throws on a zero.
DeriveSize(r) ==
  /\ pc = "size" /\ need' = 0
  /\ IF dims.w = 0 \/ dims.h = 0 THEN Answer([NoReply EXCEPT !.st = "failed"])
     ELSE \E frame \in FitSize(dims.w, dims.h, r) : Accepted(frame, r)

NamedSize(frame) ==
  /\ pc = "size" /\ need' = 0
  /\ IF CheckSize(frame) = "none" THEN Refused ELSE Accepted(frame, CheckSize(frame))

Step ==
  \/ ReadImage \/ ProbePng \/ ProbeWebp \/ ProbeJpeg
  \/ Resync \/ Standalone \/ StartOfScan \/ StartOfFrame \/ WalkEnd
  \/ \E length \in 0..MaxSegment : Segment(length)
  \/ \E width, height \in Sides : ReadDims(width, height)
  \/ \E r \in Resolutions : DeriveSize(r)
  \/ \E frame \in [w : FrameSides, h : FrameSides] : NamedSize(frame)

Spec == Init /\ [][Step]_vars

\* The whole probe runs in one piece: once begun it goes on.
FairSpec == Spec /\ WF_vars(Step)

-----------------------------------------------------------------------------

\* Every variable ranges over what the handler can hold.
TypeOK ==
  /\ pc \in {"sniff", "probe", "walk", "found", "size", "done"}
  /\ image \in [format : Formats \cup {"vp8", "vp8l", "vp8x"}, length : Nat]
  /\ offset \in Nat /\ need \in Nat
  /\ dims \in [w : Nat, h : Nat]
  /\ reply \in [st : {"none", "accepted", "refused", "failed"},
                frame : [w : Nat, h : Nat], resolution : Resolutions \cup {"none"}]

\* domain/probe.ts:11, "Every read is bounds-checked": whatever the bytes are,
\* no step of the probe relies on a byte past the end of the upload.
InBounds == [][need' <= image.length]_vars

\* domain/probe.ts:11-12 and 33-37: whatever a length field says, the walk over
\* the segments ends, and the upload is answered.
Answered == <>(pc = "done")

\* sizing.ts:83-85 and videos.ts:224-252: a frame the gateway derives from an
\* image is one it would have accepted from the client, aligned and within
\* area and side limits after both roundings, and never one that a smaller
\* resolution would have held.
FitIsAccepted == reply.st = "accepted" => CheckSize(reply.frame) = reply.resolution

-----------------------------------------------------------------------------
(* Statements of the comments that the code does not keep; see the README *)

\* sizing.ts:45-50: a size the model cannot render is refused before the job is
\* queued and dispatched.
NoEmptyFrame == reply.st = "accepted" => reply.frame.w >= 16 /\ reply.frame.h >= 16
===============================================================================
