----------------------------- MODULE FrameCodecs -----------------------------
(***************************************************************************)
(* How the three stream codecs find frames among noise: SimpleFrameCodec   *)
(* and SentFrameCodec (protocol/mod.rs), SerialDemoCodec                   *)
(* (protocol/demo_serial.rs).  Each looks for the first place where a      *)
(* frame may begin, waits there for the rest of the frame, and goes on by  *)
(* one byte when what it has is no frame.                                  *)
(*                                                                         *)
(* A byte is a record: the frame it was sent in and its place there (frame *)
(* 0: noise), and the length it claims when a decoder takes it for the     *)
(* begin of a frame (claim 0: it looks like no header; FrameLen where no   *)
(* frame begins: a demo stream header).  The checksums are taken to be     *)
(* perfect: they hold for the bytes of one frame in their order, and for   *)
(* nothing else.                                                           *)
(***************************************************************************)
EXTENDS Naturals, Sequences

CONSTANTS
    FrameLen,       \* the bytes of every frame sent
    MinLen          \* the bytes a decoder wants before it looks at a header

ASSUME CodecAssumption == FrameLen \in Nat /\ MinLen \in 1 .. FrameLen

NoFrame == 0

\* The bytes of src from place p on, and whether n of them are there.
Available(src, p, n) == p + n - 1 <= Len(src)

\* The checksum of the n bytes at p holds.
Intact(src, p, n) ==
    /\ n = FrameLen /\ Available(src, p, n) /\ src[p].frame # NoFrame
    /\ \A i \in 1 .. n : src[p + i - 1].frame = src[p].frame /\ src[p + i - 1].place = i

\* Mutant: what a bad checksum covers is thrown away with the frame.
SkippedWhole(src, p, n) == n

\* After a bad checksum the search goes on with the next byte.
Skipped(src, p, n) == 1

\* Every SENT frame has the same length.
Claimed(codec, byte) == IF codec = "sent" /\ byte.claim # 0 THEN FrameLen ELSE byte.claim

(* What a decoder does at place p: the frame is there ("frame"), may be    *)
(* there when more bytes come ("wait"), or is not ("skip").  A demo stream *)
(* packet has no checksum: its length and its command are believed.        *)
Verdict(codec, src, p) ==
    LET n == Claimed(codec, src[p])
    IN  IF codec = "legacy" /\ ~Available(src, p, MinLen) THEN "wait"
        ELSE IF n = 0 THEN "skip"
        ELSE IF ~Available(src, p, MinLen) \/ ~Available(src, p, n) THEN "wait"
        ELSE IF codec = "demo" /\ n = FrameLen THEN "frame"
        ELSE IF Intact(src, p, n) THEN "frame" ELSE "skip"

\* The first place where the search stops: each place before it was reached
\* and skipped.
Reached(codec, src) ==
    LET next[p \in 1 .. Len(src) + 1] ==
            IF p > Len(src) THEN p
            ELSE IF Verdict(codec, src, p) # "skip" THEN p
            ELSE LET n == Claimed(codec, src[p])
                     q == p + (IF n = 0 THEN 1 ELSE Skipped(src, p, n))
                 IN  next[IF q > Len(src) THEN Len(src) + 1 ELSE q]
    IN  IF src = <<>> THEN 1 ELSE next[1]

(* try_decode: the next frame, if there is one, and the bytes left.  A     *)
(* stream header where no frame begins yields a packet that is none that   *)
(* was sent, of whatever bytes follow.                                     *)
TryDecode(codec, src) ==
    LET p == Reached(codec, src)
    IN  IF p > Len(src) THEN [frame |-> NoFrame, rest |-> <<>>]
        ELSE IF Verdict(codec, src, p) = "wait" THEN [frame |-> NoFrame, rest |-> SubSeq(src, p, Len(src))]
        ELSE [frame |-> IF Intact(src, p, FrameLen) THEN src[p].frame ELSE NoFrame,
              rest |-> SubSeq(src, p + FrameLen, Len(src))]

Decodes(codec, src) ==
    LET p == Reached(codec, src) IN p <= Len(src) /\ Verdict(codec, src, p) = "frame"
=============================================================================
