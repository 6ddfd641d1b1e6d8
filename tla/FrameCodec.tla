------------------------------ MODULE FrameCodec ------------------------------
(***************************************************************************)
(* The frames of the client protocol (internal/net/protocol.go).  A stream *)
(* is a sequence of words: the length of the frame, the length word and    *)
(* the header included, then one word for message id and flags, then the   *)
(* payload, one word a unit.  FrameHeaderSize is 8 bytes in the code.      *)
(***************************************************************************)
EXTENDS Integers, Sequences

CONSTANT MaxFrameSize

FrameHeaderSize == 2

ASSUME CodecAssumption == MaxFrameSize \in Nat /\ MaxFrameSize >= FrameHeaderSize

\* EncodeFrame.
EncodeFrame(msg, body) == <<FrameHeaderSize + Len(body), msg>> \o body

\* What TryDecodeFrame says of a buffer: nothing yet, an illegal length, or a frame.
NeedMore == [kind |-> "more"]
Illegal  == [kind |-> "illegal"]
Frame(msg, body) == [kind |-> "frame", msg |-> msg, body |-> body]

\* Mutant: a frame is taken out as soon as its header is there.
TryDecodeEarly(buf) ==
    IF Len(buf) < FrameHeaderSize THEN NeedMore
    ELSE Frame(buf[2], SubSeq(buf, FrameHeaderSize + 1, IF buf[1] < Len(buf) THEN buf[1] ELSE Len(buf)))

\* TryDecodeFrame: it consumes nothing.
TryDecodeFrame(buf) ==
    IF Len(buf) < FrameHeaderSize THEN NeedMore
    ELSE IF buf[1] < FrameHeaderSize \/ buf[1] > MaxFrameSize THEN Illegal
    ELSE IF Len(buf) < buf[1] THEN NeedMore
    ELSE Frame(buf[2], SubSeq(buf, FrameHeaderSize + 1, buf[1]))

\* Mutant: the caller forgets to cut.
CutNothing(buf, frame) == buf

\* The caller cuts the frame off.
CutFrame(buf, frame) == SubSeq(buf, FrameHeaderSize + Len(frame.body) + 1, Len(buf))
=============================================================================
