------------------------------- MODULE Frames -------------------------------
(***************************************************************************)
(* The frames of the coordinator's protocol (src/protocol.cpp).            *)
(*                                                                         *)
(* A frame is a sequence of cells: one for each field of the header        *)
(* (magic, version, kind, length), one for each byte of the payload and    *)
(* one for the checksum.  A field that is cut short is a missing cell.     *)
(***************************************************************************)
EXTENDS Naturals, Sequences

CONSTANTS
    kMagic, kVersion, kMaxPayloadBytes,
    crc32(_)           \* the checksum of a payload

ASSUME FramesAssumption ==
    kMagic \in Nat /\ kVersion \in Nat /\ kMaxPayloadBytes \in Nat

\* The last message kinds; the requests are below kAck.
kAck  == 12
kNack == 13
kBye  == 14

HeaderCells == 4
FrameCells(len) == HeaderCells + len + 1

encode_frame(kind, payload) ==
    <<kMagic, kVersion, kind, Len(payload)>> \o payload \o <<crc32(payload)>>

Accepted(kind, payload) == [ok |-> TRUE, error |-> "none", kind |-> kind, payload |-> payload]
Rejected(error) == [ok |-> FALSE, error |-> error, kind |-> 0, payload |-> <<>>]

\* The payload of a frame that is long enough for the length it states.
PayloadOf(view) == SubSeq(view, HeaderCells + 1, HeaderCells + view[4])

\* Mutant: the checksum is not compared.
decode_frame_NoChecksum(view) ==
    IF Len(view) < FrameCells(0) THEN Rejected("truncated")
    ELSE IF view[1] # kMagic THEN Rejected("bad_magic")
    ELSE IF view[2] # kVersion THEN Rejected("unsupported_version")
    ELSE IF view[3] > kBye THEN Rejected("malformed")
    ELSE IF view[4] > kMaxPayloadBytes THEN Rejected("malformed")
    ELSE IF Len(view) < FrameCells(view[4]) THEN Rejected("truncated")
    ELSE IF Len(view) # FrameCells(view[4]) THEN Rejected("malformed")
    ELSE Accepted(view[3], PayloadOf(view))

\* The checks are made in this order; the checksum covers the payload alone.
decode_frame(view) ==
    IF Len(view) < FrameCells(0) THEN Rejected("truncated")
    ELSE IF view[1] # kMagic THEN Rejected("bad_magic")
    ELSE IF view[2] # kVersion THEN Rejected("unsupported_version")
    ELSE IF view[3] > kBye THEN Rejected("malformed")
    ELSE IF view[4] > kMaxPayloadBytes THEN Rejected("malformed")
    ELSE IF Len(view) < FrameCells(view[4]) THEN Rejected("truncated")
    ELSE IF view[FrameCells(view[4])] # crc32(PayloadOf(view)) THEN Rejected("checksum_mismatch")
    ELSE IF Len(view) # FrameCells(view[4]) THEN Rejected("malformed")
    ELSE Accepted(view[3], PayloadOf(view))

Read(result, frame, consumed) == [result |-> result, frame |-> frame, consumed |-> consumed]
NoFrame == Rejected("none")

\* Mutant: the checksum is not counted among the bytes of a frame.
try_read_frame_ShortTotal(buffer) ==
    IF Len(buffer) < FrameCells(0) THEN Read("need_more", NoFrame, 0)
    ELSE IF buffer[1] # kMagic THEN Read("error", NoFrame, 0)
    ELSE IF buffer[4] > kMaxPayloadBytes THEN Read("error", NoFrame, 0)
    ELSE LET total == FrameCells(buffer[4]) - 1
             frame == decode_frame(SubSeq(buffer, 1, total))
         IN  IF Len(buffer) < total THEN Read("need_more", NoFrame, 0)
             ELSE IF frame.ok THEN Read("ok", frame, total) ELSE Read("throws", frame, 0)

\* At most one frame from the front of a buffer.  What decode_frame throws goes
\* through to the caller.
try_read_frame(buffer) ==
    IF Len(buffer) < FrameCells(0) THEN Read("need_more", NoFrame, 0)
    ELSE IF buffer[1] # kMagic THEN Read("error", NoFrame, 0)
    ELSE IF buffer[4] > kMaxPayloadBytes THEN Read("error", NoFrame, 0)
    ELSE LET total == FrameCells(buffer[4])
             frame == decode_frame(SubSeq(buffer, 1, total))
         IN  IF Len(buffer) < total THEN Read("need_more", NoFrame, 0)
             ELSE IF frame.ok THEN Read("ok", frame, total) ELSE Read("throws", frame, 0)
=============================================================================
