------------------------------ MODULE GsoRead -------------------------------
(***************************************************************************)
(* NativeTun.Read of tun_linux.go past its lock, with handleVirtioRead and *)
(* gsoSplit: one frame is read from the tun file and split into the        *)
(* buffers of the caller.  readOpMu makes calls sequential; LinuxTun has   *)
(* the lock, the pending listener errors and Close.                        *)
(***************************************************************************)
EXTENDS GsoChecksum, FiniteSetsExt

CONSTANTS Frame,       \* the frames the kernel may deliver
          Rooms,       \* the buffers a caller may pass: for each its visible
                       \* length past the offset, negative if it ends before it
          IdealBatchSize,
          MaxReads     \* bound: calls of Read

\* Read slices bufs[0] at the offset before anything else: the offset is
\* within the first buffer, or the call panics.
ASSUME RoomsAssumption ==
  \A rs \in Rooms : rs \in Seq(Int) /\ (rs # <<>> => rs[1] >= 0)
ASSUME FrameAssumption ==
  \A fr \in Frame : {fr.hdrLen, fr.len, fr.gsoSize} \subseteq Nat
ASSUME FieldAssumption ==
  /\ SeqSpace \in Nat \ {0} /\ IdSpace \in Nat \ {0}
  /\ \A fr \in Frame : /\ fr.seq \in 0..(SeqSpace - 1) /\ fr.id \in 0..(IdSpace - 1)
                       /\ fr.end \in BOOLEAN
\* Addresses have 4 or 16 bytes.
ASSUME BytesAssumption ==
  \A fr \in Frame : /\ {fr.src, fr.dst, fr.data} \subseteq Seq(0..(Radix - 1))
                    /\ Len(fr.src) % 2 = 0 /\ Len(fr.dst) % 2 = 0
                    /\ Len(fr.data) = fr.len
ASSUME BoundsAssumption == IdealBatchSize \in Nat \ {0} /\ MaxReads \in Nat

NoFrame == [type |-> "noFrame"]
Untouched == [from |-> -1]     \* what a buffer holds before Read

VARIABLES vnetHdr,   \* IFF_VNET_HDR is set: frames come with a virtio header
          pc,
          rooms,     \* the caller's buffers
          out,       \* what the caller's buffers hold
          sizes,     \* the caller's sizes, -1 where not set
          frame,     \* the frame taken from the kernel
          i,         \* the loop counter: a buffer, from 0 as in the code
          at,        \* payload consumed: nextSegmentDataAt - hdrLen
          result,    \* what Read returns: a count, or an error
          reads      \* calls so far

vars == <<vnetHdr, pc, rooms, out, sizes, frame, i, at, result, reads>>

Init == /\ vnetHdr \in BOOLEAN
        /\ pc = "idle"
        /\ rooms = <<>> /\ out = <<>> /\ sizes = <<>>
        /\ frame = NoFrame
        /\ i = 0 /\ at = 0
        /\ result = <<"count", 0>>
        /\ reads = 0

BatchSize == IF vnetHdr THEN IdealBatchSize ELSE 1

Returns(r) == pc' = "idle" /\ result' = r

\* validateReadBuffers refuses a batch that is too small, or has fewer sizes
\* than buffers, before any frame is taken from the kernel.  (n: how many sizes
\* there are for the buffers; those beyond the last buffer are never set.)
Call(rs, n) ==
  /\ pc = "idle" /\ reads < MaxReads
  /\ reads' = reads + 1
  /\ rooms' = rs
  /\ out' = [k \in DOMAIN rs |-> Untouched]
  /\ sizes' = [k \in 1..n |-> -1]
  /\ frame' = NoFrame /\ i' = 0 /\ at' = 0
  /\ IF Len(rs) < BatchSize \/ n < Len(rs)
     THEN Returns(<<"error", "shortBuffer">>)
     ELSE pc' = "read" /\ UNCHANGED result
  /\ UNCHANGED vnetHdr

\* The frame is gone from the kernel now, whatever becomes of it.
FileRead(fr) ==
  /\ pc = "read" /\ vnetHdr
  /\ frame' = fr
  /\ pc' = "check"
  /\ UNCHANGED <<vnetHdr, rooms, out, sizes, i, at, result, reads>>

\* Without virtio headers the kernel fills the first buffer, and cuts what it
\* has no room for; the size tells how much there is of the packet.
FileReadRaw(fr) ==
  /\ pc = "read" /\ ~vnetHdr
  /\ fr.type = "none"
  /\ frame' = fr
  /\ out' = [out EXCEPT ![1] = Whole(fr)]
  /\ sizes' = [sizes EXCEPT ![1] = Min({fr.hdrLen + fr.len, rooms[1]})]
  /\ Returns(<<"count", 1>>)
  /\ UNCHANGED <<vnetHdr, rooms, i, at, reads>>

FileError ==
  /\ pc = "read"
  /\ Returns(<<"error", "file">>)
  /\ UNCHANGED <<vnetHdr, rooms, out, sizes, frame, i, at, reads>>

\* Errors leave the buffers alone.
Fails(error) == /\ Returns(<<"error", error>>)
                /\ UNCHANGED <<vnetHdr, rooms, out, sizes, frame, i, at, reads>>

Reject ==
  /\ pc = "check"
  /\ Malformed(frame)
  /\ Fails("malformed")

\* A packet without GSO goes to the first buffer.
NoGso ==
  /\ pc = "check"
  /\ frame.type = "none" /\ ~Malformed(frame)
  /\ IF frame.hdrLen + frame.len > rooms[1]
     THEN Fails("shortBuffer")
     ELSE /\ out' = [out EXCEPT ![1] = Completed(frame)]
          /\ sizes' = [sizes EXCEPT ![1] = frame.hdrLen + frame.len]
          /\ Returns(<<"count", 1>>)
          /\ UNCHANGED <<vnetHdr, rooms, frame, i, at, reads>>

\* validateGSOSplit: the segments have to fit the caller's buffers ...
Count ==
  /\ pc = "check"
  /\ frame.type # "none" /\ ~Malformed(frame)
  /\ IF SegmentCount(frame) > Len(rooms)
     THEN Fails("tooManySegments")
     ELSE /\ pc' = "room"
          /\ UNCHANGED <<vnetHdr, rooms, out, sizes, frame, i, at, result, reads>>

TooSmall(room) == room < frame.hdrLen + SegmentLen(frame, at)

\* Mistake: only the first buffer is measured.
CheckRoomOnce ==
  /\ pc = "room" /\ i < SegmentCount(frame)
  /\ IF rooms[1] < 0 THEN Fails("invalidOffset")
     ELSE IF TooSmall(rooms[1]) THEN Fails("shortBuffer")
     ELSE /\ i' = i + 1 /\ at' = at + SegmentLen(frame, at)
          /\ UNCHANGED <<vnetHdr, pc, rooms, out, sizes, frame, result, reads>>

\* Mistake: each segment is written as soon as its own room is checked.
CheckRoomWrites ==
  /\ pc = "room" /\ i < SegmentCount(frame)
  /\ IF rooms[i + 1] < 0 THEN Fails("invalidOffset")
     ELSE IF TooSmall(rooms[i + 1]) THEN Fails("shortBuffer")
     ELSE /\ i' = i + 1 /\ at' = at + SegmentLen(frame, at)
          /\ out' = [out EXCEPT ![i + 1] = Sealed(frame, Segment(frame, i, at))]
          /\ UNCHANGED <<vnetHdr, pc, rooms, sizes, frame, result, reads>>

\* ... each of them, before the first is written.
CheckRoom ==
  /\ pc = "room" /\ i < SegmentCount(frame)
  /\ IF rooms[i + 1] < 0 THEN Fails("invalidOffset")
     ELSE IF TooSmall(rooms[i + 1]) THEN Fails("shortBuffer")
     ELSE /\ i' = i + 1 /\ at' = at + SegmentLen(frame, at)
          /\ UNCHANGED <<vnetHdr, pc, rooms, out, sizes, frame, result, reads>>

RoomEnds ==
  /\ pc = "room" /\ i = SegmentCount(frame)
  /\ pc' = "split" /\ i' = 0 /\ at' = 0
  /\ UNCHANGED <<vnetHdr, rooms, out, sizes, frame, result, reads>>

\* One iteration of gsoSplit's loop.  It reslices the buffer without looking:
\* beyond the visible length it would use spare capacity, or panic.
Split ==
  /\ pc = "split" /\ i < SegmentCount(frame)
  /\ out' = [out EXCEPT ![i + 1] = Sealed(frame, Segment(frame, i, at))]
  /\ sizes' = [sizes EXCEPT ![i + 1] = frame.hdrLen + SegmentLen(frame, at)]
  /\ i' = i + 1 /\ at' = at + SegmentLen(frame, at)
  /\ UNCHANGED <<vnetHdr, pc, rooms, frame, result, reads>>

SplitEnds ==
  /\ pc = "split" /\ i = SegmentCount(frame)
  /\ Returns(<<"count", i>>)
  /\ UNCHANGED <<vnetHdr, rooms, out, sizes, frame, i, at, reads>>

Next == \/ \E rs \in Rooms : \E n \in 0..Len(rs) : Call(rs, n)
        \/ \E fr \in Frame : FileRead(fr) \/ FileReadRaw(fr)
        \/ FileError \/ Reject \/ NoGso \/ Count \/ CheckRoom \/ RoomEnds
        \/ Split \/ SplitEnds

Spec == Init /\ [][Next]_vars
-----------------------------------------------------------------------------
(***************************************************************************)
(* Properties.                                                             *)
(***************************************************************************)

\* Read returned, having taken a frame.
Ready == pc = "idle" /\ frame # NoFrame

\* Every variable has its type, and the loops stay inside the caller's slices.
TypeOK ==
  /\ vnetHdr \in BOOLEAN
  /\ pc \in {"idle", "read", "check", "room", "split"}
  /\ rooms \in Rooms \cup {<<>>}
  /\ DOMAIN out = DOMAIN rooms
  /\ DOMAIN sizes \subseteq DOMAIN rooms
  /\ pc # "idle" => DOMAIN sizes = DOMAIN rooms
  /\ frame \in Frame \cup {NoFrame}
  /\ i \in 0..Len(rooms) /\ at \in Nat
  /\ pc \in {"room", "split"} => at <= frame.len
  /\ result[1] \in {"count", "error"}
  /\ reads \in 0..MaxReads

\* A Read that fails, at whichever buffer, changed none of the caller's buffers
\* and sizes (errors.go; TestHandleVirtioReadGSOAllOrNothingErrors).
AllOrNothing ==
  pc = "idle" /\ result[1] = "error" =>
    /\ \A k \in DOMAIN rooms : out[k] = Untouched
    /\ \A k \in DOMAIN sizes : sizes[k] = -1

\* No segment is written beyond the visible length of its buffer.
InBounds == \A k \in DOMAIN out : out[k] # Untouched => sizes[k] <= rooms[k]

\* Both, as the run checks them: neither the loops nor what they write leave
\* the caller's slices.
BoundsInv == TypeOK /\ InBounds

\* A Read that succeeds returns the whole payload, each byte once and in
\* order, in segments of gsoSize bytes but for the last; their sequence numbers
\* and identifications continue each other, and FIN and PSH of a TCP frame
\* come with its last byte.  No other buffer is touched.
SplitComplete ==
  vnetHdr /\ Ready /\ result[1] = "count" =>
    LET n == result[2]
        ends(k) == out[k].from + out[k].len
    IN /\ n \in 1..Len(rooms)
       /\ out[1].from = 0 /\ out[1].seq = frame.seq /\ out[1].id = frame.id
       /\ ends(n) = frame.len
       /\ \A k \in 1..n : sizes[k] = frame.hdrLen + out[k].len
       /\ \A k \in 1..(n - 1) :
            /\ out[k + 1].from = ends(k)
            /\ out[k].len = frame.gsoSize
            /\ IsTcp(frame) =>
                 /\ out[k + 1].seq = (out[k].seq + out[k].len) % SeqSpace
                 /\ ~out[k].end
            /\ frame.version = 4 => out[k + 1].id = (out[k].id + 1) % IdSpace
       /\ frame.type # "none" => out[n].len \in 1..frame.gsoSize
       /\ out[n].end = frame.end
       /\ \A k \in DOMAIN rooms \ (1..n) : out[k] = Untouched /\ sizes[k] = -1

\* Every packet Read returns has checksums that its receiver finds right: those
\* of each segment of a frame it split, and the one the kernel left to Read.
\* (A datagram whose checksum comes out as zero is returned like that.)
ChecksumsVerify ==
  vnetHdr /\ Ready /\ result[1] = "count" =>
    \A k \in 1..result[2] :
      /\ frame.type # "none" \/ frame.partial =>
           Verifies(PseudoHeader(frame, out[k])
                    \o Transport(frame, out[k], PutUint16(out[k].csum)))
      /\ frame.type # "none" /\ frame.version = 4 =>
           Verifies(IpHeader(frame, out[k], PutUint16(out[k].ipCsum)))
=============================================================================
