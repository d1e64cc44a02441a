------------------------------ MODULE GsoSplit ------------------------------
(***************************************************************************)
(* What gsoSplit of offload_linux.go makes of one frame with a virtio      *)
(* header.  A frame is a record of what the code tells apart:              *)
(*   type      GSO type: "none", "tcp4", "tcp6", "udp" or "other"          *)
(*   version   IP version of the packet                                    *)
(*   sound     csumStart, csumOffset and the header lengths fit together   *)
(*   partial   VIRTIO_NET_HDR_F_NEEDS_CSUM                                 *)
(*   hdrLen, len   bytes of IP and transport header, and of payload        *)
(*   gsoSize   bytes of payload for each segment                           *)
(*   seq, id   TCP sequence number and IPv4 identification                 *)
(*   end       FIN or PSH is set                                           *)
(***************************************************************************)
EXTENDS Integers, Sequences

CONSTANTS SeqSpace,   \* TCP sequence numbers wrap at 2^32
          IdSpace     \* and IPv4 identifications at 2^16

IsTcp(frame) == frame.type \in {"tcp4", "tcp6"}

\* Mistake: the last segment is taken to be full.
SegmentLenFull(frame, at) == frame.gsoSize

\* The payload length of a segment that starts at payload offset at.
SegmentLen(frame, at) ==
  IF frame.len - at < frame.gsoSize THEN frame.len - at ELSE frame.gsoSize

\* Mistake: a payload that is not a multiple of gsoSize loses its end.
SegmentCountDown(frame) == frame.len \div frame.gsoSize

SegmentCount(frame) ==
  frame.len \div frame.gsoSize + (IF frame.len % frame.gsoSize = 0 THEN 0 ELSE 1)

\* Mistake: every segment keeps FIN and PSH.
SegmentKeepsEnd(frame, i, at) ==
  [seq  |-> IF IsTcp(frame) THEN (frame.seq + at) % SeqSpace ELSE frame.seq,
   id   |-> IF frame.version = 4 THEN (frame.id + i) % IdSpace ELSE frame.id,
   end  |-> frame.end,
   from |-> at,
   len  |-> SegmentLen(frame, at)]

\* The i-th segment, counted from 0.  It gets its own sequence number and
\* identification; FIN and PSH stay on the last one only.
Segment(frame, i, at) ==
  LET n == SegmentLen(frame, at) IN
  [seq  |-> IF IsTcp(frame) THEN (frame.seq + at) % SeqSpace ELSE frame.seq,
   id   |-> IF frame.version = 4 THEN (frame.id + i) % IdSpace ELSE frame.id,
   end  |-> frame.end /\ (IsTcp(frame) => at + n = frame.len),
   from |-> at,
   len  |-> n]

\* A frame that is not segmented is returned as it is.
Whole(frame) == [seq |-> frame.seq, id |-> frame.id, end |-> frame.end,
                 from |-> 0, len |-> frame.len]

\* handleVirtioRead's and validateGSOSplit's checks of a frame to be split.
Compatible(frame) == \/ frame.type = "tcp4" /\ frame.version = 4
                     \/ frame.type = "tcp6" /\ frame.version = 6
                     \/ frame.type = "udp" /\ frame.version \in {4, 6}

Malformed(frame) ==
  IF frame.type = "none"
  THEN frame.partial /\ ~frame.sound
  ELSE ~Compatible(frame) \/ ~frame.sound \/ frame.gsoSize = 0 \/ frame.len = 0
=============================================================================
