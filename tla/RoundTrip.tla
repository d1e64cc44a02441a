----------------------------- MODULE RoundTrip ------------------------------
(***************************************************************************)
(* The two directions of the tun file against each other: what Write       *)
(* merges, split by the algorithm that Read uses for what the kernel has   *)
(* merged, is what the caller of Write passed.                             *)
(***************************************************************************)
EXTENDS WritePath

Gso == INSTANCE GsoSplit WITH IdSpace <- 1

\* Mistake: the length field is left as it was in the packet at the front.
LengthOfFront(b) == batch[b.parts[1]].len

\* The payload of a buffer by the length field of its header, which has 16 bits.
LengthField(b) == ((HdrLen + b.len) % LenSpace) - HdrLen

\* The frame in a buffer that is written with a GSO header: its IP and TCP
\* header are those of the packet at the front, but for the length.
MergedFrame(b) ==
  LET front == batch[b.parts[1]] IN
  [type |-> IF front.proto = "tcp" THEN "tcp4" ELSE "udp", version |-> 4,
   hdrLen |-> HdrLen, len |-> LengthField(b), gsoSize |-> b.hdr, seq |-> front.seq,
   id |-> 0, end |-> b.psh]

Segmented(b) == b.hdr \notin {Unset, Plain}

\* Every segment of a merged frame has the payload length, the sequence number
\* and the shared header fields of the packet it stands for.  PSH may be lost
\* on the last one, but none gets a PSH it did not have.
SegmentsArePackets(b) ==
  LET frame == MergedFrame(b)
      \* the i-th segment starts behind i full ones
      seg(i) == Gso!Segment(frame, i, i * frame.gsoSize)
      packet(i) == batch[b.parts[i + 1]]
  IN /\ Gso!SegmentCount(frame) = Len(b.parts)
     /\ \A i \in 0..(Len(b.parts) - 1) :
          /\ seg(i).len = packet(i).len
          /\ Gso!IsTcp(frame) => seg(i).seq = packet(i).seq
          /\ Gso!IsTcp(frame) /\ seg(i).end => packet(i).psh
          /\ packet(i).opts = b.opts

\* Header and payload together are no longer than the length field can say.
LengthFits(b) == HdrLen + b.len < LenSpace

\* Splitting every frame that Write has merged gives back its packets, and the
\* checksums that the split computes afresh replace ones that were valid.  The
\* exception is a frame too long for its length field, which nothing but the room
\* in the caller's buffer prevents: whoever goes by that field cuts it short.
RoundTrips ==
  pc = "write" =>
    \A n \in ToSet(toWrite) :
      Segmented(bufs[n]) =>
        /\ LengthFits(bufs[n]) => SegmentsArePackets(bufs[n])
        /\ \A k \in ToSet(bufs[n].parts) : batch[k].csum
=============================================================================
