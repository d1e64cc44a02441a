---------------------------- MODULE GsoChecksum -----------------------------
(***************************************************************************)
(* The checksums of the packets Read returns.  What they cover is cut down *)
(* to the fields in which the segments of a frame differ: lengths,         *)
(* identification, sequence number, the flags that end a stream, payload.  *)
(* A frame has, besides the fields of GsoSplit,                            *)
(*   src, dst  its addresses                                               *)
(*   data      its payload, len bytes                                      *)
(***************************************************************************)
EXTENDS GsoSplit, Checksum

Zero == <<0, 0>>
Protocol(frame) == IF IsTcp(frame) THEN 1 ELSE 2

\* The transport header with a checksum, and the payload.
Transport(frame, seg, csum) ==
  (IF IsTcp(frame) THEN PutUint16(seg.seq) \o <<IF seg.end THEN 1 ELSE 0, 0>>
                   ELSE PutUint16(4 + seg.len))
  \o csum \o SubSeq(frame.data, seg.from + 1, seg.from + seg.len)
TransportLen(frame, seg) == (IF IsTcp(frame) THEN 6 ELSE 4) + seg.len

\* The IPv4 header with a checksum.
IpHeader(frame, seg, csum) ==
  PutUint16(frame.hdrLen + seg.len) \o PutUint16(seg.id) \o csum \o frame.src \o frame.dst

\* A segment with its checksums; -1 stands for one that Read leaves as it is.
WithSums(seg, csum, ipCsum) ==
  [seq |-> seg.seq, id |-> seg.id, end |-> seg.end, from |-> seg.from, len |-> seg.len,
   csum |-> csum, ipCsum |-> ipCsum]

\* Mistake: the old checksum is summed with the rest.
SealedOver(frame, seg) ==
  LET pseudo == pseudoHeaderChecksumNoFold(Protocol(frame), frame.src, frame.dst,
                                           TransportLen(frame, seg))
  IN WithSums(seg, Complement(checksum(Transport(frame, seg, <<1, 0>>), pseudo)),
                   IF frame.version = 4
                   THEN Complement(checksum(IpHeader(frame, seg, Zero), 0)) ELSE -1)

\* A segment with the checksums gsoSplit computes for it.
Sealed(frame, seg) ==
  LET pseudo == pseudoHeaderChecksumNoFold(Protocol(frame), frame.src, frame.dst,
                                           TransportLen(frame, seg))
  IN WithSums(seg, Complement(checksum(Transport(frame, seg, Zero), pseudo)),
                   IF frame.version = 4
                   THEN Complement(checksum(IpHeader(frame, seg, Zero), 0)) ELSE -1)

PseudoHeader(frame, seg) ==
  frame.src \o frame.dst \o <<0, Protocol(frame)>> \o PutUint16(TransportLen(frame, seg))

\* The kernel leaves the folded sum of the pseudo-header, which is not zero, in
\* the checksum field of a frame with NEEDS_CSUM.
KernelSum(frame) ==
  1 + ((WordSum(PseudoHeader(frame, Whole(frame))) - 1) % (Word16 - 1))

\* gsoNoneChecksum
gsoNoneChecksum(frame) ==
  Complement(checksum(Transport(frame, Whole(frame), Zero), KernelSum(frame)))

Completed(frame) ==
  WithSums(Whole(frame), IF frame.partial THEN gsoNoneChecksum(frame) ELSE -1, -1)
=============================================================================
