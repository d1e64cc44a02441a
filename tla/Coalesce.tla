------------------------------ MODULE Coalesce ------------------------------
(***************************************************************************)
(* Which packets offload_linux.go merges, and what the merge produces.     *)
(*                                                                         *)
(* A packet is a record of what the code tells apart:                      *)
(*   proto  "tcp", "udp" or "other", by packetIsGROCandidate               *)
(*   flow   the flow key: addresses and ports, and the ACK number for TCP  *)
(*   odd    fragment, TCP flag other than ACK and PSH, or bad length field *)
(*   opts   IP header fields and TCP options, which merged packets share   *)
(*   seq, psh   TCP sequence number and PSH flag                           *)
(*   len    payload length                                                 *)
(*   csum   the transport checksum is valid                                *)
(*   cap    room for payload in its buffer                                 *)
(* A buffer holds a packet or the packets merged into one: its header is   *)
(* that of the packet at the front, and parts lists the packets whose      *)
(* payloads it holds, as indices into the batch.                           *)
(***************************************************************************)
EXTENDS Integers, Sequences

CONSTANTS SeqSpace,   \* TCP sequence numbers wrap at 2^32
          LenSpace,   \* lengths have 16 bits: 2^16
          HdrLen      \* bytes of IP and transport header, which a length counts

ASSUME SpaceAssumption == /\ SeqSpace \in Nat \ {0} /\ LenSpace \in Nat \ {0}
                          /\ HdrLen \in Nat

\* The virtio header in front of a buffer: what the caller left there, an empty
\* one, or one that asks to split the payload at the given size.
Unset == -1
Plain == 0

\* The buffer of packet p, the i-th of its batch.
Buffer(p, i) == [opts |-> p.opts, psh |-> p.psh, csum |-> p.csum, cap |-> p.cap,
                 len |-> p.len, parts |-> <<i>>, hdr |-> Unset]

\* Early returns of tcpGRO and udpGRO: the packet is written as it is.
NotMergeable(p) == p.odd \/ p.len = 0 \/ HdrLen + p.len >= LenSpace
-----------------------------------------------------------------------------
(***************************************************************************)
(* TCP.                                                                    *)
(***************************************************************************)

\* Mistake: the item points at the next buffer.
TcpItemOffByOne(p, i) ==
  [buf |-> i + 1, gsoSize |-> p.len, seq |-> p.seq, psh |-> p.psh, merged |-> 0]

TcpItem(p, i) == [buf |-> i, gsoSize |-> p.len, seq |-> p.seq, psh |-> p.psh,
                  merged |-> 0]

\* lhsLen, the payload the item is taken to hold: too much if its last part is
\* short, and too little when it exceeds 16 bits, which only the room in the
\* caller's buffer prevents.
LhsLen(item) == (item.gsoSize + item.merged * item.gsoSize) % LenSpace

ShortEnd(buf, item) == buf.len % item.gsoSize # 0

\* Mistake: the sequence numbers are thought to rule out a short end.
TcpCanCoalesceAfterShort(p, item, buf) ==
  IF p.opts # buf.opts THEN "unavailable"
  ELSE IF p.seq = (item.seq + LhsLen(item)) % SeqSpace
  THEN IF item.psh \/ p.len > item.gsoSize THEN "unavailable" ELSE "append"
  ELSE IF (p.seq + p.len) % SeqSpace = item.seq
  THEN IF \/ p.psh
          \/ p.len < item.gsoSize
          \/ p.len > item.gsoSize /\ item.merged > 0
       THEN "unavailable" ELSE "prepend"
  ELSE "unavailable"

\* tcpPacketsCanCoalesce: p continues the item, or comes right before it, and
\* no part but the last would be short or carry PSH.
TcpCanCoalesce(p, item, buf) ==
  IF p.opts # buf.opts THEN "unavailable"
  ELSE IF p.seq = (item.seq + LhsLen(item)) % SeqSpace
  THEN IF item.psh \/ ShortEnd(buf, item) \/ p.len > item.gsoSize
       THEN "unavailable" ELSE "append"
  ELSE IF (p.seq + p.len) % SeqSpace = item.seq
  THEN IF \/ p.psh
          \/ p.len < item.gsoSize
          \/ p.len > item.gsoSize /\ item.merged > 0
       THEN "unavailable" ELSE "prepend"
  ELSE "unavailable"

\* coalesceTCPPackets and coalesceUDPPackets: the buffer that will be in front
\* must have room, and the checksums are verified before they are given up; an
\* item that has merged before is known to be valid.  (The PSH test of the
\* former never fails: a packet with PSH is no candidate for a prepend.)
MergeResult(front, item, buf, pbuf, itemBad) ==
  IF front.cap < buf.len + pbuf.len THEN "insufficientCap"
  ELSE IF item.merged = 0 /\ (itemBad \/ ~buf.csum) THEN "itemInvalidCSum"
  ELSE IF ~pbuf.csum THEN "pktInvalidCSum"
  ELSE "success"

TcpMerge(can, item, buf, pbuf) ==
  MergeResult(IF can = "prepend" THEN pbuf ELSE buf, item, buf, pbuf, FALSE)

\* The buffers after a success: the payload of back is copied behind front's,
\* and an appended PSH is set in the header.
Joined(front, back, psh) ==
  [front EXCEPT !.len = @ + back.len, !.parts = @ \o back.parts, !.psh = psh]

TcpMerged(can, buf, pbuf) ==
  IF can = "prepend" THEN Joined(pbuf, buf, pbuf.psh)
                     ELSE Joined(buf, pbuf, buf.psh \/ pbuf.psh)

\* Mistake: a longer packet in front does not raise the size of a segment.
TcpMergedItemKeepsSize(can, item, p) ==
  [item EXCEPT !.merged = @ + 1,
               !.seq = IF can = "prepend" THEN p.seq ELSE @,
               !.psh = IF can = "append" THEN @ \/ p.psh ELSE @]

TcpMergedItem(can, item, p) ==
  [item EXCEPT !.merged = @ + 1,
               !.seq = IF can = "prepend" THEN p.seq ELSE @,
               !.psh = IF can = "append" THEN @ \/ p.psh ELSE @,
               !.gsoSize = IF p.len > @ THEN p.len ELSE @]
-----------------------------------------------------------------------------
(***************************************************************************)
(* UDP.  Datagrams have no sequence number: only arrival order tells.      *)
(***************************************************************************)

UdpItem(p, i, bad) == [buf |-> i, gsoSize |-> p.len, bad |-> bad, merged |-> 0]

\* Mistake: only a longer datagram is kept from following a short one.
UdpCanCoalesceAfterShort(p, item, buf) ==
  IF p.opts # buf.opts \/ p.len > item.gsoSize THEN "unavailable" ELSE "append"

UdpCanCoalesce(p, item, buf) ==
  IF p.opts # buf.opts \/ ShortEnd(buf, item) \/ p.len > item.gsoSize
  THEN "unavailable" ELSE "append"

UdpMerge(item, buf, pbuf) == MergeResult(buf, item, buf, pbuf, item.bad)

UdpMerged(buf, pbuf) == Joined(buf, pbuf, buf.psh)

UdpMergedItem(item) == [item EXCEPT !.merged = @ + 1]
=============================================================================
