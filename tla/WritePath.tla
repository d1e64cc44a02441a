----------------------------- MODULE WritePath ------------------------------
(***************************************************************************)
(* NativeTun.Write of tun_linux.go with handleGRO of offload_linux.go: one *)
(* batch of packets is merged where possible, every buffer gets its virtio *)
(* header, the buffers are written to the tun file one by one, and the     *)
(* flow tables are reset for the next batch.                               *)
(*                                                                         *)
(* writeOpMu makes calls sequential, so the module runs one call after     *)
(* another.  Its steps are the iterations of the loops.                    *)
(***************************************************************************)
EXTENDS Coalesce, GroTable

CONSTANTS Packet,      \* the packets a caller may pass
          Flow,        \* flow keys
          PoolSize,    \* slices in a table's pool: IdealBatchSize
          MaxBatch,    \* packets per Write
          MaxWrites    \* bound: calls of Write

\* Callers keep to the batch size doc.go documents.
ASSUME BatchAssumption == /\ PoolSize \in Nat /\ MaxBatch \in 1..PoolSize
                          /\ MaxWrites \in Nat

\* The flow keys of packets are flow keys, and there are finitely many.
ASSUME FlowAssumption == /\ IsFiniteSet(Flow)
                         /\ \A p \in Packet : p.flow \in Flow

\* The fields of packets have their types.  Neither a packet nor the room in the
\* buffer of the caller has a greatest length.
ASSUME PacketAssumption ==
  \A p \in Packet : /\ p.seq \in 0..(SeqSpace - 1) /\ p.len \in Nat /\ p.cap \in Nat
                    /\ p.psh \in BOOLEAN /\ p.csum \in BOOLEAN

VARIABLES vnetHdr,   \* IFF_VNET_HDR is set: the batch goes through handleGRO
          pc,
          size,      \* number of packets of the current batch
          batch,     \* those taken up so far
          bufs,      \* their buffers: the caller's bufs, modified in place
          tcp, udp,  \* the flow tables
          scan,      \* the item tcpGRO compares the current packet with next
          toWrite,   \* indices of the buffers to write
          sent,      \* number of entries of toWrite passed to the file
          written,   \* number of those the file accepted
          result,    \* what the last Write returned
          writes     \* calls so far

tables == <<tcp, udp>>
vars == <<vnetHdr, pc, size, batch, bufs, tcp, udp, scan, toWrite, sent,
          written, result, writes>>

Init == /\ vnetHdr \in BOOLEAN
        /\ pc = "idle" /\ size = 0
        /\ batch = <<>> /\ bufs = <<>>
        /\ tcp = NewTable(Flow, PoolSize) /\ udp = NewTable(Flow, PoolSize)
        /\ scan = 0 /\ toWrite = <<>> /\ sent = 0 /\ written = 0
        /\ result = "none" /\ writes = 0

Start ==
  /\ pc = "idle" /\ writes < MaxWrites
  /\ size' \in 1..MaxBatch
  /\ pc' = "gro"
  /\ batch' = <<>> /\ bufs' = <<>> /\ toWrite' = <<>>
  /\ sent' = 0 /\ written' = 0
  /\ writes' = writes + 1
  /\ UNCHANGED <<vnetHdr, tcp, udp, scan, result>>
-----------------------------------------------------------------------------
(***************************************************************************)
(* handleGRO: one packet after another.                                    *)
(***************************************************************************)

cur == Len(batch)               \* index of the packet under evaluation
current == batch[cur]

\* The next packet enters at the end of bufs, in buffer b.
Takes(p, b) == /\ pc = "gro" /\ Len(batch) < size
               /\ batch' = Append(batch, p)
               /\ bufs' = Append(bufs, b)
               /\ UNCHANGED <<vnetHdr, size, sent, written, result, writes>>

Queue(n) == toWrite' = Append(toWrite, n)

\* Without virtio headers the batch is written as it is.
TakeRaw(p) ==
  /\ ~vnetHdr
  /\ Takes(p, Buffer(p, cur + 1)) /\ Queue(cur + 1)
  /\ UNCHANGED <<pc, tcp, udp, scan>>

\* Not a candidate for GRO, or a case tcpGRO and udpGRO return early from.
TakeAsIs(p) ==
  /\ vnetHdr
  /\ p.proto = "other" \/ NotMergeable(p)
  /\ Takes(p, [Buffer(p, cur + 1) EXCEPT !.hdr = Plain]) /\ Queue(cur + 1)
  /\ UNCHANGED <<pc, tcp, udp, scan>>

\* The caller's offset leaves no room for the header, or the buffer is empty:
\* Write gives up, with the buffers merged so far.
BadOffset ==
  /\ pc = "gro" /\ vnetHdr /\ Len(batch) < size
  /\ pc' = "reset" /\ result' = "invalidOffset"
  /\ UNCHANGED <<vnetHdr, size, batch, bufs, tcp, udp, scan, toWrite, sent,
                 written, writes>>

\* tcpGRO: a new flow is inserted, the items of a known one are scanned from
\* the last to the first.
TakeTcp(p) ==
  /\ vnetHdr
  /\ p.proto = "tcp" /\ ~NotMergeable(p)
  /\ Takes(p, Buffer(p, cur + 1))
  /\ IF Existing(tcp, p.flow)
     THEN /\ pc' = "scan" /\ scan' = Len(tcp.items[p.flow])
          /\ UNCHANGED <<tcp, toWrite>>
     ELSE /\ tcp' = Insert(tcp, p.flow, TcpItem(p, cur + 1))
          /\ Queue(cur + 1)
          /\ UNCHANGED <<pc, scan>>
  /\ UNCHANGED udp

ScanFrame == UNCHANGED <<vnetHdr, size, batch, udp, sent, written, result,
                         writes>>

\* Mistake: the prepended packet is not moved to the index that is written.
TcpBufsNotSwapped(can, item) ==
  LET merged == TcpMerged(can, bufs[item.buf], bufs[cur]) IN
  [bufs EXCEPT ![IF can = "prepend" THEN cur ELSE item.buf] = merged]

\* The buffers after the current packet was merged into item: the merged packet
\* stands where the item's buffer was, which a prepend moves to the end.
TcpBufs(can, item) ==
  LET merged == TcpMerged(can, bufs[item.buf], bufs[cur])
      left   == IF can = "prepend" THEN bufs[item.buf] ELSE bufs[cur]
  IN [bufs EXCEPT ![item.buf] = merged, ![cur] = left]

\* One iteration of tcpGRO's loop.
Scan ==
  LET p == current
      item == tcp.items[p.flow][scan]
      can == TcpCanCoalesce(p, item, bufs[item.buf])
      merge == IF can = "unavailable" THEN can
               ELSE TcpMerge(can, item, bufs[item.buf], bufs[cur])
  IN
  /\ pc = "scan" /\ scan > 0
  /\ CASE merge = "success" ->
            /\ tcp' = UpdateAt(tcp, p.flow, scan, TcpMergedItem(can, item, p))
            /\ bufs' = TcpBufs(can, item)
            /\ pc' = "gro" /\ scan' = 0
            /\ UNCHANGED toWrite
       [] merge = "itemInvalidCSum" ->
            /\ tcp' = DeleteAt(tcp, p.flow, scan)
            /\ scan' = scan - 1
            /\ UNCHANGED <<pc, bufs, toWrite>>
       [] merge = "pktInvalidCSum" ->
            /\ bufs' = [bufs EXCEPT ![cur].hdr = Plain] /\ Queue(cur)
            /\ pc' = "gro" /\ scan' = 0
            /\ UNCHANGED tcp
       [] OTHER ->
            /\ scan' = scan - 1
            /\ UNCHANGED <<pc, bufs, tcp, toWrite>>
  /\ ScanFrame

\* No item took the packet.
ScanEnds ==
  /\ pc = "scan" /\ scan = 0
  /\ tcp' = Insert(tcp, current.flow, TcpItem(current, cur))
  /\ Queue(cur)
  /\ pc' = "gro"
  /\ UNCHANGED <<bufs, scan>>
  /\ ScanFrame

\* Mistake: a datagram with a bad checksum is not worth an item.
UdpGRONoItem(p, item, b) ==
  LET can == UdpCanCoalesce(p, item, bufs[item.buf])
      merge == IF can = "unavailable" THEN can
               ELSE UdpMerge(item, bufs[item.buf], b)
      k == Len(udp.items[p.flow])
  IN
  CASE merge = "success" ->
         /\ udp' = UpdateAt(udp, p.flow, k, UdpMergedItem(item))
         /\ bufs' = [Append(bufs, b) EXCEPT
                       ![item.buf] = UdpMerged(bufs[item.buf], b)]
         /\ UNCHANGED toWrite
    [] merge = "pktInvalidCSum" ->
         /\ bufs' = Append(bufs, [b EXCEPT !.hdr = Plain])
         /\ Queue(cur + 1)
         /\ UNCHANGED udp
    [] OTHER ->
         /\ udp' = Insert(udp, p.flow, UdpItem(p, cur + 1, FALSE))
         /\ bufs' = Append(bufs, b)
         /\ Queue(cur + 1)

\* udpGRO compares with the last item of the flow only.
UdpGRO(p, item, b) ==
  LET can == UdpCanCoalesce(p, item, bufs[item.buf])
      merge == IF can = "unavailable" THEN can
               ELSE UdpMerge(item, bufs[item.buf], b)
      k == Len(udp.items[p.flow])
  IN
  IF merge = "success"
  THEN /\ udp' = UpdateAt(udp, p.flow, k, UdpMergedItem(item))
       /\ bufs' = [Append(bufs, b) EXCEPT
                     ![item.buf] = UdpMerged(bufs[item.buf], b)]
       /\ UNCHANGED toWrite
  ELSE /\ udp' = Insert(udp, p.flow,
                        UdpItem(p, cur + 1, merge = "pktInvalidCSum"))
       /\ bufs' = Append(bufs, b)
       /\ Queue(cur + 1)

TakeUdp(p) ==
  /\ vnetHdr /\ pc = "gro" /\ Len(batch) < size
  /\ p.proto = "udp" /\ ~NotMergeable(p)
  /\ batch' = Append(batch, p)
  /\ IF Existing(udp, p.flow)
     THEN UdpGRO(p, Last(udp.items[p.flow]), Buffer(p, cur + 1))
     ELSE /\ udp' = Insert(udp, p.flow, UdpItem(p, cur + 1, FALSE))
          /\ bufs' = Append(bufs, Buffer(p, cur + 1))
          /\ Queue(cur + 1)
  /\ UNCHANGED <<vnetHdr, pc, size, tcp, scan, sent, written, result, writes>>

\* applyTCPCoalesceAccounting and applyUDPCoalesceAccounting: the buffers of
\* all items get their headers.  The order of the flows does not matter.
Items(t) == UNION {ToSet(t.items[f]) : f \in t.live}

\* Mistake: the first merge is not counted.
ItemHdrFromTwo(item) ==
  IF item.merged > 1 THEN item.gsoSize ELSE Plain

ItemHdr(item) == IF item.merged > 0 THEN item.gsoSize ELSE Plain

Account ==
  /\ pc = "gro" /\ Len(batch) = size
  /\ pc' = "write"
  /\ bufs' = IF ~vnetHdr THEN bufs
             ELSE [n \in DOMAIN bufs |->
                     [bufs[n] EXCEPT !.hdr =
                        IF \E item \in Items(tcp) \cup Items(udp) : item.buf = n
                        THEN ItemHdr(CHOOSE item \in Items(tcp) \cup Items(udp) :
                                       item.buf = n)
                        ELSE @]]
  /\ UNCHANGED <<vnetHdr, size, batch, tcp, udp, scan, toWrite, sent, written,
                 result, writes>>
-----------------------------------------------------------------------------
(***************************************************************************)
(* writeBatch, and the end of Write.                                       *)
(***************************************************************************)

WriteFrame == UNCHANGED <<vnetHdr, size, batch, bufs, tcp, udp, scan, toWrite,
                          writes>>

\* The kernel takes the packet, or refuses it and the next one is tried.
WriteOne ==
  /\ pc = "write" /\ sent < Len(toWrite)
  /\ sent' = sent + 1
  /\ written' \in {written, written + 1}
  /\ UNCHANGED <<pc, result>>
  /\ WriteFrame

\* EBADFD: the interface is gone, and the rest of the batch is not tried.
WriteGone ==
  /\ pc = "write" /\ sent < Len(toWrite)
  /\ pc' = "reset" /\ result' = "ErrClosed"
  /\ UNCHANGED <<sent, written>>
  /\ WriteFrame

WriteDone ==
  /\ pc = "write" /\ sent = Len(toWrite)
  /\ pc' = "reset"
  /\ result' = IF written = sent THEN "nil" ELSE "errors"
  /\ UNCHANGED <<sent, written>>
  /\ WriteFrame

\* The deferred function resets both tables on every path.
ResetTables ==
  /\ pc = "reset"
  /\ pc' = "idle"
  /\ tcp' = Reset(tcp) /\ udp' = Reset(udp) /\ scan' = 0
  /\ UNCHANGED <<vnetHdr, size, batch, bufs, toWrite, sent, written, result,
                 writes>>

Take == \E p \in Packet : TakeRaw(p) \/ TakeAsIs(p) \/ TakeTcp(p) \/ TakeUdp(p)

Next == \/ Start \/ Take \/ BadOffset \/ Scan \/ ScanEnds \/ Account
        \/ WriteOne \/ WriteGone \/ WriteDone \/ ResetTables

Spec == Init /\ [][Next]_vars
-----------------------------------------------------------------------------
(***************************************************************************)
(* Properties.                                                             *)
(***************************************************************************)

TcpItems == Items(tcp)
UdpItems == Items(udp)

\* Every variable has its type, and no index points outside the batch.
TypeOK ==
  /\ vnetHdr \in BOOLEAN
  /\ pc \in {"idle", "gro", "scan", "write", "reset"}
  /\ size \in 0..MaxBatch /\ Len(batch) <= size
  /\ batch \in Seq(Packet) /\ Len(bufs) = Len(batch)
  /\ scan \in 0..MaxBatch
  /\ toWrite \in Seq(1..Len(batch))
  /\ sent \in 0..Len(toWrite) /\ written \in 0..sent
  /\ result \in {"none", "nil", "errors", "ErrClosed", "invalidOffset"}
  /\ writes \in 0..MaxWrites
  /\ \A item \in TcpItems \cup UdpItems : item.buf \in 1..Len(batch)

\* Segmenting the buffer of an item at gsoSize gives back the payloads of the
\* packets merged into it, every one with the headers it had: all parts but
\* the last are gsoSize long, and none but the last is shorter.
SplitsBack(item) ==
  LET b == bufs[item.buf]
      n == Len(b.parts)
      part(k) == batch[b.parts[k]]
  IN /\ n = item.merged + 1
     /\ \A k \in 1..n : part(k).opts = b.opts
     /\ \A k \in 1..(n - 1) : part(k).len = item.gsoSize
     /\ part(n).len \in 1..item.gsoSize
     /\ b.len = (n - 1) * item.gsoSize + part(n).len
     /\ n > 1 => b.len <= b.cap /\ \A k \in 1..n : part(k).csum

\* TCP: the parts are consecutive in the byte stream from the sequence number
\* in the header on ...
Consecutive(item) ==
  LET parts == bufs[item.buf].parts IN
  /\ batch[parts[1]].seq = item.seq
  /\ \A k \in 1..(Len(parts) - 1) :
       batch[parts[k + 1]].seq = (batch[parts[k]].seq + batch[parts[k]].len) % SeqSpace

\* ... and only the last may carry PSH.
PshLast(item) ==
  LET parts == bufs[item.buf].parts IN
  \A k \in 1..(Len(parts) - 1) : ~batch[parts[k]].psh

\* What GRO merges, the segmentation of the receiver undoes.  The exception is a
\* group with more payload than 16 bits count, which nothing but the room in the
\* caller's buffer prevents: lhsLen wraps, and it need not be consecutive.
MergesUndone ==
  /\ \A item \in TcpItems \cup UdpItems : SplitsBack(item)
  /\ \A item \in TcpItems :
       PshLast(item) /\ (bufs[item.buf].len < LenSpace => Consecutive(item))

\* No packet is lost or written twice: between two packets, and while the
\* batch is written, each packet taken up is in exactly one buffer to write.
Holders(n) ==
  LET parts(k) == bufs[toWrite[k]].parts IN
  {at \in (DOMAIN toWrite) \X (DOMAIN batch) :
     at[2] \in DOMAIN parts(at[1]) /\ parts(at[1])[at[2]] = n}

EveryPacketOnce ==
  pc \in {"gro", "write"} => \A n \in 1..Len(batch) : Cardinality(Holders(n)) = 1

\* Every buffer that is written has the virtio header its content calls for.
\* The exception is a TCP packet with a bad checksum that tcpGRO dropped from
\* its flow: its header is whatever the caller left in front of the packet.
HeadersFit ==
  pc = "write" /\ vnetHdr =>
    \A n \in ToSet(toWrite) :
      LET b == bufs[n] IN
      CASE b.hdr = Unset -> Len(b.parts) = 1 /\ ~b.csum
                              /\ batch[b.parts[1]].proto = "tcp"
        [] b.hdr = Plain -> Len(b.parts) = 1
        [] OTHER -> /\ Len(b.parts) > 1
                    /\ b.hdr = batch[b.parts[1]].len

\* The datagrams of a flow are written in the order the caller passed them.
Before(m, n) ==
  \E p \in Holders(m), q \in Holders(n) :
    p[1] < q[1] \/ (p[1] = q[1] /\ p[2] < q[2])

InOrder(S) ==
  pc = "write" => \A m, n \in 1..Len(batch) :
    /\ m < n /\ {batch[m], batch[n]} \subseteq S
    /\ batch[m].flow = batch[n].flow
    => Before(m, n)

UdpFlowOrder == InOrder({p \in Packet : p.proto = "udp"})

\* ... at least those that udpGRO takes into its table.
UdpMergeableOrder ==
  InOrder({p \in Packet : p.proto = "udp" /\ ~NotMergeable(p)})

\* The flows of a batch give back the slices they took: the pools never run
\* dry, which would panic, however many batches and flows there were.
PoolsConserved ==
  /\ tcp.pool + Cardinality(tcp.live) = PoolSize
  /\ udp.pool + Cardinality(udp.live) = PoolSize

PoolsLast ==
  pc = "gro" /\ Len(batch) < size => tcp.pool > 0 /\ udp.pool > 0
=============================================================================
