--------------------------- MODULE PacketIOProofs ---------------------------
(***************************************************************************)
(* Safety of PacketIO for any number of goroutines, any batch and any      *)
(* capacity of the ring: what Write reports is what became of its packets, *)
(* Read loses none, nothing but misuse panics, and the event channel of    *)
(* the channel device implements EventStream.                              *)
(***************************************************************************)
EXTENDS PacketIO, TLAPS

\* The types, one part for each group of variables that change together.
WriteState == [pc : {"idle", "loop", "send", "done"}, batch : Batch,
               n : 0..MaxBatch, err : Errors]
RingEntry == [by : Writers, pos : 1..MaxBatch, kind : Packet, sent : BOOLEAN]
Delivery == [pos : 1..MaxBatch, kind : Packet]
Offer == [id : Nat, runt : BOOLEAN]

WriteTypes == platform \in Platforms /\ write \in [Writers -> WriteState]
OutTypes == /\ got \in [Writers -> Seq(Delivery)]
            /\ dropped \subseteq Writers \X (1..MaxBatch)
            /\ ring \in Seq(RingEntry) /\ Len(ring) <= RingCap
            /\ eof \in BOOLEAN
ReadTypes == /\ read \in [pc : {"making", "idle", "select", "file"}, err : Errors]
             /\ queue \in Seq(Offer) /\ offered \in Seq(Offer) /\ taken \in Seq(Offer)
CloseTypes == /\ closed \in BOOLEAN
              /\ closer \in [Closers -> {"idle", "events", "done"}]
EventTypes == events \in ChanType({"Up"}) /\ Len(events.buf) <= 1

\* How far a Write is: it counts no packet its batch does not have, and returns
\* an error exactly if packets are left.
Progress ==
  \A w \in Writers :
    LET b == write[w].batch IN
    /\ write[w].n <= Len(b)
    /\ write[w].pc = "idle" => write[w].n = 0
    /\ write[w].pc = "send" => write[w].n < Len(b)
    /\ write[w].pc = "done" =>
         b = <<>> \/ (write[w].err = "none" <=> write[w].n = Len(b))

\* The channel device before its maker has sent, and its two channels: one
\* Close at most is between closing the one and the other.
Closing ==
  /\ read.pc = "making" => events = NewChan
  /\ events.closed => closed
  /\ \A c \in Closers : closer[c] = "events" => closed /\ ~events.closed
  /\ \A c, d \in Closers : closer[c] = "events" /\ closer[d] = "events" => c = d
  /\ platform = "channel" /\ closed => \E c \in Closers : closer[c] # "idle"

Types == /\ WriteTypes /\ OutTypes /\ ReadTypes /\ CloseTypes /\ EventTypes
BaseInv == Types /\ Progress /\ Closing /\ PanicsAreMisuse
-----------------------------------------------------------------------------
(***************************************************************************)
(* Sequences and batches.                                                  *)
(***************************************************************************)

\* What appending to a sequence does.
LEMMA Appended ==
  ASSUME NEW S, NEW s \in Seq(S), NEW x \in S
  PROVE  /\ Append(s, x) \in Seq(S) /\ Len(Append(s, x)) = Len(s) + 1
         /\ DOMAIN Append(s, x) = 1..(Len(s) + 1) /\ DOMAIN s = 1..Len(s)
         /\ Len(s) \in Nat
         /\ \A k \in 1..Len(s) : Append(s, x)[k] = s[k]
         /\ Append(s, x)[Len(s) + 1] = x
OBVIOUS

\* What is left of a sequence behind its head.
LEMMA Rest ==
  ASSUME NEW S, NEW s \in Seq(S), s # <<>>
  PROVE  /\ Tail(s) \in Seq(S) /\ Head(s) \in S
         /\ Len(s) \in Nat /\ Len(s) > 0 /\ Len(Tail(s)) = Len(s) - 1
         /\ DOMAIN s = 1..Len(s) /\ DOMAIN Tail(s) = 1..(Len(s) - 1)
         /\ Head(s) = s[1]
         /\ \A k \in 1..(Len(s) - 1) : Tail(s)[k] = s[k + 1]
OBVIOUS

\* A batch has at most MaxBatch packets.
LEMMA BatchShape ==
  ASSUME NEW b \in Batch
  PROVE  /\ Len(b) \in 0..MaxBatch /\ DOMAIN b = 1..Len(b)
         /\ \A k \in 1..Len(b) : b[k] \in Packet
<1>1. PICK k \in 0..MaxBatch : b \in [1..k -> Packet]
  BY DEF Batch
<1>2. k \in Nat
  BY <1>1, BoundAssumption
<1>3. b \in Seq(Packet) /\ Len(b) = k
  BY <1>1, <1>2
<1>. QED  BY <1>1, <1>2, <1>3
-----------------------------------------------------------------------------
(***************************************************************************)
(* What a step of a Write does to the call.                                *)
(***************************************************************************)

\* The call of w becomes s, the others stay as they are.
Becomes(w, s) ==
  /\ s \in WriteState
  /\ write' \in [Writers -> WriteState]
  /\ write'[w] = s
  /\ \A v \in Writers \ {w} : write'[v] = write[v]

\* A return ends the call with its count and error.
LEMMA Returned ==
  ASSUME WriteTypes, NEW w \in Writers, NEW n \in 0..MaxBatch, NEW err \in Errors,
         Returns(w, n, err)
  PROVE  Becomes(w, [pc |-> "done", batch |-> write[w].batch, n |-> n, err |-> err])
<1>1. write[w] \in WriteState
  BY DEF WriteTypes
<1>2. [pc |-> "done", batch |-> write[w].batch, n |-> n, err |-> err] \in WriteState
  BY <1>1 DEF WriteState
<1>. QED  BY <1>1, <1>2 DEF WriteTypes, Returns, Becomes, WriteState

\* The packet a Write is at is one of its batch.
LEMMA AtPacketIndex ==
  ASSUME WriteTypes, Progress, NEW w \in Writers,
         write[w].n < Len(write[w].batch)
  PROVE  /\ write[w].n \in 0..MaxBatch /\ Index(w) \in 1..MaxBatch
         /\ Index(w) = write[w].n + 1 /\ Index(w) \in 1..Len(write[w].batch)
         /\ Index(w) \in DOMAIN write[w].batch
         /\ Current(w) \in Packet
<1>1. write[w].batch \in Batch /\ write[w].n \in 0..MaxBatch
  BY DEF WriteTypes, WriteState
<1>2. /\ Len(write[w].batch) \in 0..MaxBatch
      /\ DOMAIN write[w].batch = 1..Len(write[w].batch)
      /\ \A k \in 1..Len(write[w].batch) : write[w].batch[k] \in Packet
  BY <1>1, BatchShape
<1>3. MaxBatch \in Nat
  BY BoundAssumption
<1>. QED  BY <1>1, <1>2, <1>3 DEF Index, Current

\* The turn of the loop counts the packet.
LEMMA Advanced ==
  ASSUME WriteTypes, Progress, NEW w \in Writers,
         write[w].n < Len(write[w].batch), Advance(w)
  PROVE  Becomes(w, [pc |-> "loop", batch |-> write[w].batch, n |-> Index(w),
                     err |-> write[w].err])
<1>1. write[w] \in WriteState
  BY DEF WriteTypes
<1>2. Index(w) \in 0..MaxBatch /\ Index(w) = write[w].n + 1
  BY AtPacketIndex, BoundAssumption
<1>3. [pc |-> "loop", batch |-> write[w].batch, n |-> Index(w), err |-> write[w].err]
        \in WriteState
  BY <1>1, <1>2 DEF WriteState
<1>. QED  BY <1>1, <1>2, <1>3 DEF WriteTypes, Advance, Becomes, WriteState

\* An allocated packet is sent next.
LEMMA Allocated ==
  ASSUME WriteTypes, NEW w \in Writers, write' = [write EXCEPT ![w].pc = "send"]
  PROVE  Becomes(w, [pc |-> "send", batch |-> write[w].batch, n |-> write[w].n,
                     err |-> write[w].err])
<1>1. write[w] \in WriteState
  BY DEF WriteTypes
<1>. QED  BY <1>1 DEF WriteTypes, Becomes, WriteState

\* A call of Write begins with a count of nothing.
LEMMA Called ==
  ASSUME WriteTypes, NEW w \in Writers, WriteCall(w)
  PROVE  \E b \in Batch, err \in Errors :
           Becomes(w, [pc |-> IF err = "none" THEN "loop" ELSE "done",
                       batch |-> b, n |-> 0, err |-> err])
<1>1. PICK b \in Batch, room \in BOOLEAN :
        LET early == IF platform \in Bsd /\ ~room THEN "short"
                     ELSE IF platform = "windows" /\ closed THEN "closed" ELSE "none"
        IN  write' = [write EXCEPT ![w] =
                        [pc |-> IF early = "none" THEN "loop" ELSE "done",
                         batch |-> b, n |-> 0, err |-> early]]
  BY DEF WriteCall
<1>2. PICK err \in Errors :
        write' = [write EXCEPT ![w] = [pc |-> IF err = "none" THEN "loop" ELSE "done",
                                       batch |-> b, n |-> 0, err |-> err]]
  BY <1>1 DEF Errors
<1>3. 0 \in 0..MaxBatch
  BY BoundAssumption
<1>4. [pc |-> IF err = "none" THEN "loop" ELSE "done", batch |-> b, n |-> 0,
       err |-> err] \in WriteState
  BY <1>3 DEF WriteState
<1>. QED  BY <1>2, <1>4 DEF WriteTypes, Becomes

\* A call that becomes s is as far as s says.
LEMMA ProgressKept ==
  ASSUME Progress, NEW w \in Writers, NEW s, Becomes(w, s),
         s.n <= Len(s.batch),
         s.pc = "idle" => s.n = 0, s.pc = "send" => s.n < Len(s.batch),
         s.pc = "done" => s.batch = <<>> \/ (s.err = "none" <=> s.n = Len(s.batch))
  PROVE  Progress'
BY DEF Progress, Becomes

\* A Write counts as many packets as it has, and every one before it returns.
LEMMA WriteMoves ==
  ASSUME WriteTypes, Progress, NEW w \in Writers,
         WriteCall(w) \/ WriteStep(w) \/ ChannelSends(w)
  PROVE  WriteTypes' /\ Progress'
<1>. DEFINE b == write[w].batch
<1>0. platform' = platform
  BY DEF WriteCall, WriteStep, ChannelSends, WriteReturns, BsdRejects, BsdWrites,
     BsdFails, RingAllocates, RingSends, RingDrops, RingFails, ChannelClosed,
     WriteFrame
<1>1. /\ b \in Batch /\ Len(b) \in 0..MaxBatch /\ write[w].n \in 0..MaxBatch
      /\ write[w].err \in Errors /\ MaxBatch \in Nat /\ write[w].n <= Len(b)
  BY BatchShape, BoundAssumption DEF WriteTypes, WriteState, Progress
<1>2. ASSUME NEW s, Becomes(w, s), s.n <= Len(s.batch),
             s.pc = "idle" => s.n = 0, s.pc = "send" => s.n < Len(s.batch),
             s.pc = "done" => s.batch = <<>> \/ (s.err = "none" <=> s.n = Len(s.batch))
      PROVE  WriteTypes' /\ Progress'
  BY <1>0, <1>2, ProgressKept DEF WriteTypes, Becomes
<1>3. ASSUME NEW n \in 0..MaxBatch, NEW err \in Errors, Returns(w, n, err),
             n <= Len(b), b = <<>> \/ (err = "none" <=> n = Len(b))
      PROVE  WriteTypes' /\ Progress'
  <2>1. Becomes(w, [pc |-> "done", batch |-> b, n |-> n, err |-> err])
    BY <1>3, Returned
  <2>. QED  BY <1>2, <1>3, <2>1
<1>4. ASSUME Advance(w), write[w].n < Len(b) PROVE WriteTypes' /\ Progress'
  <2>1. Becomes(w, [pc |-> "loop", batch |-> b, n |-> Index(w), err |-> write[w].err])
    BY <1>4, Advanced
  <2>2. Index(w) \in Nat /\ Index(w) <= Len(b)
    BY <1>1, <1>4 DEF Index
  <2>. QED  BY <1>2, <2>1, <2>2
<1>5. CASE WriteCall(w)
  <2>1. PICK a \in Batch, err \in Errors :
          Becomes(w, [pc |-> IF err = "none" THEN "loop" ELSE "done",
                      batch |-> a, n |-> 0, err |-> err])
    BY <1>5, Called
  <2>2. Len(a) \in Nat /\ (Len(a) = 0 => a = <<>>)
    <3>1. Len(a) \in 0..MaxBatch /\ DOMAIN a = 1..Len(a)
      BY BatchShape
    <3>2. PICK k \in 0..MaxBatch : a \in [1..k -> Packet]
      BY DEF Batch
    <3>3. a \in Seq(Packet)
      BY <3>2, BoundAssumption
    <3>. QED  BY <1>1, <3>1, <3>3
  <2>3. CASE err = "none"
    <3>1. Becomes(w, [pc |-> "loop", batch |-> a, n |-> 0, err |-> err])
      BY <2>1, <2>3
    <3>. QED  BY <1>2, <2>2, <3>1
  <2>4. CASE err # "none"
    <3>1. Becomes(w, [pc |-> "done", batch |-> a, n |-> 0, err |-> err])
      BY <2>1, <2>4
    <3>. QED  BY <1>2, <2>2, <2>4, <3>1
  <2>. QED  BY <2>3, <2>4
<1>6. CASE WriteReturns(w)
  BY <1>1, <1>3, <1>6 DEF WriteReturns, Errors
<1>7. CASE BsdRejects(w)
  <2>1. CASE UNCHANGED write
    BY <1>0, <2>1 DEF WriteTypes, Progress
  <2>2. write[w].n < Len(b)
    BY <1>7 DEF BsdRejects, AtPacket
  <2>3. CASE Returns(w, write[w].n, "family")
    BY <1>1, <1>3, <2>2, <2>3 DEF Errors
  <2>4. CASE Returns(w, write[w].n, "short")
    BY <1>1, <1>3, <2>2, <2>4 DEF Errors
  <2>. QED  BY <1>7, <2>1, <2>3, <2>4 DEF BsdRejects
<1>8. CASE BsdFails(w)
  BY <1>1, <1>3, <1>8 DEF BsdFails, AtPacket, Errors
<1>9. CASE RingFails(w)
  BY <1>1, <1>3, <1>9 DEF RingFails, AtPacket, Errors
<1>10. CASE ChannelClosed(w)
  BY <1>1, <1>3, <1>10 DEF ChannelClosed, AtPacket, Errors
<1>11. CASE BsdWrites(w) \/ RingDrops(w) \/ ChannelSends(w)
  BY <1>4, <1>11 DEF BsdWrites, RingDrops, ChannelSends, AtPacket
<1>12. CASE RingAllocates(w)
  <2>1. Becomes(w, [pc |-> "send", batch |-> b, n |-> write[w].n, err |-> write[w].err])
    BY <1>12, Allocated DEF RingAllocates
  <2>. QED  BY <1>1, <1>2, <1>12, <2>1 DEF RingAllocates, AtPacket
<1>13. CASE RingSends(w)
  BY <1>4, <1>13 DEF RingSends, Progress
<1>. QED
  BY <1>5, <1>6, <1>7, <1>8, <1>9, <1>10, <1>11, <1>12, <1>13 DEF WriteStep

\* A packet handed over, or taken from the ring, is appended to what the other
\* side has.
LEMMA HandedOver ==
  ASSUME WriteTypes, OutTypes, Progress, NEW w \in Writers,
         write[w].n < Len(write[w].batch), HandsOver(w)
  PROVE  /\ got' \in [Writers -> Seq(Delivery)]
         /\ got'[w] = Append(got[w], [pos |-> Index(w), kind |-> Current(w)])
         /\ [pos |-> Index(w), kind |-> Current(w)] \in Delivery
         /\ \A v \in Writers \ {w} : got'[v] = got[v]
<1>1. [pos |-> Index(w), kind |-> Current(w)] \in Delivery
  BY AtPacketIndex DEF Delivery
<1>2. got[w] \in Seq(Delivery)
  BY DEF OutTypes
<1>3. Append(got[w], [pos |-> Index(w), kind |-> Current(w)]) \in Seq(Delivery)
  BY <1>1, <1>2, Appended
<1>. QED  BY <1>1, <1>3 DEF OutTypes, HandsOver

\* AllocateSendPacket adds an entry at the end of the ring.
LEMMA RingGrows ==
  ASSUME WriteTypes, OutTypes, Progress, NEW w \in Writers, RingAllocates(w)
  PROVE  /\ ring' \in Seq(RingEntry) /\ Len(ring') = Len(ring) + 1
         /\ ring' = Append(ring, [by |-> w, pos |-> Index(w), kind |-> Current(w),
                                  sent |-> FALSE])
         /\ [by |-> w, pos |-> Index(w), kind |-> Current(w), sent |-> FALSE]
              \in RingEntry
<1>1. [by |-> w, pos |-> Index(w), kind |-> Current(w), sent |-> FALSE] \in RingEntry
  BY AtPacketIndex DEF RingAllocates, AtPacket, RingEntry
<1>. QED  BY <1>1, Appended DEF OutTypes, RingAllocates

\* SendPacket marks the entry the writer allocated.
LEMMA RingMarked ==
  ASSUME OutTypes, NEW w \in Writers, RingSends(w)
  PROVE  /\ ring' \in Seq(RingEntry) /\ Len(ring') = Len(ring)
         /\ DOMAIN ring' = DOMAIN ring
         /\ \A k \in DOMAIN ring : /\ ring'[k].by = ring[k].by
                                   /\ ring'[k].pos = ring[k].pos
                                   /\ ring'[k].kind = ring[k].kind
<1>1. /\ ring \in Seq(RingEntry) /\ Len(ring) \in Nat /\ DOMAIN ring = 1..Len(ring)
      /\ \A k \in 1..Len(ring) : ring[k] \in RingEntry
  BY DEF OutTypes
<1>2. ring' = [k \in 1..Len(ring) |->
                 [ring[k] EXCEPT !.sent = @ \/ (ring[k].by = w /\ ring[k].pos = Index(w))]]
  BY <1>1 DEF RingSends
<1>3. ASSUME NEW k \in 1..Len(ring)
      PROVE  /\ ring'[k] \in RingEntry /\ ring'[k].by = ring[k].by
             /\ ring'[k].pos = ring[k].pos /\ ring'[k].kind = ring[k].kind
  <2>1. ring[k] \in RingEntry
    BY <1>1
  <2>2. PICK s \in BOOLEAN : ring'[k] = [ring[k] EXCEPT !.sent = s]
    <3>1. (ring[k].sent \/ (ring[k].by = w /\ ring[k].pos = Index(w))) \in BOOLEAN
      OBVIOUS
    <3>. QED  BY <1>2, <3>1
  <2>. QED  BY <2>1, <2>2 DEF RingEntry
<1>4. ring' \in [1..Len(ring) -> RingEntry]
  BY <1>2, <1>3
<1>5. ring' \in Seq(RingEntry) /\ Len(ring') = Len(ring)
  BY <1>1, <1>4
<1>. QED  BY <1>1, <1>3, <1>4, <1>5

\* The driver takes the entry at the front of the ring.
LEMMA RingShrinks ==
  ASSUME OutTypes, RingTaken
  PROVE  /\ ring \in Seq(RingEntry) /\ ring # <<>> /\ ring' = Tail(ring)
         /\ ring' \in Seq(RingEntry) /\ Len(ring') <= RingCap
         /\ Head(ring) \in RingEntry
         /\ got' \in [Writers -> Seq(Delivery)]
         /\ [pos |-> Head(ring).pos, kind |-> Head(ring).kind] \in Delivery
         /\ got'[Head(ring).by] =
              Append(got[Head(ring).by],
                     [pos |-> Head(ring).pos, kind |-> Head(ring).kind])
         /\ \A v \in Writers \ {Head(ring).by} : got'[v] = got[v]
<1>1. ring \in Seq(RingEntry) /\ ring # <<>> /\ ring' = Tail(ring)
  BY DEF OutTypes, RingTaken
<1>2. /\ Tail(ring) \in Seq(RingEntry) /\ Head(ring) \in RingEntry
      /\ Len(ring) \in Nat /\ Len(Tail(ring)) = Len(ring) - 1
  BY <1>1, Rest
<1>3. RingCap \in Nat /\ Len(ring) <= RingCap
  BY BoundAssumption DEF OutTypes
<1>4. PICK p \in RingEntry : p = Head(ring)
  BY <1>2
<1>5. got' = [got EXCEPT ![p.by] = Append(@, [pos |-> p.pos, kind |-> p.kind])]
  BY <1>4 DEF RingTaken
<1>6. p.by \in Writers /\ [pos |-> p.pos, kind |-> p.kind] \in Delivery
  BY <1>4 DEF RingEntry, Delivery
<1>7. got \in [Writers -> Seq(Delivery)] /\ got[p.by] \in Seq(Delivery)
  BY <1>6 DEF OutTypes
<1>8. Append(got[p.by], [pos |-> p.pos, kind |-> p.kind]) \in Seq(Delivery)
  BY <1>6, <1>7, Appended
<1>. QED  BY <1>1, <1>2, <1>3, <1>4, <1>5, <1>6, <1>7, <1>8

\* The output side keeps its types.
LEMMA OutMoves ==
  ASSUME WriteTypes, OutTypes, Progress,
         \/ \E w \in Writers : WriteCall(w) \/ WriteStep(w) \/ ChannelSends(w)
         \/ RingTaken \/ AdapterEnds
  PROVE  OutTypes'
<1>. USE DEF WriteFrame, AtPacket
<1>1. ASSUME NEW w \in Writers,
             \/ WriteCall(w) \/ WriteReturns(w) \/ BsdRejects(w) \/ BsdFails(w)
             \/ RingFails(w) \/ ChannelClosed(w)
      PROVE  OutTypes'
  BY <1>1 DEF WriteCall, WriteReturns, BsdRejects, BsdFails, RingFails,
     ChannelClosed, OutTypes
<1>2. ASSUME NEW w \in Writers, BsdWrites(w) \/ ChannelSends(w) PROVE OutTypes'
  <2>1. got' \in [Writers -> Seq(Delivery)]
    BY <1>2, HandedOver DEF BsdWrites, ChannelSends
  <2>. QED  BY <1>2, <2>1 DEF BsdWrites, ChannelSends, OutTypes
<1>3. ASSUME NEW w \in Writers, RingAllocates(w) PROVE OutTypes'
  <2>1. ring' \in Seq(RingEntry) /\ Len(ring') = Len(ring) + 1
    BY <1>3, RingGrows
  <2>2. Len(ring) \in Nat /\ RingCap \in Nat /\ Len(ring) < RingCap
    BY <1>3, BoundAssumption DEF RingAllocates, OutTypes
  <2>. QED  BY <1>3, <2>1, <2>2 DEF RingAllocates, OutTypes
<1>4. ASSUME NEW w \in Writers, RingSends(w) PROVE OutTypes'
  <2>1. ring' \in Seq(RingEntry) /\ Len(ring') <= RingCap
    BY <1>4, RingMarked DEF OutTypes
  <2>. QED  BY <1>4, <2>1 DEF RingSends, OutTypes
<1>5. ASSUME NEW w \in Writers, RingDrops(w) PROVE OutTypes'
  BY <1>5, AtPacketIndex DEF RingDrops, OutTypes
<1>6. CASE RingTaken
  BY <1>6, RingShrinks DEF RingTaken, OutTypes
<1>7. CASE AdapterEnds
  BY <1>7 DEF AdapterEnds, OutTypes, writeVars
<1>. QED
  BY <1>1, <1>2, <1>3, <1>4, <1>5, <1>6, <1>7 DEF WriteStep
-----------------------------------------------------------------------------
(***************************************************************************)
(* Read, Close and the event channel.                                      *)
(***************************************************************************)

\* The input side keeps its types.
LEMMA ReadMoves ==
  ASSUME ReadTypes, ReadCall \/ ReadStep \/ PacketOffered \/ ErrorReported \/ NewSends
  PROVE  ReadTypes'
<1>1. queue # <<>> => Tail(queue) \in Seq(Offer) /\ Head(queue) \in Offer
  BY Rest DEF ReadTypes
<1>2. CASE ReadCall
  BY <1>2 DEF ReadCall, ReadTypes, Errors
<1>3. CASE BsdSelects
  BY <1>3 DEF BsdSelects, ReadTypes, Errors
<1>4. CASE BsdReads
  <2>1. taken' \in Seq(Offer)
    BY <1>1, <1>4, Appended DEF BsdReads, ReadTypes
  <2>. QED  BY <1>1, <1>4, <2>1 DEF BsdReads, ReadTypes, Errors
<1>5. CASE BsdReadFails
  BY <1>5 DEF BsdReadFails, ReadTypes, Errors
<1>6. CASE ChannelReads
  <2>1. queue # <<>> => Append(taken, Head(queue)) \in Seq(Offer)
    BY <1>1, Appended DEF ReadTypes
  <2>2. taken' \in Seq(Offer) /\ queue' \in Seq(Offer)
    BY <1>1, <1>6, <2>1 DEF ChannelReads, ReadTypes
  <2>3. read' \in [pc : {"idle"}, err : Errors] /\ UNCHANGED offered
    BY <1>6 DEF ChannelReads, Errors
  <2>. QED  BY <2>2, <2>3 DEF ReadTypes
<1>7. CASE PacketOffered
  <2>1. PICK runt \in BOOLEAN :
          /\ queue' = Append(queue, [id |-> Len(offered) + 1, runt |-> runt])
          /\ offered' = Append(offered, [id |-> Len(offered) + 1, runt |-> runt])
    BY <1>7 DEF PacketOffered
  <2>2. [id |-> Len(offered) + 1, runt |-> runt] \in Offer
    BY DEF ReadTypes, Offer
  <2>3. queue' \in Seq(Offer) /\ offered' \in Seq(Offer)
    BY <2>1, <2>2, Appended DEF ReadTypes
  <2>. QED  BY <1>7, <2>3 DEF PacketOffered, ReadTypes
<1>8. CASE ErrorReported
  BY <1>8 DEF ErrorReported, ReadTypes
<1>9. CASE NewSends
  BY <1>9 DEF NewSends, ReadTypes
<1>. QED
  BY <1>2, <1>3, <1>4, <1>5, <1>6, <1>7, <1>8, <1>9 DEF ReadStep

\* The event channel keeps its type, through creation and closing.
LEMMA EventsType ==
  /\ read.pc = "making" /\ Closing /\ events' = Sent(events, "Up")
       => EventTypes' /\ events'.closed = FALSE /\ ~events.closed
  /\ EventTypes /\ events' = Closed(events)
       => EventTypes' /\ events'.closed = TRUE
  /\ EventTypes /\ HasValue(events) /\ events' = Received(events)
       => EventTypes' /\ events'.closed = events.closed
<1>1. ASSUME read.pc = "making", Closing, events' = Sent(events, "Up")
      PROVE  EventTypes' /\ events'.closed = FALSE /\ ~events.closed
  <2>1. events = [buf |-> <<>>, closed |-> FALSE]
    BY <1>1 DEF Closing, NewChan
  <2>2. events' = [buf |-> <<"Up">>, closed |-> FALSE]
    <3>1. Append(<<>>, "Up") = <<"Up">>
      OBVIOUS
    <3>. QED  BY <1>1, <2>1, <3>1 DEF Sent
  <2>3. <<"Up">> \in Seq({"Up"}) /\ Len(<<"Up">>) <= 1
    OBVIOUS
  <2>. QED  BY <2>1, <2>2, <2>3 DEF EventTypes, ChanType
<1>2. ASSUME EventTypes, events' = Closed(events)
      PROVE  EventTypes' /\ events'.closed = TRUE
  BY <1>2 DEF EventTypes, ChanType, Closed
<1>3. ASSUME EventTypes, HasValue(events), events' = Received(events)
      PROVE  EventTypes' /\ events'.closed = events.closed
  <2>1. events.buf \in Seq({"Up"}) /\ events.buf # <<>> /\ Len(events.buf) <= 1
    BY <1>3 DEF EventTypes, ChanType, HasValue
  <2>2. Tail(events.buf) \in Seq({"Up"}) /\ Len(Tail(events.buf)) <= 1
    BY <2>1
  <2>3. events' = [buf |-> Tail(events.buf), closed |-> events.closed]
    BY <1>3 DEF EventTypes, ChanType, Received
  <2>. QED  BY <1>3, <2>2, <2>3 DEF EventTypes, ChanType
<1>. QED  BY <1>1, <1>2, <1>3

\* The steps that move the channels of the device and the calls that close them.
LEMMA CloseMoves ==
  ASSUME CloseTypes, EventTypes, Closing,
         \/ NewSends \/ EventTaken \/ \E c \in Closers : CloseStep(c)
  PROVE  CloseTypes' /\ EventTypes' /\ Closing'
<1>1. CASE NewSends
  <2>1. EventTypes' /\ events'.closed = FALSE /\ ~events.closed
    BY <1>1, EventsType DEF NewSends
  <2>2. UNCHANGED <<closed, closer, platform>> /\ (read'.pc = "making" => FALSE)
    BY <1>1 DEF NewSends
  <2>. QED  BY <2>1, <2>2 DEF CloseTypes, Closing
<1>2. CASE EventTaken
  <2>1. EventTypes' /\ events'.closed = events.closed
    BY <1>2, EventsType DEF EventTaken
  <2>2. UNCHANGED <<closed, closer, platform, read>> /\ read.pc # "making"
    BY <1>2 DEF EventTaken, Alive, readVars
  <2>. QED  BY <2>1, <2>2 DEF CloseTypes, Closing
<1>3. ASSUME NEW c \in Closers, NativeClose(c)
      PROVE  CloseTypes' /\ EventTypes' /\ Closing'
  BY <1>3 DEF NativeClose, CloseFrame, readVars, Alive, CloseTypes, EventTypes,
     Closing
<1>4. ASSUME NEW c \in Closers, ChannelClose(c)
      PROVE  CloseTypes' /\ EventTypes' /\ Closing'
  <2>1. UNCHANGED <<events, read, platform>>
    BY <1>4 DEF ChannelClose, CloseFrame, readVars
  <2>2. CASE closed
    BY <1>4, <2>1, <2>2 DEF ChannelClose, CloseTypes, EventTypes, Closing
  <2>3. CASE ~closed
    \* Nobody else is in the middle of a Close.
    <3>1. ~events.closed /\ \A d \in Closers : closer[d] # "events"
      BY <2>3 DEF Closing
    <3>. QED
      BY <1>4, <2>1, <2>3, <3>1 DEF ChannelClose, CloseTypes, EventTypes, Closing
  <2>. QED  BY <2>2, <2>3
<1>5. ASSUME NEW c \in Closers, ChannelCloseEvents(c)
      PROVE  CloseTypes' /\ EventTypes' /\ Closing'
  <2>1. UNCHANGED <<closed, read, platform>> /\ read.pc # "making"
    BY <1>5 DEF ChannelCloseEvents, CloseFrame, readVars, Alive
  <2>2. EventTypes' /\ events'.closed = TRUE
    BY <1>5, EventsType DEF ChannelCloseEvents
  <2>3. closed /\ \A d \in Closers : closer[d] = "events" => d = c
    BY <1>5 DEF ChannelCloseEvents, Closing
  <2>. QED
    BY <1>5, <2>1, <2>2, <2>3 DEF ChannelCloseEvents, CloseTypes, Closing
<1>. QED  BY <1>1, <1>2, <1>3, <1>4, <1>5 DEF CloseStep
-----------------------------------------------------------------------------
(***************************************************************************)
(* Panics, and the base of the other invariants.                           *)
(***************************************************************************)

\* A step that neither panics nor takes back what led to a panic.
LEMMA PanicFrame ==
  ASSUME PanicsAreMisuse, UNCHANGED <<platform, panic, write>>,
         \A c \in Closers : closer[c] # "idle" => closer'[c] # "idle"
  PROVE  PanicsAreMisuse'
BY DEF PanicsAreMisuse

\* Write panics in the case of misuse alone.
LEMMA PanicWrites ==
  ASSUME BaseInv, NEW w \in Writers, WriteCall(w) \/ WriteStep(w) \/ ChannelSends(w)
  PROVE  PanicsAreMisuse'
<1>. USE DEF BaseInv, Types
<1>1. CASE BsdRejects(w) /\ panic' # panic
  <2>1. /\ panic' = "no first byte" /\ write' = write
        /\ platform \in {"darwin", "openbsd"} /\ platform' = platform
        /\ Current(w) = "empty" /\ write[w].n < Len(write[w].batch)
    BY <1>1 DEF BsdRejects, AtPacket, Bsd, WriteFrame
  <2>2. Index(w) \in 1..MaxBatch /\ Index(w) \in DOMAIN write[w].batch
    BY <2>1, AtPacketIndex
  <2>. QED  BY <2>1, <2>2 DEF PanicsAreMisuse, Current
<1>2. CASE UNCHANGED panic
  \* Nothing has panicked yet, or no Write goes on.
  <2>1. panic = "none"
    BY DEF WriteCall, WriteStep, ChannelSends, WriteReturns, BsdRejects, BsdWrites,
       BsdFails, RingAllocates, RingSends, RingDrops, RingFails, ChannelClosed,
       AtPacket, Alive
  <2>. QED  BY <1>2, <2>1 DEF PanicsAreMisuse
<1>. QED
  BY <1>1, <1>2 DEF WriteCall, WriteStep, ChannelSends, WriteReturns, BsdWrites,
     BsdFails, RingAllocates, RingSends, RingDrops, RingFails, ChannelClosed

\* No one else panics but by misuse.
LEMMA PanicOthers ==
  ASSUME BaseInv,
         \/ NewSends \/ ReadCall \/ ReadStep \/ \E c \in Closers : CloseStep(c)
         \/ RingTaken \/ AdapterEnds \/ PacketOffered \/ ErrorReported \/ EventTaken
  PROVE  PanicsAreMisuse'
<1>. USE DEF BaseInv, Types
<1>1. CASE NewSends \/ EventTaken
  BY <1>1, PanicFrame DEF NewSends, EventTaken, writeVars
<1>2. CASE ReadCall \/ ReadStep
  BY <1>2, PanicFrame DEF ReadCall, ReadStep, BsdSelects, BsdReads, BsdReadFails,
     ChannelReads, ReadFrame, writeVars, closeVars
<1>3. CASE AdapterEnds \/ PacketOffered \/ ErrorReported
  BY <1>3, PanicFrame DEF AdapterEnds, PacketOffered, ErrorReported, writeVars,
     closeVars
<1>4. CASE RingTaken
  BY <1>4, PanicFrame DEF RingTaken, closeVars
<1>5. ASSUME NEW c \in Closers, CloseStep(c) PROVE PanicsAreMisuse'
  <2>1. CASE NativeClose(c) \/ ChannelCloseEvents(c)
    BY <1>5, <2>1, PanicFrame DEF NativeClose, ChannelCloseEvents, CloseFrame,
       CloseTypes, writeVars
  <2>2. CASE ChannelClose(c) /\ ~closed
    BY <2>2, PanicFrame DEF ChannelClose, CloseFrame, CloseTypes, writeVars
  <2>3. CASE ChannelClose(c) /\ closed
    <3>1. platform = "channel" /\ \E d \in Closers : closer[d] # "idle"
      BY <2>3 DEF ChannelClose, Closing
    <3>. QED
      BY <2>3, <3>1 DEF ChannelClose, CloseFrame, PanicsAreMisuse
  <2>. QED  BY <1>5, <2>1, <2>2, <2>3 DEF CloseStep
<1>. QED  BY <1>1, <1>2, <1>3, <1>4, <1>5

\* The base invariant holds before any call.
LEMMA BaseInit == Init => BaseInv
<1>. SUFFICES ASSUME Init PROVE BaseInv
  OBVIOUS
<1>1. /\ MaxBatch \in Nat /\ RingCap \in Nat /\ 0 \in 0..MaxBatch
      /\ <<>> \in Batch
  <2>1. MaxBatch \in Nat /\ RingCap \in Nat
    BY BoundAssumption
  <2>2. <<>> \in [1..0 -> Packet]
    OBVIOUS
  <2>. QED  BY <2>1, <2>2, 0 \in 0..MaxBatch DEF Batch
<1>2. [pc |-> "idle", batch |-> <<>>, n |-> 0, err |-> "none"] \in WriteState
  BY <1>1 DEF WriteState, Errors
<1>3. WriteTypes /\ Progress
  BY <1>2 DEF Init, WriteTypes, Progress
<1>4. OutTypes
  <2>1. <<>> \in Seq(Delivery) /\ <<>> \in Seq(RingEntry) /\ Len(<<>>) <= RingCap
    BY <1>1
  <2>2. /\ ring = <<>> /\ dropped = {} /\ got = [w \in Writers |-> <<>>]
        /\ eof = FALSE
    BY DEF Init
  <2>. QED  BY <2>1, <2>2 DEF OutTypes
<1>5. ReadTypes
  <2>1. <<>> \in Seq(Offer)
    OBVIOUS
  <2>2. read \in [pc : {"making", "idle"}, err : {"none"}]
    BY DEF Init
  <2>3. queue = <<>> /\ offered = <<>> /\ taken = <<>>
    BY DEF Init
  <2>. QED  BY <2>1, <2>2, <2>3 DEF ReadTypes, Errors
<1>6. CloseTypes /\ Closing
  BY DEF Init, CloseTypes, Closing, NewChan
<1>7. EventTypes
  <2>1. <<>> \in Seq({"Up"}) /\ Len(<<>>) <= 1
    OBVIOUS
  <2>2. events = [buf |-> <<>>, closed |-> FALSE]
    BY DEF Init, NewChan
  <2>. QED  BY <2>1, <2>2 DEF EventTypes, ChanType
<1>8. PanicsAreMisuse
  BY DEF Init, PanicsAreMisuse
<1>. QED  BY <1>3, <1>4, <1>5, <1>6, <1>7, <1>8 DEF BaseInv, Types

\* The parts of the invariant whose variables a step leaves alone are kept.
LEMMA BaseFrames ==
  /\ WriteTypes /\ Progress /\ UNCHANGED <<platform, write>> => WriteTypes' /\ Progress'
  /\ OutTypes /\ UNCHANGED <<ring, dropped, got, eof>> => OutTypes'
  /\ ReadTypes /\ UNCHANGED <<read, queue, offered, taken>> => ReadTypes'
  /\ CloseTypes /\ EventTypes /\ UNCHANGED closeVars => CloseTypes' /\ EventTypes'
  /\ Closing /\ UNCHANGED <<platform, closeVars>>
     /\ (read'.pc = "making" => read.pc = "making")
       => Closing'
<1>1. WriteTypes /\ Progress /\ UNCHANGED <<platform, write>> => WriteTypes' /\ Progress'
  BY DEF WriteTypes, Progress
<1>2. OutTypes /\ UNCHANGED <<ring, dropped, got, eof>> => OutTypes'
  BY DEF OutTypes
<1>3. ReadTypes /\ UNCHANGED <<read, queue, offered, taken>> => ReadTypes'
  BY DEF ReadTypes
<1>4. CloseTypes /\ EventTypes /\ UNCHANGED closeVars => CloseTypes' /\ EventTypes'
  BY DEF CloseTypes, EventTypes, closeVars
<1>5. Closing /\ UNCHANGED <<platform, closeVars>>
      /\ (read'.pc = "making" => read.pc = "making")
        => Closing'
  BY DEF Closing, closeVars
<1>. QED  BY <1>1, <1>2, <1>3, <1>4, <1>5

\* No step disturbs the base invariant.
LEMMA BaseStep == BaseInv /\ [Next]_vars => BaseInv'
<1>. SUFFICES ASSUME BaseInv, [Next]_vars PROVE BaseInv'
  OBVIOUS
<1>. USE BaseFrames DEF BaseInv, Types
<1>1. ASSUME NEW w \in Writers, WriteCall(w) \/ WriteStep(w) \/ ChannelSends(w)
      PROVE  BaseInv'
  <2>1. WriteTypes' /\ Progress' /\ OutTypes' /\ PanicsAreMisuse'
    BY <1>1, WriteMoves, OutMoves, PanicWrites
  <2>2. UNCHANGED <<platform, readVars, closeVars>>
    BY <1>1 DEF WriteCall, WriteStep, ChannelSends, WriteReturns, BsdRejects,
       BsdWrites, BsdFails, RingAllocates, RingSends, RingDrops, RingFails,
       ChannelClosed, WriteFrame
  <2>. QED  BY <2>1, <2>2 DEF readVars
<1>2. CASE ReadCall \/ ReadStep \/ PacketOffered \/ ErrorReported
  <2>1. ReadTypes' /\ PanicsAreMisuse'
    BY <1>2, ReadMoves, PanicOthers
  <2>2. UNCHANGED <<platform, writeVars, eof, closeVars>>
    BY <1>2 DEF ReadCall, ReadStep, BsdSelects, BsdReads, BsdReadFails, ChannelReads,
       ReadFrame, PacketOffered, ErrorReported
  <2>3. read'.pc = "making" => read.pc = "making"
    <3>1. CASE PacketOffered \/ ErrorReported
      BY <3>1 DEF PacketOffered, ErrorReported
    <3>2. CASE ReadCall \/ BsdReads \/ BsdReadFails
      BY <3>2 DEF ReadCall, BsdReads, BsdReadFails
    <3>3. CASE BsdSelects
      BY <3>3 DEF BsdSelects, ReadTypes
    <3>4. CASE ChannelReads
      BY <3>4 DEF ChannelReads
    <3>. QED  BY <1>2, <3>1, <3>2, <3>3, <3>4 DEF ReadStep
  <2>. QED  BY <2>1, <2>2, <2>3 DEF writeVars
<1>3. CASE NewSends
  <2>1. /\ CloseTypes' /\ EventTypes' /\ Closing' /\ ReadTypes'
        /\ PanicsAreMisuse'
    BY <1>3, CloseMoves, ReadMoves, PanicOthers
  <2>. QED  BY <1>3, <2>1 DEF NewSends, writeVars
<1>4. CASE EventTaken \/ \E c \in Closers : CloseStep(c)
  <2>1. CloseTypes' /\ EventTypes' /\ Closing' /\ PanicsAreMisuse'
    BY <1>4, CloseMoves, PanicOthers
  <2>2. UNCHANGED <<platform, writeVars, eof, readVars>>
    BY <1>4 DEF EventTaken, CloseStep, NativeClose, ChannelClose, ChannelCloseEvents,
       CloseFrame
  <2>3. WriteTypes' /\ Progress' /\ OutTypes' /\ ReadTypes'
    BY <2>2 DEF writeVars, readVars
  <2>. QED  BY <2>1, <2>3
<1>5. CASE RingTaken \/ AdapterEnds
  <2>1. OutTypes' /\ PanicsAreMisuse'
    BY <1>5, OutMoves, PanicOthers
  <2>2. UNCHANGED <<platform, write, readVars, closeVars>>
    BY <1>5 DEF RingTaken, AdapterEnds, writeVars
  <2>. QED  BY <2>1, <2>2 DEF readVars
<1>6. CASE UNCHANGED vars
  <2>1. UNCHANGED <<platform, writeVars, eof, readVars, closeVars, panic>>
    BY <1>6 DEF vars
  <2>2. PanicsAreMisuse'
    BY <2>1, PanicFrame DEF writeVars, closeVars
  <2>. QED  BY <2>1, <2>2 DEF writeVars, readVars
<1>. QED  BY <1>1, <1>2, <1>3, <1>4, <1>5, <1>6 DEF Next

\* The base invariant holds of every behaviour.
LEMMA BaseInvariant == Spec => []BaseInv
BY BaseInit, BaseStep, PTL DEF Spec

\* A second Close of the channel device, and a packet without a first byte on
\* macOS and OpenBSD, are all that ends the program, whatever the interleaving
\* of Read, Write and Close.
THEOREM OnlyMisusePanics == Spec => []PanicsAreMisuse
BY BaseInvariant, PTL DEF BaseInv
-----------------------------------------------------------------------------
(***************************************************************************)
(* The event channel of the channel device implements EventStream.         *)
(***************************************************************************)

\* A device not yet made has an empty, open event stream.
LEMMA StreamInit == Init => Stream!Init
BY DEF Init, Stream!Init, NewChan, Stream!NewChan

\* A step that leaves the channel alone and does not open the device again is a
\* stuttering step or End.
LEMMA QuietStep ==
  ASSUME UNCHANGED events, closed \in BOOLEAN, closed' \in BOOLEAN, closed => closed'
  PROVE  [Stream!Next]_(Stream!vars)
<1>1. CASE closed'
  BY <1>1 DEF Stream!Next, Stream!End
<1>2. CASE ~closed'
  BY <1>2 DEF Stream!vars
<1>. QED  BY <1>1, <1>2

\* Every step of the device is a step of the event stream or none.
LEMMA StreamStep == BaseInv /\ [Next]_vars => [Stream!Next]_(Stream!vars)
<1>. SUFFICES ASSUME BaseInv, [Next]_vars
              PROVE  [Stream!Next]_(Stream!vars)
  OBVIOUS
<1>. USE DEF BaseInv, Types, CloseTypes
<1>1. CASE NewSends
  \* The channel is as it was made: there is room in it.
  <2>1. events = [buf |-> <<>>, closed |-> FALSE]
    BY <1>1 DEF NewSends, Closing, NewChan
  <2>2. Stream!CanSend(events, 1)
    BY <2>1 DEF Stream!CanSend
  <2>. QED
    BY <1>1, <2>2 DEF NewSends, Sent, Stream!Next, Stream!Emit, Stream!Sent
<1>2. CASE EventTaken
  BY <1>2 DEF EventTaken, Stream!Next, Stream!Take, HasValue, Received,
     Stream!HasValue, Stream!Received
<1>3. ASSUME NEW c \in Closers, ChannelCloseEvents(c)
      PROVE  [Stream!Next]_(Stream!vars)
  <2>1. closed /\ ~events.closed
    BY <1>3 DEF ChannelCloseEvents, Closing
  <2>. QED
    BY <1>3, <2>1 DEF ChannelCloseEvents, Stream!Next, Stream!Finish, Closed,
       Stream!Closed
<1>4. ASSUME NEW c \in Closers, NativeClose(c) \/ ChannelClose(c)
      PROVE  [Stream!Next]_(Stream!vars)
  <2>1. UNCHANGED events /\ closed' \in BOOLEAN /\ (closed => closed')
    BY <1>4 DEF NativeClose, ChannelClose
  <2>. QED  BY <2>1, QuietStep
<1>5. ASSUME NEW w \in Writers, WriteCall(w) \/ WriteStep(w) \/ ChannelSends(w)
      PROVE  [Stream!Next]_(Stream!vars)
  <2>1. UNCHANGED <<events, closed>>
    BY <1>5 DEF WriteCall, WriteStep, ChannelSends, WriteReturns, BsdRejects,
       BsdWrites, BsdFails, RingAllocates, RingSends, RingDrops, RingFails,
       ChannelClosed, WriteFrame, closeVars
  <2>. QED  BY <2>1, QuietStep
<1>6. CASE \/ ReadCall \/ ReadStep \/ RingTaken \/ AdapterEnds \/ PacketOffered
           \/ ErrorReported \/ UNCHANGED vars
  <2>1. UNCHANGED <<events, closed>>
    BY <1>6 DEF ReadCall, ReadStep, BsdSelects, BsdReads, BsdReadFails, ChannelReads,
       ReadFrame, RingTaken, AdapterEnds, PacketOffered, ErrorReported, closeVars,
       vars
  <2>. QED  BY <2>1, QuietStep
<1>. QED  BY <1>1, <1>2, <1>3, <1>4, <1>5, <1>6 DEF Next, CloseStep

\* The stream of the channel device carries one event at most and ends once,
\* after c.closed is closed, also when several goroutines close the device.
THEOREM ImplementsEventStream == Spec => StreamSpec
BY StreamInit, StreamStep, BaseInvariant, PTL DEF Spec, StreamSpec, Stream!Spec
-----------------------------------------------------------------------------
(***************************************************************************)
(* Read returns the packets offered to it.                                 *)
(***************************************************************************)

Past == Len(offered) - Len(queue)

\* Packets are numbered as they are offered, what waits is the end of them, and
\* what was taken are the whole packets before it, in their order.  The channel
\* device has no runts.
ReadOrder ==
  /\ Past \in Nat
  /\ platform = "channel" => \A i \in DOMAIN offered : ~offered[i].runt
  /\ \A i \in DOMAIN offered : offered[i].id = i
  /\ \A k \in DOMAIN queue : queue[k] = offered[Past + k]
  /\ \A k \in DOMAIN taken : \E i \in 1..Past : taken[k] = offered[i] /\ ~offered[i].runt
  /\ \A i \in 1..Past : ~offered[i].runt => \E k \in DOMAIN taken : taken[k] = offered[i]
  /\ \A j, k \in DOMAIN taken : j < k => taken[j].id < taken[k].id

\* A step that takes nothing from the queue and puts nothing into it.
LEMMA ReadFrames ==
  ASSUME ReadOrder, UNCHANGED <<platform, queue, offered, taken>>
  PROVE  ReadOrder'
BY DEF ReadOrder, Past

\* A packet offered to the device waits behind all others.
LEMMA OrderOffered ==
  ASSUME ReadTypes, ReadOrder, PacketOffered
  PROVE  ReadOrder'
<1>1. PICK p \in Offer : /\ p.id = Len(offered) + 1 /\ (platform = "channel" => ~p.runt)
                         /\ queue' = Append(queue, p) /\ offered' = Append(offered, p)
  <2>1. PICK runt \in IF platform = "channel" THEN {FALSE} ELSE BOOLEAN :
          /\ queue' = Append(queue, [id |-> Len(offered) + 1, runt |-> runt])
          /\ offered' = Append(offered, [id |-> Len(offered) + 1, runt |-> runt])
    BY DEF PacketOffered
  <2>2. runt \in BOOLEAN /\ (platform = "channel" => runt = FALSE)
    OBVIOUS
  <2>3. Len(offered) + 1 \in Nat
    BY DEF ReadTypes
  <2>4. [id |-> Len(offered) + 1, runt |-> runt] \in Offer
    BY <2>2, <2>3 DEF Offer
  <2>. QED  BY <2>1, <2>2, <2>4
<1>2. /\ Len(queue') = Len(queue) + 1 /\ DOMAIN queue' = 1..(Len(queue) + 1)
      /\ \A k \in 1..Len(queue) : queue'[k] = queue[k]
      /\ queue'[Len(queue) + 1] = p
      /\ Len(queue) \in Nat /\ DOMAIN queue = 1..Len(queue)
  BY <1>1, Appended DEF ReadTypes
<1>3. /\ Len(offered') = Len(offered) + 1 /\ DOMAIN offered' = 1..(Len(offered) + 1)
      /\ \A k \in 1..Len(offered) : offered'[k] = offered[k]
      /\ offered'[Len(offered) + 1] = p
      /\ Len(offered) \in Nat /\ DOMAIN offered = 1..Len(offered)
  BY <1>1, Appended DEF ReadTypes
<1>4. Past' = Past /\ Past \in Nat /\ Past + Len(queue) = Len(offered)
  BY <1>2, <1>3 DEF Past, ReadOrder
<1>5. \A i \in 1..Past : offered'[i] = offered[i]
  BY <1>2, <1>3, <1>4
<1>6. \A k \in DOMAIN queue' : queue'[k] = offered'[Past + k]
  <2>1. ASSUME NEW k \in 1..Len(queue) PROVE queue'[k] = offered'[Past + k]
    <3>1. Past + k \in 1..Len(offered)
      BY <1>2, <1>3, <1>4
    <3>. QED  BY <1>2, <1>3, <2>1, <3>1 DEF ReadOrder
  <2>2. queue'[Len(queue) + 1] = offered'[Past + (Len(queue) + 1)]
    BY <1>2, <1>3, <1>4
  <2>. QED  BY <1>2, <2>1, <2>2
<1>7. \A i \in DOMAIN offered' : offered'[i].id = i
  BY <1>1, <1>3 DEF ReadOrder
<1>8. taken' = taken /\ platform' = platform
  BY DEF PacketOffered
<1>9. platform = "channel" => \A i \in DOMAIN offered' : ~offered'[i].runt
  BY <1>1, <1>3 DEF ReadOrder
<1>. QED  BY <1>4, <1>5, <1>6, <1>7, <1>8, <1>9 DEF ReadOrder

\* The oldest packet is taken from the queue: it is returned, or a runt.
LEMMA OrderTaken ==
  ASSUME ReadTypes, ReadOrder, queue # <<>>, queue' = Tail(queue),
         UNCHANGED <<platform, offered>>,
         taken' = IF Head(queue).runt THEN taken ELSE Append(taken, Head(queue))
  PROVE  ReadOrder'
<1>1. PICK p \in Offer : p = Head(queue)
  BY Rest DEF ReadTypes
<1>2. /\ Len(queue) \in Nat /\ Len(queue) > 0 /\ Len(queue') = Len(queue) - 1
      /\ DOMAIN queue = 1..Len(queue) /\ DOMAIN queue' = 1..(Len(queue) - 1)
      /\ p = queue[1] /\ \A k \in 1..(Len(queue) - 1) : queue'[k] = queue[k + 1]
  BY <1>1, Rest DEF ReadTypes
<1>3. /\ Len(offered) \in Nat /\ DOMAIN offered = 1..Len(offered)
      /\ Past \in Nat /\ Past + Len(queue) = Len(offered)
      /\ Past' = Past + 1 /\ Past' \in Nat
  BY <1>2 DEF ReadTypes, Past, ReadOrder
<1>4. p = offered[Past + 1] /\ p.id = Past + 1
  BY <1>2, <1>3 DEF ReadOrder
<1>5. \A k \in DOMAIN queue' : queue'[k] = offered'[Past' + k]
  <2>. SUFFICES ASSUME NEW k \in 1..(Len(queue) - 1)
                PROVE  queue'[k] = offered[Past + 1 + k]
    BY <1>2, <1>3
  <2>1. k + 1 \in 1..Len(queue) /\ Past + (k + 1) = Past + 1 + k
    BY <1>2, <1>3
  <2>. QED  BY <1>2, <1>3, <2>1 DEF ReadOrder
<1>6. CASE p.runt
  <2>1. taken' = taken
    BY <1>1, <1>6
  <2>. QED  BY <1>3, <1>4, <1>5, <1>6, <2>1 DEF ReadOrder
<1>7. CASE ~p.runt
  <2>1. taken' = Append(taken, p)
    BY <1>1, <1>7
  <2>2. /\ DOMAIN taken' = 1..(Len(taken) + 1) /\ DOMAIN taken = 1..Len(taken)
        /\ Len(taken) \in Nat
        /\ \A k \in 1..Len(taken) : taken'[k] = taken[k]
        /\ taken'[Len(taken) + 1] = p
    BY <2>1, Appended DEF ReadTypes
  <2>3. \A k \in DOMAIN taken : taken[k].id \in Nat /\ taken[k].id <= Past
    <3>. SUFFICES ASSUME NEW k \in DOMAIN taken
                  PROVE  taken[k].id \in Nat /\ taken[k].id <= Past
      OBVIOUS
    <3>1. PICK i \in 1..Past : taken[k] = offered[i]
      BY DEF ReadOrder
    <3>2. i \in 1..Len(offered) /\ i \in Nat /\ i <= Past
      BY <1>2, <1>3, <3>1
    <3>. QED  BY <1>3, <3>1, <3>2 DEF ReadOrder
  <2>4. \A j, k \in DOMAIN taken' : j < k => taken'[j].id < taken'[k].id
    BY <1>3, <1>4, <2>2, <2>3 DEF ReadOrder
  <2>5. \A k \in DOMAIN taken' :
          \E i \in 1..Past' : taken'[k] = offered'[i] /\ ~offered'[i].runt
    BY <1>3, <1>4, <1>7, <2>2 DEF ReadOrder
  <2>6. \A i \in 1..Past' :
          ~offered'[i].runt => \E k \in DOMAIN taken' : taken'[k] = offered'[i]
    <3>1. ASSUME NEW i \in 1..Past, ~offered[i].runt
          PROVE  \E k \in DOMAIN taken' : taken'[k] = offered[i]
      <4>1. PICK k \in DOMAIN taken : taken[k] = offered[i]
        BY <3>1 DEF ReadOrder
      <4>. QED  BY <2>2, <4>1
    <3>2. \E k \in DOMAIN taken' : taken'[k] = offered[Past + 1]
      BY <1>4, <2>2
    <3>3. offered' = offered /\ \A i \in 1..Past' : i \in 1..Past \/ i = Past + 1
      BY <1>3
    <3>. QED  BY <3>1, <3>2, <3>3
  <2>7. \A i \in DOMAIN offered' : offered'[i].id = i
    BY DEF ReadOrder
  <2>8. platform' = "channel" => \A i \in DOMAIN offered' : ~offered'[i].runt
    BY DEF ReadOrder
  <2>9. Past' \in Nat
    BY <1>3
  <2>. QED  BY <1>5, <2>4, <2>5, <2>6, <2>7, <2>8, <2>9, Zenon DEF ReadOrder
<1>. QED  BY <1>6, <1>7

\* No step loses or reorders a packet to read.
LEMMA OrderStep == BaseInv /\ ReadOrder /\ [Next]_vars => ReadOrder'
<1>. SUFFICES ASSUME BaseInv, ReadOrder, [Next]_vars PROVE ReadOrder'
  OBVIOUS
<1>. USE DEF BaseInv, Types
<1>1. CASE PacketOffered
  BY <1>1, OrderOffered
<1>2. CASE BsdReads
  BY <1>2, OrderTaken DEF BsdReads, ReadFrame
<1>3. CASE ChannelReads /\ UNCHANGED queue
  BY <1>3, ReadFrames, Rest DEF ChannelReads, ReadFrame, ReadTypes
<1>4. CASE ChannelReads /\ queue' # queue
  \* A packet of the channel device is never a runt.
  <2>1. /\ queue # <<>> /\ queue' = Tail(queue) /\ taken' = Append(taken, Head(queue))
        /\ platform = "channel" /\ UNCHANGED <<platform, offered>>
    BY <1>4 DEF ChannelReads, ReadFrame
  <2>2. Head(queue) = offered[Past + 1] /\ Past + 1 \in DOMAIN offered
    <3>1. /\ Len(queue) \in Nat /\ Len(queue) > 0 /\ DOMAIN queue = 1..Len(queue)
          /\ Head(queue) = queue[1]
      BY <2>1, Rest DEF ReadTypes
    <3>2. /\ Len(offered) \in Nat /\ DOMAIN offered = 1..Len(offered)
          /\ Past \in Nat /\ Past + Len(queue) = Len(offered)
      BY <3>1 DEF ReadTypes, Past, ReadOrder
    <3>. QED  BY <3>1, <3>2 DEF ReadOrder
  <2>3. ~Head(queue).runt
    BY <2>1, <2>2 DEF ReadOrder
  <2>. QED  BY <2>1, <2>3, OrderTaken
<1>5. CASE ReadCall \/ BsdSelects \/ BsdReadFails
  BY <1>5, ReadFrames DEF ReadCall, BsdSelects, BsdReadFails, ReadFrame
<1>6. ASSUME NEW w \in Writers, WriteCall(w) \/ WriteStep(w) \/ ChannelSends(w)
      PROVE  ReadOrder'
  BY <1>6, ReadFrames DEF WriteCall, WriteStep, ChannelSends, WriteReturns, BsdRejects,
     BsdWrites, BsdFails, RingAllocates, RingSends, RingDrops, RingFails,
     ChannelClosed, WriteFrame, readVars
<1>7. ASSUME NEW c \in Closers, CloseStep(c) PROVE ReadOrder'
  BY <1>7, ReadFrames DEF CloseStep, NativeClose, ChannelClose, ChannelCloseEvents,
     CloseFrame, readVars
<1>8. CASE \/ NewSends \/ RingTaken \/ AdapterEnds \/ ErrorReported \/ EventTaken
           \/ UNCHANGED vars
  BY <1>8, ReadFrames DEF NewSends, RingTaken, AdapterEnds, ErrorReported, EventTaken,
     vars, readVars
<1>. QED
  BY <1>1, <1>2, <1>3, <1>4, <1>5, <1>6, <1>7, <1>8 DEF Next, ReadStep

\* Read returns all whole packets offered to the device, in their order and once
\* each: no error it returns instead, and no Close, costs a packet that was
\* taken from the device.
THEOREM ReadsInOrder == Spec => []ReadsLoseNothing
<1>1. Init => ReadOrder
  <2>. SUFFICES ASSUME Init PROVE ReadOrder
    OBVIOUS
  <2>1. queue = <<>> /\ offered = <<>> /\ taken = <<>>
    BY DEF Init
  <2>2. Past = 0 /\ 1..Past = {}
    BY <2>1 DEF Past
  <2>. QED  BY <2>1, <2>2 DEF ReadOrder
<1>2. BaseInv /\ ReadOrder /\ [Next]_vars => ReadOrder'
  BY OrderStep
<1>3. ReadOrder => ReadsLoseNothing
  <2>. SUFFICES ASSUME ReadOrder PROVE ReadsLoseNothing
    OBVIOUS
  <2>1. {taken[k] : k \in DOMAIN taken}
          = {offered[i] : i \in {j \in 1..Past : ~offered[j].runt}}
    BY DEF ReadOrder
  <2>. QED  BY <2>1 DEF ReadOrder, ReadsLoseNothing, Past
<1>. QED  BY <1>1, <1>2, <1>3, BaseInvariant, PTL DEF Spec
-----------------------------------------------------------------------------
(***************************************************************************)
(* Write returns what became of its packets.                               *)
(***************************************************************************)

\* What is known of a packet of w that went out, from the ring or to the ring.
Sound(w, pos, kind) ==
  /\ pos <= Begun(w) /\ <<w, pos>> \notin dropped
  /\ kind = write[w].batch[pos]

\* A packet of w that was begun went out, is in the ring, or was dropped.
Found(w, pos) ==
  \/ \E k \in DOMAIN got[w] : got[w][k].pos = pos
  \/ \E k \in DOMAIN ring : ring[k].by = w /\ ring[k].pos = pos
  \/ <<w, pos>> \in dropped

\* WriteCountTrue without its sets, for one call.
Accounted(w) ==
  /\ \A k \in DOMAIN got[w] : Sound(w, got[w][k].pos, got[w][k].kind)
  /\ \A k \in DOMAIN ring :
       ring[k].by = w => Sound(w, ring[k].pos, ring[k].kind)
  /\ \A pos \in 1..MaxBatch : <<w, pos>> \in dropped => pos <= Begun(w)
  /\ \A pos \in 1..Begun(w) : Found(w, pos)

InSequence(w) ==
  /\ \A j, k \in DOMAIN got[w] : j < k => got[w][j].pos < got[w][k].pos
  /\ \A j, k \in DOMAIN ring :
       ring[j].by = w /\ ring[k].by = w /\ j < k => ring[j].pos < ring[k].pos
  /\ \A j \in DOMAIN got[w], k \in DOMAIN ring :
       ring[k].by = w => got[w][j].pos < ring[k].pos

\* What became of the packets of a writer.  Only Wintun has a ring.
CallCounted(w) == Accounted(w) /\ InSequence(w)
CountInv == /\ platform # "windows" => ring = <<>>
            /\ \A w \in Writers : CallCounted(w)

\* What a writer has begun to send is counted.
LEMMA BegunType ==
  ASSUME WriteTypes, NEW w \in Writers
  PROVE  Begun(w) \in Nat /\ (write[w].pc # "send" => Begun(w) = write[w].n)
<1>1. write[w].n \in Nat
  BY BoundAssumption DEF WriteTypes, WriteState
<1>. QED  BY <1>1 DEF Begun

\* What the types say of the packets that went out.
LEMMA Typed ==
  ASSUME OutTypes
  PROVE  /\ Len(ring) \in Nat /\ DOMAIN ring = 1..Len(ring)
         /\ \A k \in DOMAIN ring : ring[k].by \in Writers /\ ring[k].pos \in 1..MaxBatch
         /\ \A w \in Writers : got[w] \in Seq(Delivery) /\ DOMAIN got[w] = 1..Len(got[w])
                               /\ Len(got[w]) \in Nat
         /\ \A w \in Writers : \A k \in DOMAIN got[w] : got[w][k].pos \in 1..MaxBatch
<1>1. ring \in Seq(RingEntry) /\ \A w \in Writers : got[w] \in Seq(Delivery)
  BY DEF OutTypes
<1>2. \A k \in DOMAIN ring : ring[k] \in RingEntry
  BY <1>1
<1>3. \A w \in Writers : \A k \in DOMAIN got[w] : got[w][k] \in Delivery
  BY <1>1
<1>4. Len(ring) \in Nat /\ DOMAIN ring = 1..Len(ring)
  BY <1>1
<1>5. \A w \in Writers : DOMAIN got[w] = 1..Len(got[w]) /\ Len(got[w]) \in Nat
  BY <1>1
<1>6. \A k \in DOMAIN ring : ring[k].by \in Writers /\ ring[k].pos \in 1..MaxBatch
  BY <1>2 DEF RingEntry
<1>7. \A w \in Writers : \A k \in DOMAIN got[w] : got[w][k].pos \in 1..MaxBatch
  BY <1>3 DEF Delivery
<1>. QED  BY <1>1, <1>4, <1>5, <1>6, <1>7, Zenon

\* The call is as far as it was, and its packets are where they were.
LEMMA CountSame ==
  ASSUME NEW w \in Writers, CallCounted(w),
         got'[w] = got[w], Begun(w)' = Begun(w), write'[w].batch = write[w].batch,
         \A pos : <<w, pos>> \in dropped' <=> <<w, pos>> \in dropped,
         DOMAIN ring' = DOMAIN ring,
         \A k \in DOMAIN ring : /\ ring'[k].by = ring[k].by
                                /\ ring'[k].pos = ring[k].pos
                                /\ ring'[k].kind = ring[k].kind
  PROVE  CallCounted(w)'
<1>1. Accounted(w)'
  BY DEF CallCounted, Accounted, Sound, Found
<1>2. InSequence(w)'
  BY DEF CallCounted, InSequence
<1>. QED  BY <1>1, <1>2 DEF CallCounted

\* A packet of the call goes straight to the other side.
LEMMA CountDelivers ==
  ASSUME WriteTypes, OutTypes, Progress, NEW w \in Writers, CallCounted(w),
         ring = <<>>, ring' = <<>>, dropped' = dropped,
         write[w].pc = "loop", write[w].n < Len(write[w].batch), HandsOver(w),
         Begun(w)' = Index(w), write'[w].batch = write[w].batch
  PROVE  CallCounted(w)'
<1>. DEFINE g == got[w]  n == write[w].n
<1>1. /\ n \in Nat /\ Index(w) = n + 1 /\ Begun(w) = n /\ Index(w) \in 1..MaxBatch
  BY AtPacketIndex, BegunType
<1>2. /\ Len(g) \in Nat /\ DOMAIN g = 1..Len(g)
      /\ \A k \in DOMAIN g : g[k].pos \in Nat
  BY Typed
<1>3. /\ DOMAIN got'[w] = 1..(Len(g) + 1)
      /\ \A k \in 1..Len(g) : got'[w][k] = g[k]
      /\ got'[w][Len(g) + 1].pos = n + 1
      /\ got'[w][Len(g) + 1].kind = write[w].batch[n + 1]
  <2>1. /\ got'[w] = Append(g, [pos |-> Index(w), kind |-> Current(w)])
        /\ [pos |-> Index(w), kind |-> Current(w)] \in Delivery
    BY HandedOver
  <2>2. /\ DOMAIN got'[w] = 1..(Len(g) + 1)
        /\ \A k \in 1..Len(g) : got'[w][k] = g[k]
        /\ got'[w][Len(g) + 1] = [pos |-> Index(w), kind |-> Current(w)]
    BY <2>1, Typed, Appended
  <2>. QED  BY <1>1, <2>2 DEF Current
<1>4. \A k \in DOMAIN g : g[k].pos <= n
  BY <1>1 DEF CallCounted, Accounted, Sound
<1>5. \A pos \in 1..MaxBatch : <<w, pos>> \in dropped => pos <= n
  BY <1>1 DEF CallCounted, Accounted
<1>6. <<w, n + 1>> \notin dropped
  BY <1>1, <1>5
<1>7. Accounted(w)'
  <2>1. ASSUME NEW k \in DOMAIN got'[w]
        PROVE  /\ got'[w][k].pos <= n + 1 /\ <<w, got'[w][k].pos>> \notin dropped
               /\ got'[w][k].kind = write[w].batch[got'[w][k].pos]
    <3>1. CASE k = Len(g) + 1
      BY <1>1, <1>3, <1>6, <3>1
    <3>2. CASE k # Len(g) + 1
      <4>1. k \in DOMAIN g /\ got'[w][k] = g[k]
        BY <1>2, <1>3, <3>2
      <4>2. Sound(w, g[k].pos, g[k].kind)
        BY <4>1 DEF CallCounted, Accounted
      <4>3. g[k].pos <= n + 1
        BY <1>1, <1>2, <1>4, <4>1
      <4>. QED  BY <4>1, <4>2, <4>3 DEF Sound
    <3>. QED  BY <3>1, <3>2
  <2>2. ASSUME NEW pos \in 1..(n + 1) PROVE Found(w, pos)'
    <3>1. CASE pos = n + 1
      BY <1>2, <1>3, <3>1 DEF Found
    <3>2. CASE pos # n + 1
      <4>1. pos \in 1..n
        BY <1>1, <3>2
      <4>2. Found(w, pos)
        BY <1>1, <4>1 DEF CallCounted, Accounted
      <4>. QED  BY <1>2, <1>3, <4>2 DEF Found
    <3>. QED  BY <3>1, <3>2
  <2>3. \A pos \in 1..MaxBatch : <<w, pos>> \in dropped' => pos <= n + 1
    BY <1>1, <1>5
  <2>4. Begun(w)' = n + 1 /\ DOMAIN ring' = {}
    BY <1>1
  <2>. QED  BY <2>1, <2>2, <2>3, <2>4 DEF Accounted, Sound
<1>8. InSequence(w)'
  <2>1. DOMAIN ring' = {}
    OBVIOUS
  <2>2. ASSUME NEW j \in DOMAIN got'[w], NEW k \in DOMAIN got'[w], j < k
        PROVE  got'[w][j].pos < got'[w][k].pos
    <3>1. j \in DOMAIN g /\ got'[w][j] = g[j] /\ (k = Len(g) + 1 \/ k \in DOMAIN g)
      BY <1>2, <1>3, <2>2
    <3>2. CASE k = Len(g) + 1
      BY <1>1, <1>2, <1>3, <1>4, <3>1, <3>2
    <3>3. CASE k \in DOMAIN g
      BY <1>2, <1>3, <2>2, <3>1, <3>3 DEF CallCounted, InSequence
    <3>. QED  BY <3>1, <3>2, <3>3
  <2>. QED  BY <2>1, <2>2 DEF InSequence
<1>. QED  BY <1>7, <1>8 DEF CallCounted

\* A full ring dropped the packet the call was at.
LEMMA CountDrops ==
  ASSUME WriteTypes, OutTypes, Progress, NEW w \in Writers, CallCounted(w),
         ring' = ring, got' = got, dropped' = dropped \cup {<<w, Index(w)>>},
         write[w].pc = "loop", write[w].n < Len(write[w].batch),
         Begun(w)' = Index(w), write'[w].batch = write[w].batch
  PROVE  CallCounted(w)'
<1>. DEFINE n == write[w].n
<1>1. n \in Nat /\ Index(w) = n + 1 /\ Begun(w) = n /\ Begun(w)' = n + 1
  BY AtPacketIndex, BegunType
<1>2. \A k \in DOMAIN got[w] : got[w][k].pos \in Nat
  BY Typed
<1>3. \A k \in DOMAIN ring : ring[k].pos \in Nat
  BY Typed
<1>4. ASSUME NEW pos \in Nat, NEW kind, Sound(w, pos, kind)
      PROVE  pos <= Begun(w)' /\ <<w, pos>> \notin dropped' /\ kind = write'[w].batch[pos]
  <2>1. pos <= n /\ <<w, pos>> \notin dropped /\ kind = write[w].batch[pos]
    BY <1>1, <1>4 DEF Sound
  <2>2. pos # n + 1 /\ pos <= n + 1
    BY <1>1, <2>1
  <2>. QED  BY <1>1, <2>1, <2>2
<1>5. \A k \in DOMAIN got'[w] : Sound(w, got[w][k].pos, got[w][k].kind)'
  BY <1>2, <1>4 DEF CallCounted, Accounted, Sound
<1>6. \A k \in DOMAIN ring' : ring'[k].by = w => Sound(w, ring[k].pos, ring[k].kind)'
  BY <1>3, <1>4 DEF CallCounted, Accounted, Sound
<1>7. ASSUME NEW pos \in 1..MaxBatch, <<w, pos>> \in dropped'
      PROVE  pos <= n + 1
  <2>1. CASE <<w, pos>> \in dropped
    <3>1. pos <= n
      BY <1>1, <2>1 DEF CallCounted, Accounted
    <3>. QED  BY <1>1, <3>1
  <2>2. CASE pos = n + 1
    BY <1>1, <2>2
  <2>. QED  BY <1>1, <1>7, <2>1, <2>2
<1>8. ASSUME NEW pos \in 1..(n + 1) PROVE Found(w, pos)'
  <2>1. CASE pos = n + 1
    BY <1>1, <2>1 DEF Found
  <2>2. CASE pos # n + 1
    <3>1. pos \in 1..n
      BY <1>1, <2>2
    <3>. QED  BY <1>1, <3>1 DEF CallCounted, Accounted, Found
  <2>. QED  BY <2>1, <2>2
<1>9. Accounted(w)'
  BY <1>1, <1>5, <1>6, <1>7, <1>8 DEF Accounted
<1>10. InSequence(w)'
  BY DEF CallCounted, InSequence
<1>. QED  BY <1>9, <1>10 DEF CallCounted

\* The ring takes a packet, of the call or of another.
LEMMA CountGrows ==
  ASSUME WriteTypes, OutTypes, Progress, NEW w \in Writers, RingAllocates(w),
         NEW v \in Writers, CallCounted(v),
         Begun(v)' = IF v = w THEN Index(w) ELSE Begun(v),
         write'[v].batch = write[v].batch
  PROVE  CallCounted(v)'
<1>. DEFINE e == [by |-> w, pos |-> Index(w), kind |-> Current(w), sent |-> FALSE]
            L == Len(ring)
<1>1. /\ L \in Nat /\ DOMAIN ring = 1..L /\ DOMAIN ring' = 1..(L + 1)
      /\ \A k \in 1..L : ring'[k] = ring[k]
      /\ ring'[L + 1].by = w /\ ring'[L + 1].pos = Index(w)
      /\ ring'[L + 1].kind = Current(w)
  <2>1. ring' = Append(ring, e) /\ e \in RingEntry /\ ring \in Seq(RingEntry)
    BY RingGrows DEF OutTypes
  <2>2. /\ L \in Nat /\ DOMAIN ring = 1..L /\ DOMAIN ring' = 1..(L + 1)
        /\ \A k \in 1..L : ring'[k] = ring[k]
        /\ ring'[L + 1] = e
    BY <2>1, Appended
  <2>. QED  BY <2>2
<1>2. got' = got /\ dropped' = dropped
  BY DEF RingAllocates
<1>3. /\ \A k \in DOMAIN ring' : (k \in DOMAIN ring /\ ring'[k] = ring[k]) \/ k = L + 1
      /\ \A k \in DOMAIN ring : k \in DOMAIN ring' /\ ring'[k] = ring[k] /\ k < L + 1
      /\ L + 1 \in DOMAIN ring' /\ ~(L + 1 < L + 1) /\ \A k \in DOMAIN ring : ~(L + 1 < k)
  BY <1>1
<1>4. CASE v # w
  <2>1. Begun(v)' = Begun(v)
    BY <1>4
  <2>2. Accounted(v)'
    BY <1>1, <1>2, <1>3, <1>4, <2>1 DEF CallCounted, Accounted, Sound, Found
  <2>3. InSequence(v)'
    BY <1>1, <1>2, <1>3, <1>4 DEF CallCounted, InSequence
  <2>. QED  BY <2>2, <2>3 DEF CallCounted
<1>5. CASE v = w
  <2>. DEFINE n == write[w].n
  <2>1. write[w].pc = "loop" /\ n < Len(write[w].batch)
    BY DEF RingAllocates, AtPacket
  <2>2. n \in Nat /\ Index(w) = n + 1 /\ Begun(w) = n /\ Begun(w)' = n + 1
        /\ n + 1 \in 1..MaxBatch
    BY <1>5, <2>1, AtPacketIndex, BegunType
  <2>3. \A k \in DOMAIN got[w] : got[w][k].pos \in Nat /\ got[w][k].pos <= n
    <3>1. \A k \in DOMAIN got[w] : got[w][k].pos \in Nat
      BY Typed
    <3>2. \A k \in DOMAIN got[w] : got[w][k].pos <= n
      BY <1>5, <2>2 DEF CallCounted, Accounted, Sound
    <3>. QED  BY <3>1, <3>2
  <2>4. \A k \in DOMAIN ring : ring[k].by = w => ring[k].pos \in Nat /\ ring[k].pos <= n
    <3>1. \A k \in DOMAIN ring : ring[k].pos \in Nat
      BY Typed
    <3>2. \A k \in DOMAIN ring : ring[k].by = w => ring[k].pos <= n
      BY <1>5, <2>2 DEF CallCounted, Accounted, Sound
    <3>. QED  BY <3>1, <3>2
  <2>5. \A pos \in 1..MaxBatch : <<w, pos>> \in dropped => pos <= n
    BY <1>5, <2>2 DEF CallCounted, Accounted
  <2>6. <<w, n + 1>> \notin dropped
    BY <2>2, <2>5
  <2>7. \A k \in DOMAIN got'[w] : Sound(w, got[w][k].pos, got[w][k].kind)'
    BY <1>2, <1>5, <2>2, <2>3 DEF CallCounted, Accounted, Sound
  <2>8. ASSUME NEW k \in DOMAIN ring', ring'[k].by = w
        PROVE  Sound(w, ring[k].pos, ring[k].kind)'
    <3>1. CASE k = L + 1
      BY <1>1, <1>2, <1>5, <2>2, <2>6, <3>1 DEF Sound, Current
    <3>2. CASE k \in DOMAIN ring /\ ring'[k] = ring[k]
      BY <1>2, <1>5, <2>2, <2>4, <2>8, <3>2 DEF CallCounted, Accounted, Sound
    <3>. QED  BY <1>3, <3>1, <3>2
  <2>9. \A pos \in 1..MaxBatch : <<w, pos>> \in dropped' => pos <= n + 1
    BY <1>2, <2>2, <2>5
  <2>10. ASSUME NEW pos \in 1..(n + 1) PROVE Found(w, pos)'
    <3>1. CASE pos = n + 1
      BY <1>1, <1>3, <2>2, <3>1 DEF Found
    <3>2. CASE pos # n + 1
      <4>1. pos \in 1..n
        BY <2>2, <3>2
      <4>2. Found(w, pos)
        BY <1>5, <2>2, <4>1 DEF CallCounted, Accounted
      <4>. QED  BY <1>2, <1>3, <4>2 DEF Found
    <3>. QED  BY <3>1, <3>2
  <2>11. Accounted(w)'
    BY <2>2, <2>7, <2>8, <2>9, <2>10 DEF Accounted
  <2>12. ASSUME NEW j \in DOMAIN ring', NEW k \in DOMAIN ring',
                ring'[j].by = w, ring'[k].by = w, j < k
         PROVE  ring'[j].pos < ring'[k].pos
    <3>1. j \in DOMAIN ring /\ ring'[j] = ring[j]
      BY <1>3, <1>1, <2>12
    <3>2. CASE k = L + 1
      BY <1>1, <2>2, <2>4, <2>12, <3>1, <3>2
    <3>3. CASE k \in DOMAIN ring /\ ring'[k] = ring[k]
      BY <1>5, <2>12, <3>1, <3>3 DEF CallCounted, InSequence
    <3>. QED  BY <1>3, <3>2, <3>3
  <2>13. ASSUME NEW j \in DOMAIN got'[w], NEW k \in DOMAIN ring', ring'[k].by = w
         PROVE  got'[w][j].pos < ring'[k].pos
    <3>1. CASE k = L + 1
      BY <1>1, <1>2, <2>2, <2>3, <3>1
    <3>2. CASE k \in DOMAIN ring /\ ring'[k] = ring[k]
      BY <1>2, <1>5, <2>13, <3>2 DEF CallCounted, InSequence
    <3>. QED  BY <1>3, <3>1, <3>2
  <2>14. \A j, k \in DOMAIN got'[w] : j < k => got'[w][j].pos < got'[w][k].pos
    BY <1>2, <1>5 DEF CallCounted, InSequence
  <2>15. InSequence(w)'
    BY <2>12, <2>13, <2>14 DEF InSequence
  <2>. QED  BY <1>5, <2>11, <2>15 DEF CallCounted
<1>. QED  BY <1>4, <1>5

\* The other side takes the oldest packet of the ring.
LEMMA CountTaken ==
  ASSUME WriteTypes, OutTypes, RingTaken, NEW v \in Writers, CallCounted(v)
  PROVE  CallCounted(v)'
<1>1. PICK p \in RingEntry : p = Head(ring)
  BY RingShrinks
<1>. DEFINE g == got[v]  d == [pos |-> p.pos, kind |-> p.kind]
<1>2. /\ Len(ring) \in Nat /\ Len(ring) > 0 /\ p = ring[1]
      /\ DOMAIN ring = 1..Len(ring) /\ DOMAIN ring' = 1..(Len(ring) - 1)
      /\ \A k \in 1..(Len(ring) - 1) : ring'[k] = ring[k + 1]
  <2>1. ring \in Seq(RingEntry) /\ ring # <<>> /\ ring' = Tail(ring)
    BY RingShrinks
  <2>. QED  BY <1>1, <2>1, Rest
\* Where the entries come from and go to.
<1>3. \A k \in DOMAIN ring' : /\ k + 1 \in DOMAIN ring /\ ring'[k] = ring[k + 1]
                              /\ k \in Nat
  BY <1>2
<1>4. 1 \in DOMAIN ring /\ p = ring[1] /\ \A k \in DOMAIN ring' : 1 < k + 1
  BY <1>2
<1>5. \A k \in DOMAIN ring : k # 1 => k - 1 \in DOMAIN ring' /\ ring'[k - 1] = ring[k]
  <2>. SUFFICES ASSUME NEW k \in DOMAIN ring, k # 1
                PROVE  k - 1 \in DOMAIN ring' /\ ring'[k - 1] = ring[k]
    OBVIOUS
  <2>1. k - 1 \in 1..(Len(ring) - 1) /\ (k - 1) + 1 = k
    BY <1>2
  <2>. QED  BY <1>2, <2>1
<1>6. write' = write /\ dropped' = dropped
  BY DEF RingTaken
<1>7. Begun(v)' = Begun(v) /\ write'[v].batch = write[v].batch /\ Begun(v) \in Nat
  BY <1>6, BegunType DEF Begun
<1>8. \A k \in DOMAIN ring' : ring'[k].by = v => Sound(v, ring[k].pos, ring[k].kind)'
  BY <1>3, <1>6, <1>7 DEF CallCounted, Accounted, Sound
<1>9. ASSUME NEW j \in DOMAIN ring', NEW k \in DOMAIN ring',
             ring'[j].by = v, ring'[k].by = v, j < k
      PROVE  ring'[j].pos < ring'[k].pos
  <2>1. j + 1 < k + 1
    BY <1>3, <1>9
  <2>. QED  BY <1>3, <1>9, <2>1 DEF CallCounted, InSequence
<1>10. CASE p.by # v
  <2>1. got'[v] = g
    BY <1>1, <1>10, RingShrinks
  <2>2. \A pos : Found(v, pos) => Found(v, pos)'
    BY <1>1, <1>2, <1>5, <1>6, <1>10, <2>1 DEF Found
  <2>3. Accounted(v)'
    BY <1>6, <1>7, <1>8, <2>1, <2>2 DEF CallCounted, Accounted, Sound
  <2>4. \A j \in DOMAIN got'[v], k \in DOMAIN ring' :
          ring'[k].by = v => got'[v][j].pos < ring'[k].pos
    BY <1>3, <2>1 DEF CallCounted, InSequence
  <2>5. \A j, k \in DOMAIN got'[v] : j < k => got'[v][j].pos < got'[v][k].pos
    BY <2>1 DEF CallCounted, InSequence
  <2>6. InSequence(v)'
    BY <1>9, <2>4, <2>5 DEF InSequence
  <2>. QED  BY <2>3, <2>6 DEF CallCounted
<1>11. CASE p.by = v
  <2>1. /\ Len(g) \in Nat /\ DOMAIN g = 1..Len(g)
        /\ DOMAIN got'[v] = 1..(Len(g) + 1)
        /\ \A k \in 1..Len(g) : got'[v][k] = g[k]
        /\ got'[v][Len(g) + 1] = d
    <3>1. got'[v] = Append(g, d) /\ d \in Delivery /\ g \in Seq(Delivery)
      BY <1>1, <1>11, RingShrinks DEF OutTypes
    <3>. QED  BY <3>1, Appended
  <2>2. /\ \A k \in DOMAIN got'[v] :
             (k \in DOMAIN g /\ got'[v][k] = g[k]) \/ k = Len(g) + 1
        /\ \A k \in DOMAIN g : k \in DOMAIN got'[v] /\ got'[v][k] = g[k]
        /\ Len(g) + 1 \in DOMAIN got'[v]
        /\ \A k \in DOMAIN got'[v] : ~(Len(g) + 1 < k)
    BY <2>1
  <2>3. Sound(v, p.pos, p.kind)
    BY <1>4, <1>11 DEF CallCounted, Accounted
  <2>4. ASSUME NEW k \in DOMAIN got'[v]
        PROVE  Sound(v, got[v][k].pos, got[v][k].kind)'
    <3>1. CASE k = Len(g) + 1
      BY <1>6, <1>7, <2>1, <2>3, <3>1 DEF Sound
    <3>2. CASE k \in DOMAIN g /\ got'[v][k] = g[k]
      BY <1>6, <1>7, <3>2 DEF CallCounted, Accounted, Sound
    <3>. QED  BY <2>2, <3>1, <3>2
  <2>5. ASSUME NEW pos, Found(v, pos) PROVE Found(v, pos)'
    <3>1. CASE \E k \in DOMAIN g : g[k].pos = pos
      BY <2>2, <3>1 DEF Found
    <3>2. CASE p.pos = pos
      BY <2>1, <2>2, <3>2 DEF Found
    <3>3. ASSUME NEW k \in DOMAIN ring, k # 1, ring[k].by = v /\ ring[k].pos = pos
          PROVE  Found(v, pos)'
      BY <1>5, <3>3 DEF Found
    <3>4. CASE <<v, pos>> \in dropped
      BY <1>6, <3>4 DEF Found
    <3>. QED  BY <1>4, <2>5, <3>1, <3>2, <3>3, <3>4 DEF Found
  <2>6. Accounted(v)'
    BY <1>6, <1>7, <1>8, <2>4, <2>5 DEF CallCounted, Accounted
  \* It comes after all the other side had, and before the rest of the ring.
  <2>7. \A j \in DOMAIN g : g[j].pos < p.pos
    BY <1>4, <1>11 DEF CallCounted, InSequence
  <2>8. \A k \in DOMAIN ring' : ring'[k].by = v => p.pos < ring'[k].pos
    BY <1>3, <1>4, <1>11 DEF CallCounted, InSequence
  <2>9. ASSUME NEW j \in DOMAIN got'[v], NEW k \in DOMAIN ring', ring'[k].by = v
        PROVE  got'[v][j].pos < ring'[k].pos
    <3>1. CASE j = Len(g) + 1
      BY <2>1, <2>8, <2>9, <3>1
    <3>2. CASE j \in DOMAIN g /\ got'[v][j] = g[j]
      BY <1>3, <2>9, <3>2 DEF CallCounted, InSequence
    <3>. QED  BY <2>2, <3>1, <3>2
  <2>10. ASSUME NEW j \in DOMAIN got'[v], NEW k \in DOMAIN got'[v], j < k
         PROVE  got'[v][j].pos < got'[v][k].pos
    <3>1. j \in DOMAIN g /\ got'[v][j] = g[j]
      BY <2>2, <2>10
    <3>2. CASE k = Len(g) + 1
      BY <2>1, <2>7, <3>1, <3>2
    <3>3. CASE k \in DOMAIN g /\ got'[v][k] = g[k]
      BY <2>10, <3>1, <3>3 DEF CallCounted, InSequence
    <3>. QED  BY <2>2, <3>2, <3>3
  <2>11. InSequence(v)'
    BY <1>9, <2>9, <2>10 DEF InSequence
  <2>. QED  BY <2>6, <2>11 DEF CallCounted
<1>. QED  BY <1>10, <1>11

\* What a step of w does to the calls of all, once it is known what w becomes.
LEMMA OthersStay ==
  ASSUME NEW w \in Writers, NEW s, Becomes(w, s), s.batch = write[w].batch,
         NEW v \in Writers
  PROVE  /\ write'[v].batch = write[v].batch
         /\ v # w => Begun(v)' = Begun(v)
         /\ v = w => Begun(v)' = s.n + (IF s.pc = "send" THEN 1 ELSE 0)
BY DEF Becomes, Begun

\* A call without a packet begun has none anywhere, whatever its batch.
LEMMA CountStarts ==
  ASSUME WriteTypes, OutTypes, NEW w \in Writers, CallCounted(w),
         Begun(w) = 0, Begun(w)' = 0, UNCHANGED <<ring, dropped, got>>
  PROVE  CallCounted(w)'
<1>1. DOMAIN got[w] = {}
  <2>. SUFFICES ASSUME NEW k \in DOMAIN got[w] PROVE FALSE
    OBVIOUS
  <2>1. got[w][k].pos \in Nat /\ got[w][k].pos # 0
    BY Typed, BoundAssumption
  <2>2. got[w][k].pos <= 0
    BY DEF CallCounted, Accounted, Sound
  <2>. QED  BY <2>1, <2>2
<1>2. \A k \in DOMAIN ring : ring[k].by # w
  <2>. SUFFICES ASSUME NEW k \in DOMAIN ring, ring[k].by = w PROVE FALSE
    OBVIOUS
  <2>1. ring[k].pos \in Nat /\ ring[k].pos # 0
    BY Typed, BoundAssumption
  <2>2. ring[k].pos <= 0
    BY DEF CallCounted, Accounted, Sound
  <2>. QED  BY <2>1, <2>2
<1>3. \A pos \in 1..MaxBatch : <<w, pos>> \in dropped' => pos <= 0
  BY DEF CallCounted, Accounted
<1>4. \A pos \in 1..0 : Found(w, pos)'
  OBVIOUS
<1>5. ring' = ring /\ got' = got
  OBVIOUS
<1>6. Accounted(w)'
  BY <1>1, <1>2, <1>3, <1>4, <1>5 DEF Accounted
<1>7. InSequence(w)'
  BY <1>1, <1>2, <1>5 DEF InSequence
<1>. QED  BY <1>6, <1>7 DEF CallCounted

\* The steps of a writer count the packets of every writer.
LEMMA CountWrites ==
  ASSUME BaseInv, CountInv, NEW w \in Writers,
         WriteCall(w) \/ WriteStep(w) \/ ChannelSends(w),
         NEW v \in Writers
  PROVE  CallCounted(v)'
<1>. USE DEF BaseInv, Types
<1>. DEFINE b == write[w].batch  n == write[w].n
<1>1. CallCounted(v) /\ (platform # "windows" => ring = <<>>)
  BY DEF CountInv
<1>2. n \in Nat /\ n \in 0..MaxBatch
  BY BoundAssumption DEF WriteTypes, WriteState
<1>3. ASSUME UNCHANGED <<ring, dropped, got>>, write'[v].batch = write[v].batch,
             Begun(v)' = Begun(v)
      PROVE  CallCounted(v)'
  BY <1>1, <1>3, CountSame
<1>4. ASSUME NEW err \in Errors, Returns(w, n, err), write[w].pc = "loop",
             UNCHANGED <<ring, dropped, got>>
      PROVE  CallCounted(v)'
  <2>1. Becomes(w, [pc |-> "done", batch |-> b, n |-> n, err |-> err])
    BY <1>2, <1>4, Returned
  <2>2. Begun(w) = n
    BY <1>4, BegunType
  <2>3. write'[v].batch = write[v].batch /\ Begun(v)' = Begun(v)
    BY <1>2, <2>1, <2>2, OthersStay
  <2>. QED  BY <1>3, <1>4, <2>3
<1>5. ASSUME Advance(w), n < Len(b)
      PROVE  /\ write'[v].batch = write[v].batch
             /\ v # w => Begun(v)' = Begun(v)
             /\ v = w => Begun(v)' = Index(w)
  <2>1. Becomes(w, [pc |-> "loop", batch |-> b, n |-> Index(w), err |-> write[w].err])
    BY <1>5, Advanced
  <2>2. Index(w) \in Nat
    BY <1>2 DEF Index
  <2>. QED  BY <2>1, <2>2, OthersStay
<1>6. CASE WriteCall(w)
  <2>1. write[w].pc = "idle" /\ n = 0 /\ UNCHANGED <<ring, dropped, got>>
    BY <1>6 DEF WriteCall, Progress
  <2>2. PICK a \in Batch, err \in Errors :
          Becomes(w, [pc |-> IF err = "none" THEN "loop" ELSE "done",
                      batch |-> a, n |-> 0, err |-> err])
    BY <1>6, Called
  <2>3. CASE v # w
    <3>1. write'[v] = write[v]
      BY <2>2, <2>3 DEF Becomes
    <3>2. Begun(v)' = Begun(v)
      BY <3>1 DEF Begun
    <3>. QED  BY <1>3, <2>1, <3>1, <3>2
  <2>4. CASE v = w
    <3>1. Begun(w) = 0
      BY <2>1, BegunType
    <3>2. write'[w].n = 0 /\ write'[w].pc # "send"
      BY <2>2 DEF Becomes
    <3>3. Begun(w)' = 0
      BY <3>2 DEF Begun
    <3>. QED  BY <1>1, <2>1, <2>4, <3>1, <3>3, CountStarts
  <2>. QED  BY <2>3, <2>4
<1>7. CASE WriteReturns(w)
  <2>1. Returns(w, n, "none") /\ write[w].pc = "loop" /\ UNCHANGED <<ring, dropped, got>>
    BY <1>7 DEF WriteReturns
  <2>. QED  BY <1>4, <2>1 DEF Errors
<1>8. CASE BsdRejects(w)
  <2>1. write[w].pc = "loop" /\ UNCHANGED <<ring, dropped, got>>
    BY <1>8 DEF BsdRejects, AtPacket
  <2>2. CASE UNCHANGED write
    BY <1>3, <2>1, <2>2 DEF Begun
  <2>3. CASE Returns(w, n, "family") \/ Returns(w, n, "short")
    BY <1>4, <2>1, <2>3 DEF Errors
  <2>. QED  BY <1>8, <2>2, <2>3 DEF BsdRejects
<1>9. CASE BsdFails(w) \/ RingFails(w) \/ ChannelClosed(w)
  <2>1. write[w].pc = "loop" /\ UNCHANGED <<ring, dropped, got>>
    BY <1>9 DEF BsdFails, RingFails, ChannelClosed, AtPacket
  <2>2. Returns(w, n, "file") \/ Returns(w, n, "closed") \/ Returns(w, n, "failed")
    BY <1>9 DEF BsdFails, RingFails, ChannelClosed
  <2>. QED  BY <1>4, <2>1, <2>2 DEF Errors
<1>10. CASE BsdWrites(w) \/ ChannelSends(w)
  <2>1. /\ write[w].pc = "loop" /\ n < Len(b) /\ HandsOver(w) /\ Advance(w)
        /\ ring' = ring /\ dropped' = dropped /\ ring = <<>>
    BY <1>1, <1>10 DEF BsdWrites, ChannelSends, AtPacket, Bsd
  <2>2. CASE v # w
    <3>1. got'[v] = got[v]
      BY <2>1, <2>2, HandedOver
    <3>. QED  BY <1>1, <1>5, <2>1, <2>2, <3>1, CountSame
  <2>3. CASE v = w
    BY <1>1, <1>5, <2>1, <2>3, CountDelivers
  <2>. QED  BY <2>2, <2>3
<1>11. CASE RingAllocates(w)
  <2>1. write' = [write EXCEPT ![w].pc = "send"] /\ write[w].pc = "loop" /\ n < Len(b)
    BY <1>11 DEF RingAllocates, AtPacket
  <2>2. Becomes(w, [pc |-> "send", batch |-> b, n |-> n, err |-> write[w].err])
    BY <2>1, Allocated
  <2>3. /\ write'[v].batch = write[v].batch
        /\ Begun(v)' = IF v = w THEN Index(w) ELSE Begun(v)
    BY <1>2, <2>2, OthersStay DEF Index
  <2>. QED  BY <1>1, <1>11, <2>3, CountGrows
<1>12. CASE RingSends(w)
  <2>1. /\ write[w].pc = "send" /\ n < Len(b) /\ Advance(w)
        /\ dropped' = dropped /\ got' = got
    BY <1>12 DEF RingSends, Progress
  <2>2. Begun(w) = Index(w)
    BY <2>1 DEF Begun, Index
  <2>3. write'[v].batch = write[v].batch /\ Begun(v)' = Begun(v)
    BY <1>5, <2>1, <2>2
  <2>. QED  BY <1>1, <1>12, <2>1, <2>3, RingMarked, CountSame
<1>13. CASE RingDrops(w)
  <2>1. /\ write[w].pc = "loop" /\ n < Len(b) /\ Advance(w) /\ ring' = ring /\ got' = got
        /\ dropped' = dropped \cup {<<w, Index(w)>>}
    BY <1>13 DEF RingDrops, AtPacket
  <2>2. CASE v # w
    <3>1. \A pos : <<v, pos>> \in dropped' <=> <<v, pos>> \in dropped
      BY <2>1, <2>2
    <3>. QED  BY <1>1, <1>5, <2>1, <2>2, <3>1, CountSame
  <2>3. CASE v = w
    BY <1>1, <1>5, <2>1, <2>3, CountDrops
  <2>. QED  BY <2>2, <2>3
<1>. QED
  BY <1>6, <1>7, <1>8, <1>9, <1>10, <1>11, <1>12, <1>13 DEF WriteStep

\* No device but Wintun comes to have a ring.
LEMMA RingOnlyThere ==
  ASSUME BaseInv, platform # "windows" => ring = <<>>, [Next]_vars
  PROVE  platform' # "windows" => ring' = <<>>
<1>. USE DEF BaseInv, Types
<1>1. ASSUME NEW w \in Writers, RingAllocates(w)
      PROVE  platform' # "windows" => ring' = <<>>
  BY <1>1 DEF RingAllocates, WriteFrame
<1>2. ASSUME NEW w \in Writers, RingSends(w)
      PROVE  platform' # "windows" => ring' = <<>>
  <2>1. ring' \in Seq(RingEntry) /\ Len(ring') = Len(ring) /\ platform' = platform
    BY <1>2, RingMarked DEF RingSends, WriteFrame
  <2>2. CASE ring = <<>>
    <3>1. Len(ring') = 0
      BY <2>1, <2>2
    <3>. QED  BY <2>1, <3>1
  <2>. QED  BY <2>1, <2>2
<1>3. ASSUME NEW w \in Writers,
             \/ WriteCall(w) \/ WriteReturns(w) \/ BsdRejects(w) \/ BsdWrites(w)
             \/ BsdFails(w) \/ RingDrops(w) \/ RingFails(w) \/ ChannelClosed(w)
             \/ ChannelSends(w)
      PROVE  platform' # "windows" => ring' = <<>>
  BY <1>3 DEF WriteCall, WriteReturns, BsdRejects, BsdWrites, BsdFails, RingDrops,
     RingFails, ChannelClosed, ChannelSends, WriteFrame
<1>4. CASE RingTaken
  BY <1>4 DEF RingTaken
<1>5. CASE \/ NewSends \/ ReadCall \/ ReadStep \/ \E c \in Closers : CloseStep(c)
           \/ AdapterEnds \/ PacketOffered \/ ErrorReported \/ EventTaken
           \/ UNCHANGED vars
  BY <1>5 DEF NewSends, ReadCall, ReadStep, BsdSelects, BsdReads, BsdReadFails,
     ChannelReads, ReadFrame, CloseStep, NativeClose, ChannelClose,
     ChannelCloseEvents, CloseFrame, AdapterEnds, PacketOffered, ErrorReported,
     EventTaken, writeVars, vars
<1>. QED  BY <1>1, <1>2, <1>3, <1>4, <1>5 DEF Next, WriteStep

\* No step disturbs the counts.
LEMMA CountStep == BaseInv /\ CountInv /\ [Next]_vars => CountInv'
<1>. SUFFICES ASSUME BaseInv, CountInv, [Next]_vars PROVE CountInv'
  OBVIOUS
<1>1. platform' # "windows" => ring' = <<>>
  BY RingOnlyThere DEF CountInv
<1>2. ASSUME NEW v \in Writers PROVE CallCounted(v)'
  <2>1. CallCounted(v)
    BY DEF CountInv
  <2>2. CASE \E w \in Writers : WriteCall(w) \/ WriteStep(w) \/ ChannelSends(w)
    BY <2>2, CountWrites
  <2>3. CASE RingTaken
    BY <2>1, <2>3, CountTaken DEF BaseInv, Types
  <2>4. CASE \/ NewSends \/ ReadCall \/ ReadStep \/ \E c \in Closers : CloseStep(c)
             \/ AdapterEnds \/ PacketOffered \/ ErrorReported \/ EventTaken
             \/ UNCHANGED vars
    <3>1. write' = write /\ ring' = ring /\ dropped' = dropped /\ got' = got
      BY <2>4 DEF NewSends, ReadCall, ReadStep, BsdSelects, BsdReads, BsdReadFails,
         ChannelReads, ReadFrame, CloseStep, NativeClose, ChannelClose,
         ChannelCloseEvents, CloseFrame, AdapterEnds, PacketOffered, ErrorReported,
         EventTaken, writeVars, vars
    <3>2. Begun(v)' = Begun(v)
      BY <3>1 DEF Begun
    <3>. QED  BY <2>1, <3>1, <3>2, CountSame
  <2>. QED  BY <2>2, <2>3, <2>4 DEF Next
<1>. QED  BY <1>1, <1>2 DEF CountInv

\* Before any call nothing is counted.
LEMMA CountInit == Init => CountInv
<1>. SUFFICES ASSUME Init PROVE CountInv
  OBVIOUS
<1>1. /\ ring = <<>> /\ dropped = {} /\ \A w \in Writers : got[w] = <<>>
      /\ \A w \in Writers : write[w].n = 0 /\ write[w].pc = "idle"
  BY DEF Init
<1>2. \A w \in Writers : Begun(w) = 0
  BY <1>1 DEF Begun
<1>. QED  BY <1>1, <1>2 DEF CountInv, CallCounted, Accounted, InSequence

\* The base invariant has the types.
LEMMA TypeCorrect == BaseInv => TypeOK
<1>. SUFFICES ASSUME BaseInv PROVE TypeOK
  OBVIOUS
<1>. USE DEF BaseInv, Types
<1>1. /\ platform \in Platforms
      /\ write \in [Writers -> [pc : {"idle", "loop", "send", "done"}, batch : Batch,
                                n : 0..MaxBatch, err : Errors]]
  BY DEF WriteTypes, WriteState
<1>2. /\ got \in [Writers -> Seq([pos : 1..MaxBatch, kind : Packet])]
      /\ dropped \subseteq Writers \X (1..MaxBatch) /\ Len(ring) <= RingCap
      /\ eof \in BOOLEAN
  BY DEF OutTypes, Delivery
<1>3. read \in [pc : {"making", "idle", "select", "file"}, err : Errors]
  BY DEF ReadTypes
<1>. QED  BY <1>1, <1>2, <1>3 DEF CloseTypes, EventTypes, TypeOK

\* The counts make the result of Write true.
LEMMA CountsTrue == BaseInv /\ CountInv => WriteCountTrue
<1>. SUFFICES ASSUME BaseInv, CountInv, NEW w \in Writers
              PROVE  /\ InOrder(w) /\ SameKind(w)
                     /\ Delivered(w) \cup Waiting(w) \cup Lost(w) = 1..Begun(w)
                     /\ (Delivered(w) \cup Waiting(w)) \cap Lost(w) = {}
                     /\ write[w].pc = "done" =>
                          \/ write[w].err = "none" <=> write[w].n = Len(write[w].batch)
                          \/ write[w].batch = <<>>
  BY DEF WriteCountTrue
<1>. USE DEF BaseInv, Types
<1>1. Accounted(w) /\ InSequence(w) /\ Begun(w) \in Nat
  BY BegunType DEF CountInv, CallCounted
<1>2. InOrder(w)
  BY <1>1 DEF InSequence, InOrder, InRing, Delivered, Waiting
<1>3. SameKind(w)
  BY <1>1 DEF Accounted, Sound, SameKind, InRing
<1>4. Begun(w) <= MaxBatch /\ MaxBatch \in Nat
  <2>1. /\ write[w].n \in 0..MaxBatch /\ Len(write[w].batch) \in 0..MaxBatch
        /\ MaxBatch \in Nat
    BY BatchShape, BoundAssumption DEF WriteTypes, WriteState
  <2>2. write[w].pc = "send" => write[w].n < Len(write[w].batch)
    BY DEF Progress
  <2>. QED  BY <2>1, <2>2 DEF Begun
<1>5. ASSUME NEW pos \in Delivered(w) \cup Waiting(w)
      PROVE  pos \in 1..Begun(w) /\ pos \notin Lost(w)
  <2>1. PICK kind : Sound(w, pos, kind) /\ pos \in 1..MaxBatch
    <3>1. CASE pos \in Delivered(w)
      <4>1. PICK k \in DOMAIN got[w] : pos = got[w][k].pos
        BY <3>1 DEF Delivered
      <4>. QED  BY <1>1, <4>1, Typed DEF Accounted
    <3>2. CASE pos \in Waiting(w)
      <4>1. PICK k \in DOMAIN ring : ring[k].by = w /\ pos = ring[k].pos
        BY <3>2 DEF Waiting, InRing
      <4>. QED  BY <1>1, <4>1, Typed DEF Accounted
    <3>. QED  BY <3>1, <3>2
  <2>. QED  BY <1>1, <1>4, <2>1 DEF Sound, Lost
<1>6. ASSUME NEW pos \in Lost(w) PROVE pos \in 1..Begun(w)
  BY <1>1, <1>4, <1>6 DEF Lost, Accounted
<1>7. ASSUME NEW pos \in 1..Begun(w) PROVE pos \in Delivered(w) \cup Waiting(w) \cup Lost(w)
  <2>1. pos \in 1..MaxBatch /\ Found(w, pos)
    BY <1>1, <1>4 DEF Accounted
  <2>. QED  BY <2>1 DEF Found, Delivered, Waiting, InRing, Lost
<1>8. write[w].pc = "done" =>
        \/ write[w].err = "none" <=> write[w].n = Len(write[w].batch)
        \/ write[w].batch = <<>>
  BY DEF Progress
<1>9. Delivered(w) \cup Waiting(w) \cup Lost(w) = 1..Begun(w)
  BY <1>5, <1>6, <1>7
<1>10. (Delivered(w) \cup Waiting(w)) \cap Lost(w) = {}
  BY <1>5
<1>. QED  BY <1>2, <1>3, <1>8, <1>9, <1>10, Zenon

\* For any number of writers, any batch and any capacity of the ring: what Write
\* returns is what became of the packets, in order, once each and under their own
\* family, and a full ring loses only what is counted as dropped.
THEOREM WriteCountsTrue == Spec => []WriteInv
<1>1. BaseInv /\ CountInv => WriteInv
  BY TypeCorrect, CountsTrue DEF WriteInv
<1>. QED  BY <1>1, CountInit, CountStep, BaseInvariant, PTL DEF Spec
=============================================================================
