------------------------------ MODULE PacketIO ------------------------------
(***************************************************************************)
(* Read and Write of the devices whose BatchSize is 1: a descriptor with a *)
(* protocol family before each packet (tun_darwin.go, tun_freebsd.go,      *)
(* tun_openbsd.go), the Wintun ring (Write of tun_windows.go; its Read is  *)
(* in WindowsTun) and the channels of tuntest.  Several goroutines write   *)
(* batches, one reads, and Close comes at any time.  A packet is the kind  *)
(* its first byte says it is; a panic ends the program.                    *)
(***************************************************************************)
EXTENDS GoChan, FiniteSets

CONSTANTS Platforms,   \* devices to look at
          Writers,     \* goroutines that call Write, once each
          Closers,     \* goroutines that call Close, once each
          MaxBatch,    \* bound: packets in a Write
          RingCap,     \* packets the Wintun ring can hold
          MaxOffered,  \* bound: packets offered to Read
          MaxErrors    \* bound: errors the listener or Name report to Read

ASSUME PlatformAssumption ==
  Platforms \subseteq {"darwin", "freebsd", "openbsd", "windows", "channel"}
ASSUME BoundAssumption == {MaxBatch, RingCap, MaxOffered, MaxErrors} \subseteq Nat

Bsd == {"darwin", "freebsd", "openbsd"}
Packet == {"v4", "v6", "other", "empty"}
Batch == UNION {[1..k -> Packet] : k \in 0..MaxBatch}
Errors == {"none", "short", "family", "file", "closed", "failed"}

VARIABLES
  platform,
  write,       \* the Write calls: progress, batch, packets done, error
  ring,        \* Wintun: packets allocated by Write and not yet taken
  dropped,     \* packets a full ring made Write drop, as <<writer, index>>
  got,         \* what the other side of the device received from each of them
  eof,         \* Wintun: the adapter is terminating
  queue,       \* packets that wait for Read: in the kernel, or in a goroutine
               \* that sends on Outbound.  A runt is shorter than its header
  offered,     \* every packet there ever was in queue
  errors,      \* what waits in tun.errors, and how many errors ever did
  read,        \* the Read call
  taken,       \* packets Read returned
  closed,      \* the descriptor, the Wintun device or c.closed is closed
  closer,      \* the Close calls
  events,      \* c.events of the channel device
  panic

writeVars == <<write, ring, dropped, got>>
readVars == <<queue, offered, errors, read, taken>>
closeVars == <<closed, closer, events>>
vars == <<platform, writeVars, eof, readVars, closeVars, panic>>

\* The channel device is as NewChannelTUN made it, short of its last send.
Init ==
  /\ platform \in Platforms
  /\ write = [w \in Writers |-> [pc |-> "idle", batch |-> <<>>, n |-> 0, err |-> "none"]]
  /\ ring = <<>> /\ dropped = {} /\ got = [w \in Writers |-> <<>>] /\ eof = FALSE
  /\ queue = <<>> /\ offered = <<>> /\ taken = <<>>
  /\ errors = [waiting |-> 0, ever |-> 0]
  /\ read = [pc |-> IF platform = "channel" THEN "making" ELSE "idle", err |-> "none"]
  /\ closed = FALSE /\ closer = [c \in Closers |-> "idle"] /\ events = NewChan
  /\ panic = "none"

Alive == panic = "none" /\ read.pc # "making"

NewSends ==
  /\ read.pc = "making"
  /\ events' = Sent(events, "Up")
  /\ read' = [read EXCEPT !.pc = "idle"]
  /\ UNCHANGED <<platform, writeVars, eof, queue, offered, errors, taken, closed, closer, panic>>
-----------------------------------------------------------------------------
(***************************************************************************)
(* Write.                                                                  *)
(***************************************************************************)

WriteFrame == UNCHANGED <<platform, eof, readVars, closeVars>>

Returns(w, n, err) == write' = [write EXCEPT ![w].pc = "done", ![w].n = n, ![w].err = err]

\* The packet a Write is at, and the step to the next one.
Index(w) == write[w].n + 1
Current(w) == write[w].batch[Index(w)]
Advance(w) == write' = [write EXCEPT ![w].pc = "loop", ![w].n = @ + 1]
AtPacket(w) == Alive /\ write[w].pc = "loop" /\ write[w].n < Len(write[w].batch)
HandsOver(w) == got' = [got EXCEPT ![w] = Append(@, [pos |-> Index(w), kind |-> Current(w)])]

\* The offset matters by what it leaves before the packet: room for a header
\* or not.  The loop over an empty batch ends as any other.
WriteCall(w) ==
  /\ Alive /\ write[w].pc = "idle"
  /\ \E batch \in Batch, room \in BOOLEAN :
       LET early == IF platform \in Bsd /\ ~room THEN "short"
                    ELSE IF platform = "windows" /\ closed THEN "closed" ELSE "none"
       IN write' = [write EXCEPT ![w] =
                      [pc |-> IF early = "none" THEN "loop" ELSE "done",
                       batch |-> batch, n |-> 0, err |-> early]]
  /\ UNCHANGED <<ring, dropped, got, panic>>
  /\ WriteFrame

\* Mistake: the count is one too many.
WriteReturnsOneMore(w) ==
  /\ Alive /\ write[w].pc = "loop" /\ write[w].n = Len(write[w].batch)
  /\ Returns(w, Len(write[w].batch) + 1, "none")
  /\ UNCHANGED <<ring, dropped, got, panic>>
  /\ WriteFrame

WriteReturns(w) ==
  /\ Alive /\ write[w].pc = "loop" /\ write[w].n = Len(write[w].batch)
  /\ Returns(w, Len(write[w].batch), "none")
  /\ UNCHANGED <<ring, dropped, got, panic>>
  /\ WriteFrame

\* Mistakes: a packet of another family is skipped; the check of
\* tun_freebsd.go is forgotten.
BsdRejectsOnly(w) ==
  /\ platform \in Bsd /\ AtPacket(w) /\ Current(w) = "other"
  /\ Advance(w)
  /\ UNCHANGED <<ring, dropped, got, panic>>
  /\ WriteFrame
BsdRejectsUnchecked(w) ==
  /\ platform \in Bsd /\ AtPacket(w) /\ Current(w) = "empty"
  /\ panic' = "no first byte"
  /\ UNCHANGED <<write, ring, dropped, got>>
  /\ WriteFrame

\* The family is the version in the first byte.  Only tun_freebsd.go sees to
\* it that there is one.
BsdRejects(w) ==
  /\ platform \in Bsd /\ AtPacket(w)
  /\ \/ /\ Current(w) = "other"
        /\ Returns(w, write[w].n, "family") /\ UNCHANGED panic
     \/ /\ Current(w) = "empty" /\ platform = "freebsd"
        /\ Returns(w, write[w].n, "short") /\ UNCHANGED panic
     \/ /\ Current(w) = "empty" /\ platform # "freebsd"
        /\ panic' = "no first byte" /\ UNCHANGED write
  /\ UNCHANGED <<ring, dropped, got>>
  /\ WriteFrame

BsdWrites(w) ==
  /\ platform \in Bsd /\ AtPacket(w) /\ Current(w) \in {"v4", "v6"}
  /\ ~closed
  /\ HandsOver(w)
  /\ Advance(w)
  /\ UNCHANGED <<ring, dropped, panic>>
  /\ WriteFrame

\* The descriptor is closed, or the kernel refuses the packet.
BsdFails(w) ==
  /\ platform \in Bsd /\ AtPacket(w) /\ Current(w) \in {"v4", "v6"}
  /\ Returns(w, write[w].n, "file")
  /\ UNCHANGED <<ring, dropped, got, panic>>
  /\ WriteFrame

RingAllocates(w) ==
  /\ platform = "windows" /\ AtPacket(w) /\ ~eof /\ Len(ring) < RingCap
  /\ ring' = Append(ring, [by |-> w, pos |-> Index(w), kind |-> Current(w), sent |-> FALSE])
  /\ write' = [write EXCEPT ![w].pc = "send"]
  /\ UNCHANGED <<dropped, got, panic>>
  /\ WriteFrame

RingSends(w) ==
  /\ Alive /\ write[w].pc = "send"
  /\ ring' = [k \in DOMAIN ring |->
                [ring[k] EXCEPT !.sent = @ \/ (ring[k].by = w /\ ring[k].pos = Index(w))]]
  /\ Advance(w)
  /\ UNCHANGED <<dropped, got, panic>>
  /\ WriteFrame

\* A full ring drops the packet, and the batch goes on.
RingDrops(w) ==
  /\ platform = "windows" /\ AtPacket(w) /\ ~eof /\ Len(ring) = RingCap
  /\ dropped' = dropped \cup {<<w, Index(w)>>}
  /\ Advance(w)
  /\ UNCHANGED <<ring, got, panic>>
  /\ WriteFrame

\* The adapter is terminating, or any other error of the driver.
RingFails(w) ==
  /\ platform = "windows" /\ AtPacket(w)
  /\ Returns(w, write[w].n, IF eof THEN "closed" ELSE "failed")
  /\ UNCHANGED <<ring, dropped, got, panic>>
  /\ WriteFrame

\* The select of the channel device takes any case that is ready: Inbound
\* when the other side receives, c.closed when it is closed.
ChannelSends(w) ==
  /\ platform = "channel" /\ AtPacket(w)
  /\ HandsOver(w)
  /\ Advance(w)
  /\ UNCHANGED <<ring, dropped, panic>>
  /\ WriteFrame

\* Mistake: c.closed is looked at once, before the loop.
ChannelClosedFirst(w) ==
  /\ platform = "channel" /\ AtPacket(w) /\ closed /\ write[w].n = 0
  /\ Returns(w, write[w].n, "closed")
  /\ UNCHANGED <<ring, dropped, got, panic>>
  /\ WriteFrame

ChannelClosed(w) ==
  /\ platform = "channel" /\ AtPacket(w) /\ closed
  /\ Returns(w, write[w].n, "closed")
  /\ UNCHANGED <<ring, dropped, got, panic>>
  /\ WriteFrame
-----------------------------------------------------------------------------
(***************************************************************************)
(* Read.                                                                   *)
(***************************************************************************)

ReadFrame == UNCHANGED <<platform, writeVars, eof, closeVars, panic>>

ReadCall ==
  /\ Alive /\ platform # "windows" /\ read.pc = "idle"
  /\ \/ read' = [pc |-> "select", err |-> "none"]
     \/ platform \in Bsd /\ read' = [pc |-> "idle", err |-> "short"]  \* validateReadBuffers
  /\ UNCHANGED <<queue, offered, errors, taken>>
  /\ ReadFrame

\* Mistake: the pending error is looked at after a packet was read.
BsdSelectsLate ==
  /\ Alive /\ platform \in Bsd /\ read.pc = "select"
  /\ IF errors.waiting > 0 /\ queue # <<>>
     THEN /\ errors' = [errors EXCEPT !.waiting = @ - 1]
          /\ read' = [pc |-> "idle", err |-> "failed"]
          /\ queue' = Tail(queue)
     ELSE read' = [read EXCEPT !.pc = "file"] /\ UNCHANGED <<errors, queue>>
  /\ UNCHANGED <<offered, taken>>
  /\ ReadFrame

\* An error of the listener or of Name goes before any packet.
BsdSelects ==
  /\ Alive /\ platform \in Bsd /\ read.pc = "select"
  /\ IF errors.waiting > 0
     THEN /\ errors' = [errors EXCEPT !.waiting = @ - 1]
          /\ read' = [pc |-> "idle", err |-> "failed"]
     ELSE read' = [read EXCEPT !.pc = "file"] /\ UNCHANGED errors
  /\ UNCHANGED <<queue, offered, taken>>
  /\ ReadFrame

\* A runt takes its place in the kernel, but is no packet to return.
BsdReads ==
  /\ Alive /\ read.pc = "file" /\ ~closed /\ queue # <<>>
  /\ queue' = Tail(queue)
  /\ taken' = IF Head(queue).runt THEN taken ELSE Append(taken, Head(queue))
  /\ read' = [pc |-> "idle", err |-> "none"]
  /\ UNCHANGED <<offered, errors>>
  /\ ReadFrame

BsdReadFails ==
  /\ Alive /\ read.pc = "file" /\ closed
  /\ read' = [pc |-> "idle", err |-> "file"]
  /\ UNCHANGED <<queue, offered, errors, taken>>
  /\ ReadFrame

ChannelReads ==
  /\ Alive /\ platform = "channel" /\ read.pc = "select"
  /\ \/ /\ queue # <<>>
        /\ queue' = Tail(queue) /\ taken' = Append(taken, Head(queue))
        /\ read' = [pc |-> "idle", err |-> "none"]
     \/ /\ closed
        /\ read' = [pc |-> "idle", err |-> "closed"]
        /\ UNCHANGED <<queue, taken>>
  /\ UNCHANGED <<offered, errors>>
  /\ ReadFrame
-----------------------------------------------------------------------------
(***************************************************************************)
(* Close.  The channel device's is a Write with the offset -1, that closes *)
(* two channels; the others do it once, whatever they are called.          *)
(***************************************************************************)

CloseFrame == UNCHANGED <<platform, writeVars, eof, readVars>>

NativeClose(c) ==
  /\ Alive /\ platform # "channel" /\ closer[c] = "idle"
  /\ closed' = TRUE
  /\ closer' = [closer EXCEPT ![c] = "done"]
  /\ UNCHANGED <<events, panic>>
  /\ CloseFrame

\* Mistake: the events end before the device is closed.
ChannelCloseEarly(c) ==
  /\ Alive /\ platform = "channel" /\ closer[c] = "idle" /\ ~events.closed
  /\ events' = Closed(events)
  /\ closer' = [closer EXCEPT ![c] = "events"]
  /\ UNCHANGED <<closed, panic>>
  /\ CloseFrame

ChannelClose(c) ==
  /\ Alive /\ platform = "channel" /\ closer[c] = "idle"
  /\ IF closed
     THEN panic' = "close of closed channel" /\ UNCHANGED <<closed, closer>>
     ELSE /\ closed' = TRUE
          /\ closer' = [closer EXCEPT ![c] = "events"]
          /\ UNCHANGED panic
  /\ UNCHANGED events
  /\ CloseFrame

ChannelCloseEvents(c) ==
  /\ Alive /\ closer[c] = "events"
  /\ events' = Closed(events)
  /\ closer' = [closer EXCEPT ![c] = "done"]
  /\ UNCHANGED <<closed, panic>>
  /\ CloseFrame
-----------------------------------------------------------------------------
(***************************************************************************)
(* The other side: the kernel, the driver, or a test.                      *)
(***************************************************************************)

\* Wintun delivers in the order of allocation.
RingTaken ==
  /\ Alive /\ ring # <<>> /\ Head(ring).sent
  /\ LET p == Head(ring)
     IN got' = [got EXCEPT ![p.by] = Append(@, [pos |-> p.pos, kind |-> p.kind])]
  /\ ring' = Tail(ring)
  /\ UNCHANGED <<platform, write, dropped, eof, readVars, closeVars, panic>>

AdapterEnds ==
  /\ Alive /\ platform = "windows" /\ ~eof
  /\ eof' = TRUE
  /\ UNCHANGED <<platform, writeVars, readVars, closeVars, panic>>

PacketOffered ==
  /\ Alive /\ platform # "windows" /\ Len(offered) < MaxOffered
  /\ \E runt \in IF platform = "channel" THEN {FALSE} ELSE BOOLEAN :
       LET p == [id |-> Len(offered) + 1, runt |-> runt]
       IN queue' = Append(queue, p) /\ offered' = Append(offered, p)
  /\ UNCHANGED <<platform, writeVars, eof, errors, read, taken, closeVars, panic>>

ErrorReported ==
  /\ Alive /\ platform \in Bsd /\ errors.ever < MaxErrors
  /\ errors' = [waiting |-> errors.waiting + 1, ever |-> errors.ever + 1]
  /\ UNCHANGED <<platform, writeVars, eof, queue, offered, read, taken, closeVars, panic>>

EventTaken ==
  /\ Alive /\ HasValue(events)
  /\ events' = Received(events)
  /\ UNCHANGED <<platform, writeVars, eof, readVars, closed, closer, panic>>
-----------------------------------------------------------------------------
WriteStep(w) ==
  \/ WriteReturns(w)
  \/ BsdRejects(w) \/ BsdWrites(w) \/ BsdFails(w)
  \/ RingAllocates(w) \/ RingSends(w) \/ RingDrops(w) \/ RingFails(w)
  \/ ChannelClosed(w)
ReadStep == BsdSelects \/ BsdReads \/ BsdReadFails \/ ChannelReads
CloseStep(c) == NativeClose(c) \/ ChannelClose(c) \/ ChannelCloseEvents(c)

Next ==
  \/ NewSends
  \/ \E w \in Writers : WriteCall(w) \/ WriteStep(w) \/ ChannelSends(w)
  \/ ReadCall \/ ReadStep
  \/ \E c \in Closers : CloseStep(c)
  \/ RingTaken \/ AdapterEnds \/ PacketOffered \/ ErrorReported \/ EventTaken

Spec == Init /\ [][Next]_vars

\* Goroutines run; the other side of a device need not do anything.
Fairness == /\ WF_vars(ReadStep)
            /\ \A w \in Writers : WF_vars(WriteStep(w))
FairSpec == Spec /\ Fairness
-----------------------------------------------------------------------------
(***************************************************************************)
(* Properties.                                                             *)
(***************************************************************************)

\* Every variable has its type, and the ring is never overfull.
TypeOK ==
  /\ platform \in Platforms
  /\ write \in [Writers -> [pc : {"idle", "loop", "send", "done"}, batch : Batch,
                            n : 0..MaxBatch, err : Errors]]
  /\ got \in [Writers -> Seq([pos : 1..MaxBatch, kind : Packet])]
  /\ dropped \subseteq Writers \X (1..MaxBatch)
  /\ Len(ring) <= RingCap
  /\ read \in [pc : {"making", "idle", "select", "file"}, err : Errors]
  /\ closed \in BOOLEAN /\ eof \in BOOLEAN
  /\ closer \in [Closers -> {"idle", "events", "done"}]
  /\ events \in ChanType({"Up"}) /\ Len(events.buf) <= 1

\* Where the packets of a Write are, by their positions in the batch.
InRing(w) == {k \in DOMAIN ring : ring[k].by = w}
Delivered(w) == {got[w][k].pos : k \in DOMAIN got[w]}
Waiting(w) == {ring[k].pos : k \in InRing(w)}
Lost(w) == {pos \in 1..MaxBatch : <<w, pos>> \in dropped}
Begun(w) == write[w].n + (IF write[w].pc = "send" THEN 1 ELSE 0)

InOrder(w) ==
  /\ \A j, k \in DOMAIN got[w] : j < k => got[w][j].pos < got[w][k].pos
  /\ \A j, k \in InRing(w) : j < k => ring[j].pos < ring[k].pos
  /\ \A i \in Delivered(w), j \in Waiting(w) : i < j
SameKind(w) ==
  /\ \A k \in DOMAIN got[w] : got[w][k].kind = write[w].batch[got[w][k].pos]
  /\ \A k \in InRing(w) : ring[k].kind = write[w].batch[ring[k].pos]

\* What Write returns is what became of the batch: the other side has, or
\* will get from the ring, its first n packets, in order, once each and under
\* their own family, or a full ring dropped them; nothing after an error goes
\* out, and an error is returned exactly when packets are left.
WriteCountTrue ==
  \A w \in Writers :
    /\ InOrder(w) /\ SameKind(w)
    /\ Delivered(w) \cup Waiting(w) \cup Lost(w) = 1..Begun(w)
    /\ (Delivered(w) \cup Waiting(w)) \cap Lost(w) = {}
    /\ write[w].pc = "done" =>
         \/ write[w].err = "none" <=> write[w].n = Len(write[w].batch)
         \/ write[w].batch = <<>>

\* Both, as the run checks them: ring and counts stay within their bounds, and
\* the counts tell the truth.
WriteInv == TypeOK /\ WriteCountTrue

\* Read returns the packets offered to the device in their order and leaves
\* out nothing but runts: an error, or the end of a call, costs no packet.
\* What still waits is the end of what was offered, and what was taken are all
\* whole packets before it.
ReadsLoseNothing ==
  LET past == Len(offered) - Len(queue)
  IN /\ past \in Nat /\ \A k \in DOMAIN queue : queue[k] = offered[past + k]
     /\ {taken[k] : k \in DOMAIN taken}
          = {offered[i] : i \in {j \in 1..past : ~offered[j].runt}}
     /\ \A j, k \in DOMAIN taken : j < k => taken[j].id < taken[k].id

\* Only a second Close of the channel device and a packet without a first
\* byte, on two platforms, end the program.
PanicsAreMisuse ==
  /\ panic = "close of closed channel" =>
       platform = "channel" /\ \E c \in Closers : closer[c] # "idle"
  /\ panic = "no first byte" =>
       /\ platform \in {"darwin", "openbsd"}
       /\ \E w \in Writers, k \in 1..MaxBatch :
            k \in DOMAIN write[w].batch /\ write[w].batch[k] = "empty"
  /\ panic \in {"none", "close of closed channel", "no first byte"}

\* After Close no Read or Write is left waiting, though the other side of the
\* device does nothing any more.
CloseUnblocks ==
  /\ \A w \in Writers :
       (closed /\ write[w].pc = "loop") ~> (write[w].pc = "done" \/ panic # "none")
  /\ (closed /\ read.pc = "select") ~> (read.pc = "idle" \/ panic # "none")

\* The events of the channel device are a stream like any other device's.
Stream == INSTANCE EventStream WITH Event <- {"Up"}, EventCap <- 1, ended <- closed
StreamSpec == Stream!Spec
=============================================================================
