--------------------------- MODULE LinuxTunProofs ---------------------------
(***************************************************************************)
(* Safety of LinuxTun for every number of callers, every capacity and      *)
(* every bound: type correctness, the shutdown handshake between the two   *)
(* listeners and Close, and the refinement of EventStream.                 *)
(***************************************************************************)
EXTENDS LinuxTun, TLAPS

\* The netlink listener holds hackListenerClosed, or is past closing events.
AfterLock == {"closeEvents", "closeReader", "closeWriter", "done"}
AfterCloseEvents == AfterLock \ {"closeEvents"}
AfterCloseSock == AfterLock \cup {"lock"}

\* Who may still touch the event channel.  The mutex is held for the hack
\* listener until it is done, so past Lock the netlink listener is alone.
Handshake ==
  /\ monitored => nlPc # "none" /\ hkPc # "none"
  /\ ~monitored => nlPc = "none" /\ hkPc = "none"
  /\ monitored /\ hkPc # "done" => hackLock
  /\ nlPc \in AfterLock => hkPc = "done"
  /\ monitored => (events.closed <=> nlPc \in AfterCloseEvents)
  /\ ~monitored => (events.closed <=> closePc \in {"file", "done"})
  /\ ~monitored => closePc # "cancel"
  /\ closePc \in {"new", "listeners"} => ~shutdown

\* An event is waiting in nlOut whenever the listener is about to send one.
OutPending == nlPc = "send" => nlOut # <<>>

\* Who has closed the netlink socket.
SockAccounting ==
  sockCloses = (IF nlPc \in AfterCloseSock THEN 1 ELSE 0)
               + (IF mkPc = "failed" THEN 1 ELSE 0)

TypeInv == TypeOK /\ OutPending
-----------------------------------------------------------------------------
(***************************************************************************)
(* Type correctness.                                                       *)
(***************************************************************************)

\* The empty sequence has any type.
LEMMA EmptySeq == \A S : <<>> \in Seq(S)
OBVIOUS

\* The operators of GoChan and RWCancel keep their types.
LEMMA SendType ==
  ASSUME NEW V, NEW c \in ChanType(V), NEW v \in V, NEW cap, CanSend(c, cap),
         cap \in Nat
  PROVE  /\ Sent(c, v) \in ChanType(V)
         /\ Len(Sent(c, v).buf) <= cap
         /\ Sent(c, v).closed = c.closed
<1>1. c.buf \in Seq(V) /\ c.closed \in BOOLEAN
  BY DEF ChanType
<1>2. Append(c.buf, v) \in Seq(V) /\ Len(Append(c.buf, v)) = Len(c.buf) + 1
  BY <1>1
<1>3. /\ Sent(c, v) \in ChanType(V)
      /\ Sent(c, v).buf = Append(c.buf, v) /\ Sent(c, v).closed = c.closed
  BY <1>1, <1>2 DEF Sent, ChanType
<1> QED  BY <1>1, <1>2, <1>3 DEF CanSend

\* close() keeps the type and the contents of a channel.
LEMMA CloseType ==
  ASSUME NEW V, NEW c \in ChanType(V)
  PROVE  /\ Closed(c) \in ChanType(V)
         /\ Closed(c).buf = c.buf /\ Closed(c).closed = TRUE
<1>1. c.buf \in Seq(V) /\ c.closed \in BOOLEAN
  BY DEF ChanType
<1>2. Closed(c) \in ChanType(V)
  BY <1>1 DEF Closed, ChanType
<1>3. Closed(c).buf = c.buf /\ Closed(c).closed = TRUE
  BY DEF Closed, ChanType
<1> QED  BY <1>2, <1>3

\* A receive takes the first value off a channel.
LEMMA ReceiveType ==
  ASSUME NEW V, NEW c \in ChanType(V), HasValue(c)
  PROVE  /\ Received(c) \in ChanType(V)
         /\ Received(c).buf = Tail(c.buf) /\ Received(c).closed = c.closed
         /\ Head(c.buf) \in V
         /\ Len(Received(c).buf) = Len(c.buf) - 1
BY DEF ChanType, Received, HasValue

\* What Cancel and the closing of files make of a pipe.
LEMMA PipeTypes ==
  ASSUME NEW p \in PipeType
  PROVE  /\ AfterCancel(p) \in PipeType
         /\ CloseReader(p) \in PipeType /\ CloseWriter(p) \in PipeType
         /\ CancelError(p) = "nil"
<1>1. /\ AfterCancel(p) \in PipeType
      /\ CloseReader(p) \in PipeType /\ CloseWriter(p) \in PipeType
  BY DEF PipeType, AfterCancel, CloseReader, CloseWriter
<1>2. CancelError(p) = "nil"
  BY DEF CancelError, WriteError
<1> QED  BY <1>1, <1>2

\* What the kernel does to the socket's queue keeps it a sequence of datagrams.
LEMMA NotifyType ==
  ASSUME NEW m \in Message, queue \in Seq(Seq(Message)), overrun \in BOOLEAN,
         Notify(m)
  PROVE  queue' \in Seq(Seq(Message)) /\ overrun' \in BOOLEAN
<1>1. CASE ~Listening  BY <1>1 DEF Notify
<1>2. CASE queue' = Append(queue, <<m>>) /\ UNCHANGED overrun
  BY <1>2
<1>3. CASE /\ queue # <<>>
           /\ queue' = [queue EXCEPT ![Len(queue)] = Append(@, m)]
           /\ UNCHANGED overrun
  <2>1. queue[Len(queue)] \in Seq(Message)
    BY <1>3
  <2>2. Append(queue[Len(queue)], m) \in Seq(Message)
    BY <2>1
  <2> QED  BY <1>3, <2>2
<1>4. CASE overrun' = TRUE /\ UNCHANGED queue  BY <1>4
<1> QED  BY <1>1, <1>2, <1>3, <1>4 DEF Notify

\* A netlink message makes a sequence of events.
LEMMA MessageEventsType ==
  ASSUME NEW m \in Message, NEW ever \in BOOLEAN
  PROVE  MessageEvents(m, ever) \in Seq(Event)
<1>1. <<"Up", "MTUUpdate">> \in Seq(Event)  BY DEF Event
<1>2. <<"Down", "MTUUpdate">> \in Seq(Event)  BY DEF Event
<1>3. <<"MTUUpdate">> \in Seq(Event)  BY DEF Event
<1>4. <<>> \in Seq(Event)  OBVIOUS
<1> QED
  BY <1>1, <1>2, <1>3, <1>4 DEF MessageEvents, Message

\* The types hold when the device has been created.
LEMMA TypeInit == Init => TypeInv
<1> SUFFICES ASSUME Init PROVE TypeInv
  OBVIOUS
<1>0. queue \in Seq(Seq(Message)) /\ nlMsgs \in Seq(Message)
      /\ nlOut \in Seq(Event)
  BY DEF Init
<1>1. KernelTypeOK  BY <1>0 DEF Init, KernelTypeOK
<1>2. events \in ChanType(Event) /\ Len(events.buf) <= EventCap
  BY CapAssumption DEF Init, NewChan, ChanType
<1>3. SharedTypeOK
  BY <1>2, CapAssumption DEF Init, SharedTypeOK, NewPipe, PipeType
<1>4. NlTypeOK  BY <1>0 DEF Init, NlTypeOK, NlPcs
<1>5. HkTypeOK  BY DEF Init, HkTypeOK, HkPcs
<1>6. CloseTypeOK  BY DEF Init, CloseTypeOK, ClosePcs
<1>7. ReadTypeOK  BY DEF Init, ReadTypeOK, RdPcs
<1>8. OutPending  BY DEF Init, OutPending
<1> QED
  BY <1>1, <1>3, <1>4, <1>5, <1>6, <1>7, <1>8 DEF TypeInv, TypeOK

\* A part of TypeInv whose variables a step leaves alone is preserved.
LEMMA TypeFrames ==
  /\ KernelTypeOK /\ UNCHANGED kernelVars => KernelTypeOK'
  /\ /\ SharedTypeOK
     /\ UNCHANGED <<monitored, mkPc, sockCloses, pipe, events, errors, hackLock,
                    fileOpen, view>>
     => SharedTypeOK'
  /\ NlTypeOK /\ OutPending /\ UNCHANGED nlVars => NlTypeOK' /\ OutPending'
  /\ HkTypeOK /\ UNCHANGED hkVars => HkTypeOK'
  /\ CloseTypeOK /\ UNCHANGED closeVars => CloseTypeOK'
  /\ ReadTypeOK /\ UNCHANGED readVars => ReadTypeOK'
<1>1. KernelTypeOK /\ UNCHANGED kernelVars => KernelTypeOK'
  BY DEF KernelTypeOK, kernelVars
<1>2. /\ SharedTypeOK
      /\ UNCHANGED <<monitored, mkPc, sockCloses, pipe, events, errors,
                     hackLock, fileOpen, view>>
      => SharedTypeOK'
  BY DEF SharedTypeOK
<1>3. NlTypeOK /\ OutPending /\ UNCHANGED nlVars => NlTypeOK' /\ OutPending'
  BY DEF NlTypeOK, OutPending, nlVars
<1>4. HkTypeOK /\ UNCHANGED hkVars => HkTypeOK'
  BY DEF HkTypeOK, hkVars
<1>5. CloseTypeOK /\ UNCHANGED closeVars => CloseTypeOK'
  BY DEF CloseTypeOK, closeVars
<1>6. ReadTypeOK /\ UNCHANGED readVars => ReadTypeOK'
  BY DEF ReadTypeOK, readVars
<1> QED  BY <1>1, <1>2, <1>3, <1>4, <1>5, <1>6

\* ... and after the steps of the kernel.
LEMMA TypeKernel == TypeInv /\ KernelNext => TypeInv'
<1> SUFFICES ASSUME TypeInv, KernelNext PROVE TypeInv'
  OBVIOUS
<1> USE TypeFrames DEF TypeInv, TypeOK
<1>1. ASSUME NEW d \in {"up", "down", "gone"}, NEW m \in Message,
             LinkChange(d, m)
      PROVE  TypeInv'
  <2>1. queue' \in Seq(Seq(Message)) /\ overrun' \in BOOLEAN
    BY <1>1, NotifyType DEF KernelTypeOK, LinkChange
  <2>2. KernelTypeOK'
    BY <1>1, <2>1 DEF KernelTypeOK, LinkChange, Counted
  <2> QED  BY <1>1, <2>2 DEF LinkChange
<1>2. CASE PacketArrives
  <2>1. KernelTypeOK'  BY <1>2 DEF PacketArrives, KernelTypeOK
  <2> QED  BY <1>2, <2>1 DEF PacketArrives
<1>3. CASE OwnerClosesFile
  <2>1. SharedTypeOK'  BY <1>3 DEF OwnerClosesFile, SharedTypeOK
  <2> QED  BY <1>3, <2>1 DEF OwnerClosesFile
<1>4. CASE LinkUp  BY <1>4, <1>1 DEF LinkUp, Message
<1>5. CASE LinkDown  BY <1>5, <1>1 DEF LinkDown, Message
<1>6. CASE LinkGone  BY <1>6, <1>1 DEF LinkGone, Message
<1>7. CASE LinkMTU  BY <1>7, <1>1 DEF LinkMTU, Message, KernelTypeOK
<1>8. CASE OtherNews  BY <1>8, <1>1 DEF OtherNews, Message, KernelTypeOK
<1> QED
  BY <1>2, <1>3, <1>4, <1>5, <1>6, <1>7, <1>8 DEF KernelNext

\* One step per action of the netlink listener.
LEMMA TypeNetlink == TypeInv /\ NlNext => TypeInv'
<1> SUFFICES ASSUME TypeInv, NlNext PROVE TypeInv'
  OBVIOUS
<1> USE TypeFrames DEF TypeInv, TypeOK, NlFrame
<1>1. CASE NlRecv
  <2>a. overrun' \in BOOLEAN  BY <1>1 DEF NlRecv
  <2>b. queue # <<>> => /\ Tail(queue) \in Seq(Seq(Message))
                        /\ Head(queue) \in Seq(Message)
    BY DEF KernelTypeOK
  <2>c. queue' \in Seq(Seq(Message))
    BY <1>1, <2>b DEF NlRecv, KernelTypeOK
  <2>1. KernelTypeOK'
    BY <1>1, <2>a, <2>c DEF NlRecv, KernelTypeOK
  <2>2. nlMsgs' \in Seq(Message)
    BY <1>1 DEF NlRecv, KernelTypeOK, NlTypeOK
  <2>3. NlTypeOK' /\ OutPending'
    BY <1>1, <2>2 DEF NlRecv, NlTypeOK, NlPcs, OutPending
  <2> QED  BY <1>1, <2>1, <2>3 DEF NlRecv
<1>2. CASE NlPoll
  <2>1. NlTypeOK' /\ OutPending'
    BY <1>2 DEF NlPoll, NlTypeOK, NlPcs, OutPending
  <2> QED  BY <1>2, <2>1 DEF NlPoll, kernelVars
<1>3. CASE NlPollReturns
  <2>1. NlTypeOK' /\ OutPending'
    BY <1>3 DEF NlPollReturns, NlTypeOK, NlPcs, OutPending
  <2> QED  BY <1>3, <2>1 DEF NlPollReturns, kernelVars
<1>4. CASE NlCheck
  <2>a. everUp' \in BOOLEAN  BY <1>4 DEF NlCheck, NlTypeOK
  <2>b. nlMsgs' \in Seq(Message)  BY <1>4, EmptySeq DEF NlCheck, NlTypeOK
  <2>1. NlTypeOK' /\ OutPending'
    BY <1>4, <2>a, <2>b DEF NlCheck, NlTypeOK, NlPcs, OutPending
  <2> QED  BY <1>4, <2>1 DEF NlCheck, kernelVars
<1>5. CASE NlParse
  <2>1. CASE nlMsgs = <<>>
    <3>1. NlTypeOK' /\ OutPending'
      BY <1>5, <2>1 DEF NlParse, NlTypeOK, NlPcs, OutPending
    <3> QED  BY <1>5, <3>1 DEF NlParse, kernelVars
  <2>2. CASE nlMsgs # <<>>
    <3>1. Head(nlMsgs) \in Message /\ Tail(nlMsgs) \in Seq(Message)
      BY <2>2 DEF NlTypeOK
    <3>2. nlOut' \in Seq(Event)
      BY <1>5, <2>2, <3>1, MessageEventsType DEF NlParse, NlTypeOK
    <3>a. everUp' \in BOOLEAN  BY <1>5, <2>2 DEF NlParse
    <3>b. nlMsgs' \in Seq(Message)  BY <1>5, <2>2, <3>1, EmptySeq DEF NlParse
    <3>3. NlTypeOK' /\ OutPending'
      BY <1>5, <2>2, <3>2, <3>a, <3>b DEF NlParse, NlTypeOK, NlPcs, OutPending
    <3> QED  BY <1>5, <3>3 DEF NlParse, kernelVars
  <2> QED  BY <2>1, <2>2
<1>6. CASE NlSend
  <2>1. nlOut # <<>> /\ Head(nlOut) \in Event /\ Tail(nlOut) \in Seq(Event)
    BY <1>6 DEF NlSend, NlTypeOK, OutPending
  <2>2. NlTypeOK' /\ OutPending'
    BY <1>6, <2>1 DEF NlSend, NlTypeOK, NlPcs, OutPending
  <2>3. events' \in ChanType(Event) /\ Len(events'.buf) <= EventCap
    BY <1>6, <2>1, SendType, CapAssumption DEF NlSend, SharedTypeOK
  <2>4. SharedTypeOK'  BY <1>6, <2>3 DEF NlSend, SharedTypeOK
  <2> QED  BY <1>6, <2>2, <2>4 DEF NlSend, kernelVars
<1>7. CASE NlError
  <2>1. SharedTypeOK'
    BY <1>7, CapAssumption DEF NlError, SharedTypeOK
  <2>2. NlTypeOK' /\ OutPending'
    BY <1>7 DEF NlError, NlTypeOK, NlPcs, OutPending
  <2> QED  BY <1>7, <2>1, <2>2 DEF NlError, kernelVars
<1>8. CASE NlCloseSock
  <2>1. KernelTypeOK'
    <3>1. queue' \in Seq(Seq(Message))  BY <1>8 DEF NlCloseSock
    <3> QED  BY <1>8, <3>1 DEF NlCloseSock, KernelTypeOK
  <2>2. SharedTypeOK'  BY <1>8 DEF NlCloseSock, SharedTypeOK
  <2>3. NlTypeOK' /\ OutPending'
    BY <1>8 DEF NlCloseSock, NlTypeOK, NlPcs, OutPending
  <2> QED  BY <1>8, <2>1, <2>2, <2>3 DEF NlCloseSock
<1>9. CASE NlLock
  <2>1. SharedTypeOK'  BY <1>9 DEF NlLock, SharedTypeOK
  <2>2. NlTypeOK' /\ OutPending'
    BY <1>9 DEF NlLock, NlTypeOK, NlPcs, OutPending
  <2> QED  BY <1>9, <2>1, <2>2 DEF NlLock, kernelVars
<1>10. CASE NlCloseEvents
  <2>1. events' \in ChanType(Event) /\ events'.buf = events.buf
    BY <1>10, CloseType DEF NlCloseEvents, SharedTypeOK
  <2>2. SharedTypeOK'  BY <1>10, <2>1 DEF NlCloseEvents, SharedTypeOK
  <2>3. NlTypeOK' /\ OutPending'
    BY <1>10 DEF NlCloseEvents, NlTypeOK, NlPcs, OutPending
  <2> QED  BY <1>10, <2>2, <2>3 DEF NlCloseEvents, kernelVars
<1>11. ASSUME NEW from \in NlPcs, NEW to \in NlPcs \ {"send"},
              NEW p \in PipeType, NlClosePipe(from, to, p)
       PROVE  TypeInv'
  <2>1. SharedTypeOK'  BY <1>11 DEF NlClosePipe, SharedTypeOK
  <2>2. NlTypeOK' /\ OutPending'
    BY <1>11 DEF NlClosePipe, NlTypeOK, OutPending
  <2> QED  BY <1>11, <2>1, <2>2 DEF NlClosePipe, kernelVars
<1>12. CASE NlCloseReader
  BY <1>12, <1>11, PipeTypes DEF NlCloseReader, NlPcs, SharedTypeOK
<1>13. CASE NlCloseWriter
  BY <1>13, <1>11, PipeTypes DEF NlCloseWriter, NlPcs, SharedTypeOK
<1> QED
  BY <1>1, <1>2, <1>3, <1>4, <1>5, <1>6, <1>7, <1>8, <1>9, <1>10, <1>12, <1>13
     DEF NlNext

\* One step per action of the hack listener.
LEMMA TypeHack == TypeInv /\ HkNext => TypeInv'
<1> SUFFICES ASSUME TypeInv, HkNext PROVE TypeInv'
  OBVIOUS
<1> USE TypeFrames DEF TypeInv, TypeOK, HkFrame
<1>1. CASE HkProbe
  <2>1. HkTypeOK'  BY <1>1 DEF HkProbe, HkTypeOK, HkPcs, ProbeEvent
  <2> QED  BY <1>1, <2>1 DEF HkProbe
<1>2. CASE HkSend
  <2>1. events' \in ChanType(Event) /\ Len(events'.buf) <= EventCap
    BY <1>2, SendType, CapAssumption DEF HkSend, SharedTypeOK, HkTypeOK, Event
  <2>2. SharedTypeOK'  BY <1>2, <2>1 DEF HkSend, SharedTypeOK
  <2>3. HkTypeOK'  BY <1>2 DEF HkSend, HkTypeOK, HkPcs
  <2> QED  BY <1>2, <2>2, <2>3 DEF HkSend
<1>3. CASE HkTick
  <2>1. HkTypeOK'  BY <1>3 DEF HkTick, HkTypeOK, HkPcs
  <2> QED  BY <1>3, <2>1 DEF HkTick
<1>4. CASE HkShutdown
  <2>1. HkTypeOK'  BY <1>4 DEF HkShutdown, HkTypeOK, HkPcs
  <2> QED  BY <1>4, <2>1 DEF HkShutdown
<1>5. CASE HkUnlock
  <2>1. HkTypeOK'  BY <1>5 DEF HkUnlock, HkTypeOK, HkPcs
  <2>2. SharedTypeOK'  BY <1>5 DEF HkUnlock, SharedTypeOK
  <2> QED  BY <1>5, <2>1, <2>2 DEF HkUnlock
<1> QED  BY <1>1, <1>2, <1>3, <1>4, <1>5 DEF HkNext

\* Creation, Close, Read and the reader of Events().
LEMMA TypeCalls ==
  TypeInv /\ (\/ SetMTUSucceeds \/ SetMTUFails \/ CloseNext \/ TakeEvent
              \/ \E r \in Readers : RdNext(r))
  => TypeInv'
<1> SUFFICES ASSUME TypeInv,
                    \/ SetMTUSucceeds \/ SetMTUFails \/ CloseNext \/ TakeEvent
                    \/ \E r \in Readers : RdNext(r)
             PROVE  TypeInv'
  OBVIOUS
<1> USE TypeFrames DEF TypeInv, TypeOK, CloseFrame, RdFrame
<1>1. CASE SetMTUSucceeds \/ SetMTUFails
  <2>1. SharedTypeOK'
    BY <1>1 DEF SetMTUSucceeds, SetMTUFails, MkDone, SharedTypeOK
  <2> QED  BY <1>1, <2>1 DEF SetMTUSucceeds, SetMTUFails, MkDone
<1>2. ASSUME NEW c \in Closers, CloseEnter(c) PROVE TypeInv'
  <2>1. CloseTypeOK'  BY <1>2 DEF CloseEnter, CloseTypeOK, ClosePcs
  <2> QED  BY <1>2, <2>1 DEF CloseEnter, nlVars
<1>3. CASE CloseListeners
  <2>1. CASE monitored
    <3>1. CloseTypeOK'
      BY <1>3, <2>1 DEF CloseListeners, CloseTypeOK, ClosePcs
    <3> QED  BY <1>3, <2>1, <3>1 DEF CloseListeners
  <2>2. CASE ~monitored
    <3>1. events' \in ChanType(Event) /\ events'.buf = events.buf
      BY <1>3, <2>2, CloseType DEF CloseListeners, SharedTypeOK
    <3>2. SharedTypeOK'  BY <1>3, <2>2, <3>1 DEF CloseListeners, SharedTypeOK
    <3>3. CloseTypeOK'
      BY <1>3, <2>2 DEF CloseListeners, CloseTypeOK, ClosePcs
    <3> QED  BY <1>3, <3>2, <3>3 DEF CloseListeners
  <2> QED  BY <2>1, <2>2
<1>4. CASE CloseCancel
  <2>1. pipe' \in PipeType /\ closeErrs' = closeErrs
    BY <1>4, PipeTypes DEF CloseCancel, SharedTypeOK
  <2>2. SharedTypeOK'  BY <1>4, <2>1 DEF CloseCancel, SharedTypeOK
  <2>3. CloseTypeOK'
    BY <1>4, <2>1 DEF CloseCancel, CloseTypeOK, ClosePcs
  <2> QED  BY <1>4, <2>2, <2>3 DEF CloseCancel
<1>5. CASE CloseFile
  <2>1. SharedTypeOK'  BY <1>5 DEF CloseFile, SharedTypeOK
  <2>2. CloseTypeOK'  BY <1>5 DEF CloseFile, CloseTypeOK, ClosePcs
  <2> QED  BY <1>5, <2>1, <2>2 DEF CloseFile
<1>6. ASSUME NEW c \in Closers, CloseReturn(c) PROVE TypeInv'
  <2>1. CloseTypeOK'  BY <1>6 DEF CloseReturn, CloseTypeOK
  <2> QED  BY <1>6, <2>1 DEF CloseReturn
<1>7. CASE TakeEvent
  <2>1. /\ events' \in ChanType(Event) /\ Head(events.buf) \in Event
        /\ Len(events'.buf) = Len(events.buf) - 1
    BY <1>7, ReceiveType DEF TakeEvent, SharedTypeOK
  <2>2. Len(events.buf) \in Nat  BY DEF SharedTypeOK, ChanType
  <2>3. SharedTypeOK'
    BY <1>7, <2>1, <2>2, CapAssumption DEF TakeEvent, SharedTypeOK, Event
  <2> QED  BY <1>7, <2>3 DEF TakeEvent
<1>8. ASSUME NEW r \in Readers, RdNext(r) PROVE TypeInv'
  <2>1. ReadTypeOK'
    BY <1>8 DEF RdNext, RdCall, RdLock, RdSelect, RdFile, RdReturn, RdStep,
                ReadTypeOK, RdPcs
  <2>2. errors' \in 0..ErrorCap /\ packets' \in Nat
    BY <1>8, CapAssumption
       DEF RdNext, RdCall, RdLock, RdSelect, RdFile, RdReturn, SharedTypeOK,
           KernelTypeOK
  <2>3. UNCHANGED <<monitored, mkPc, device, changes, queue, overrun,
                    sockCloses, pipe, events, hackLock, fileOpen, nlVars,
                    hkVars, closeVars, view>>
    BY <1>8 DEF RdNext, RdCall, RdLock, RdSelect, RdFile, RdReturn
  <2>4. SharedTypeOK'  BY <2>2, <2>3 DEF SharedTypeOK
  <2>5. KernelTypeOK'  BY <2>2, <2>3 DEF KernelTypeOK
  <2> QED  BY <2>1, <2>3, <2>4, <2>5
<1> QED
  BY <1>1, <1>2, <1>3, <1>4, <1>5, <1>6, <1>7, <1>8 DEF CloseNext, CloseBody

\* Every variable keeps its type: no channel ever exceeds its capacity, and
\* the netlink listener never sends from an empty list of parsed events.
THEOREM TypeCorrect == Spec => []TypeOK
<1>1. TypeInv /\ [Next]_vars => TypeInv'
  <2> SUFFICES ASSUME TypeInv, [Next]_vars PROVE TypeInv'
    OBVIOUS
  <2>1. CASE UNCHANGED vars
    BY <2>1, TypeFrames DEF vars, TypeInv, TypeOK
  <2>2. CASE Next
    BY <2>2, TypeKernel, TypeNetlink, TypeHack, TypeCalls DEF Next
  <2> QED  BY <2>1, <2>2
<1>2. TypeInv => TypeOK  BY DEF TypeInv
<1> QED  BY TypeInit, <1>1, <1>2, PTL DEF Spec
-----------------------------------------------------------------------------
(***************************************************************************)
(* The handshake.                                                          *)
(***************************************************************************)

\* The device begins with the socket and the event channel open.
LEMMA HandshakeInit == Init => Handshake /\ SockAccounting
BY DEF Init, Handshake, SockAccounting, AfterLock, AfterCloseEvents,
       AfterCloseSock, NewChan

\* Steps that touch none of the variables Handshake and SockAccounting speak
\* of.
hsVars == <<monitored, mkPc, hackLock, nlPc, hkPc, events.closed, closePc,
            shutdown, sockCloses>>

\* The handshake depends on the variables of hsVars only.
LEMMA HandshakeFrame ==
  Handshake /\ SockAccounting /\ UNCHANGED hsVars
    => Handshake' /\ SockAccounting'
BY DEF Handshake, SockAccounting, hsVars

\* The netlink listener keeps the handshake.
LEMMA HandshakeNetlink ==
  TypeInv /\ Handshake /\ SockAccounting /\ NlNext
    => Handshake' /\ SockAccounting'
<1> SUFFICES ASSUME TypeInv, Handshake, SockAccounting, NlNext
             PROVE  Handshake' /\ SockAccounting'
  OBVIOUS
<1> USE DEF NlFrame, hkVars, closeVars, AfterLock, AfterCloseEvents,
            AfterCloseSock
<1>1. ASSUME nlPc \notin AfterCloseSock, nlPc' \notin AfterCloseSock,
             nlPc # "none", nlPc' # "none", NlFrame,
             UNCHANGED <<sockCloses, hackLock>>, events'.closed = events.closed
      PROVE  Handshake' /\ SockAccounting'
  BY <1>1 DEF Handshake, SockAccounting
<1>2. CASE NlRecv  BY <1>2, <1>1 DEF NlRecv
<1>3. CASE NlPoll  BY <1>3, <1>1 DEF NlPoll
<1>4. CASE NlPollReturns  BY <1>4, <1>1 DEF NlPollReturns
<1>5. CASE NlCheck  BY <1>5, <1>1 DEF NlCheck
<1>6. CASE NlParse  BY <1>6, <1>1 DEF NlParse
<1>7. CASE NlSend
  <2>1. events'.closed = events.closed
    BY <1>7, SendType, CapAssumption
       DEF NlSend, TypeInv, TypeOK, SharedTypeOK, NlTypeOK, OutPending
  <2> QED  BY <1>7, <2>1, <1>1 DEF NlSend
<1>8. CASE NlError  BY <1>8, <1>1 DEF NlError
<1>9. CASE NlCloseSock
  <2>1. Handshake'  BY <1>9 DEF NlCloseSock, Handshake
  <2>2. SockAccounting'
    BY <1>9 DEF NlCloseSock, SockAccounting, TypeInv, TypeOK, SharedTypeOK
  <2> QED  BY <2>1, <2>2
<1>10. CASE NlLock
  \* The lock is free only once the hack listener has unlocked it.
  <2>1. hkPc = "done"  BY <1>10 DEF NlLock, Handshake
  <2>2. Handshake'  BY <1>10, <2>1 DEF NlLock, Handshake
  <2>3. SockAccounting'  BY <1>10 DEF NlLock, SockAccounting
  <2> QED  BY <2>2, <2>3
<1>11. CASE NlCloseEvents
  <2>1. events'.closed = TRUE
    BY <1>11, CloseType
       DEF NlCloseEvents, TypeInv, TypeOK, SharedTypeOK
  <2>2. Handshake'  BY <1>11, <2>1 DEF NlCloseEvents, Handshake
  <2>3. SockAccounting'  BY <1>11 DEF NlCloseEvents, SockAccounting
  <2> QED  BY <2>2, <2>3
<1>12. CASE NlCloseReader
  BY <1>12 DEF NlCloseReader, NlClosePipe, Handshake, SockAccounting
<1>13. CASE NlCloseWriter
  BY <1>13 DEF NlCloseWriter, NlClosePipe, Handshake, SockAccounting
<1> QED
  BY <1>2, <1>3, <1>4, <1>5, <1>6, <1>7, <1>8, <1>9, <1>10, <1>11, <1>12, <1>13
     DEF NlNext

\* The hack listener keeps the handshake.
LEMMA HandshakeHack ==
  TypeInv /\ Handshake /\ SockAccounting /\ HkNext
    => Handshake' /\ SockAccounting'
<1> SUFFICES ASSUME TypeInv, Handshake, SockAccounting, HkNext
             PROVE  Handshake' /\ SockAccounting'
  OBVIOUS
<1> USE DEF HkFrame, nlVars, closeVars, AfterLock, AfterCloseEvents,
            AfterCloseSock
<1>1. SockAccounting'
  BY DEF HkNext, HkProbe, HkSend, HkTick, HkShutdown, HkUnlock, SockAccounting
<1>2. ASSUME hkPc \notin {"none", "done"}, hkPc' \notin {"none", "done"},
             HkFrame, UNCHANGED hackLock, events'.closed = events.closed
      PROVE  Handshake'
  BY <1>2 DEF Handshake
<1>3. CASE HkProbe  BY <1>1, <1>3, <1>2 DEF HkProbe
<1>4. CASE HkSend
  <2>1. events'.closed = events.closed
    BY <1>4, SendType, CapAssumption
       DEF HkSend, TypeInv, TypeOK, SharedTypeOK, HkTypeOK, Event
  <2> QED  BY <1>1, <1>4, <2>1, <1>2 DEF HkSend
<1>5. CASE HkTick  BY <1>1, <1>5, <1>2 DEF HkTick
<1>6. CASE HkShutdown  BY <1>1, <1>6, <1>2 DEF HkShutdown
<1>7. CASE HkUnlock  BY <1>1, <1>7 DEF HkUnlock, Handshake
<1> QED  BY <1>1, <1>3, <1>4, <1>5, <1>6, <1>7 DEF HkNext

\* Close keeps the handshake.
LEMMA HandshakeClose ==
  TypeInv /\ Handshake /\ SockAccounting /\ CloseNext
    => Handshake' /\ SockAccounting'
<1> SUFFICES ASSUME TypeInv, Handshake, SockAccounting, CloseNext
             PROVE  Handshake' /\ SockAccounting'
  OBVIOUS
<1> USE DEF CloseFrame, nlVars, hkVars, AfterLock, AfterCloseEvents,
            AfterCloseSock
<1>1. SockAccounting'
  BY DEF CloseNext, CloseBody, CloseEnter, CloseListeners, CloseCancel,
         CloseFile, CloseReturn, SockAccounting
<1>2. ASSUME NEW c \in Closers, CloseEnter(c) PROVE Handshake'
  BY <1>2 DEF CloseEnter, Handshake
<1>3. CASE CloseListeners
  <2>1. CASE monitored  BY <1>1, <1>3, <2>1 DEF CloseListeners, Handshake
  <2>2. CASE ~monitored
    <3>1. events'.closed = TRUE
      BY <1>3, <2>2, CloseType
         DEF CloseListeners, TypeInv, TypeOK, SharedTypeOK
    <3> QED
      BY <1>1, <1>3, <2>2, <3>1 DEF CloseListeners, Handshake
  <2> QED  BY <2>1, <2>2
<1>4. CASE CloseCancel  BY <1>1, <1>4 DEF CloseCancel, Handshake
<1>5. CASE CloseFile  BY <1>1, <1>5 DEF CloseFile, Handshake
<1>6. ASSUME NEW c \in Closers, CloseReturn(c) PROVE Handshake'
  BY <1>6 DEF CloseReturn, Handshake
<1> QED
  BY <1>1, <1>2, <1>3, <1>4, <1>5, <1>6 DEF CloseNext, CloseBody

\* No one else takes part in the handshake.
LEMMA HandshakeOthers ==
  /\ TypeInv /\ Handshake /\ SockAccounting
  /\ \/ KernelNext \/ SetMTUSucceeds \/ SetMTUFails \/ TakeEvent
     \/ \E r \in Readers : RdNext(r)
  => Handshake' /\ SockAccounting'
<1> SUFFICES ASSUME TypeInv, Handshake, SockAccounting,
                    \/ KernelNext \/ SetMTUSucceeds \/ SetMTUFails \/ TakeEvent
                    \/ \E r \in Readers : RdNext(r)
             PROVE  Handshake' /\ SockAccounting'
  OBVIOUS
<1> USE DEF nlVars, hkVars, closeVars, AfterLock, AfterCloseEvents,
            AfterCloseSock
<1>1. CASE SetMTUSucceeds \/ SetMTUFails
  <2>1. Handshake'
    BY <1>1 DEF SetMTUSucceeds, SetMTUFails, MkDone, Handshake
  <2>2. SockAccounting'
    BY <1>1 DEF SetMTUSucceeds, SetMTUFails, MkDone, SockAccounting, TypeInv,
                TypeOK, SharedTypeOK
  <2> QED  BY <2>1, <2>2
<1>2. CASE KernelNext
  BY <1>2, HandshakeFrame
     DEF KernelNext, LinkUp, LinkDown, LinkMTU, LinkGone, OtherNews, LinkChange,
         PacketArrives, OwnerClosesFile, hsVars
<1>3. CASE TakeEvent
  <2>1. events'.closed = events.closed
    BY <1>3, ReceiveType DEF TakeEvent, TypeInv, TypeOK, SharedTypeOK
  <2> QED  BY <1>3, <2>1, HandshakeFrame DEF TakeEvent, hsVars
<1>4. ASSUME NEW r \in Readers, RdNext(r) PROVE Handshake' /\ SockAccounting'
  BY <1>4, HandshakeFrame
     DEF RdNext, RdCall, RdLock, RdSelect, RdFile, RdReturn, RdFrame, hsVars
<1> QED  BY <1>1, <1>2, <1>3, <1>4

SafetyInv == TypeInv /\ Handshake /\ SockAccounting

\* The inductive invariant holds of every behaviour.
LEMMA SafetyInvariant == Spec => []SafetyInv
<1>1. Init => SafetyInv  BY TypeInit, HandshakeInit DEF SafetyInv
<1>2. SafetyInv /\ [Next]_vars => SafetyInv'
  <2> SUFFICES ASSUME SafetyInv, [Next]_vars PROVE SafetyInv'
    OBVIOUS
  <2>1. CASE UNCHANGED vars
    <3>1. UNCHANGED hsVars
      BY <2>1 DEF vars, hsVars, nlVars, hkVars, closeVars
    <3> QED
      BY <2>1, <3>1, TypeFrames, HandshakeFrame
         DEF vars, SafetyInv, TypeInv, TypeOK
  <2>2. CASE Next
    BY <2>2, TypeKernel, TypeNetlink, TypeHack, TypeCalls, HandshakeNetlink,
       HandshakeHack, HandshakeClose, HandshakeOthers DEF Next, SafetyInv
  <2> QED  BY <2>1, <2>2
<1> QED  BY <1>1, <1>2, PTL DEF Spec

\* No goroutine ever reaches a send on the closed event channel, a second
\* close of it or of statusListenersShutdown, or an unlock of an unlocked
\* mutex, whatever the number of Close calls and the interleaving.
THEOREM NeverPanics == Spec => []NoPanic
<1>1. SafetyInv => NoPanic
  BY DEF SafetyInv, Handshake, NoPanic, AfterLock, AfterCloseEvents, TypeInv,
         TypeOK, SharedTypeOK
<1> QED  BY <1>1, SafetyInvariant, PTL

\* The netlink socket is closed at most once unless setMTU failed.
THEOREM SocketClosedOnce == Spec => []SockClosedOnce
<1>1. SafetyInv => SockClosedOnce
  BY DEF SafetyInv, SockAccounting, SockClosedOnce
<1> QED  BY <1>1, SafetyInvariant, PTL

\* Close reports nothing but a file somebody else closed: Cancel maps both
\* errors a concurrently closed pipe can give to nil.
THEOREM CancelNeverFails == Spec => []CancelIsSilent
<1>1. Init => CancelIsSilent  BY DEF Init, CancelIsSilent
<1>2. SafetyInv /\ CancelIsSilent /\ [Next]_vars => CancelIsSilent'
  <2> SUFFICES ASSUME SafetyInv, CancelIsSilent, [Next]_vars
               PROVE  CancelIsSilent'
    OBVIOUS
  <2>1. CASE CloseCancel
    <3>1. CancelError(pipe) = "nil"
      BY PipeTypes DEF SafetyInv, TypeInv, TypeOK, SharedTypeOK
    <3> QED  BY <2>1, <3>1 DEF CloseCancel, CancelIsSilent
  <2>2. CASE CloseFile  BY <2>2 DEF CloseFile, CancelIsSilent
  <2>3. CASE ~CloseCancel /\ ~CloseFile
    <3>1. UNCHANGED closeErrs
      BY <2>3
         DEF Next, vars, KernelNext, LinkUp, LinkDown, LinkMTU, LinkGone,
             OtherNews, LinkChange, PacketArrives, OwnerClosesFile,
             SetMTUSucceeds, SetMTUFails, MkDone, NlNext, NlRecv, NlPoll,
             NlPollReturns, NlCheck, NlParse, NlSend, NlError, NlCloseSock,
             NlLock, NlCloseEvents, NlCloseReader, NlCloseWriter, NlClosePipe,
             NlFrame, HkNext, HkProbe, HkSend, HkTick, HkShutdown, HkUnlock,
             HkFrame, CloseNext, CloseBody, CloseEnter, CloseListeners,
             CloseReturn, TakeEvent, RdNext, RdCall, RdLock, RdSelect, RdFile,
             RdReturn, RdFrame, closeVars
    <3> QED  BY <3>1 DEF CancelIsSilent
  <2> QED  BY <2>1, <2>2, <2>3
<1> QED  BY <1>1, <1>2, SafetyInvariant, PTL DEF Spec
-----------------------------------------------------------------------------
(***************************************************************************)
(* The event channel implements EventStream.                               *)
(***************************************************************************)

\* A new device has an empty, open event stream.
LEMMA StreamInit == Init => Stream!Init
BY DEF Init, Stream!Init, NewChan, Stream!NewChan, Ended

\* A step that leaves the channel alone and does not take back the end of the
\* stream is a stuttering step or End.
LEMMA QuietStep ==
  ASSUME UNCHANGED events, Ended => Ended'
  PROVE  [Stream!Next]_(Stream!vars)
<1>1. CASE Ended'
  <2>1. Ended' = TRUE  BY <1>1 DEF Ended
  <2> QED  BY <2>1 DEF Stream!Next, Stream!End
<1>2. CASE ~Ended'
  <2>1. Ended' = Ended  BY <1>2 DEF Ended
  <2> QED  BY <2>1 DEF Stream!vars
<1> QED  BY <1>1, <1>2

\* Every step of the device is a step of the event stream or none.
LEMMA StreamStep ==
  SafetyInv /\ [Next]_vars => [Stream!Next]_(Stream!vars)
<1> SUFFICES ASSUME SafetyInv, [Next]_vars
             PROVE  [Stream!Next]_(Stream!vars)
  OBVIOUS
<1>0. Ended' = (closePc' # "new" \/ nlPc' \in {"error", "closeSock", "lock",
                  "closeEvents", "closeReader", "closeWriter", "done"})
  BY DEF Ended
<1>1. ASSUME NEW e \in Event, CanSend(events, EventCap),
             events' = Sent(events, e), UNCHANGED Ended
      PROVE  Stream!Next
  BY <1>1 DEF Stream!Next, Stream!Emit, CanSend, Stream!CanSend, Sent,
              Stream!Sent
<1>2. ASSUME Ended, ~events.closed, events' = Closed(events), UNCHANGED Ended
      PROVE  Stream!Next
  BY <1>2 DEF Stream!Next, Stream!Finish, Closed, Stream!Closed
<1>3. CASE NlSend
  <2>1. Head(nlOut) \in Event
    BY <1>3 DEF NlSend, SafetyInv, TypeInv, TypeOK, NlTypeOK, OutPending
  <2>2. UNCHANGED Ended
    BY <1>0, <1>3 DEF NlSend, NlFrame, closeVars, Ended
  <2> QED  BY <1>3, <1>1, <2>1, <2>2 DEF NlSend
<1>4. CASE HkSend
  <2>1. hkOut \in Event
    BY DEF SafetyInv, TypeInv, TypeOK, HkTypeOK, Event
  <2>2. UNCHANGED Ended
    BY <1>0, <1>4 DEF HkSend, HkFrame, closeVars, nlVars, Ended
  <2> QED  BY <1>4, <1>1, <2>1, <2>2 DEF HkSend
<1>5. CASE NlCloseEvents
  <2>1. Ended /\ UNCHANGED Ended
    BY <1>0, <1>5 DEF NlCloseEvents, NlFrame, closeVars, Ended
  <2> QED  BY <1>5, <1>2, <2>1 DEF NlCloseEvents
<1>6. CASE CloseListeners
  <2>1. Ended /\ UNCHANGED Ended
    BY <1>0, <1>6 DEF CloseListeners, CloseFrame, nlVars, Ended
  <2>2. CASE monitored
    BY <1>6, <2>1, <2>2, QuietStep DEF CloseListeners
  <2>3. CASE ~monitored  BY <1>6, <1>2, <2>1, <2>3 DEF CloseListeners
  <2> QED  BY <2>2, <2>3
<1>7. CASE TakeEvent
  <2>1. UNCHANGED Ended
    BY <1>0, <1>7 DEF TakeEvent, nlVars, closeVars, Ended
  <2> QED
    BY <1>7, <2>1 DEF TakeEvent, Stream!Next, Stream!Take, HasValue, Received,
                      Stream!HasValue, Stream!Received
\* Every other step leaves the channel alone.
<1>8. CASE NlNext /\ ~NlSend /\ ~NlCloseEvents
  <2>1. UNCHANGED <<events, closePc>>
    BY <1>8 DEF NlNext, NlRecv, NlPoll, NlPollReturns, NlCheck, NlParse,
                NlError, NlCloseSock, NlLock, NlCloseReader, NlCloseWriter,
                NlClosePipe, NlFrame, closeVars
  <2>2. Ended => Ended'
    BY <1>0, <1>8, <2>1
       DEF NlNext, NlRecv, NlPoll, NlPollReturns, NlCheck, NlParse,
           NlError, NlCloseSock, NlLock, NlCloseReader, NlCloseWriter,
           NlClosePipe, Ended
  <2> QED  BY <2>1, <2>2, QuietStep
<1>9. CASE HkNext /\ ~HkSend
  <2>1. UNCHANGED <<events, closePc, nlPc>>
    BY <1>9 DEF HkNext, HkProbe, HkTick, HkShutdown, HkUnlock, HkFrame, nlVars,
                closeVars
  <2> QED  BY <1>0, <2>1, QuietStep DEF Ended
<1>10. CASE CloseNext /\ ~CloseListeners
  <2>1. UNCHANGED <<events, nlPc>> /\ (closePc # "new" => closePc' # "new")
    BY <1>10 DEF CloseNext, CloseBody, CloseEnter, CloseCancel, CloseFile,
                 CloseReturn, CloseFrame, nlVars
  <2> QED  BY <1>0, <2>1, QuietStep DEF Ended
<1>11. CASE \/ KernelNext \/ SetMTUSucceeds \/ SetMTUFails \/ UNCHANGED vars
            \/ \E r \in Readers : RdNext(r)
  <2>1. UNCHANGED <<events, closePc, nlPc>>
    BY <1>11
       DEF KernelNext, LinkUp, LinkDown, LinkMTU, LinkGone, OtherNews,
           LinkChange, PacketArrives, OwnerClosesFile, SetMTUSucceeds,
           SetMTUFails, MkDone, RdNext, RdCall, RdLock, RdSelect, RdFile,
           RdReturn, RdFrame, vars, nlVars, closeVars
  <2> QED  BY <1>0, <2>1, QuietStep DEF Ended
<1> QED
  BY <1>3, <1>4, <1>5, <1>6, <1>7, <1>8, <1>9, <1>10, <1>11 DEF Next

\* What the application sees of a NativeTun is a stream of device events that
\* is closed once, only after Close was called or the netlink listener lost its
\* socket, with nothing sent after that.
THEOREM ImplementsEventStream == Spec => StreamSpec
BY StreamInit, StreamStep, SafetyInvariant, PTL DEF Spec, StreamSpec, Stream!Spec
=============================================================================
