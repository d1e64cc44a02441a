---------------------------- MODULE BsdTunProofs ----------------------------
(***************************************************************************)
(* Safety of BsdTun for every number of callers, every capacity and every  *)
(* subset of the platforms: type correctness, what FreeBSD's Close leaves  *)
(* behind, and the refinement of EventStream.                              *)
(***************************************************************************)
EXTENDS BsdTun, TLAPS

\* TypeOK, one part for each group of variables that change together.
KernelTypes ==
  /\ iface \in Status /\ gone \in BOOLEAN /\ missed \in BOOLEAN
  /\ changes \in 0..MaxChanges
  /\ queue \in Seq(Status \cup {Other}) /\ Len(queue) <= QueueCap
DeviceTypes ==
  /\ platform \in Platforms
  /\ mkPc \in {"setMTU", "made", "failed"}
  /\ sock \in {"open", "shutdown", "closed"}
  /\ routeSocket \in BOOLEAN /\ fileOpen \in BOOLEAN /\ name \in BOOLEAN
  /\ view \in BOOLEAN
  /\ errors \in 0..ErrorCap
EventTypes == events \in ChanType(Event) /\ Len(events.buf) <= EventCap
ListenerTypes ==
  /\ lsPc \in {"recv", "query", "link", "mtu", "error", "closeEvents", "done"}
  /\ status \in [up : BOOLEAN, mtu : 0..2] /\ seen \in Status \cup {Other}
  /\ lsPc \in {"link", "mtu"} => seen \in Status
  /\ failed \in BOOLEAN
CloseTypes ==
  /\ closePc \in {"new", "file", "destroy", "shutdown", "socket", "forget", "done"}
  /\ closer \in [AllClosers -> {"idle", "called", "owner", "nil", "error"}]
  /\ closeErrs \subseteq {"file", "destroy"}
NamerTypes == namer \in [Namers -> {"idle", "sends", "returned"}]

Types == /\ KernelTypes /\ DeviceTypes /\ EventTypes /\ ListenerTypes
         /\ CloseTypes /\ NamerTypes

\* Only the listener closes the event channel, and only for an error: Close
\* comes to its other branch, for a device without a socket, with a socket.
OneClosesEvents ==
  /\ events.closed <=> lsPc = "done"
  /\ lsPc \in {"error", "closeEvents", "done"} => failed
  /\ closePc # "done" => routeSocket

\* From tunDestroy on, the interface is gone or Close has an error to report.
PastDestroy == {"shutdown", "socket", "forget", "done"}
DestroyAccounted ==
  platform = "freebsd" /\ closePc \in PastDestroy => gone \/ closeErrs # {}

\* Nobody calls Close before setMTU has returned.
NotYetClosed ==
  mkPc = "setMTU" => closePc = "new" /\ \A c \in AllClosers : closer[c] = "idle"

\* Who ran closeOnce has not returned yet, or has returned the errors there were.
OwnerTells ==
  closePc # "new" => \E c \in AllClosers :
    \/ closer[c] = "owner"
    \/ closePc = "done" /\ (closeErrs # {} => closer[c] = "error")

IndInv == /\ Types /\ OneClosesEvents /\ DestroyAccounted
          /\ NotYetClosed /\ OwnerTells
-----------------------------------------------------------------------------
(***************************************************************************)
(* What the operators on channels and on the route socket return.          *)
(***************************************************************************)

\* A send into the event channel keeps its type and leaves it open.
LEMMA SendType ==
  ASSUME NEW e \in Event, EventTypes, CanSend(events, EventCap),
         events' = Sent(events, e)
  PROVE  EventTypes' /\ events'.closed = events.closed /\ ~events.closed
<1>. DEFINE b == Append(events.buf, e)
<1>1. events.buf \in Seq(Event) /\ events.closed \in BOOLEAN
  BY DEF EventTypes, ChanType
<1>2. EventCap \in Nat
  BY CapAssumption
<1>3. b \in Seq(Event) /\ Len(b) = Len(events.buf) + 1
  BY <1>1
<1>4. events' = [buf |-> b, closed |-> events.closed]
  BY DEF EventTypes, ChanType, Sent
<1>. QED  BY <1>1, <1>2, <1>3, <1>4 DEF EventTypes, ChanType, CanSend

\* close() of the event channel keeps its type.
LEMMA CloseType ==
  ASSUME EventTypes, events' = Closed(events)
  PROVE  EventTypes' /\ events'.closed = TRUE
BY DEF EventTypes, ChanType, Closed

\* A receive takes an event off the channel.
LEMMA TakeType ==
  ASSUME EventTypes, HasValue(events), events' = Received(events)
  PROVE  /\ EventTypes' /\ events'.closed = events.closed
         /\ Head(events.buf) \in Event
<1>1. events.buf \in Seq(Event) /\ events.buf # <<>> /\ EventCap \in Nat
  BY CapAssumption DEF EventTypes, ChanType, HasValue
<1>2. /\ Tail(events.buf) \in Seq(Event) /\ Head(events.buf) \in Event
      /\ Len(Tail(events.buf)) <= Len(events.buf)
  BY <1>1
<1>3. events' = [buf |-> Tail(events.buf), closed |-> events.closed]
  BY DEF EventTypes, ChanType, Received
<1>. QED  BY <1>1, <1>2, <1>3 DEF EventTypes, ChanType

\* The kernel's messages never overfill the socket.
LEMMA NotifyTypes ==
  ASSUME NEW m \in Status \cup {Other}, KernelTypes, Notify(m)
  PROVE  /\ queue' \in Seq(Status \cup {Other}) /\ Len(queue') <= QueueCap
         /\ missed' \in BOOLEAN
<1>1. QueueCap \in Nat
  BY CapAssumption
<1>2. CASE sock = "open" /\ Len(queue) < QueueCap
  BY <1>1, <1>2 DEF Notify, KernelTypes
<1>3. CASE ~(sock = "open" /\ Len(queue) < QueueCap)
  BY <1>3 DEF Notify, KernelTypes
<1>. QED  BY <1>2, <1>3

\* Closing the file may take the interface away, and never brings it back.
LEMMA FileClosesTypes ==
  ASSUME KernelTypes, FileCloses, UNCHANGED changes
  PROVE  KernelTypes' /\ fileOpen' = FALSE /\ (gone => gone')
<1>1. CASE gone \/ ~fileOpen
  BY <1>1 DEF FileCloses, KernelTypes
<1>2. CASE ~gone /\ fileOpen
  <2>1. iface' \in Status /\ gone' \in BOOLEAN
    BY <1>2 DEF FileCloses, KernelTypes, Status
  <2>2. Notify(iface')
    BY <1>2 DEF FileCloses
  <2>. QED  BY <1>2, <2>1, <2>2, NotifyTypes DEF FileCloses, KernelTypes
<1>. QED  BY <1>1, <1>2 DEF FileCloses, KernelTypes

\* The types hold when the device has been created.
LEMMA TypesInit == Init => Types
<1>. SUFFICES ASSUME Init PROVE Types
  OBVIOUS
<1>1. EventCap \in Nat /\ ErrorCap \in Nat /\ QueueCap \in Nat /\ MaxChanges \in Nat
  BY CapAssumption
<1>2. <<>> \in Seq(Event) /\ <<>> \in Seq(Status \cup {Other})
  OBVIOUS
<1>3. missed \in BOOLEAN
  BY DEF Init
<1>4. iface \in Status /\ gone = FALSE /\ changes = 0 /\ queue = <<>>
  BY DEF Init
<1>5. queue \in Seq(Status \cup {Other}) /\ Len(queue) <= QueueCap
  BY <1>1, <1>2, <1>4
<1>6. changes \in 0..MaxChanges /\ gone \in BOOLEAN
  BY <1>1, <1>4, 0 \in 0..MaxChanges
<1>7. KernelTypes
  BY <1>3, <1>4, <1>5, <1>6 DEF KernelTypes
<1>8. EventTypes
  BY <1>1, <1>2 DEF Init, EventTypes, ChanType, NewChan
<1>9. DeviceTypes
  <2>1. errors \in 0..ErrorCap
    BY <1>1 DEF Init
  <2>2. /\ platform \in Platforms /\ mkPc = "setMTU" /\ sock = "open"
        /\ routeSocket = TRUE /\ fileOpen = TRUE /\ name = TRUE /\ view = FALSE
    BY DEF Init
  <2>. QED  BY <2>1, <2>2 DEF DeviceTypes
<1>10. ListenerTypes
  <2>1. /\ lsPc \in {"query", "recv"} /\ status = [up |-> FALSE, mtu |-> 0]
        /\ seen = Other /\ failed = FALSE
    BY DEF Init
  <2>2. status \in [up : BOOLEAN, mtu : 0..2]
    BY <2>1
  <2>. QED  BY <2>1, <2>2 DEF ListenerTypes
<1>11. CloseTypes /\ NamerTypes
  BY DEF Init, CloseTypes, NamerTypes
<1>. QED  BY <1>7, <1>8, <1>9, <1>10, <1>11 DEF Types

\* A part of the types whose variables a step leaves alone is kept.
LEMMA TypeFrames ==
  /\ KernelTypes /\ UNCHANGED kernelVars => KernelTypes'
  /\ DeviceTypes
     /\ UNCHANGED <<platform, mkPc, sock, routeSocket, fileOpen, name, view, errors>>
     => DeviceTypes'
  /\ EventTypes /\ UNCHANGED events => EventTypes'
  /\ ListenerTypes /\ UNCHANGED lsVars => ListenerTypes'
  /\ CloseTypes /\ UNCHANGED closeVars => CloseTypes'
  /\ NamerTypes /\ UNCHANGED namer => NamerTypes'
<1>1. KernelTypes /\ UNCHANGED kernelVars => KernelTypes'
  BY DEF KernelTypes, kernelVars
<1>2. DeviceTypes
     /\ UNCHANGED <<platform, mkPc, sock, routeSocket, fileOpen, name, view, errors>>
     => DeviceTypes'
  BY DEF DeviceTypes
<1>3. EventTypes /\ UNCHANGED events => EventTypes'
  BY DEF EventTypes
<1>4. ListenerTypes /\ UNCHANGED lsVars => ListenerTypes'
  BY DEF ListenerTypes, lsVars
<1>5. CloseTypes /\ UNCHANGED closeVars => CloseTypes'
  BY DEF CloseTypes, closeVars
<1>6. NamerTypes /\ UNCHANGED namer => NamerTypes'
  BY DEF NamerTypes
<1>. QED  BY <1>1, <1>2, <1>3, <1>4, <1>5, <1>6

\* ... and after the steps of the kernel and of ioctl.
LEMMA TypesKernel ==
  Types /\ (StatusChanges \/ OtherNews \/ Destroyed \/ SetMTUSucceeds \/ SetMTUFails)
    => Types'
<1>. SUFFICES ASSUME Types,
                     \/ StatusChanges \/ OtherNews \/ Destroyed
                     \/ SetMTUSucceeds \/ SetMTUFails
              PROVE  Types'
  OBVIOUS
<1>. USE TypeFrames DEF Types
<1>0. /\ [iface EXCEPT !.up = FALSE] \in Status
      /\ [iface EXCEPT !.mtu = 3 - @] \in Status
      /\ Other \in Status \cup {Other}
  <2>1. iface \in [up : BOOLEAN, mtu : {1, 2}]
    BY DEF KernelTypes, Status
  <2>2. 3 - iface.mtu \in {1, 2}
    BY <2>1
  <2>. QED  BY <2>1, <2>2 DEF Status
<1>1. ASSUME NEW m \in Status \cup {Other}, Notify(m),
             changes < MaxChanges, changes' = changes + 1,
             iface' \in Status, gone' \in BOOLEAN, KernelFrame
      PROVE  Types'
  <2>1. changes' \in 0..MaxChanges
    BY <1>1, CapAssumption DEF KernelTypes
  <2>2. KernelTypes'
    BY <1>1, <2>1, NotifyTypes DEF KernelTypes
  <2>. QED  BY <1>1, <2>2 DEF KernelFrame
<1>2. CASE StatusChanges
  <2>1. iface' \in Status /\ gone' \in BOOLEAN
    BY <1>2 DEF StatusChanges, KernelTypes
  <2>. QED  BY <1>1, <1>2, <2>1 DEF StatusChanges
<1>3. CASE OtherNews
  <2>1. iface' \in Status /\ gone' \in BOOLEAN
    BY <1>3 DEF OtherNews, KernelTypes
  <2>. QED  BY <1>0, <1>1, <1>3, <2>1 DEF OtherNews
<1>4. CASE Destroyed
  <2>1. iface' \in Status /\ gone' \in BOOLEAN
    BY <1>0, <1>4 DEF Destroyed
  <2>. QED  BY <1>1, <1>4, <2>1 DEF Destroyed
<1>5. CASE SetMTUSucceeds
  <2>1. KernelTypes'
    <3>1. CASE UNCHANGED <<iface, queue, missed>>
      BY <1>5, <3>1 DEF SetMTUSucceeds, KernelTypes
    <3>2. CASE /\ iface' \in {iface, [iface EXCEPT !.mtu = 3 - @]}
               /\ Notify(iface')
      <4>1. iface' \in Status
        BY <1>0, <3>2 DEF KernelTypes
      <4>. QED  BY <1>5, <3>2, <4>1, NotifyTypes DEF SetMTUSucceeds, KernelTypes
    <3>. QED  BY <1>5, <3>1, <3>2 DEF SetMTUSucceeds
  <2>2. DeviceTypes'
    BY <1>5 DEF SetMTUSucceeds, MkFrame, DeviceTypes
  <2>3. CloseTypes'
    BY <1>5 DEF SetMTUSucceeds, MkFrame, CloseTypes
  <2>. QED  BY <1>5, <2>1, <2>2, <2>3 DEF SetMTUSucceeds, MkFrame
<1>6. CASE SetMTUFails
  <2>1. DeviceTypes'
    BY <1>6 DEF SetMTUFails, MkFrame, DeviceTypes
  <2>2. CloseTypes'
    BY <1>6 DEF SetMTUFails, MkFrame, CloseTypes, AllClosers
  <2>. QED  BY <1>6, <2>1, <2>2 DEF SetMTUFails, MkFrame
<1>. QED  BY <1>2, <1>3, <1>4, <1>5, <1>6

\* ... after those of the routing socket's listener.
LEMMA TypesListener == Types /\ (Listener \/ LsReadFails) => Types'
<1>. SUFFICES ASSUME Types, Listener \/ LsReadFails PROVE Types'
  OBVIOUS
<1>. USE TypeFrames DEF Types
<1>1. CASE LsRecv
  <2>1. queue # <<>> => /\ Head(queue) \in Status \cup {Other}
                        /\ Tail(queue) \in Seq(Status \cup {Other})
                        /\ Len(Tail(queue)) <= QueueCap
    BY CapAssumption DEF KernelTypes
  <2>2. KernelTypes'
    BY <1>1, <2>1 DEF LsRecv, LsFrame, KernelTypes
  <2>3. CASE sock = "open"
    <3>1. /\ failed' = failed /\ status' = status
          /\ lsPc' \in {"recv", "query", "link"} /\ seen' \in Status \cup {Other}
          /\ lsPc' = "link" => seen' \in Status
      BY <1>1, <2>1, <2>3 DEF LsRecv, ListenerTypes
    <3>2. ListenerTypes'
      BY <3>1 DEF ListenerTypes
    <3>. QED  BY <1>1, <2>2, <3>2 DEF LsRecv, LsFrame
  <2>4. CASE sock # "open"
    <3>1. ListenerTypes'
      BY <1>1, <2>4 DEF LsRecv, Fail, ListenerTypes
    <3>. QED  BY <1>1, <2>2, <3>1 DEF LsRecv, LsFrame
  <2>. QED  BY <2>3, <2>4
<1>2. CASE LsReadFails
  <2>1. ListenerTypes'
    BY <1>2 DEF LsReadFails, Fail, ListenerTypes
  <2>. QED  BY <1>2, <2>1 DEF LsReadFails, LsFrame, kernelVars
<1>3. CASE LsQuery
  <2>1. ListenerTypes'
    BY <1>3 DEF LsQuery, Fail, ListenerTypes, KernelTypes
  <2>. QED  BY <1>3, <2>1 DEF LsQuery, LsFrame, kernelVars
<1>4. CASE LsLink
  <2>1. EventTypes'
    BY <1>4, SendType DEF LsLink, Event
  <2>2. status' \in [up : BOOLEAN, mtu : 0..2]
    BY <1>4 DEF LsLink, ListenerTypes, Status
  <2>3. ListenerTypes'
    BY <1>4, <2>2 DEF LsLink, ListenerTypes
  <2>. QED  BY <1>4, <2>1, <2>3 DEF LsLink, LsFrame, kernelVars
<1>5. CASE LsMTU
  <2>1. EventTypes'
    BY <1>5, SendType DEF LsMTU, Event
  <2>2. status' \in [up : BOOLEAN, mtu : 0..2]
    BY <1>5 DEF LsMTU, ListenerTypes, Status
  <2>3. ListenerTypes'
    BY <1>5, <2>2 DEF LsMTU, ListenerTypes
  <2>. QED  BY <1>5, <2>1, <2>3 DEF LsMTU, LsFrame, kernelVars
<1>6. CASE LsError
  <2>1. errors' \in 0..ErrorCap
    BY <1>6, CapAssumption DEF LsError, DeviceTypes
  <2>2. DeviceTypes'
    BY <1>6, <2>1 DEF LsError, LsFrame, DeviceTypes
  <2>3. ListenerTypes'
    BY <1>6 DEF LsError, ListenerTypes
  <2>. QED  BY <1>6, <2>2, <2>3 DEF LsError, LsFrame, kernelVars
<1>7. CASE LsCloseEvents
  <2>1. EventTypes'
    BY <1>7, CloseType DEF LsCloseEvents
  <2>2. ListenerTypes'
    BY <1>7 DEF LsCloseEvents, ListenerTypes
  <2>. QED  BY <1>7, <2>1, <2>2 DEF LsCloseEvents, LsFrame, kernelVars
<1>. QED  BY <1>1, <1>2, <1>3, <1>4, <1>5, <1>6, <1>7 DEF Listener

\* ... and after those of Close.
LEMMA TypesClose ==
  ASSUME Types, Close \/ \E c \in Closers : CloseCall(c)
  PROVE  Types'
<1>. USE TypeFrames DEF Types, CloseFrame
<1>1. ASSUME NEW c \in AllClosers, CloseEnter(c) \/ CloseReturn(c) \/ CloseCall(c)
      PROVE  Types'
  <2>1. CloseTypes'
    BY <1>1 DEF CloseEnter, CloseReturn, CloseCall, CloseTypes
  <2>. QED
    BY <1>1, <2>1 DEF CloseEnter, CloseReturn, CloseCall, kernelVars
<1>2. CASE CloseFile
  <2>1. KernelTypes' /\ fileOpen' = FALSE
    BY <1>2, FileClosesTypes DEF CloseFile
  <2>2. DeviceTypes'
    BY <1>2, <2>1 DEF CloseFile, DeviceTypes
  <2>3. CloseTypes'
    BY <1>2 DEF CloseFile, CloseTypes
  <2>. QED  BY <1>2, <2>1, <2>2, <2>3 DEF CloseFile
<1>3. CASE CloseDestroy
  <2>1. gone' \in BOOLEAN
    BY <1>3 DEF CloseDestroy, DestroySucceeds, DestroyFails, KernelTypes
  <2>2. KernelTypes'
    BY <1>3, <2>1 DEF CloseDestroy, KernelTypes
  <2>3. CloseTypes'
    BY <1>3 DEF CloseDestroy, DestroySucceeds, DestroyFails, CloseTypes
  <2>. QED  BY <1>3, <2>2, <2>3 DEF CloseDestroy
<1>4. CASE CloseShutdown
  <2>1. EventTypes'
    BY <1>4, CloseType DEF CloseShutdown
  <2>2. queue' \in Seq(Status \cup {Other}) /\ Len(queue') <= QueueCap
    <3>1. queue' = queue \/ queue' = <<>>
      BY <1>4 DEF CloseShutdown
    <3>2. <<>> \in Seq(Status \cup {Other}) /\ Len(<<>>) <= QueueCap
      BY CapAssumption
    <3>. QED  BY <3>1, <3>2 DEF KernelTypes
  <2>3. KernelTypes'
    BY <1>4, <2>2 DEF CloseShutdown, KernelTypes
  <2>4. DeviceTypes'
    BY <1>4 DEF CloseShutdown, DeviceTypes
  <2>5. CloseTypes'
    BY <1>4 DEF CloseShutdown, CloseTypes
  <2>. QED  BY <1>4, <2>1, <2>3, <2>4, <2>5 DEF CloseShutdown
<1>5. CASE CloseSocket
  <2>1. DeviceTypes' /\ CloseTypes'
    BY <1>5 DEF CloseSocket, DeviceTypes, CloseTypes
  <2>. QED  BY <1>5, <2>1 DEF CloseSocket, kernelVars
<1>6. CASE CloseForget
  <2>1. DeviceTypes' /\ CloseTypes'
    BY <1>6 DEF CloseForget, DeviceTypes, CloseTypes
  <2>. QED  BY <1>6, <2>1 DEF CloseForget, kernelVars
<1>. QED
  BY <1>1, <1>2, <1>3, <1>4, <1>5, <1>6 DEF Close, AllClosers

\* Name, the owner of the file and the application.
LEMMA TypesOthers ==
  ASSUME Types,
         \/ \E n \in Namers : NameCall(n) \/ NameSends(n)
         \/ OwnerClosesFile \/ TakeEvent \/ TakeError
  PROVE  Types'
<1>. USE TypeFrames DEF Types
<1>1. ASSUME NEW n \in Namers, NameCall(n) PROVE Types'
  <2>1. DeviceTypes'
    BY <1>1 DEF NameCall, NameFrame, DeviceTypes
  <2>2. NamerTypes'
    BY <1>1 DEF NameCall, NamerTypes
  <2>. QED  BY <1>1, <2>1, <2>2 DEF NameCall, NameFrame
<1>2. ASSUME NEW n \in Namers, NameSends(n) PROVE Types'
  <2>1. errors' \in 0..ErrorCap
    BY <1>2, CapAssumption DEF NameSends, DeviceTypes
  <2>2. name' \in BOOLEAN
    BY <1>2 DEF NameSends
  <2>3. DeviceTypes'
    BY <1>2, <2>1, <2>2 DEF NameSends, NameFrame, DeviceTypes
  <2>4. NamerTypes'
    BY <1>2 DEF NameSends, NamerTypes
  <2>. QED  BY <1>2, <2>3, <2>4 DEF NameSends, NameFrame
<1>3. CASE OwnerClosesFile
  <2>1. KernelTypes' /\ fileOpen' = FALSE
    BY <1>3, FileClosesTypes DEF OwnerClosesFile
  <2>2. DeviceTypes'
    BY <1>3, <2>1 DEF OwnerClosesFile, DeviceTypes
  <2>. QED  BY <1>3, <2>1, <2>2 DEF OwnerClosesFile
<1>4. CASE TakeEvent
  <2>1. EventTypes'
    BY <1>4, TakeType DEF TakeEvent
  <2>2. view' \in BOOLEAN
    BY <1>4 DEF TakeEvent, DeviceTypes
  <2>3. DeviceTypes'
    BY <1>4, <2>2 DEF TakeEvent, DeviceTypes
  <2>. QED  BY <1>4, <2>1, <2>3 DEF TakeEvent
<1>5. CASE TakeError
  <2>1. errors' \in 0..ErrorCap
    BY <1>5, CapAssumption DEF TakeError, DeviceTypes
  <2>2. DeviceTypes'
    BY <1>5, <2>1 DEF TakeError, DeviceTypes
  <2>. QED  BY <1>5, <2>2 DEF TakeError
<1>. QED  BY <1>1, <1>2, <1>3, <1>4, <1>5
-----------------------------------------------------------------------------
(***************************************************************************)
(* Who closes the event channel, and what Close has destroyed.             *)
(***************************************************************************)

\* What a step does to the variables the two invariants speak of: most steps
\* take nothing back.
LEMMA QuietKeeps ==
  ASSUME OneClosesEvents, DestroyAccounted,
         UNCHANGED <<platform, routeSocket, closePc, closeErrs, lsPc>>,
         events'.closed = events.closed,
         gone => gone', failed => failed'
  PROVE  OneClosesEvents' /\ DestroyAccounted'
BY DEF OneClosesEvents, DestroyAccounted

\* What others than the listener and Close do closes nothing.
LEMMA AccountsKernel ==
  ASSUME IndInv,
         \/ StatusChanges \/ OtherNews \/ Destroyed \/ SetMTUSucceeds \/ SetMTUFails
         \/ \E n \in Namers : NameCall(n) \/ NameSends(n)
         \/ OwnerClosesFile \/ TakeEvent \/ TakeError
  PROVE  OneClosesEvents' /\ DestroyAccounted'
<1>. USE DEF lsVars, closeVars, kernelVars, IndInv, Types
<1>1. CASE StatusChanges \/ OtherNews \/ Destroyed
  BY <1>1, QuietKeeps DEF StatusChanges, OtherNews, Destroyed, KernelFrame
<1>2. CASE SetMTUSucceeds \/ SetMTUFails
  BY <1>2, QuietKeeps DEF SetMTUSucceeds, SetMTUFails, MkFrame
<1>3. ASSUME NEW n \in Namers, NameCall(n) \/ NameSends(n)
      PROVE  OneClosesEvents' /\ DestroyAccounted'
  BY <1>3, QuietKeeps DEF NameCall, NameSends, NameFrame
<1>4. CASE OwnerClosesFile
  <2>1. gone => gone'
    BY <1>4, FileClosesTypes DEF OwnerClosesFile
  <2>. QED  BY <1>4, <2>1, QuietKeeps DEF OwnerClosesFile
<1>5. CASE TakeEvent
  <2>1. events'.closed = events.closed
    BY <1>5, TakeType DEF TakeEvent
  <2>. QED  BY <1>5, <2>1, QuietKeeps DEF TakeEvent
<1>6. CASE TakeError
  BY <1>6, QuietKeeps DEF TakeError
<1>. QED  BY <1>1, <1>2, <1>3, <1>4, <1>5, <1>6

\* The listener closes the event channel on its way out, after an error.
LEMMA AccountsListener ==
  ASSUME IndInv, Listener \/ LsReadFails
  PROVE  OneClosesEvents' /\ DestroyAccounted'
<1>. USE DEF LsFrame, closeVars, IndInv, Types, OneClosesEvents
<1>1. DestroyAccounted'
  BY DEF Listener, LsRecv, LsReadFails, LsQuery, LsLink, LsMTU, LsError,
     LsCloseEvents, DestroyAccounted
<1>2. CASE LsRecv \/ LsReadFails \/ LsQuery \/ LsError
  BY <1>1, <1>2 DEF LsRecv, LsReadFails, LsQuery, LsError, Fail
<1>3. CASE LsLink
  <2>1. events'.closed = events.closed
    BY <1>3, SendType DEF LsLink, Event
  <2>. QED  BY <1>1, <1>3, <2>1 DEF LsLink
<1>4. CASE LsMTU
  <2>1. events'.closed = events.closed
    BY <1>4, SendType DEF LsMTU, Event
  <2>. QED  BY <1>1, <1>4, <2>1 DEF LsMTU
<1>5. CASE LsCloseEvents
  <2>1. events'.closed = TRUE
    BY <1>5, CloseType DEF LsCloseEvents
  <2>. QED  BY <1>1, <1>5, <2>1 DEF LsCloseEvents
<1>. QED  BY <1>2, <1>3, <1>4, <1>5 DEF Listener

\* Close destroys the interface, or its caller is told that it did not.
LEMMA AccountsClose ==
  ASSUME IndInv, Close \/ \E c \in Closers : CloseCall(c)
  PROVE  OneClosesEvents' /\ DestroyAccounted'
<1>. USE DEF CloseFrame, lsVars, IndInv, Types, OneClosesEvents, DestroyAccounted,
         PastDestroy
<1>1. ASSUME NEW c \in AllClosers, CloseEnter(c) \/ CloseReturn(c) \/ CloseCall(c)
      PROVE  OneClosesEvents' /\ DestroyAccounted'
  BY <1>1 DEF CloseEnter, CloseReturn, CloseCall
<1>2. CASE CloseFile
  BY <1>2 DEF CloseFile
<1>3. CASE CloseDestroy
  BY <1>3 DEF CloseDestroy, DestroySucceeds, DestroyFails
<1>4. CASE CloseShutdown
  \* The socket is there: the branch that closes the channel is not taken.
  <2>1. routeSocket
    BY <1>4 DEF CloseShutdown
  <2>. QED  BY <1>4, <2>1 DEF CloseShutdown
<1>5. CASE CloseSocket
  BY <1>5 DEF CloseSocket
<1>6. CASE CloseForget
  BY <1>6 DEF CloseForget
<1>. QED
  BY <1>1, <1>2, <1>3, <1>4, <1>5, <1>6 DEF Close, AllClosers

\* What others than Close, and the creator who calls it, do is no matter of who
\* has to return its errors.
LEMMA OwnerFrame ==
  ASSUME NotYetClosed, OwnerTells, UNCHANGED <<mkPc, closeVars>>
  PROVE  NotYetClosed' /\ OwnerTells'
BY DEF NotYetClosed, OwnerTells, closeVars

LEMMA OwnerOthers ==
  ASSUME NotYetClosed, OwnerTells, Next,
         ~(Close \/ \E c \in Closers : CloseCall(c))
  PROVE  NotYetClosed' /\ OwnerTells'
<1>1. CASE StatusChanges \/ OtherNews \/ Destroyed
  BY <1>1, OwnerFrame DEF StatusChanges, OtherNews, Destroyed, KernelFrame
<1>2. CASE SetMTUSucceeds \/ SetMTUFails
  <2>1. mkPc = "setMTU" /\ mkPc' # "setMTU" /\ closePc' = closePc
    BY <1>2 DEF SetMTUSucceeds, SetMTUFails, MkFrame
  <2>. QED  BY <2>1 DEF NotYetClosed, OwnerTells
<1>3. CASE Listener \/ LsReadFails
  BY <1>3, OwnerFrame DEF Listener, LsRecv, LsReadFails, LsQuery, LsLink, LsMTU,
     LsError, LsCloseEvents, LsFrame
<1>4. CASE \E n \in Namers : NameCall(n) \/ NameSends(n)
  BY <1>4, OwnerFrame DEF NameCall, NameSends, NameFrame
<1>5. CASE OwnerClosesFile \/ TakeEvent \/ TakeError
  BY <1>5, OwnerFrame DEF OwnerClosesFile, TakeEvent, TakeError
<1>. QED  BY <1>1, <1>2, <1>3, <1>4, <1>5 DEF Next

\* One call enters closeOnce, and keeps its errors until it returns them.
LEMMA OwnerClose ==
  ASSUME IndInv, Close \/ \E c \in Closers : CloseCall(c)
  PROVE  NotYetClosed' /\ OwnerTells'
<1>. USE DEF IndInv
<1>0. closer \in [AllClosers -> {"idle", "called", "owner", "nil", "error"}]
  BY DEF Types, CloseTypes
<1>1. mkPc' = mkPc
  BY DEF Close, CloseCall, CloseEnter, CloseReturn, CloseFile, CloseDestroy,
     CloseShutdown, CloseSocket, CloseForget, CloseFrame
<1>2. ASSUME NEW c \in AllClosers, CloseCall(c)
      PROVE  NotYetClosed' /\ OwnerTells'
  <2>1. mkPc = "made" /\ closer[c] = "idle" /\ UNCHANGED <<closePc, closeErrs>>
        /\ \A d \in AllClosers : d # c => closer'[d] = closer[d]
    BY <1>0, <1>2 DEF CloseCall
  <2>2. NotYetClosed'
    BY <1>1, <2>1 DEF NotYetClosed
  <2>3. OwnerTells'
    BY <2>1 DEF OwnerTells
  <2>. QED  BY <2>2, <2>3
<1>3. ASSUME NEW c \in AllClosers, CloseEnter(c)
      PROVE  NotYetClosed' /\ OwnerTells'
  BY <1>0, <1>1, <1>3 DEF CloseEnter, NotYetClosed, OwnerTells
<1>4. ASSUME NEW c \in AllClosers, CloseReturn(c)
      PROVE  NotYetClosed' /\ OwnerTells'
  <2>1. /\ closer[c] \in {"called", "owner"} /\ closePc = "done"
        /\ UNCHANGED <<closePc, closeErrs>>
        /\ \A d \in AllClosers : d # c => closer'[d] = closer[d]
        /\ closer[c] = "owner" /\ closeErrs # {} => closer'[c] = "error"
    BY <1>0, <1>4 DEF CloseReturn
  <2>2. NotYetClosed'
    BY <1>1, <2>1 DEF NotYetClosed
  <2>3. OwnerTells'
    BY <2>1 DEF OwnerTells
  <2>. QED  BY <2>2, <2>3
<1>5. CASE CloseFile \/ CloseDestroy \/ CloseShutdown \/ CloseSocket \/ CloseForget
  <2>1. closePc \notin {"new", "done"} /\ UNCHANGED closer
    BY <1>5 DEF CloseFile, CloseDestroy, CloseShutdown, CloseSocket, CloseForget
  <2>2. \E c \in AllClosers : closer[c] = "owner"
    BY <2>1 DEF OwnerTells
  <2>. QED  BY <1>1, <2>1, <2>2 DEF NotYetClosed, OwnerTells
<1>. QED
  BY <1>2, <1>3, <1>4, <1>5 DEF Close, AllClosers

\* The inductive invariant holds of every behaviour.
LEMMA Inductive == Spec => []IndInv
<1>1. Init => IndInv
  <2>1. Init => OneClosesEvents /\ DestroyAccounted
    BY DEF Init, OneClosesEvents, DestroyAccounted, PastDestroy, NewChan
  <2>2. Init => NotYetClosed /\ OwnerTells
    BY DEF Init, NotYetClosed, OwnerTells
  <2>. QED  BY <2>1, <2>2, TypesInit DEF IndInv
<1>2. IndInv /\ [Next]_vars => IndInv'
  <2>. SUFFICES ASSUME IndInv, [Next]_vars PROVE IndInv'
    OBVIOUS
  <2>1. CASE Next
    <3>1. Types'
      BY <2>1, TypesKernel, TypesListener, TypesClose, TypesOthers
         DEF Next, IndInv
    <3>2. OneClosesEvents' /\ DestroyAccounted'
      BY <2>1, AccountsKernel, AccountsListener, AccountsClose DEF Next
    <3>3. NotYetClosed' /\ OwnerTells'
      BY <2>1, OwnerOthers, OwnerClose DEF IndInv
    <3>. QED  BY <3>1, <3>2, <3>3 DEF IndInv
  <2>2. CASE UNCHANGED vars
    <3>1. Types'
      BY <2>2, TypeFrames DEF IndInv, Types, vars
    <3>2. NotYetClosed' /\ OwnerTells'
      BY <2>2, OwnerFrame DEF IndInv, vars
    <3>. QED
      BY <2>2, <3>1, <3>2, QuietKeeps
         DEF IndInv, vars, lsVars, closeVars, kernelVars
  <2>. QED  BY <2>1, <2>2
<1>. QED  BY <1>1, <1>2, PTL DEF Spec

\* Close of tun_freebsd.go destroys the interface or tells a caller that it did
\* not: whether tunDestroy gets no socket, the system refuses, or a Name call on
\* the closed file has emptied tun.name in between; and no call or message takes
\* a variable out of its type.
THEOREM DestroyedOrToldSo == Spec => []DestroyInv
<1>1. Types => TypeOK
  BY DEF Types, KernelTypes, DeviceTypes, EventTypes, ListenerTypes, CloseTypes,
     NamerTypes, TypeOK
<1>2. DestroyAccounted /\ OwnerTells => DestroyedOrReported
  <2>. SUFFICES ASSUME DestroyAccounted, OwnerTells, platform = "freebsd",
                       closePc = "done", closer[Creator] = "idle", ~gone
                PROVE  \E c \in Closers : closer[c] \in {"owner", "error"}
    BY DEF DestroyedOrReported
  <2>1. closeErrs # {}
    BY DEF DestroyAccounted, PastDestroy
  <2>2. PICK c \in AllClosers : closer[c] \in {"owner", "error"}
    BY <2>1 DEF OwnerTells
  <2>3. c \in Closers
    BY <2>2 DEF AllClosers
  <2>. QED  BY <2>2, <2>3
<1>. QED  BY <1>1, <1>2, Inductive, PTL DEF IndInv, DestroyInv

\* The event channel of a device with a route socket is closed by its listener
\* alone, after an error: when Close comes to tun.routeSocket the descriptor is
\* still there, so its own close(tun.events) is never the second one.
THEOREM ListenerClosesEvents == Spec => []OneClosesEvents
BY Inductive, PTL DEF IndInv
-----------------------------------------------------------------------------
(***************************************************************************)
(* The event channel implements EventStream.                               *)
(***************************************************************************)

\* A new device has an empty, open event stream.
LEMMA StreamInit == Init => Stream!Init
BY DEF Init, Stream!Init, NewChan, Stream!NewChan

\* A step that leaves the channel alone and does not take back the end of the
\* stream is a stuttering step or End.
LEMMA QuietStep ==
  ASSUME UNCHANGED events, closePc # "new" => closePc' # "new", failed => failed'
  PROVE  [Stream!Next]_(Stream!vars)
<1>1. CASE closePc' # "new" \/ failed'
  BY <1>1 DEF Stream!Next, Stream!End
<1>2. CASE ~(closePc' # "new" \/ failed')
  BY <1>2 DEF Stream!vars
<1>. QED  BY <1>1, <1>2

\* A send that the channel has room for is an emission of the event stream.
LEMMA EmitStep ==
  ASSUME NEW e \in Event, CanSend(events, EventCap), events' = Sent(events, e),
         UNCHANGED <<closePc, failed>>
  PROVE  Stream!Next
BY DEF Stream!Next, Stream!Emit, CanSend, Stream!CanSend, Sent, Stream!Sent

\* Every step of the device is a step of the event stream or none.
LEMMA StreamStep == IndInv /\ [Next]_vars => [Stream!Next]_(Stream!vars)
<1>. SUFFICES ASSUME IndInv, [Next]_vars
              PROVE  [Stream!Next]_(Stream!vars)
  OBVIOUS
<1>. USE DEF lsVars, closeVars
<1>1. CASE StatusChanges \/ OtherNews \/ Destroyed
  BY <1>1, QuietStep DEF StatusChanges, OtherNews, Destroyed, KernelFrame
<1>2. CASE SetMTUSucceeds \/ SetMTUFails
  BY <1>2, QuietStep DEF SetMTUSucceeds, SetMTUFails, MkFrame
<1>3. CASE LsRecv \/ LsReadFails \/ LsQuery \/ LsError
  BY <1>3, QuietStep DEF LsRecv, LsReadFails, LsQuery, LsError, Fail, LsFrame
<1>4. CASE LsLink
  BY <1>4, QuietStep, EmitStep DEF LsLink, LsFrame, Event
<1>5. CASE LsMTU
  BY <1>5, QuietStep, EmitStep DEF LsMTU, LsFrame, Event
<1>6. CASE LsCloseEvents
  <2>1. failed /\ ~events.closed
    BY <1>6 DEF IndInv, OneClosesEvents, LsCloseEvents, Types, EventTypes, ChanType
  <2>. QED
    BY <1>6, <2>1 DEF LsCloseEvents, LsFrame, Stream!Next, Stream!Finish, Closed,
       Stream!Closed
<1>7. CASE Close \/ \E c \in Closers : CloseCall(c)
  <2>1. CASE CloseShutdown
    <3>1. routeSocket
      BY <2>1 DEF CloseShutdown, IndInv, OneClosesEvents
    <3>. QED  BY <2>1, <3>1, QuietStep DEF CloseShutdown, CloseFrame
  <2>2. ASSUME NEW c \in AllClosers,
               CloseEnter(c) \/ CloseReturn(c) \/ CloseCall(c)
        PROVE  [Stream!Next]_(Stream!vars)
    BY <2>2, QuietStep DEF CloseEnter, CloseReturn, CloseCall, CloseFrame
  <2>3. CASE CloseFile \/ CloseDestroy \/ CloseSocket \/ CloseForget
    BY <2>3, QuietStep DEF CloseFile, CloseDestroy, CloseSocket, CloseForget,
       CloseFrame
  <2>. QED  BY <1>7, <2>1, <2>2, <2>3 DEF Close, AllClosers
<1>8. ASSUME NEW n \in Namers, NameCall(n) \/ NameSends(n)
      PROVE  [Stream!Next]_(Stream!vars)
  BY <1>8, QuietStep DEF NameCall, NameSends, NameFrame
<1>9. CASE TakeEvent
  BY <1>9 DEF TakeEvent, Stream!Next, Stream!Take, HasValue, Received,
     Stream!HasValue, Stream!Received
<1>10. CASE OwnerClosesFile \/ TakeError \/ UNCHANGED vars
  BY <1>10, QuietStep DEF OwnerClosesFile, TakeError, vars
<1>. QED
  BY <1>1, <1>2, <1>3, <1>4, <1>5, <1>6, <1>7, <1>8, <1>9, <1>10
     DEF Next, Listener

\* What the application sees of the device on all three systems is a stream of
\* events that is closed once, only after Close was called or the listener met
\* an error, with nothing sent after that.
THEOREM ImplementsEventStream == Spec => StreamSpec
BY StreamInit, StreamStep, Inductive, PTL DEF Spec, StreamSpec, Stream!Spec
=============================================================================
