------------------------------ MODULE LinuxTun ------------------------------
(***************************************************************************)
(* The life of a NativeTun of tun_linux.go: the two goroutines that watch  *)
(* the link (routineNetlinkListener and routineHackListener), the creation *)
(* that starts them, concurrent Read and Close calls, the reader of the    *)
(* Events channel, and the kernel behind the descriptors.                  *)
(*                                                                         *)
(* One action is one step between two points where another goroutine can   *)
(* interleave: a channel operation, a system call, a mutex operation.      *)
(* Packet contents and the write path are not part of this module.         *)
(***************************************************************************)
EXTENDS GoChan, RWCancel, FiniteSets

CONSTANTS Readers,          \* goroutines that call Read
          Closers,          \* goroutines that call Close
          EventCap,         \* capacity of tun.events (5 in the code)
          ErrorCap,         \* capacity of tun.errors (5 in the code)
          QueueCap,         \* datagrams the netlink socket can hold
          MsgsPerDatagram,  \* netlink messages the kernel puts in a datagram
          MaxChanges,       \* bound: link changes the kernel makes; 0 for none
          MaxPackets        \* bound: packets waiting in the device

ASSUME CapAssumption == /\ EventCap \in Nat \ {0}
                        /\ ErrorCap \in Nat \ {0}
                        /\ QueueCap \in Nat \ {0}
                        /\ MsgsPerDatagram \in Nat \ {0}
ASSUME BoundAssumption == MaxChanges \in Nat /\ MaxPackets \in Nat

Event == {"Up", "Down", "MTUUpdate"}

\* What parseNetlinkEvents tells apart in a message: RTM_NEWLINK of this
\* interface with or without IFF_RUNNING, NLMSG_DONE, and anything it skips.
Message == {"running", "stopped", "done", "other"}

VARIABLES
  monitored,   \* made by CreateTUNFromFile, not CreateUnmonitoredTUNFromFD
  mkPc,        \* progress of the creating call
  device,      \* the interface in the kernel
  changes,     \* link changes made so far
  packets,     \* packets the device has for Read
  queue,       \* datagrams in the netlink socket
  overrun,     \* the socket dropped a message; its next receive fails
  sockCloses,  \* number of unix.Close(tun.netlinkSock) calls
  pipe,        \* the pipe of tun.netlinkCancel
  shutdown,    \* tun.statusListenersShutdown is closed
  events,      \* tun.events
  errors,      \* number of errors in tun.errors
  hackLock,    \* tun.hackListenerClosed is locked
  fileOpen,    \* tun.tunFile is open
  nlPc, nlMsgs, nlOut, everUp,   \* netlink listener: messages of the current
                                 \* datagram, events to send, wasEverUp
  hkPc, hkLast, hkOut,           \* hack listener: last, and the event to send
  closePc, closer, closeErrs,    \* closeOnce, the Close calls, their errors
  readMu, rdPc,                  \* readOpMu is locked, and the Read calls
  view                           \* the last Up or Down the application took

kernelVars == <<device, changes, packets, queue, overrun>>
nlVars == <<nlPc, nlMsgs, nlOut, everUp>>
hkVars == <<hkPc, hkLast, hkOut>>
closeVars == <<closePc, closer, closeErrs, shutdown>>
readVars == <<readMu, rdPc>>
vars == <<monitored, mkPc, kernelVars, sockCloses, pipe, events, errors,
          hackLock, fileOpen, nlVars, hkVars, closeVars, readVars, view>>

NlPcs == {"none", "recv", "ready", "poll", "check", "parse", "send", "error",
          "closeSock", "lock", "closeEvents", "closeReader", "closeWriter",
          "done"}
HkPcs == {"none", "probe", "send", "wait", "unlock", "done"}
ClosePcs == {"new", "listeners", "cancel", "file", "done"}
RdPcs == {"idle", "lock", "select", "file", "unlock"}

Init ==
  /\ monitored \in BOOLEAN
  /\ mkPc = IF monitored THEN "setMTU" ELSE "made"
  /\ device \in {"up", "down"}
  /\ changes = 0 /\ packets = 0
  /\ queue = <<>> /\ overrun = FALSE
  /\ sockCloses = 0 /\ pipe = NewPipe
  /\ events = NewChan /\ errors = 0
  /\ hackLock = monitored
  /\ fileOpen = TRUE
  /\ nlPc = IF monitored THEN "recv" ELSE "none"
  /\ nlMsgs = <<>> /\ nlOut = <<>> /\ everUp = FALSE
  /\ hkPc = IF monitored THEN "probe" ELSE "none"
  /\ hkLast = "none" /\ hkOut = "Up"
  /\ closePc = "new" /\ shutdown = FALSE
  /\ closer = [c \in Closers |-> "idle"] /\ closeErrs = {}
  /\ readMu = FALSE /\ rdPc = [r \in Readers |-> "idle"]
  /\ view = "none"
-----------------------------------------------------------------------------
(***************************************************************************)
(* The kernel.                                                             *)
(***************************************************************************)

\* The socket object lives until it is closed and no poll refers to it.
Listening == monitored /\ (sockCloses = 0 \/ nlPc = "poll")

\* The kernel multicasts m: as a datagram of its own or, in a socket that has
\* not been read since, at the end of the last one.  A full socket drops it.
Notify(m) ==
  IF ~Listening THEN UNCHANGED <<queue, overrun>>
  ELSE \/ /\ Len(queue) < QueueCap
          /\ queue' = Append(queue, <<m>>)
          /\ UNCHANGED overrun
       \/ /\ queue # <<>>
          /\ Len(queue[Len(queue)]) < MsgsPerDatagram
          /\ queue' = [queue EXCEPT ![Len(queue)] = Append(@, m)]
          /\ UNCHANGED overrun
       \/ /\ Len(queue) = QueueCap
          /\ overrun' = TRUE
          /\ UNCHANGED queue

\* Without a bound changes are not counted, and are as many as the kernel likes.
Counted == IF MaxChanges = 0 THEN UNCHANGED changes
           ELSE changes < MaxChanges /\ changes' = changes + 1

LinkChange(d, m) ==
  /\ Counted
  /\ device # "gone"
  /\ device' = d
  /\ Notify(m)
  /\ packets' = IF d = "gone" THEN 0 ELSE packets
  /\ UNCHANGED <<monitored, mkPc, sockCloses, pipe, events, errors, hackLock,
                 fileOpen, nlVars, hkVars, closeVars, readVars, view>>

LinkUp == device = "down" /\ LinkChange("up", "running")
LinkDown == device = "up" /\ LinkChange("down", "stopped")

\* An MTU or other attribute change: RTM_NEWLINK with the current flags.
LinkMTU == LinkChange(device, IF device = "up" THEN "running" ELSE "stopped")

\* RTM_DELLINK, an address change, or a message of another interface.
LinkGone == LinkChange("gone", "other")
OtherNews == \E m \in {"other", "done"} : LinkChange(device, m)

PacketArrives ==
  /\ device = "up" /\ packets < MaxPackets
  /\ packets' = packets + 1
  /\ UNCHANGED <<monitored, mkPc, device, changes, queue, overrun, sockCloses,
                 pipe, events, errors, hackLock, fileOpen, nlVars, hkVars,
                 closeVars, readVars, view>>

\* The caller closes the *os.File it passed in, or got from File().
OwnerClosesFile ==
  /\ fileOpen
  /\ fileOpen' = FALSE
  /\ UNCHANGED <<monitored, mkPc, kernelVars, sockCloses, pipe, events, errors,
                 hackLock, nlVars, hkVars, closeVars, readVars, view>>
-----------------------------------------------------------------------------
(***************************************************************************)
(* CreateTUNFromFile, from the point where both goroutines run.  setMTU    *)
(* can fail, and then the socket is closed under the netlink listener.     *)
(***************************************************************************)

MkDone(pc, n) ==
  /\ mkPc = "setMTU"
  /\ mkPc' = pc
  /\ sockCloses' = sockCloses + n
  /\ UNCHANGED <<monitored, kernelVars, pipe, events, errors, hackLock,
                 fileOpen, nlVars, hkVars, closeVars, readVars, view>>

SetMTUSucceeds == MkDone("made", 0)
SetMTUFails == MkDone("failed", 1)
-----------------------------------------------------------------------------
(***************************************************************************)
(* routineNetlinkListener.                                                 *)
(***************************************************************************)

NlFrame == /\ UNCHANGED <<monitored, mkPc, device, changes, packets, fileOpen,
                          hkVars, closeVars, readVars, view>>

\* Recvmsg on the non-blocking socket.  A pending overrun (ENOBUFS) or a closed
\* socket (EBADF) is not retried; an empty socket (EAGAIN) is polled.
NlRecv ==
  /\ nlPc = "recv"
  /\ overrun' = (overrun /\ sockCloses > 0)
  /\ IF sockCloses > 0 \/ overrun
     THEN nlPc' = "error" /\ UNCHANGED <<queue, nlMsgs>>
     ELSE IF queue = <<>>
     THEN nlPc' = "ready" /\ UNCHANGED <<queue, nlMsgs>>
     ELSE nlPc' = "check" /\ nlMsgs' = Head(queue) /\ queue' = Tail(queue)
  /\ UNCHANGED <<sockCloses, pipe, events, errors, hackLock, nlOut, everUp>>
  /\ NlFrame

\* ReadyRead enters poll; a descriptor that is closed already is reported.
NlPoll ==
  /\ nlPc = "ready"
  /\ nlPc' = IF sockCloses = 0 THEN "poll" ELSE "recv"
  /\ UNCHANGED <<queue, overrun, sockCloses, pipe, events, errors, hackLock,
                 nlMsgs, nlOut, everUp>>
  /\ NlFrame

NlPollReturns ==
  LET fdReady == queue # <<>> \/ overrun IN
  /\ nlPc = "poll"
  /\ PollReturns(pipe, fdReady)
  /\ nlPc' = IF Ready(pipe, fdReady) THEN "recv" ELSE "error"
  /\ UNCHANGED <<queue, overrun, sockCloses, pipe, events, errors, hackLock,
                 nlMsgs, nlOut, everUp>>
  /\ NlFrame

\* The select on statusListenersShutdown; wasEverUp starts over with every
\* datagram.
NlCheck ==
  /\ nlPc = "check"
  /\ IF shutdown
     THEN nlPc' = "closeSock" /\ nlMsgs' = <<>> /\ UNCHANGED everUp
     ELSE nlPc' = "parse" /\ everUp' = FALSE /\ UNCHANGED nlMsgs
  /\ UNCHANGED <<queue, overrun, sockCloses, pipe, events, errors, hackLock,
                 nlOut>>
  /\ NlFrame

\* parseNetlinkEvents for one message: every message of the interface is an
\* MTU update too, and a stopped link is Down only after an Up in the datagram.
MessageEvents(m, ever) ==
  CASE m = "running" -> <<"Up", "MTUUpdate">>
    [] m = "stopped" -> IF ever THEN <<"Down", "MTUUpdate">>
                                ELSE <<"MTUUpdate">>
    [] OTHER         -> <<>>

\* The parser is pure, so it runs one message ahead of the sends here.
NlParse ==
  /\ nlPc = "parse"
  /\ IF nlMsgs = <<>>
     THEN nlPc' = "recv" /\ UNCHANGED <<nlMsgs, nlOut, everUp>>
     ELSE LET m == Head(nlMsgs) IN
          /\ nlMsgs' = IF m = "done" THEN <<>> ELSE Tail(nlMsgs)
          /\ nlOut' = MessageEvents(m, everUp)
          /\ everUp' = (everUp \/ m = "running")
          /\ nlPc' = IF nlOut' = <<>> THEN "parse" ELSE "send"
  /\ UNCHANGED <<queue, overrun, sockCloses, pipe, events, errors, hackLock>>
  /\ NlFrame

\* Mistake: the send forgets that the channel is bounded.
NlSendUnbounded ==
  /\ nlPc = "send"
  /\ ~events.closed
  /\ events' = Sent(events, Head(nlOut))
  /\ nlOut' = Tail(nlOut)
  /\ nlPc' = IF nlOut' = <<>> THEN "parse" ELSE "send"
  /\ UNCHANGED <<queue, overrun, sockCloses, pipe, errors, hackLock, nlMsgs,
                 everUp>>
  /\ NlFrame

NlSend ==
  /\ nlPc = "send"
  /\ CanSend(events, EventCap)
  /\ events' = Sent(events, Head(nlOut))
  /\ nlOut' = Tail(nlOut)
  /\ nlPc' = IF nlOut' = <<>> THEN "parse" ELSE "send"
  /\ UNCHANGED <<queue, overrun, sockCloses, pipe, errors, hackLock, nlMsgs,
                 everUp>>
  /\ NlFrame

NlError ==
  /\ nlPc = "error"
  /\ errors < ErrorCap
  /\ errors' = errors + 1
  /\ nlPc' = "closeSock"
  /\ UNCHANGED <<queue, overrun, sockCloses, pipe, events, hackLock, nlMsgs,
                 nlOut, everUp>>
  /\ NlFrame

\* The deferred function.
NlCloseSock ==
  /\ nlPc = "closeSock"
  /\ nlPc' = "lock"
  /\ sockCloses' = sockCloses + 1
  /\ queue' = <<>> /\ overrun' = FALSE
  /\ UNCHANGED <<pipe, events, errors, hackLock, nlMsgs, nlOut,
                 everUp>>
  /\ NlFrame

\* Mistake: the event channel is closed without waiting for the hack listener.
NlLockSkipped ==
  /\ nlPc = "lock"
  /\ nlPc' = "closeEvents"
  /\ UNCHANGED <<hackLock, queue, overrun, sockCloses, pipe, events, errors,
                 nlMsgs, nlOut, everUp>>
  /\ NlFrame

\* hackListenerClosed was locked for the hack listener before it started.
NlLock ==
  /\ nlPc = "lock" /\ ~hackLock
  /\ nlPc' = "closeEvents"
  /\ hackLock' = TRUE
  /\ UNCHANGED <<queue, overrun, sockCloses, pipe, events, errors, nlMsgs,
                 nlOut, everUp>>
  /\ NlFrame

NlCloseEvents ==
  /\ nlPc = "closeEvents" /\ ~events.closed
  /\ nlPc' = "closeReader"
  /\ events' = Closed(events)
  /\ UNCHANGED <<queue, overrun, sockCloses, pipe, errors, hackLock, nlMsgs,
                 nlOut, everUp>>
  /\ NlFrame

NlClosePipe(pc, next, p) ==
  /\ nlPc = pc
  /\ nlPc' = next
  /\ pipe' = p
  /\ UNCHANGED <<queue, overrun, sockCloses, events, errors, hackLock, nlMsgs,
                 nlOut, everUp>>
  /\ NlFrame

NlCloseReader == NlClosePipe("closeReader", "closeWriter", CloseReader(pipe))
NlCloseWriter == NlClosePipe("closeWriter", "done", CloseWriter(pipe))

NlNext == \/ NlRecv \/ NlPoll \/ NlPollReturns \/ NlCheck \/ NlParse \/ NlSend
          \/ NlError \/ NlCloseSock \/ NlLock \/ NlCloseEvents
          \/ NlCloseReader \/ NlCloseWriter
-----------------------------------------------------------------------------
(***************************************************************************)
(* routineHackListener.                                                    *)
(***************************************************************************)

HkFrame == /\ UNCHANGED <<monitored, mkPc, kernelVars, sockCloses, pipe, errors,
                          fileOpen, nlVars, closeVars, readVars, view>>

\* The event a probe of the device calls for, by the error of the empty write.
ProbeEvent == IF device = "up" THEN "Up" ELSE "Down"


\* A probe fails on a closed file and on a device that is gone.
HkProbe ==
  /\ hkPc = "probe"
  /\ IF ~fileOpen \/ device = "gone"
     THEN hkPc' = "unlock" /\ UNCHANGED hkOut
     ELSE /\ hkOut' = ProbeEvent
          /\ hkPc' = IF hkLast = ProbeEvent THEN "wait" ELSE "send"
  /\ UNCHANGED <<events, hackLock, hkLast>>
  /\ HkFrame

\* Mistake: a full channel makes room by forgetting its oldest event.
HkSendLatest ==
  /\ hkPc = "send"
  /\ ~events.closed
  /\ events' = IF Len(events.buf) < EventCap THEN Sent(events, hkOut)
               ELSE Sent(Received(events), hkOut)
  /\ hkLast' = hkOut
  /\ hkPc' = "wait"
  /\ UNCHANGED <<hackLock, hkOut>>
  /\ HkFrame

HkSend ==
  /\ hkPc = "send"
  /\ CanSend(events, EventCap)
  /\ events' = Sent(events, hkOut)
  /\ hkLast' = hkOut
  /\ hkPc' = "wait"
  /\ UNCHANGED <<hackLock, hkOut>>
  /\ HkFrame

\* select: the timer and the shutdown may both be ready, and either is taken.
HkTick ==
  /\ hkPc = "wait"
  /\ hkPc' = "probe"
  /\ UNCHANGED <<events, hackLock, hkLast, hkOut>>
  /\ HkFrame

HkShutdown ==
  /\ hkPc = "wait" /\ shutdown
  /\ hkPc' = "unlock"
  /\ UNCHANGED <<events, hackLock, hkLast, hkOut>>
  /\ HkFrame

HkUnlock ==
  /\ hkPc = "unlock" /\ hackLock
  /\ hkPc' = "done"
  /\ hackLock' = FALSE
  /\ UNCHANGED <<events, hkLast, hkOut>>
  /\ HkFrame

HkNext == HkProbe \/ HkSend \/ HkTick \/ HkShutdown \/ HkUnlock
-----------------------------------------------------------------------------
(***************************************************************************)
(* Close.  closePc is the state of closeOnce and of the one call that runs *)
(* its function; the other calls wait for it and return nil.               *)
(***************************************************************************)

CloseFrame == UNCHANGED <<monitored, mkPc, kernelVars, sockCloses, errors,
                          hackLock, nlVars, hkVars, readVars, view>>

CloseEnter(c) ==
  /\ mkPc = "made"
  /\ closer[c] = "idle"
  /\ closer' = [closer EXCEPT ![c] = "in"]
  /\ closePc' = IF closePc = "new" THEN "listeners" ELSE closePc
  /\ UNCHANGED <<shutdown, events, pipe, fileOpen, closeErrs>>
  /\ CloseFrame

\* Without listeners Close itself closes the event channel.
CloseListeners ==
  /\ closePc = "listeners"
  /\ IF monitored
     THEN closePc' = "cancel" /\ shutdown' = TRUE /\ UNCHANGED events
     ELSE /\ ~events.closed
          /\ closePc' = "file" /\ events' = Closed(events)
          /\ UNCHANGED shutdown
  /\ UNCHANGED <<closer, pipe, fileOpen, closeErrs>>
  /\ CloseFrame

\* Mistake: Close relies on the shutdown channel and does not cancel the poll.
CloseWithoutCancel ==
  /\ closePc = "cancel"
  /\ closePc' = "file"
  /\ UNCHANGED <<closer, shutdown, events, fileOpen, pipe, closeErrs>>
  /\ CloseFrame

\* Mistake: Close closes the socket itself to wake the netlink listener.
CloseCancelAndSock ==
  /\ closePc = "cancel"
  /\ closePc' = "file"
  /\ pipe' = AfterCancel(pipe)
  /\ sockCloses' = sockCloses + 1
  /\ UNCHANGED <<closer, shutdown, events, fileOpen, closeErrs, monitored, mkPc,
                 kernelVars, errors, hackLock, nlVars, hkVars, readVars, view>>

CloseCancel ==
  /\ closePc = "cancel"
  /\ closePc' = "file"
  /\ pipe' = AfterCancel(pipe)
  /\ closeErrs' = closeErrs \cup ({CancelError(pipe)} \ {"nil"})
  /\ UNCHANGED <<closer, shutdown, events, fileOpen>>
  /\ CloseFrame

\* Mistake: Close waits for the listeners before it closes the file.
CloseFileLast ==
  /\ closePc = "file"
  /\ nlPc \in {"none", "done"}
  /\ closePc' = "done"
  /\ fileOpen' = FALSE
  /\ UNCHANGED <<closer, shutdown, events, pipe, closeErrs>>
  /\ CloseFrame

CloseFile ==
  /\ closePc = "file"
  /\ closePc' = "done"
  /\ fileOpen' = FALSE
  /\ closeErrs' = IF fileOpen THEN closeErrs ELSE closeErrs \cup {"FileClosed"}
  /\ UNCHANGED <<closer, shutdown, events, pipe>>
  /\ CloseFrame

CloseReturn(c) ==
  /\ closer[c] = "in" /\ closePc = "done"
  /\ closer' = [closer EXCEPT ![c] = "returned"]
  /\ UNCHANGED <<closePc, shutdown, events, pipe, fileOpen, closeErrs>>
  /\ CloseFrame

CloseBody == CloseListeners \/ CloseCancel \/ CloseFile
CloseNext == CloseBody \/ \E c \in Closers : CloseEnter(c) \/ CloseReturn(c)
-----------------------------------------------------------------------------
(***************************************************************************)
(* Read, and the application's loop over Events().                         *)
(***************************************************************************)

RdFrame == UNCHANGED <<monitored, mkPc, device, changes, queue, overrun,
                       sockCloses, pipe, events, hackLock, fileOpen, nlVars,
                       hkVars, closeVars, view>>

RdStep(r, pc, next) == rdPc[r] = pc /\ rdPc' = [rdPc EXCEPT ![r] = next]

RdCall(r) == /\ mkPc = "made"
             /\ RdStep(r, "idle", "lock")
             /\ UNCHANGED <<readMu, errors, packets>> /\ RdFrame

RdLock(r) == /\ ~readMu /\ readMu' = TRUE
             /\ RdStep(r, "lock", "select")
             /\ UNCHANGED <<errors, packets>> /\ RdFrame

\* Mistake: the early return leaves the lock held.
RdSelectKeepsLock(r) ==
  /\ RdStep(r, "select", IF errors > 0 THEN "idle" ELSE "file")
  /\ errors' = IF errors > 0 THEN errors - 1 ELSE errors
  /\ UNCHANGED <<readMu, packets>> /\ RdFrame

\* A pending asynchronous error is returned instead of reading.
RdSelect(r) ==
  /\ RdStep(r, "select", IF errors > 0 THEN "unlock" ELSE "file")
  /\ errors' = IF errors > 0 THEN errors - 1 ELSE errors
  /\ UNCHANGED <<readMu, packets>> /\ RdFrame

\* tunFile.Read returns os.ErrClosed once the file is closed or, for EBADFD,
\* when the interface is gone, and waits for a packet otherwise.
RdFile(r) ==
  /\ RdStep(r, "file", "unlock")
  /\ ~fileOpen \/ device = "gone" \/ packets > 0
  /\ packets' = IF fileOpen /\ packets > 0 THEN packets - 1 ELSE packets
  /\ UNCHANGED <<readMu, errors>> /\ RdFrame

RdReturn(r) == /\ readMu /\ readMu' = FALSE
               /\ RdStep(r, "unlock", "idle")
               /\ UNCHANGED <<errors, packets>> /\ RdFrame

RdNext(r) == RdCall(r) \/ RdLock(r) \/ RdSelect(r) \/ RdFile(r) \/ RdReturn(r)

\* The application ranges over Events().
TakeEvent ==
  /\ mkPc = "made"
  /\ HasValue(events)
  /\ events' = Received(events)
  /\ view' = IF Head(events.buf) = "MTUUpdate" THEN view ELSE Head(events.buf)
  /\ UNCHANGED <<monitored, mkPc, kernelVars, sockCloses, pipe, errors,
                 hackLock, fileOpen, nlVars, hkVars, closeVars, readVars>>
-----------------------------------------------------------------------------
KernelNext == LinkUp \/ LinkDown \/ LinkMTU \/ LinkGone \/ OtherNews
              \/ PacketArrives \/ OwnerClosesFile

Next == KernelNext \/ SetMTUSucceeds \/ SetMTUFails \/ NlNext \/ HkNext
        \/ CloseNext \/ TakeEvent \/ \E r \in Readers : RdNext(r)

Spec == Init /\ [][Next]_vars
-----------------------------------------------------------------------------
(***************************************************************************)
(* Fairness.  Every goroutine that can take a step is scheduled.  Senders  *)
(* on a full channel and callers of Lock queue in arrival order in the Go  *)
(* runtime, so their turn comes even if the channel or the lock is taken   *)
(* again and again, and a select does not pass over a ready shutdown for   *)
(* ever.  Nothing is assumed of the kernel, of the callers of Read and     *)
(* Close, or, except in ConsumerSpec, of the reader of Events().           *)
(***************************************************************************)

NlFairness == /\ WF_vars(NlRecv) /\ WF_vars(NlPoll) /\ WF_vars(NlPollReturns)
              /\ WF_vars(NlCheck) /\ WF_vars(NlParse) /\ SF_vars(NlSend)
              /\ WF_vars(NlError) /\ WF_vars(NlCloseSock) /\ WF_vars(NlLock)
              /\ WF_vars(NlCloseEvents) /\ WF_vars(NlCloseReader)
              /\ WF_vars(NlCloseWriter)

HkFairness == /\ WF_vars(HkProbe) /\ SF_vars(HkSend) /\ WF_vars(HkTick)
              /\ SF_vars(HkShutdown) /\ WF_vars(HkUnlock)

CallFairness == /\ WF_vars(SetMTUSucceeds \/ SetMTUFails)
                /\ WF_vars(CloseBody)
                /\ \A c \in Closers : WF_vars(CloseReturn(c))
                /\ \A r \in Readers : /\ SF_vars(RdLock(r))
                                      /\ WF_vars(RdSelect(r))
                                      /\ WF_vars(RdFile(r))
                                      /\ WF_vars(RdReturn(r))

FairSpec == Spec /\ NlFairness /\ HkFairness /\ CallFairness

\* The application keeps ranging over Events(), as doc.go asks it to.
ConsumerSpec == FairSpec /\ WF_vars(TakeEvent)
-----------------------------------------------------------------------------
(***************************************************************************)
(* Properties.                                                             *)
(***************************************************************************)

KernelTypeOK ==
  /\ device \in {"up", "down", "gone"}
  /\ changes \in Nat /\ packets \in Nat
  /\ queue \in Seq(Seq(Message)) /\ overrun \in BOOLEAN

SharedTypeOK ==
  /\ monitored \in BOOLEAN
  /\ mkPc \in {"setMTU", "made", "failed"}
  /\ sockCloses \in Nat /\ pipe \in PipeType
  /\ events \in ChanType(Event) /\ Len(events.buf) <= EventCap
  /\ errors \in 0..ErrorCap
  /\ hackLock \in BOOLEAN /\ fileOpen \in BOOLEAN
  /\ view \in {"Up", "Down", "none"}

NlTypeOK ==
  /\ nlPc \in NlPcs /\ nlMsgs \in Seq(Message)
  /\ nlOut \in Seq(Event) /\ everUp \in BOOLEAN

HkTypeOK ==
  hkPc \in HkPcs /\ hkLast \in {"Up", "Down", "none"} /\ hkOut \in {"Up", "Down"}

CloseTypeOK ==
  /\ closePc \in ClosePcs /\ shutdown \in BOOLEAN
  /\ closer \in [Closers -> {"idle", "in", "returned"}]
  /\ closeErrs \subseteq {"EPIPE", "ErrClosed", "FileClosed"}

ReadTypeOK == readMu \in BOOLEAN /\ rdPc \in [Readers -> RdPcs]

\* Every variable has its type; in particular neither channel ever holds more
\* than its capacity.
TypeOK == /\ KernelTypeOK /\ SharedTypeOK /\ NlTypeOK
          /\ HkTypeOK /\ CloseTypeOK /\ ReadTypeOK

\* No goroutine reaches a statement that panics: neither listener is about to
\* send when the event channel is closed, nobody is about to close it a second
\* time, and the hack listener unlocks a mutex that is locked.
NoPanic ==
  /\ nlPc \in {"send", "closeEvents"} => ~events.closed
  /\ hkPc = "send" => ~events.closed
  /\ closePc = "listeners" => IF monitored THEN ~shutdown ELSE ~events.closed
  /\ hkPc = "unlock" => hackLock

\* Close reports an error only for a file somebody else closed: whichever end
\* of the cancellation pipe the exiting netlink listener has closed by the
\* time Cancel writes to it, the caller is not told.
CancelIsSilent == closeErrs \subseteq {"FileClosed"}

\* The descriptor of the netlink socket is closed at most once, unless setMTU
\* failed: a second close would hit whatever file reuses the number.
SockClosedOnce == mkPc # "failed" => sockCloses <= 1

\* The event channel keeps the promise of Events(): a bounded stream that is
\* closed once, only after Close was called or the netlink listener stopped,
\* and that nothing is sent on afterwards.
Ended == closePc # "new" \/ nlPc \in {"error", "closeSock", "lock",
           "closeEvents", "closeReader", "closeWriter", "done"}
Stream == INSTANCE EventStream WITH ended <- Ended
StreamSpec == Stream!Spec

\* Every Close call returns, even if nobody reads Events() and both listeners
\* are stuck sending on a full channel.
CloseReturns == \A c \in Closers : closer[c] = "in" ~> closer[c] = "returned"

\* Every Read that is in progress when Close is done returns, wherever it
\* waits: for the lock, for a packet, or behind another Read.
ReadersReturn == \A r \in Readers :
  closePc = "done" /\ rdPc[r] # "idle" ~> rdPc[r] = "idle"

\* After Close, if the application keeps draining Events(), both listeners stop,
\* the event channel is closed, and the socket and both pipe ends are released.
Released == /\ nlPc \in {"none", "done"} /\ hkPc \in {"none", "done"}
            /\ events.closed
            /\ monitored => sockCloses = 1 /\ ~pipe.reader /\ ~pipe.writer
CloseReleasesAll == WF_vars(TakeEvent) => (closePc = "done" ~> Released)

\* The last state the application hears of is the state a link stays in, on a
\* monitored device that stays open.
Watched == /\ monitored /\ closePc = "new" /\ mkPc = "made" /\ fileOpen
           /\ nlPc \notin {"error", "closeSock", "lock"}
\* The exception is a datagram that goes on after NLMSG_DONE, where the parser
\* stops: what it says of the link is lost.  (In netlink DONE comes last.)
DoneComesLast == \A k \in DOMAIN queue : \A j \in 1..(Len(queue[k]) - 1) :
                   queue[k][j] # "done"

\* The same for a link that stays down.
StableDownReported ==
  <>[](Watched /\ device = "down") => <>[](view = "Down")
=============================================================================
