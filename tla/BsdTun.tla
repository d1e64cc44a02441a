------------------------------- MODULE BsdTun -------------------------------
(***************************************************************************)
(* The life of a NativeTun of tun_darwin.go, tun_freebsd.go and            *)
(* tun_openbsd.go: the goroutine that listens on a route socket            *)
(* (routineRouteListener), the end of CreateTUNFromFile after it starts,   *)
(* concurrent Close and Name calls, and the kernel behind the descriptors. *)
(* The three files differ in a few places; the variable platform says      *)
(* which of them is meant.                                                 *)
(***************************************************************************)
EXTENDS GoChan, FiniteSets

CONSTANTS Platforms,   \* platforms to look at
          Closers,     \* goroutines that call Close
          Namers,      \* goroutines that call Name, once each
          EventCap,    \* capacity of tun.events (10 in the code)
          ErrorCap,    \* capacity of tun.errors (5 on darwin, else 1)
          QueueCap,    \* messages the route socket can hold
          MaxChanges   \* bound: interface changes the kernel makes

ASSUME PlatformAssumption == Platforms \subseteq {"darwin", "freebsd", "openbsd"}
ASSUME CapAssumption == /\ {EventCap, ErrorCap, QueueCap} \subseteq Nat \ {0}
                        /\ MaxChanges \in Nat

Event == {"Up", "Down", "MTUUpdate"}
Status == [up : BOOLEAN, mtu : {1, 2}]

\* A message is "other", about another interface or of another type, or the
\* status of this one when it was sent.
Other == [up |-> FALSE, mtu |-> 0]

VARIABLES
  platform,    \* where this program was built
  mkPc,        \* progress of CreateTUNFromFile
  iface,       \* the interface in the kernel
  gone,        \* it does not exist any more
  changes,     \* changes made so far
  queue,       \* messages in the route socket
  missed,      \* a change no message in the queue will make the listener see
  sock,        \* the route socket
  routeSocket, \* tun.routeSocket is a descriptor, not -1
  fileOpen,    \* tun.tunFile is open
  name,        \* tun.name is set
  events,      \* tun.events
  errors,      \* number of errors in tun.errors
  lsPc, status, seen,  \* the listener: statusUp and statusMTU, current values
  failed,      \* the listener met an error
  closePc, closer, closeErrs,    \* closeOnce, the Close calls, their errors
  namer,       \* the Name calls
  view         \* the last Up or Down the application took: it is up

kernelVars == <<iface, gone, changes, queue, missed>>
lsVars == <<lsPc, status, seen, failed>>
closeVars == <<closePc, closer, closeErrs>>
vars == <<platform, mkPc, kernelVars, sock, routeSocket, fileOpen, name, events, errors,
          lsVars, closeVars, namer, view>>

\* darwin takes flags and MTU from the message, the others ask for the current
\* ones; only openbsd also asks before the first message.
AsksKernel == platform \in {"freebsd", "openbsd"}
AsksFirst == platform = "openbsd"

Creator == "creator"           \* calls Close when setMTU fails
AllClosers == Closers \cup {Creator}

Init ==
  /\ platform \in Platforms
  /\ mkPc = "setMTU"
  /\ iface \in Status /\ gone = FALSE /\ changes = 0 /\ queue = <<>>
  /\ missed = (iface.up /\ ~AsksFirst)
  /\ sock = "open" /\ routeSocket = TRUE /\ fileOpen = TRUE /\ name = TRUE
  /\ events = NewChan /\ errors = 0
  /\ lsPc = IF AsksFirst THEN "query" ELSE "recv"
  /\ status = [up |-> FALSE, mtu |-> 0] /\ seen = Other /\ failed = FALSE
  /\ closePc = "new" /\ closer = [c \in AllClosers |-> "idle"]
  /\ closeErrs = {}
  /\ namer = [n \in Namers |-> "idle"]
  /\ view = FALSE
-----------------------------------------------------------------------------
(***************************************************************************)
(* The kernel.                                                             *)
(***************************************************************************)

\* A route message; a full socket drops it.  A listener that asks the kernel
\* catches up with the next message about this interface that it does read.
Notify(m) ==
  IF sock = "open" /\ Len(queue) < QueueCap
  THEN /\ queue' = Append(queue, m)
       /\ missed' = (missed /\ m = Other)
  ELSE /\ UNCHANGED queue
       /\ missed' = \/ missed
                    \/ /\ m # Other
                       /\ AsksKernel => \A k \in DOMAIN queue : queue[k] = Other

KernelFrame == UNCHANGED <<platform, mkPc, sock, routeSocket, fileOpen, name, events,
                           errors, lsVars, closeVars, namer, view>>

StatusChanges ==
  /\ ~gone /\ changes < MaxChanges
  /\ changes' = changes + 1
  /\ iface' \in Status \ {iface}
  /\ Notify(iface')
  /\ UNCHANGED gone
  /\ KernelFrame

OtherNews ==
  /\ changes < MaxChanges
  /\ changes' = changes + 1
  /\ Notify(Other)
  /\ UNCHANGED <<iface, gone>>
  /\ KernelFrame

\* Destroyed by an administrator: the last messages say it is down.
Destroyed ==
  /\ ~gone /\ changes < MaxChanges
  /\ changes' = changes + 1
  /\ gone' = TRUE
  /\ iface' = [iface EXCEPT !.up = FALSE]
  /\ Notify(iface')
  /\ KernelFrame
-----------------------------------------------------------------------------
(***************************************************************************)
(* CreateTUNFromFile, once the listener runs.                              *)
(***************************************************************************)

MkFrame == UNCHANGED <<platform, sock, routeSocket, fileOpen, name, events, errors, lsVars,
                       closePc, closeErrs, namer, view>>

\* setMTU makes the kernel send a message, even if the value stays the same.
\* It is skipped on darwin for mtu <= 0, on openbsd for the current value.
SetMTUSucceeds ==
  /\ mkPc = "setMTU"
  /\ mkPc' = "made"
  /\ \/ /\ ~gone
        /\ iface' \in {iface, [iface EXCEPT !.mtu = 3 - @]}
        /\ Notify(iface')
     \/ /\ platform = "darwin" \/ (platform = "openbsd" /\ ~gone)
        /\ UNCHANGED <<iface, queue, missed>>
  /\ UNCHANGED <<gone, changes, closer>>
  /\ MkFrame

SetMTUFails ==
  /\ mkPc = "setMTU"
  /\ mkPc' = "failed"
  /\ closer' = [closer EXCEPT ![Creator] = "called"]
  /\ UNCHANGED kernelVars
  /\ MkFrame
-----------------------------------------------------------------------------
(***************************************************************************)
(* routineRouteListener.                                                   *)
(***************************************************************************)

LsFrame == UNCHANGED <<platform, mkPc, iface, gone, changes, missed, sock, routeSocket,
                       fileOpen, name, closeVars, namer, view>>

Fail == lsPc' = "error" /\ failed' = TRUE

\* Mistake: messages about other interfaces are not skipped.
LsRecvUnfiltered ==
  /\ lsPc = "recv"
  /\ \/ /\ sock = "open" /\ queue # <<>>
        /\ queue' = Tail(queue)
        /\ lsPc' = IF AsksKernel THEN "query" ELSE "link"
        /\ seen' = IF AsksKernel THEN seen ELSE Head(queue)
        /\ UNCHANGED failed
     \/ /\ sock = "closed"
        /\ Fail
        /\ UNCHANGED <<queue, seen>>
  /\ UNCHANGED <<events, errors, status>>
  /\ LsFrame

\* unix.Read on the route socket.  While it is shut down but not closed the
\* read returns nothing and is repeated.
LsRecv ==
  /\ lsPc = "recv"
  /\ \/ /\ sock = "open" /\ queue # <<>>
        /\ queue' = Tail(queue)
        /\ lsPc' = IF Head(queue) = Other THEN "recv"
                   ELSE IF AsksKernel THEN "query" ELSE "link"
        /\ seen' = IF AsksKernel THEN seen ELSE Head(queue)
        /\ UNCHANGED failed
     \/ /\ sock = "closed"
        /\ Fail
        /\ UNCHANGED <<queue, seen>>
  /\ UNCHANGED <<events, errors, status>>
  /\ LsFrame

\* A read of the open socket fails.
LsReadFails ==
  /\ lsPc = "recv" /\ sock = "open"
  /\ Fail
  /\ UNCHANGED <<queue, events, errors, status, seen>>
  /\ LsFrame

\* Mistake: a vanished interface ends the loop, but so does any other.
LsQueryInverted ==
  /\ lsPc = "query"
  /\ IF gone THEN Fail /\ UNCHANGED seen
     ELSE lsPc' = "closeEvents" /\ seen' = iface /\ UNCHANGED failed
  /\ UNCHANGED <<queue, events, errors, status>>
  /\ LsFrame

\* net.InterfaceByIndex
LsQuery ==
  /\ lsPc = "query"
  /\ IF gone THEN Fail /\ UNCHANGED seen
     ELSE lsPc' = "link" /\ seen' = iface /\ UNCHANGED failed
  /\ UNCHANGED <<queue, events, errors, status>>
  /\ LsFrame

\* Mistake: statusUp is set when the device goes up, and never reset.
LsLinkSticky ==
  /\ lsPc = "link"
  /\ \/ seen.up = status.up /\ UNCHANGED events
     \/ /\ seen.up # status.up
        /\ CanSend(events, EventCap)
        /\ events' = Sent(events, IF seen.up THEN "Up" ELSE "Down")
  /\ status' = [status EXCEPT !.up = @ \/ seen.up]
  /\ lsPc' = "mtu"
  /\ UNCHANGED <<queue, errors, seen, failed>>
  /\ LsFrame

\* Up and Down, when statusUp changes.
LsLink ==
  /\ lsPc = "link"
  /\ \/ seen.up = status.up /\ UNCHANGED events
     \/ /\ seen.up # status.up
        /\ CanSend(events, EventCap)
        /\ events' = Sent(events, IF seen.up THEN "Up" ELSE "Down")
  /\ status' = [status EXCEPT !.up = seen.up]
  /\ lsPc' = "mtu"
  /\ UNCHANGED <<queue, errors, seen, failed>>
  /\ LsFrame

\* MTUUpdate, when statusMTU changes: the first message always reports one.
LsMTU ==
  /\ lsPc = "mtu"
  /\ \/ seen.mtu = status.mtu /\ UNCHANGED events
     \/ /\ seen.mtu # status.mtu
        /\ CanSend(events, EventCap)
        /\ events' = Sent(events, "MTUUpdate")
  /\ status' = [status EXCEPT !.mtu = seen.mtu]
  /\ lsPc' = "recv"
  /\ UNCHANGED <<queue, errors, seen, failed>>
  /\ LsFrame

LsError ==
  /\ lsPc = "error" /\ errors < ErrorCap
  /\ errors' = errors + 1
  /\ lsPc' = "closeEvents"
  /\ UNCHANGED <<queue, events, status, seen, failed>>
  /\ LsFrame

LsCloseEvents ==
  /\ lsPc = "closeEvents"
  /\ events' = Closed(events)
  /\ lsPc' = "done"
  /\ UNCHANGED <<queue, errors, status, seen, failed>>
  /\ LsFrame

Listener == \/ LsRecv \/ LsQuery \/ LsLink \/ LsMTU \/ LsError
            \/ LsCloseEvents
-----------------------------------------------------------------------------
(***************************************************************************)
(* Close, on whichever goroutine enters closeOnce first.                   *)
(***************************************************************************)

CloseFrame == UNCHANGED <<platform, mkPc, changes, name, errors, lsVars, namer, view>>

CloseCall(c) ==
  /\ mkPc = "made" /\ closer[c] = "idle"
  /\ closer' = [closer EXCEPT ![c] = "called"]
  /\ UNCHANGED <<iface, gone, queue, missed, sock, routeSocket, fileOpen, events,
                 closePc, closeErrs>>
  /\ CloseFrame

CloseEnter(c) ==
  /\ closer[c] = "called" /\ closePc = "new"
  /\ closer' = [closer EXCEPT ![c] = "owner"]
  /\ closePc' = "file"
  /\ UNCHANGED <<iface, gone, queue, missed, sock, routeSocket, fileOpen, events,
                 closeErrs>>
  /\ CloseFrame

\* The kernel takes the interface down with its file, or removes it.
FileCloses ==
  /\ fileOpen' = FALSE
  /\ IF gone \/ ~fileOpen THEN UNCHANGED <<iface, gone, queue, missed>>
     ELSE /\ gone' \in IF platform = "freebsd" THEN {FALSE} ELSE BOOLEAN
          /\ iface' = [iface EXCEPT !.up = FALSE]
          /\ Notify(iface')

CloseFile ==
  /\ closePc = "file"
  /\ FileCloses
  /\ closePc' = IF platform = "freebsd" THEN "destroy" ELSE "shutdown"
  /\ closeErrs' = IF fileOpen THEN closeErrs ELSE closeErrs \cup {"file"}
  /\ UNCHANGED <<sock, routeSocket, events, closer>>
  /\ CloseFrame

\* tunDestroy(tun.name).  It fails without a socket to ask on, and when the
\* ioctl does: because the name or the interface is not there, or because the
\* system refuses.  An interface it fails on stays.
DestroySucceeds == name /\ ~gone /\ gone' = TRUE /\ UNCHANGED closeErrs
DestroyFails == UNCHANGED gone /\ closeErrs' = closeErrs \cup {"destroy"}

CloseDestroy ==
  /\ closePc = "destroy"
  /\ closePc' = "shutdown"
  /\ DestroySucceeds \/ DestroyFails
  /\ UNCHANGED <<iface, queue, missed, sock, routeSocket, fileOpen, events,
                 closer>>
  /\ CloseFrame

\* unix.Shutdown wakes the listener.  The other branch of the code, for a
\* device without a socket, closes the channel.
CloseShutdown ==
  /\ closePc = "shutdown"
  /\ IF routeSocket
     THEN /\ sock' = "shutdown" /\ queue' = <<>>
          /\ closePc' = "socket"
          /\ UNCHANGED events
     ELSE /\ events' = Closed(events)
          /\ closePc' = "done"
          /\ UNCHANGED <<sock, queue>>
  /\ UNCHANGED <<iface, gone, missed, routeSocket, fileOpen, closer, closeErrs>>
  /\ CloseFrame

\* Mistake: the socket is shut down only.
CloseSocketNever ==
  /\ closePc = "socket"
  /\ closePc' = IF platform = "darwin" THEN "done" ELSE "forget"
  /\ UNCHANGED <<iface, gone, queue, missed, sock, routeSocket, fileOpen, events,
                 closer, closeErrs>>
  /\ CloseFrame

CloseSocket ==
  /\ closePc = "socket"
  /\ sock' = "closed"
  /\ closePc' = IF platform = "darwin" THEN "done" ELSE "forget"
  /\ UNCHANGED <<iface, gone, queue, missed, routeSocket, fileOpen, events, closer,
                 closeErrs>>
  /\ CloseFrame

CloseForget ==
  /\ closePc = "forget"
  /\ routeSocket' = FALSE
  /\ closePc' = "done"
  /\ UNCHANGED <<iface, gone, queue, missed, sock, fileOpen, events, closer,
                 closeErrs>>
  /\ CloseFrame

\* Mistake: the error of tunDestroy is dropped.
CloseReturnFileOnly(c) ==
  /\ closer[c] \in {"called", "owner"} /\ closePc = "done"
  /\ closer' = [closer EXCEPT ![c] =
                  IF @ = "owner" /\ "file" \in closeErrs THEN "error" ELSE "nil"]
  /\ UNCHANGED <<iface, gone, queue, missed, sock, routeSocket, fileOpen, events,
                 closePc, closeErrs>>
  /\ CloseFrame

\* The owner returns the first of its errors, all others wait for it and
\* return nil, since err1 and err2 are variables of their own call.
CloseReturn(c) ==
  /\ closer[c] \in {"called", "owner"} /\ closePc = "done"
  /\ closer' = [closer EXCEPT ![c] =
                  IF @ = "owner" /\ closeErrs # {} THEN "error" ELSE "nil"]
  /\ UNCHANGED <<iface, gone, queue, missed, sock, routeSocket, fileOpen, events,
                 closePc, closeErrs>>
  /\ CloseFrame

Close == \/ CloseFile \/ CloseDestroy \/ CloseShutdown \/ CloseSocket
         \/ CloseForget
         \/ \E c \in AllClosers : CloseEnter(c) \/ CloseReturn(c)
-----------------------------------------------------------------------------
(***************************************************************************)
(* Name, and the application.                                              *)
(***************************************************************************)

NameFrame == UNCHANGED <<platform, mkPc, kernelVars, sock, routeSocket, fileOpen, events,
                         lsVars, closeVars, view>>

\* Name asks for the name of the open file.  For a closed one, openbsd forgets
\* the name and returns an error; operateOnFd, on the others, sends its error
\* to tun.errors, and waits for room there.
NameCall(n) ==
  /\ mkPc = "made" /\ namer[n] = "idle"
  /\ IF fileOpen
     THEN /\ name' = TRUE
          /\ namer' = [namer EXCEPT ![n] = "returned"]
     ELSE IF platform = "openbsd"
     THEN /\ name' = FALSE
          /\ namer' = [namer EXCEPT ![n] = "returned"]
     ELSE /\ namer' = [namer EXCEPT ![n] = "sends"]
          /\ UNCHANGED name
  /\ UNCHANGED errors
  /\ NameFrame

\* On freebsd the name nobody set is stored in tun.name.
NameSends(n) ==
  /\ namer[n] = "sends" /\ errors < ErrorCap
  /\ errors' = errors + 1
  /\ name' = (name /\ platform # "freebsd")
  /\ namer' = [namer EXCEPT ![n] = "returned"]
  /\ NameFrame

\* The owner of the file closes it behind the device's back.
OwnerClosesFile ==
  /\ mkPc = "made" /\ fileOpen
  /\ FileCloses
  /\ UNCHANGED <<platform, mkPc, changes, sock, routeSocket, name, events, errors, lsVars,
                 closeVars, namer, view>>

\* Only a device that was made has a reader: CreateTUNFromFile returns none
\* when it fails.
TakeEvent ==
  /\ mkPc = "made" /\ HasValue(events)
  /\ events' = Received(events)
  /\ view' = IF Head(events.buf) = "MTUUpdate" THEN view
             ELSE Head(events.buf) = "Up"
  /\ UNCHANGED <<platform, mkPc, kernelVars, sock, routeSocket, fileOpen, name, errors,
                 lsVars, closeVars, namer>>

\* A Read finds a pending error.
TakeError ==
  /\ errors > 0
  /\ errors' = errors - 1
  /\ UNCHANGED <<platform, mkPc, kernelVars, sock, routeSocket, fileOpen, name, events,
                 lsVars, closeVars, namer, view>>

Next ==
  \/ StatusChanges \/ OtherNews \/ Destroyed
  \/ SetMTUSucceeds \/ SetMTUFails
  \/ Listener \/ LsReadFails \/ Close \/ OwnerClosesFile
  \/ \E c \in Closers : CloseCall(c)
  \/ \E n \in Namers : NameCall(n) \/ NameSends(n)
  \/ TakeEvent \/ TakeError

Spec == Init /\ [][Next]_vars

\* Goroutines run, setMTU returns, and the application reads the Events() of
\* its device, but not the errors.
ConsumerSpec == /\ Spec
                /\ WF_vars(Listener) /\ WF_vars(Close)
                /\ WF_vars(SetMTUSucceeds \/ SetMTUFails) /\ WF_vars(TakeEvent)
-----------------------------------------------------------------------------
(***************************************************************************)
(* Properties.                                                             *)
(***************************************************************************)

\* Every variable has its type, and the channels stay within their capacity.
TypeOK ==
  /\ platform \in Platforms
  /\ mkPc \in {"setMTU", "made", "failed"}
  /\ iface \in Status /\ {gone, missed, routeSocket, fileOpen, name, failed, view}
                            \subseteq BOOLEAN
  /\ changes \in 0..MaxChanges
  /\ queue \in Seq(Status \cup {Other}) /\ Len(queue) <= QueueCap
  /\ sock \in {"open", "shutdown", "closed"}
  /\ events \in ChanType(Event) /\ Len(events.buf) <= EventCap
  /\ errors \in 0..ErrorCap
  /\ lsPc \in {"recv", "query", "link", "mtu", "error", "closeEvents", "done"}
  /\ status \in [up : BOOLEAN, mtu : 0..2] /\ seen \in Status \cup {Other}
  /\ lsPc \in {"link", "mtu"} => seen \in Status
  /\ closePc \in {"new", "file", "destroy", "shutdown", "socket", "forget",
                   "done"}
  /\ closer \in [AllClosers -> {"idle", "called", "owner", "nil", "error"}]
  /\ closeErrs \subseteq {"file", "destroy"}
  /\ namer \in [Namers -> {"idle", "sends", "returned"}]

\* The event channel keeps the promises of EventStream: it is closed once, by
\* the listener and only after Close or an error, and not sent on afterwards.
Stream == INSTANCE EventStream WITH ended <- closePc # "new" \/ failed
StreamSpec == Stream!Spec

\* freebsd: when the callers of Close have all returned and the interface is
\* still there, one of them was told, also if a Name call has emptied tun.name,
\* the owner has closed the file or the system refuses to destroy.  The
\* exception is the Close of a failing CreateTUNFromFile, whose error it drops.
DestroyedOrReported ==
  platform = "freebsd" /\ closePc = "done" /\ closer[Creator] = "idle" /\ ~gone
  => \E c \in Closers : closer[c] \in {"owner", "error"}

\* Both, as the run checks them: nothing a Name call or a failing Close does
\* takes a variable out of its type or an interface out of sight.
DestroyInv == TypeOK /\ DestroyedOrReported

\* Close ends the listener and thereby the channel, if the application reads
\* its events.  The listener is left waiting when the errors of late Name calls
\* fill the error channel, and after a failed CreateTUNFromFile when it has
\* filled the event channel that nobody was given.
LeftWaiting ==
  \/ lsPc = "error" /\ errors = ErrorCap
  \/ mkPc = "failed" /\ lsPc \in {"link", "mtu"} /\ Len(events.buf) = EventCap
CloseEndsStream ==
  closePc = "done" ~> (events.closed /\ lsPc = "done") \/ LeftWaiting

\* The application ends up with the state of the interface, if that stays as it
\* is, no message about it got lost, and the device lives.
Settled(b) == /\ iface.up = b /\ ~gone /\ ~missed
              /\ closePc = "new" /\ ~failed
StateReported == \A b \in BOOLEAN : <>[]Settled(b) => <>[](view = b)
=============================================================================
