----------------------------- MODULE WindowsTun -----------------------------
(***************************************************************************)
(* The life of a NativeTun of tun_windows.go: Read with its wait for       *)
(* packets, Write and LUID, ForceMTU, and Close, which must not end the    *)
(* Wintun session while a call uses it.  A panic ends the program: it is a *)
(* value of the variable panic, and no step follows it.                    *)
(***************************************************************************)
EXTENDS GoChan, FiniteSets

CONSTANTS Readers,     \* goroutines that call Read
          Users,       \* goroutines that call Write or LUID
          Forcers,     \* goroutines that call ForceMTU
          Closers,     \* goroutines that call Close
          MTUs,        \* values of the MTU
          EventCap,    \* capacity of tun.events (10 in the code)
          RingCap      \* bound: packets in the ring Read takes from

ASSUME CapAssumption == /\ EventCap \in Nat \ {0} /\ RingCap \in Nat
                        /\ IsFiniteSet(Readers \cup Users)

Callers == Readers \cup Users
Event == {"MTUUpdate"}

VARIABLES
  live,        \* what is not closed yet: the session, the adapter
  ring,        \* packets that wait in the session
  broken,      \* the session only returns errors
  readWait,    \* tun.readWait is signalled
  running,     \* counter of tun.running
  waiting,     \* a goroutine waits for it
  closeFlag,   \* tun.close
  closePc, closer,   \* closeOnce and the Close calls
  caller,      \* the calls of Read, Write and LUID
  forcedMTU,   \* tun.forcedMTU
  forcer,      \* the calls of ForceMTU
  events,      \* tun.events
  appPc, mtuView,    \* the application: it has an event, the MTU it knows
  panic        \* why the program died

sessionVars == <<live, ring, broken, readWait>>
groupVars == <<running, waiting>>
closeVars == <<closeFlag, closePc, closer>>
mtuVars == <<forcedMTU, forcer, events, appPc, mtuView>>
vars == <<sessionVars, groupVars, closeVars, caller, mtuVars, panic>>

\* CreateTUN, after its session is started.
Init ==
  /\ live = {"session", "adapter"} /\ ring = 0 /\ broken = FALSE
  /\ readWait = FALSE
  /\ running = 0 /\ waiting = FALSE
  /\ closeFlag = FALSE /\ closePc = "new"
  /\ closer = [c \in Closers |-> "idle"]
  /\ caller = [c \in Callers |-> "idle"]
  /\ forcedMTU \in MTUs /\ mtuView = forcedMTU /\ appPc = "idle"
  /\ forcer = [f \in Forcers |-> [pc |-> "idle", mtu |-> forcedMTU]]
  /\ events = NewChan
  /\ panic = "none"
-----------------------------------------------------------------------------
(***************************************************************************)
(* The driver.  Its event forgets a signal when a goroutine wakes.         *)
(***************************************************************************)

PacketArrives ==
  /\ "session" \in live /\ ring < RingCap
  /\ ring' = ring + 1
  /\ readWait' = TRUE
  /\ UNCHANGED <<live, broken, groupVars, closeVars, caller, mtuVars, panic>>

SessionBreaks ==
  /\ "session" \in live /\ ~broken
  /\ broken' = TRUE
  /\ readWait' = TRUE
  /\ UNCHANGED <<live, ring, groupVars, closeVars, caller, mtuVars, panic>>
-----------------------------------------------------------------------------
(***************************************************************************)
(* Read, Write and LUID.                                                   *)
(***************************************************************************)

CallFrame == UNCHANGED <<live, ring, broken, closeVars, mtuVars>>

Goes(c, pc) == caller' = [caller EXCEPT ![c] = pc]

\* running.Add(1).  Go's WaitGroup panics if it finds a zero counter that a
\* goroutine is still registered to wait for.
CallBegins(c) ==
  /\ caller[c] = "idle"
  /\ IF waiting /\ running = 0
     THEN panic' = "waitgroup" /\ UNCHANGED <<running, caller>>
     ELSE running' = running + 1 /\ Goes(c, "check") /\ UNCHANGED panic
  /\ UNCHANGED <<readWait, waiting>>
  /\ CallFrame

\* tun.close.Load()
CallChecks(c) ==
  /\ caller[c] = "check"
  /\ Goes(c, IF closeFlag THEN "done" ELSE IF c \in Readers THEN "ring" ELSE "wt")
  /\ UNCHANGED <<readWait, groupVars, panic>>
  /\ CallFrame

\* The loop over the packets of a Write, or the call behind LUID.
CallUses(c) ==
  /\ caller[c] = "wt"
  /\ Goes(c, "done")
  /\ UNCHANGED <<readWait, groupVars, panic>>
  /\ CallFrame

ReadReceives(c) ==
  /\ caller[c] = "ring" /\ ring > 0
  /\ ring' = ring - 1
  /\ Goes(c, "done")
  /\ UNCHANGED <<live, broken, readWait, groupVars, closeVars, mtuVars, panic>>

ReadFails(c) ==
  /\ caller[c] = "ring" /\ broken
  /\ Goes(c, "done")
  /\ UNCHANGED <<readWait, groupVars, panic>>
  /\ CallFrame

\* Mistake: the event is reset before the wait.
ReadEmptyResets(c) ==
  /\ caller[c] = "ring" /\ ring = 0 /\ ~broken
  /\ Goes(c, "wait")
  /\ readWait' = FALSE
  /\ UNCHANGED <<groupVars, panic>>
  /\ CallFrame

\* ERROR_NO_MORE_ITEMS: at a high rate of packets Read tries again for a while,
\* then it waits.
ReadEmpty(c) ==
  /\ caller[c] = "ring" /\ ring = 0 /\ ~broken
  /\ \/ Goes(c, "check")
     \/ Goes(c, "wait")
  /\ UNCHANGED <<readWait, groupVars, panic>>
  /\ CallFrame

\* Mistake: the label retry stands before running.Add.
ReadWakesAdds(c) ==
  /\ caller[c] = "wait" /\ readWait
  /\ readWait' = FALSE
  /\ running' = running + 1
  /\ Goes(c, "check")
  /\ UNCHANGED <<waiting, panic>>
  /\ CallFrame

ReadWakes(c) ==
  /\ caller[c] = "wait" /\ readWait
  /\ readWait' = FALSE
  /\ Goes(c, "check")
  /\ UNCHANGED <<groupVars, panic>>
  /\ CallFrame

\* The deferred running.Done(): the last one releases who waits.
CallDone(c) ==
  /\ caller[c] = "done"
  /\ running' = running - 1
  /\ Goes(c, IF waiting /\ running = 1 THEN "release" ELSE "idle")
  /\ UNCHANGED <<readWait, waiting, panic>>
  /\ CallFrame

CallReleases(c) ==
  /\ caller[c] = "release"
  /\ waiting' = FALSE
  /\ closePc' = "woken"
  /\ Goes(c, "idle")
  /\ UNCHANGED <<sessionVars, running, closeFlag, closer, mtuVars, panic>>

CallGoesOn(c) == \/ CallChecks(c) \/ CallUses(c) \/ CallDone(c) \/ CallReleases(c)
                 \/ ReadReceives(c) \/ ReadFails(c) \/ ReadEmpty(c) \/ ReadWakes(c)
-----------------------------------------------------------------------------
(***************************************************************************)
(* Close.                                                                  *)
(***************************************************************************)

CloseFrame == UNCHANGED <<ring, broken, running, caller, forcedMTU, forcer, appPc,
                          mtuView>>

CloseCall(c) ==
  /\ closer[c] = "idle"
  /\ closer' = [closer EXCEPT ![c] = "called"]
  /\ UNCHANGED <<live, readWait, waiting, closeFlag, closePc, events, panic>>
  /\ CloseFrame

CloseEnter(c) ==
  /\ closer[c] = "called" /\ closePc = "new"
  /\ closer' = [closer EXCEPT ![c] = "owner"]
  /\ closePc' = "flag"
  /\ UNCHANGED <<live, readWait, waiting, closeFlag, events, panic>>
  /\ CloseFrame

\* Mistake: Close does not say that it has begun.
CloseFlagNever ==
  /\ closePc = "flag"
  /\ closePc' = "signal"
  /\ UNCHANGED <<live, readWait, waiting, closeFlag, closer, events, panic>>
  /\ CloseFrame

CloseFlag ==
  /\ closePc = "flag"
  /\ closeFlag' = TRUE
  /\ closePc' = "signal"
  /\ UNCHANGED <<live, readWait, waiting, closer, events, panic>>
  /\ CloseFrame

\* Mistake: nobody wakes a Read that waits.
CloseSignalNever ==
  /\ closePc = "signal"
  /\ closePc' = "wait"
  /\ UNCHANGED <<live, readWait, waiting, closeFlag, closer, events, panic>>
  /\ CloseFrame

\* windows.SetEvent(tun.readWait)
CloseSignal ==
  /\ closePc = "signal"
  /\ readWait' = TRUE
  /\ closePc' = "wait"
  /\ UNCHANGED <<live, waiting, closeFlag, closer, events, panic>>
  /\ CloseFrame

\* running.Wait() returns at once, or registers and sleeps.
CloseWait ==
  /\ closePc = "wait"
  /\ IF running = 0
     THEN closePc' = "end" /\ UNCHANGED waiting
     ELSE closePc' = "waits" /\ waiting' = TRUE
  /\ UNCHANGED <<live, readWait, closeFlag, closer, events, panic>>
  /\ CloseFrame

\* Awake again, Wait panics if the counter is in use once more.
CloseWoken ==
  /\ closePc = "woken"
  /\ IF running = 0
     THEN closePc' = "end" /\ UNCHANGED panic
     ELSE panic' = "waitgroup" /\ UNCHANGED closePc
  /\ UNCHANGED <<live, readWait, waiting, closeFlag, closer, events>>
  /\ CloseFrame

CloseEnd ==
  /\ closePc = "end"
  /\ live' = live \ {"session"}
  /\ closePc' = "adapter"
  /\ UNCHANGED <<readWait, waiting, closeFlag, closer, events, panic>>
  /\ CloseFrame

CloseAdapter ==
  /\ closePc = "adapter"
  /\ live' = live \ {"adapter"}
  /\ closePc' = "events"
  /\ UNCHANGED <<readWait, waiting, closeFlag, closer, events, panic>>
  /\ CloseFrame

CloseEvents ==
  /\ closePc = "events"
  /\ events' = Closed(events)
  /\ closePc' = "done"
  /\ UNCHANGED <<live, readWait, waiting, closeFlag, closer, panic>>
  /\ CloseFrame

CloseReturn(c) ==
  /\ closer[c] \in {"called", "owner"} /\ closePc = "done"
  /\ closer' = [closer EXCEPT ![c] = "returned"]
  /\ UNCHANGED <<live, readWait, waiting, closeFlag, closePc, events, panic>>
  /\ CloseFrame

Close == \/ CloseFlag \/ CloseSignal \/ CloseWait \/ CloseWoken \/ CloseEnd
         \/ CloseAdapter \/ CloseEvents
         \/ \E c \in Closers : CloseEnter(c) \/ CloseReturn(c)
-----------------------------------------------------------------------------
(***************************************************************************)
(* ForceMTU, and the application that follows the MTU.                     *)
(***************************************************************************)

MTUFrame == UNCHANGED <<sessionVars, groupVars, closeVars, caller>>

ForceCall(f, m) ==
  /\ forcer[f].pc = "idle" /\ ~closeFlag
  /\ forcer' = [forcer EXCEPT ![f] = [pc |-> "compare", mtu |-> m]]
  /\ UNCHANGED <<forcedMTU, events, appPc, mtuView, panic>>
  /\ MTUFrame

\* Mistake: the values are compared when they are already the same.
ForceCompareLate(f) ==
  /\ forcer[f].pc = "compare"
  /\ forcer' = [forcer EXCEPT ![f].pc = "store"]
  /\ UNCHANGED <<forcedMTU, events, appPc, mtuView, panic>>
  /\ MTUFrame

ForceCompare(f) ==
  /\ forcer[f].pc = "compare"
  /\ forcer' = [forcer EXCEPT ![f].pc = IF forcedMTU = forcer[f].mtu THEN "store"
                                        ELSE "update"]
  /\ UNCHANGED <<forcedMTU, events, appPc, mtuView, panic>>
  /\ MTUFrame

ForceStore(f) ==
  /\ forcer[f].pc \in {"store", "update"}
  /\ forcedMTU' = forcer[f].mtu
  /\ forcer' = [forcer EXCEPT ![f].pc = IF @ = "update" THEN "send" ELSE "idle"]
  /\ UNCHANGED <<events, appPc, mtuView, panic>>
  /\ MTUFrame

\* The send, which panics if the channel is, or in the meantime gets, closed.
ForceSend(f) ==
  /\ forcer[f].pc = "send"
  /\ \/ /\ CanSend(events, EventCap)
        /\ events' = Sent(events, "MTUUpdate")
        /\ forcer' = [forcer EXCEPT ![f].pc = "idle"]
        /\ UNCHANGED panic
     \/ /\ events.closed
        /\ panic' = "send"
        /\ UNCHANGED <<events, forcer>>
  /\ UNCHANGED <<forcedMTU, appPc, mtuView>>
  /\ MTUFrame

TakeEvent ==
  /\ appPc = "idle" /\ HasValue(events)
  /\ events' = Received(events)
  /\ appPc' = "MTU"
  /\ UNCHANGED <<forcedMTU, forcer, mtuView, panic>>
  /\ MTUFrame

\* The application answers an event by asking for the MTU.
AsksMTU ==
  /\ appPc = "MTU"
  /\ mtuView' = forcedMTU
  /\ appPc' = "idle"
  /\ UNCHANGED <<forcedMTU, forcer, events, panic>>
  /\ MTUFrame

Next ==
  /\ panic = "none"
  /\ \/ PacketArrives \/ SessionBreaks
     \/ \E c \in Callers : CallBegins(c) \/ CallGoesOn(c)
     \/ \E c \in Closers : CloseCall(c)
     \/ Close
     \/ \E f \in Forcers : \/ \E m \in MTUs : ForceCall(f, m)
                           \/ ForceCompare(f) \/ ForceStore(f) \/ ForceSend(f)
     \/ TakeEvent \/ AsksMTU

Spec == Init /\ [][Next]_vars

\* Goroutines run, unless they are blocked.
FairSpec ==
  /\ Spec
  /\ \A c \in Callers : WF_vars(panic = "none" /\ CallGoesOn(c))
  /\ WF_vars(panic = "none" /\ Close)
-----------------------------------------------------------------------------
(***************************************************************************)
(* Properties.                                                             *)
(***************************************************************************)

\* Every variable has its type; the counter of tun.running never exceeds the
\* number of goroutines that call Read, Write and LUID.
TypeOK ==
  /\ live \subseteq {"session", "adapter"}
  /\ ring \in 0..RingCap
  /\ {broken, readWait, waiting, closeFlag} \subseteq BOOLEAN
  /\ running \in 0..Cardinality(Callers)
  /\ closePc \in {"new", "flag", "signal", "wait", "waits", "woken", "end",
                   "adapter", "events", "done"}
  /\ closer \in [Closers -> {"idle", "called", "owner", "returned"}]
  /\ caller \in [Callers -> {"idle", "check", "ring", "wt", "wait", "done",
                             "release"}]
  /\ {forcedMTU, mtuView} \subseteq MTUs
  /\ forcer \in [Forcers -> [pc : {"idle", "compare", "store", "update", "send"},
                             mtu : MTUs]]
  /\ events \in ChanType(Event) /\ Len(events.buf) <= EventCap
  /\ appPc \in {"idle", "MTU"}
  /\ panic \in {"none", "send", "waitgroup"}

\* While Read, Write or LUID use the session or the adapter, or wait for its
\* event, Close has ended neither.
SessionSafe ==
  (\E c \in Callers : caller[c] \in {"ring", "wt", "wait"})
     => live = {"session", "adapter"}

\* One goroutine calls ForceMTU, and the application asks for the MTU after each
\* event: whenever there is nothing left to do, it knows the MTU.
MTUSeen ==
  /\ events.buf = <<>> /\ appPc = "idle"
  /\ \A f \in Forcers : forcer[f].pc = "idle"
  => mtuView = forcedMTU

\* Both, as the run checks them: the counter and the channel stay within their
\* bounds, and the MTU the application knows is the one ForceMTU stored.
MTUInv == TypeOK /\ MTUSeen

\* The event channel keeps the promises of EventStream.
Stream == INSTANCE EventStream WITH ended <- closeFlag
StreamSpec == Stream!Spec

\* Close comes to its end, unless the program dies or the application goes on
\* calling Read and Write for ever, so that one call always overlaps the next.
CallsStop == <>[][\A c \in Callers : ~CallBegins(c)]_vars
CloseEnds == CallsStop => (closePc # "new" ~> closePc = "done" \/ panic # "none")

\* A Read returns when there is a packet for it, the session breaks or the
\* device is closed, also if that happens just before it waits.
ReadsReturn ==
  \A c \in Readers :
    caller[c] # "idle" /\ (ring > 0 \/ broken \/ closeFlag)
      ~> caller[c] = "idle" \/ panic # "none"

\* No call brings the program down: Close finds its wait group at rest when it
\* wakes, and ForceMTU never sends on the channel that Close closed.
NoPanic == panic = "none"
=============================================================================
