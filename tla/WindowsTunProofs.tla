-------------------------- MODULE WindowsTunProofs --------------------------
(***************************************************************************)
(* Safety of WindowsTun for any number of goroutines and any capacity:     *)
(* Close ends the session and the adapter when no call uses them, types    *)
(* and bounds hold, the application learns the MTU that a single caller of *)
(* ForceMTU sets, and the event channel implements EventStream.            *)
(***************************************************************************)
EXTENDS WindowsTun, FiniteSetTheorems, TLAPS

\* The calls tun.running counts.
Active == {c \in Callers : caller[c] \notin {"idle", "release"}}

CallerPcs == {"idle", "check", "ring", "wt", "wait", "done", "release"}
InUse == {"ring", "wt", "wait"}
PastWait == {"end", "adapter", "events", "done"}
ClosePcs == {"new", "flag", "signal", "wait", "waits", "woken"} \cup PastWait

Shape == /\ caller \in [Callers -> CallerPcs]
         /\ closePc \in ClosePcs
         /\ closeFlag \in BOOLEAN /\ waiting \in BOOLEAN

Counted == running = Cardinality(Active)

\* Who waits is Close, and only one call releases it, when none is left.
WaitOrder ==
  /\ waiting => closePc = "waits"
  /\ \A c \in Callers :
       /\ caller[c] = "release" => waiting /\ running = 0
       /\ \A d \in Callers : caller[c] = "release" /\ caller[d] = "release" => c = d

\* The flag is set before Close signals, waits and ends anything.
FlagFirst == closePc \notin {"new", "flag"} => closeFlag

\* Past its wait, Close has the session to itself.
Alone == closePc \in PastWait => \A c \in Callers : caller[c] \notin InUse

Open == live = {"session", "adapter"} \/ closePc \in {"adapter", "events", "done"}

SessionInv == Shape /\ Counted /\ WaitOrder /\ FlagFirst /\ Alone /\ Open
-----------------------------------------------------------------------------
\* The active calls are finitely many, and none is left when the counter is 0.
LEMMA ActiveFinite ==
  /\ IsFiniteSet(Active) /\ Cardinality(Active) \in Nat
  /\ Counted /\ running = 0 => Active = {}
<1>1. IsFiniteSet(Active)
  BY FS_Subset, CapAssumption DEF Active, Callers
<1>2. Cardinality(Active) \in Nat
  BY <1>1, FS_CardinalityType
<1>. QED  BY <1>1, <1>2, FS_EmptySet DEF Counted

\* A new device has its session.
LEMMA SessionInit == Init => SessionInv
<1>. SUFFICES ASSUME Init PROVE SessionInv
  OBVIOUS
<1>1. Active = {}
  BY DEF Init, Active
<1>. QED
  BY <1>1, FS_EmptySet DEF Init, SessionInv, Shape, Counted, WaitOrder,
     FlagFirst, Alone, Open, CallerPcs, ClosePcs, PastWait

\* A step that leaves alone what the invariant speaks of.
LEMMA SessionFrame ==
  SessionInv /\ UNCHANGED <<live, groupVars, closeFlag, closePc, caller>>
    => SessionInv'
BY DEF SessionInv, Shape, Counted, WaitOrder, FlagFirst, Alone, Open, groupVars,
       Active

\* A step of a call that stays active and does not come to use the session.
LEMMA SessionStays ==
  ASSUME SessionInv, NEW c \in Callers, NEW pc \in {"check", "ring", "wt", "wait",
                                                      "done"},
         caller[c] \notin {"idle", "release"}, Goes(c, pc),
         pc \in InUse => ~closeFlag \/ caller[c] \in InUse,
         UNCHANGED <<live, groupVars, closeFlag, closePc>>
  PROVE  SessionInv'
<1>1. Active' = Active
  BY DEF SessionInv, Shape, Active, Goes, CallerPcs
<1>. QED
  BY <1>1 DEF SessionInv, Shape, Counted, WaitOrder, FlagFirst, Alone, Open,
     groupVars, Goes, CallerPcs, ClosePcs, PastWait, InUse

\* running.Add: a call becomes active.
LEMMA SessionBegins ==
  ASSUME SessionInv, NEW c \in Callers, CallBegins(c)
  PROVE  SessionInv'
<1>. USE DEF CallBegins, CallFrame, closeVars
<1>1. CASE waiting /\ running = 0
  BY <1>1, SessionFrame DEF groupVars
<1>2. CASE ~(waiting /\ running = 0)
  <2>1. Active' = Active \cup {c} /\ c \notin Active
    BY <1>2 DEF SessionInv, Shape, Active, Goes, CallerPcs
  <2>2. Cardinality(Active') = Cardinality(Active) + 1
    BY <2>1, ActiveFinite, FS_AddElement
  <2>3. \A d \in Callers : caller'[d] # "release"
    BY <1>2, ActiveFinite DEF SessionInv, Shape, Goes, WaitOrder, CallerPcs
  <2>. QED
    BY <1>2, <2>2, <2>3 DEF SessionInv, Shape, Counted, WaitOrder, FlagFirst, Alone,
       Open, Goes, CallerPcs, ClosePcs, PastWait, InUse
<1>. QED  BY <1>1, <1>2

\* running.Done: a call ceases to be active.
LEMMA SessionDone ==
  ASSUME SessionInv, NEW c \in Callers, CallDone(c)
  PROVE  SessionInv'
<1>. USE DEF CallDone, CallFrame, closeVars
<1>1. Active' = Active \ {c} /\ c \in Active
  BY DEF SessionInv, Shape, Active, Goes, CallerPcs
<1>2. Cardinality(Active') = Cardinality(Active) - 1
  BY <1>1, ActiveFinite, FS_RemoveElement
<1>3. running \in Nat /\ running' = Cardinality(Active')
  BY <1>2, ActiveFinite DEF SessionInv, Counted
<1>4. running # 0
  BY <1>1, ActiveFinite DEF SessionInv
<1>5. \A d \in Callers : caller[d] # "release"
  BY <1>4 DEF SessionInv, WaitOrder
<1>6. WaitOrder'
  BY <1>3, <1>5 DEF SessionInv, Shape, WaitOrder, Goes, CallerPcs
<1>. QED
  BY <1>3, <1>6 DEF SessionInv, Shape, Counted, FlagFirst, Alone, Open, Goes,
     CallerPcs, ClosePcs, PastWait, InUse

\* The release of Close.
LEMMA SessionReleases ==
  ASSUME SessionInv, NEW c \in Callers, CallReleases(c)
  PROVE  SessionInv'
<1>. USE DEF CallReleases, sessionVars
<1>1. Active' = Active
  BY DEF SessionInv, Shape, Active, Goes, CallerPcs
<1>2. waiting /\ closePc = "waits"
  BY DEF SessionInv, WaitOrder
<1>3. \A d \in Callers : caller'[d] # "release"
  BY DEF SessionInv, Shape, WaitOrder, Goes, CallerPcs
<1>. QED
  BY <1>1, <1>2, <1>3 DEF SessionInv, Shape, Counted, WaitOrder, FlagFirst, Alone,
     Open, Goes, CallerPcs, ClosePcs, PastWait, InUse

\* The other steps of Read, Write and LUID.
LEMMA SessionCalls ==
  ASSUME SessionInv, NEW c \in Callers, CallGoesOn(c)
  PROVE  SessionInv'
<1>. USE DEF CallFrame, closeVars, InUse
<1>1. CASE CallChecks(c)
  <2>1. CASE closeFlag
    BY <1>1, <2>1, SessionStays DEF CallChecks
  <2>2. CASE ~closeFlag /\ c \in Readers
    BY <1>1, <2>2, SessionStays DEF CallChecks
  <2>3. CASE ~closeFlag /\ c \notin Readers
    BY <1>1, <2>3, SessionStays DEF CallChecks
  <2>. QED  BY <2>1, <2>2, <2>3
<1>2. CASE CallUses(c)
  BY <1>2, SessionStays DEF CallUses
<1>3. CASE ReadReceives(c)
  BY <1>3, SessionStays DEF ReadReceives
<1>4. CASE ReadFails(c)
  BY <1>4, SessionStays DEF ReadFails
<1>5. CASE ReadEmpty(c)
  <2>1. CASE Goes(c, "check")
    BY <1>5, <2>1, SessionStays DEF ReadEmpty
  <2>2. CASE Goes(c, "wait")
    BY <1>5, <2>2, SessionStays DEF ReadEmpty
  <2>. QED  BY <1>5, <2>1, <2>2 DEF ReadEmpty
<1>6. CASE ReadWakes(c)
  BY <1>6, SessionStays DEF ReadWakes
<1>. QED
  BY <1>1, <1>2, <1>3, <1>4, <1>5, <1>6, SessionDone, SessionReleases
     DEF CallGoesOn

\* Close waits until no call is active, and any later one finds the flag.
LEMMA SessionClose == SessionInv /\ Close => SessionInv'
<1>. SUFFICES ASSUME SessionInv, Close PROVE SessionInv'
  OBVIOUS
<1>. USE DEF CloseFrame, SessionInv, Shape, Counted, WaitOrder, FlagFirst, Alone,
         Open, ClosePcs, PastWait
<1>0. CloseFrame => Active' = Active
  BY DEF Active
<1>1. CASE CloseFlag
  BY <1>0, <1>1 DEF CloseFlag
<1>2. CASE CloseSignal
  BY <1>0, <1>2 DEF CloseSignal
<1>3. CASE CloseWait
  <2>1. running = 0 => \A c \in Callers : caller[c] \notin InUse
    BY ActiveFinite DEF Active, InUse
  <2>2. \A c \in Callers : caller[c] # "release"
    BY <1>3 DEF CloseWait
  <2>. QED  BY <1>0, <1>3, <2>1, <2>2 DEF CloseWait
<1>4. CASE CloseWoken
  <2>1. running = 0 => \A c \in Callers : caller[c] \notin InUse
    BY ActiveFinite DEF Active, InUse
  <2>. QED  BY <1>0, <1>4, <2>1 DEF CloseWoken
<1>5. CASE CloseEnd
  BY <1>0, <1>5 DEF CloseEnd
<1>6. CASE CloseAdapter
  BY <1>0, <1>6 DEF CloseAdapter
<1>7. CASE CloseEvents
  BY <1>0, <1>7 DEF CloseEvents
<1>8. ASSUME NEW c \in Closers, CloseEnter(c) PROVE SessionInv'
  BY <1>0, <1>8 DEF CloseEnter
<1>9. ASSUME NEW c \in Closers, CloseReturn(c) PROVE SessionInv'
  BY <1>0, <1>9 DEF CloseReturn
<1>. QED
  BY <1>1, <1>2, <1>3, <1>4, <1>5, <1>6, <1>7, <1>8, <1>9 DEF Close

\* The driver, ForceMTU, the application and the begin of a Close call.
LEMMA SessionOthers ==
  ASSUME SessionInv,
         \/ PacketArrives \/ SessionBreaks \/ TakeEvent \/ AsksMTU
         \/ \E c \in Closers : CloseCall(c)
         \/ \E f \in Forcers : \/ \E m \in MTUs : ForceCall(f, m)
                               \/ ForceCompare(f) \/ ForceStore(f) \/ ForceSend(f)
  PROVE  SessionInv'
<1>1. UNCHANGED <<live, groupVars, closeFlag, closePc, caller>>
  BY DEF PacketArrives, SessionBreaks, TakeEvent, AsksMTU, CloseCall, ForceCall,
         ForceCompare, ForceStore, ForceSend, MTUFrame, CloseFrame, sessionVars,
         groupVars, closeVars
<1>. QED  BY <1>1, SessionFrame

\* No step uses or ends a session that is not there.
LEMMA SessionStep == SessionInv /\ [Next]_vars => SessionInv'
<1>. SUFFICES ASSUME SessionInv, [Next]_vars PROVE SessionInv'
  OBVIOUS
<1>1. CASE UNCHANGED vars
  BY <1>1, SessionFrame DEF vars, sessionVars, groupVars, closeVars
<1>2. CASE Next
  BY <1>2, SessionBegins, SessionCalls, SessionClose, SessionOthers DEF Next
<1>. QED  BY <1>1, <1>2
-----------------------------------------------------------------------------
\* Close of tun_windows.go ends the session (line 130) and the adapter only when
\* no Read, Write or LUID is between its check of tun.close and its return.
THEOREM SessionNeverInUse == Spec => []SessionSafe
<1>1. SessionInv => SessionSafe
  BY DEF SessionInv, SessionSafe, Alone, Open, PastWait, InUse
<1>. QED  BY <1>1, SessionInit, SessionStep, PTL DEF Spec
-----------------------------------------------------------------------------
(***************************************************************************)
(* Type correctness, and who closes the event channel.                     *)
(***************************************************************************)

EventTypes == events \in ChanType(Event) /\ Len(events.buf) <= EventCap
MTUTypes ==
  /\ forcedMTU \in MTUs /\ mtuView \in MTUs /\ appPc \in {"idle", "MTU"}
  /\ forcer \in [Forcers -> [pc : {"idle", "compare", "store", "update", "send"},
                             mtu : MTUs]]
DriverTypes == /\ live \subseteq {"session", "adapter"} /\ ring \in 0..RingCap
               /\ broken \in BOOLEAN /\ readWait \in BOOLEAN
CallTypes == /\ closer \in [Closers -> {"idle", "called", "owner", "returned"}]
             /\ panic \in {"none", "send", "waitgroup"}

\* Close closes the channel in its last step.
ClosedLast == events.closed <=> closePc = "done"

StateInv == /\ SessionInv /\ EventTypes /\ MTUTypes /\ DriverTypes /\ CallTypes
            /\ ClosedLast

\* Sends, receives and close() keep the type of the event channel.
LEMMA EventsType ==
  /\ \A e \in Event :
       EventTypes /\ CanSend(events, EventCap) /\ events' = Sent(events, e)
         => EventTypes' /\ events'.closed = events.closed /\ events'.buf # <<>>
  /\ EventTypes /\ events' = Closed(events)
       => EventTypes' /\ events'.closed = TRUE /\ events'.buf = events.buf
  /\ EventTypes /\ HasValue(events) /\ events' = Received(events)
       => EventTypes' /\ events'.closed = events.closed
<1>1. EventCap \in Nat
  BY CapAssumption
<1>2. ASSUME NEW e \in Event, EventTypes, CanSend(events, EventCap),
             events' = Sent(events, e)
      PROVE  EventTypes' /\ events'.closed = events.closed /\ events'.buf # <<>>
  <2>1. events.buf \in Seq(Event) /\ events.closed \in BOOLEAN
    BY <1>2 DEF EventTypes, ChanType
  <2>2. /\ Append(events.buf, e) \in Seq(Event)
        /\ Len(Append(events.buf, e)) = Len(events.buf) + 1
        /\ Append(events.buf, e) # <<>>
    BY <2>1
  <2>3. events' = [buf |-> Append(events.buf, e), closed |-> events.closed]
    BY <1>2 DEF EventTypes, ChanType, Sent
  <2>. QED
    BY <1>1, <1>2, <2>1, <2>2, <2>3 DEF EventTypes, ChanType, CanSend
<1>3. ASSUME EventTypes, HasValue(events), events' = Received(events)
      PROVE  EventTypes' /\ events'.closed = events.closed
  <2>1. events.buf \in Seq(Event) /\ events.buf # <<>>
    BY <1>3 DEF EventTypes, ChanType, HasValue
  <2>2. Tail(events.buf) \in Seq(Event) /\ Len(Tail(events.buf)) <= Len(events.buf)
    BY <2>1
  <2>3. events' = [buf |-> Tail(events.buf), closed |-> events.closed]
    BY <1>3 DEF EventTypes, ChanType, Received
  <2>. QED  BY <1>1, <1>3, <2>1, <2>2, <2>3 DEF EventTypes, ChanType
<1>4. ASSUME EventTypes, events' = Closed(events)
      PROVE  EventTypes' /\ events'.closed = TRUE /\ events'.buf = events.buf
  BY <1>4 DEF EventTypes, ChanType, Closed
<1>. QED  BY <1>2, <1>3, <1>4

\* The state invariant holds when the device has been created.
LEMMA StateInit == Init => StateInv
<1>. SUFFICES ASSUME Init PROVE StateInv
  OBVIOUS
<1>1. EventTypes
  <2>1. <<>> \in Seq(Event) /\ Len(<<>>) <= EventCap
    BY CapAssumption
  <2>. QED  BY <2>1 DEF Init, EventTypes, ChanType, NewChan
<1>2. MTUTypes /\ CallTypes
  BY DEF Init, MTUTypes, CallTypes
<1>3. DriverTypes
  <2>1. ring \in 0..RingCap
    BY CapAssumption, 0 \in 0..RingCap DEF Init
  <2>. QED  BY <2>1 DEF Init, DriverTypes
<1>4. ClosedLast
  BY DEF Init, ClosedLast, NewChan
<1>. QED  BY <1>1, <1>2, <1>3, <1>4, SessionInit DEF StateInv

\* What the steps of ForceMTU and of the application do.
LEMMA StateMTU ==
  ASSUME StateInv,
         \/ \E f \in Forcers : \/ \E m \in MTUs : ForceCall(f, m)
                               \/ ForceCompare(f) \/ ForceStore(f) \/ ForceSend(f)
         \/ TakeEvent \/ AsksMTU
  PROVE  /\ EventTypes' /\ MTUTypes' /\ DriverTypes' /\ CallTypes'
         /\ ClosedLast'
<1>. USE DEF StateInv, MTUFrame, sessionVars, closeVars
<1>1. DriverTypes'
  BY DEF ForceCall, ForceCompare, ForceStore, ForceSend, TakeEvent, AsksMTU,
     DriverTypes
<1>2. CallTypes'
  BY DEF ForceCall, ForceCompare, ForceStore, ForceSend, TakeEvent, AsksMTU,
     CallTypes
<1>3. ASSUME NEW f \in Forcers,
             \/ \E m \in MTUs : ForceCall(f, m)
             \/ ForceCompare(f) \/ ForceStore(f) \/ ForceSend(f)
      PROVE  MTUTypes'
  <2>1. CASE \E m \in MTUs : ForceCall(f, m)
    BY <2>1 DEF ForceCall, MTUTypes
  <2>2. CASE ForceCompare(f)
    BY <2>2 DEF ForceCompare, MTUTypes
  <2>3. CASE ForceStore(f)
    BY <2>3 DEF ForceStore, MTUTypes
  <2>4. CASE ForceSend(f)
    BY <2>4 DEF ForceSend, MTUTypes
  <2>. QED  BY <1>3, <2>1, <2>2, <2>3, <2>4
<1>4. CASE TakeEvent \/ AsksMTU
  <2>1. MTUTypes'
    BY <1>4 DEF TakeEvent, AsksMTU, MTUTypes
  <2>2. EventTypes' /\ ClosedLast'
    BY <1>4, EventsType DEF TakeEvent, AsksMTU, EventTypes, ClosedLast
  <2>. QED  BY <1>1, <1>2, <2>1, <2>2
<1>5. ASSUME NEW f \in Forcers,
             \/ \E m \in MTUs : ForceCall(f, m)
             \/ ForceCompare(f) \/ ForceStore(f)
      PROVE  EventTypes' /\ ClosedLast'
  BY <1>5 DEF ForceCall, ForceCompare, ForceStore, EventTypes, ClosedLast
<1>6. ASSUME NEW f \in Forcers, ForceSend(f)
      PROVE  EventTypes' /\ ClosedLast'
  <2>1. CASE CanSend(events, EventCap) /\ events' = Sent(events, "MTUUpdate")
    BY <1>6, <2>1, EventsType DEF ForceSend, ClosedLast, Event
  <2>2. CASE UNCHANGED events
    BY <1>6, <2>2 DEF ForceSend, ClosedLast, EventTypes
  <2>. QED  BY <1>6, <2>1, <2>2 DEF ForceSend
<1>. QED  BY <1>1, <1>2, <1>3, <1>4, <1>5, <1>6

\* The calls of users keep it.
LEMMA StateCalls ==
  ASSUME StateInv,
         \/ PacketArrives \/ SessionBreaks
         \/ \E c \in Callers : CallBegins(c) \/ CallGoesOn(c)
  PROVE  /\ EventTypes' /\ MTUTypes' /\ DriverTypes' /\ CallTypes'
         /\ ClosedLast'
<1>. USE DEF StateInv, CallFrame, closeVars, mtuVars, sessionVars
<1>1. EventTypes' /\ MTUTypes'
  BY DEF PacketArrives, SessionBreaks, CallBegins, CallGoesOn, CallChecks, CallUses,
     CallDone, CallReleases, ReadReceives, ReadFails, ReadEmpty, ReadWakes,
     EventTypes, MTUTypes
<1>2. CallTypes'
  BY DEF PacketArrives, SessionBreaks, CallBegins, CallGoesOn, CallChecks, CallUses,
     CallDone, CallReleases, ReadReceives, ReadFails, ReadEmpty, ReadWakes, CallTypes
<1>3. CASE PacketArrives \/ SessionBreaks
  <2>1. ring' \in 0..RingCap
    BY <1>3, CapAssumption DEF PacketArrives, SessionBreaks, DriverTypes
  <2>. QED
    BY <1>1, <1>2, <1>3, <2>1
       DEF PacketArrives, SessionBreaks, DriverTypes, ClosedLast
<1>4. ASSUME NEW c \in Callers, CallBegins(c) \/ CallGoesOn(c)
      PROVE  DriverTypes' /\ ClosedLast'
  <2>1. CASE CallReleases(c)
    \* Only who waits is released, so the channel is still open.
    <3>1. closePc = "waits"
      BY <2>1 DEF CallReleases, SessionInv, WaitOrder
    <3>. QED  BY <2>1, <3>1 DEF CallReleases, DriverTypes, ClosedLast
  <2>2. CASE ReadReceives(c)
    <3>1. ring' \in 0..RingCap
      BY <2>2, CapAssumption DEF ReadReceives, DriverTypes
    <3>. QED  BY <2>2, <3>1 DEF ReadReceives, DriverTypes, ClosedLast
  <2>3. CASE \/ CallBegins(c) \/ CallChecks(c) \/ CallUses(c) \/ CallDone(c)
             \/ ReadFails(c) \/ ReadEmpty(c) \/ ReadWakes(c)
    BY <2>3 DEF CallBegins, CallChecks, CallUses, CallDone, ReadFails, ReadEmpty,
       ReadWakes, DriverTypes, ClosedLast
  <2>. QED  BY <1>4, <2>1, <2>2, <2>3 DEF CallGoesOn
<1>. QED  BY <1>1, <1>2, <1>3, <1>4

\* Close keeps it.
LEMMA StateClose ==
  ASSUME StateInv, Close \/ \E c \in Closers : CloseCall(c)
  PROVE  /\ EventTypes' /\ MTUTypes' /\ DriverTypes' /\ CallTypes'
         /\ ClosedLast'
<1>. USE DEF StateInv, CloseFrame
<1>1. ASSUME NEW c \in Closers, CloseEnter(c) \/ CloseReturn(c) \/ CloseCall(c)
      PROVE  /\ EventTypes' /\ MTUTypes' /\ DriverTypes' /\ CallTypes'
             /\ ClosedLast'
  BY <1>1 DEF CloseEnter, CloseReturn, CloseCall, EventTypes, MTUTypes, DriverTypes,
     CallTypes, ClosedLast
<1>2. CASE CloseEvents
  <2>1. EventTypes' /\ events'.closed = TRUE
    BY <1>2, EventsType DEF CloseEvents
  <2>. QED
    BY <1>2, <2>1 DEF CloseEvents, MTUTypes, DriverTypes, CallTypes, ClosedLast
<1>3. CASE \/ CloseFlag \/ CloseSignal \/ CloseWait \/ CloseWoken \/ CloseEnd
           \/ CloseAdapter
  <2>1. EventTypes' /\ MTUTypes' /\ ClosedLast'
    BY <1>3 DEF CloseFlag, CloseSignal, CloseWait, CloseWoken, CloseEnd,
       CloseAdapter, EventTypes, MTUTypes, ClosedLast
  <2>2. DriverTypes' /\ CallTypes'
    BY <1>3 DEF CloseFlag, CloseSignal, CloseWait, CloseWoken, CloseEnd,
       CloseAdapter, DriverTypes, CallTypes
  <2>. QED  BY <2>1, <2>2
<1>. QED  BY <1>1, <1>2, <1>3 DEF Close

\* No step disturbs it.
LEMMA StateStep == StateInv /\ [Next]_vars => StateInv'
<1>. SUFFICES ASSUME StateInv, [Next]_vars PROVE StateInv'
  OBVIOUS
<1>1. SessionInv'
  BY SessionStep DEF StateInv
<1>2. CASE UNCHANGED vars
  BY <1>1, <1>2 DEF StateInv, vars, sessionVars, closeVars, mtuVars, EventTypes,
     MTUTypes, DriverTypes, CallTypes, ClosedLast
<1>3. CASE Next
  BY <1>1, <1>3, StateMTU, StateCalls, StateClose DEF Next, StateInv
<1>. QED  BY <1>2, <1>3

\* The state invariant holds of every behaviour.
LEMMA StateInvariant == Spec => []StateInv
BY StateInit, StateStep, PTL DEF Spec

\* No call takes a variable out of its type: the channel of ForceMTU never holds
\* more than its capacity, and tun.running never counts more goroutines than
\* there are.
THEOREM TypeCorrect == Spec => []TypeOK
<1>1. StateInv => TypeOK
  <2>. SUFFICES ASSUME StateInv PROVE TypeOK
    OBVIOUS
  <2>1. /\ Cardinality(Active) <= Cardinality(Callers)
        /\ Cardinality(Callers) \in Nat /\ Cardinality(Active) \in Nat
    BY FS_Subset, FS_CardinalityType, CapAssumption DEF Active, Callers
  <2>2. running \in 0..Cardinality(Callers)
    BY <2>1 DEF StateInv, SessionInv, Counted
  <2>. QED
    BY <2>2 DEF StateInv, SessionInv, Shape, EventTypes, MTUTypes, DriverTypes,
       CallTypes, TypeOK, ClosePcs, PastWait, CallerPcs
<1>. QED  BY <1>1, StateInvariant, PTL
-----------------------------------------------------------------------------
(***************************************************************************)
(* The MTU the application knows.                                          *)
(***************************************************************************)

OneForcer == \A f, g \in Forcers : f = g

\* What the application does not know of the MTU it is about to hear: an event
\* is on its way, or still to be sent.  A store without an event changes nothing.
MTUOnItsWay ==
  /\ \/ mtuView = forcedMTU \/ events.buf # <<>> \/ appPc = "MTU"
     \/ \E f \in Forcers : forcer[f].pc = "send"
  /\ \A f \in Forcers : forcer[f].pc = "store" => forcedMTU = forcer[f].mtu

\* With one forcer, an MTU event is on its way or the last one told the MTU.
LEMMA MTUStep ==
  ASSUME OneForcer, StateInv, MTUOnItsWay, [Next]_vars
  PROVE  MTUOnItsWay'
<1>. USE DEF StateInv, MTUTypes, MTUOnItsWay
<1>1. ASSUME NEW f \in Forcers, NEW m \in MTUs, ForceCall(f, m) PROVE MTUOnItsWay'
  BY <1>1 DEF ForceCall
<1>2. ASSUME NEW f \in Forcers, ForceCompare(f) PROVE MTUOnItsWay'
  BY <1>2 DEF ForceCompare
<1>3. ASSUME NEW f \in Forcers, ForceStore(f) PROVE MTUOnItsWay'
  BY <1>3 DEF ForceStore, OneForcer
<1>4. ASSUME NEW f \in Forcers, ForceSend(f) PROVE MTUOnItsWay'
  BY <1>4, EventsType DEF ForceSend, Event
<1>5. CASE TakeEvent
  BY <1>5 DEF TakeEvent
<1>6. CASE AsksMTU
  BY <1>6 DEF AsksMTU
<1>7. CASE Close \/ \E c \in Closers : CloseCall(c)
  <2>1. UNCHANGED <<forcedMTU, forcer, appPc, mtuView>> /\ events'.buf = events.buf
    BY <1>7, EventsType
       DEF Close, CloseFrame, CloseCall, CloseEnter, CloseReturn, CloseFlag,
           CloseSignal, CloseWait, CloseWoken, CloseEnd, CloseAdapter, CloseEvents
  <2>. QED  BY <2>1
<1>8. CASE \/ PacketArrives \/ SessionBreaks \/ UNCHANGED vars
           \/ \E c \in Callers : CallBegins(c) \/ CallGoesOn(c)
  <2>1. UNCHANGED mtuVars
    BY <1>8 DEF PacketArrives, SessionBreaks, CallBegins, CallGoesOn, CallChecks,
       CallUses, CallDone, CallReleases, ReadReceives, ReadFails, ReadEmpty,
       ReadWakes, CallFrame, vars
  <2>. QED  BY <2>1 DEF mtuVars
<1>. QED
  BY <1>1, <1>2, <1>3, <1>4, <1>5, <1>6, <1>7, <1>8 DEF Next

\* While one goroutine calls ForceMTU, an application that asks for the MTU after
\* each event ends up knowing the value ForceMTU stored, whatever Read, Write and
\* Close do meanwhile.  Two concurrent callers break this: one may store a value
\* it compared before the other stored and reported another.
THEOREM MTUKnown == ASSUME OneForcer PROVE Spec => []MTUInv
<1>1. Init => MTUOnItsWay
  BY DEF Init, MTUOnItsWay
<1>2. StateInv /\ MTUOnItsWay /\ [Next]_vars => MTUOnItsWay'
  BY MTUStep
<1>3. MTUOnItsWay => MTUSeen
  BY DEF MTUOnItsWay, MTUSeen
<1>. QED  BY <1>1, <1>2, <1>3, StateInvariant, TypeCorrect, PTL DEF Spec, MTUInv
-----------------------------------------------------------------------------
(***************************************************************************)
(* The event channel implements EventStream.                               *)
(***************************************************************************)

\* A new device has its event stream.
LEMMA StreamInit == Init => Stream!Init
BY DEF Init, Stream!Init, NewChan, Stream!NewChan

\* A step that leaves the channel alone and does not reset tun.close is a
\* stuttering step or End.
LEMMA QuietStep ==
  ASSUME UNCHANGED events, closeFlag \in BOOLEAN, closeFlag' \in BOOLEAN,
         closeFlag => closeFlag'
  PROVE  [Stream!Next]_(Stream!vars)
<1>1. CASE closeFlag'
  BY <1>1 DEF Stream!Next, Stream!End
<1>2. CASE ~closeFlag'
  BY <1>2 DEF Stream!vars
<1>. QED  BY <1>1, <1>2

\* Every step of the device is a step of the event stream or none.
LEMMA StreamStep == StateInv /\ [Next]_vars => [Stream!Next]_(Stream!vars)
<1>. SUFFICES ASSUME StateInv, [Next]_vars
              PROVE  [Stream!Next]_(Stream!vars)
  OBVIOUS
<1>. USE DEF StateInv, SessionInv, Shape
<1>1. ASSUME NEW f \in Forcers, ForceSend(f)
      PROVE  [Stream!Next]_(Stream!vars)
  BY <1>1 DEF ForceSend, MTUFrame, closeVars, Event, Stream!Next, Stream!Emit,
     Stream!vars, CanSend, Stream!CanSend, Sent, Stream!Sent
<1>2. CASE TakeEvent
  BY <1>2 DEF TakeEvent, MTUFrame, closeVars, Stream!Next, Stream!Take, HasValue,
     Received, Stream!HasValue, Stream!Received
<1>3. CASE CloseEvents
  <2>1. closeFlag /\ ~events.closed
    BY <1>3 DEF CloseEvents, ClosedLast, FlagFirst
  <2>. QED
    BY <1>3, <2>1 DEF CloseEvents, Stream!Next, Stream!Finish, Closed,
       Stream!Closed
<1>4. CASE \/ Close /\ ~CloseEvents
           \/ \E c \in Closers : CloseCall(c)
  <2>1. UNCHANGED events /\ closeFlag' \in BOOLEAN /\ (closeFlag => closeFlag')
    BY <1>4
       DEF Close, CloseFrame, CloseCall, CloseEnter, CloseReturn, CloseFlag,
           CloseSignal, CloseWait, CloseWoken, CloseEnd, CloseAdapter
  <2>. QED  BY <2>1, QuietStep
<1>5. CASE \/ PacketArrives \/ SessionBreaks \/ AsksMTU \/ UNCHANGED vars
           \/ \E c \in Callers : CallBegins(c) \/ CallGoesOn(c)
           \/ \E f \in Forcers : \/ \E m \in MTUs : ForceCall(f, m)
                                 \/ ForceCompare(f) \/ ForceStore(f)
  <2>1. UNCHANGED <<events, closeFlag>>
    BY <1>5 DEF PacketArrives, SessionBreaks, AsksMTU, CallBegins, CallGoesOn,
       CallChecks, CallUses, CallDone, CallReleases, ReadReceives, ReadFails,
       ReadEmpty, ReadWakes, CallFrame, ForceCall, ForceCompare, ForceStore,
       MTUFrame, closeVars, mtuVars, vars
  <2>. QED  BY <2>1, QuietStep
<1>. QED  BY <1>1, <1>2, <1>3, <1>4, <1>5 DEF Next

\* What the application sees of the Windows device is a stream of MTU updates
\* that Close closes once, after it has set tun.close; a ForceMTU that comes too
\* late panics instead of sending on it.
THEOREM ImplementsEventStream == Spec => StreamSpec
BY StreamInit, StreamStep, StateInvariant, PTL DEF Spec, StreamSpec, Stream!Spec
=============================================================================
