---------------------------- MODULE EventStream -----------------------------
(***************************************************************************)
(* What the channel returned by Tun.Events() promises its reader, whatever *)
(* the platform: a bounded stream of device events, delivered in the order *)
(* they were sent, that is closed at most once, never before the device    *)
(* was closed or its event source was lost, and that nobody sends on once  *)
(* it is closed.                                                           *)
(***************************************************************************)
EXTENDS GoChan

CONSTANTS Event,      \* the kinds of event a device may report
          EventCap    \* capacity of the channel

VARIABLES events,     \* the channel
          ended       \* Close was called, or the source of events failed

vars == <<events, ended>>

Init == /\ events = NewChan
        /\ ended = FALSE

\* A status listener reports e.
Emit(e) == /\ CanSend(events, EventCap)
           /\ events' = Sent(events, e)
           /\ UNCHANGED ended

\* The reader of Events() takes the oldest event.
Take == /\ HasValue(events)
        /\ events' = Received(events)
        /\ UNCHANGED ended

\* The device is closed by its user, or its event source is lost.
End == /\ ended' = TRUE
       /\ UNCHANGED events

\* The channel is closed, once, and only for a stream that has ended.
Finish == /\ ended
          /\ ~events.closed
          /\ events' = Closed(events)
          /\ UNCHANGED ended

Next == Take \/ End \/ Finish \/ \E e \in Event : Emit(e)

Spec == Init /\ [][Next]_vars
=============================================================================
