------------------------------- MODULE GoChan -------------------------------
(***************************************************************************)
(* Buffered Go channels, as the Tun implementations use them for events    *)
(* and asynchronous errors.  The Go runtime is not part of the repository: *)
(* these operators state the part of its contract the code relies on.      *)
(*                                                                         *)
(* A channel is a record of the values waiting in its buffer and of its    *)
(* closed flag.  Its capacity is a parameter of the operators that need    *)
(* it.  A send on a closed channel and a second close panic: the state in  *)
(* which a goroutine is about to do either is what a caller must exclude,  *)
(* so the operators below say nothing of what follows.                     *)
(***************************************************************************)
EXTENDS Naturals, Sequences

ChanType(V) == [buf : Seq(V), closed : BOOLEAN]

NewChan == [buf |-> <<>>, closed |-> FALSE]

\* A send that need not wait.
CanSend(c, cap) == ~c.closed /\ Len(c.buf) < cap
Sent(c, v) == [c EXCEPT !.buf = Append(@, v)]

\* The channel after close(c).
Closed(c) == [c EXCEPT !.closed = TRUE]

\* A receive finds a value.  What is buffered when the channel is closed is
\* still delivered.
HasValue(c) == c.buf # <<>>
Received(c) == [c EXCEPT !.buf = Tail(@)]

\* A range over the channel ends: it is closed and drained.
Exhausted(c) == c.closed /\ c.buf = <<>>
=============================================================================
