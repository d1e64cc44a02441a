------------------------------ MODULE RWCancel ------------------------------
(***************************************************************************)
(* The cancellation pipe of rwcancel/rwcancel.go.  A goroutine that waits  *)
(* for a descriptor polls the read end of a pipe with it; Cancel writes a  *)
(* byte to the write end, Close closes both ends one after the other.      *)
(* Cancel and Close run on different goroutines without a lock, so a       *)
(* Cancel can find either end closed.                                      *)
(***************************************************************************)

PipeType == [reader : BOOLEAN, writer : BOOLEAN, byte : BOOLEAN]

\* NewRWCancel: both ends open (TRUE), nothing written.
NewPipe == [reader |-> TRUE, writer |-> TRUE, byte |-> FALSE]

\* The error of the raw write Cancel makes: os.ErrClosed when Close has closed
\* the write end, EPIPE when it has only closed the read end so far.
WriteError(p) == IF ~p.writer THEN "ErrClosed"
                 ELSE IF ~p.reader THEN "EPIPE" ELSE "nil"

\* Cancel: the byte is in the pipe if the write succeeded, and an end that is
\* closed already is not an error, because the waiter it would wake has left.
AfterCancel(p) == [p EXCEPT !.byte = @ \/ WriteError(p) = "nil"]
\* Mistake: only one of the two errors is recognised.
CancelErrorHalf(p) == IF WriteError(p) = "ErrClosed"
                      THEN "nil" ELSE WriteError(p)

CancelError(p) == IF WriteError(p) \in {"EPIPE", "ErrClosed"}
                  THEN "nil" ELSE WriteError(p)

\* ReadyRead (and ReadyWrite): poll returns once the pipe or the descriptor
\* has something to report, and the pipe takes precedence.
PollReturns(p, fdReady) == p.byte \/ fdReady
Ready(p, fdReady) == ~p.byte /\ fdReady

\* The two halves of Close.
CloseReader(p) == [p EXCEPT !.reader = FALSE]
CloseWriter(p) == [p EXCEPT !.writer = FALSE]
=============================================================================
