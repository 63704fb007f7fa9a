------------------------- MODULE ThreadMessageQueue -------------------------
(***************************************************************************)
(* FFmpeg's AVThreadMessageQueue, the only channel between the JavaScript  *)
(* thread and the native threads.  It is library code: the operators below *)
(* are what src/ relies on.  A queue is a bounded FIFO with two error      *)
(* flags.  Every operator is one critical section of the queue's mutex.    *)
(*                                                                         *)
(* Each flag only ever takes the value AVERROR_EOF here, so it is Boolean. *)
(* A send looks at err_send first, and is refused whatever the room; a     *)
(* receive looks at the messages first, so a queue that was closed with    *)
(* messages in it is drained before the receiver sees the error.           *)
(***************************************************************************)
EXTENDS Naturals, Sequences

(* The queues that hold messages from the set M. *)
QueueOf(M) == [msgs : Seq(M), err_send : BOOLEAN, err_recv : BOOLEAN]

EmptyQueue == [msgs |-> <<>>, err_send |-> FALSE, err_recv |-> FALSE]

(* A send succeeds, is refused with the error, or finds the queue full: it *)
(* then fails with AVERROR(EAGAIN) under AV_THREAD_MESSAGE_NONBLOCK and    *)
(* waits for room or for an error otherwise.                               *)
CanSend(q, cap)  == ~q.err_send /\ Len(q.msgs) < cap
SendFails(q)     == q.err_send
IsFull(q, cap)   == ~q.err_send /\ Len(q.msgs) >= cap

(* A receive returns the first message, fails with the error when there is *)
(* none, and otherwise blocks.                                             *)
CanRecv(q)   == q.msgs # <<>>
RecvFails(q) == q.msgs = <<>> /\ q.err_recv

Send(q, m)    == [q EXCEPT !.msgs = Append(@, m)]
Recv(q)       == [q EXCEPT !.msgs = Tail(@)]
SetErrSend(q) == [q EXCEPT !.err_send = TRUE]
SetErrRecv(q) == [q EXCEPT !.err_recv = TRUE]
Flush(q)      == [q EXCEPT !.msgs = <<>>]

(* A non-blocking send whose result the caller ignores. *)
TrySend(q, m, cap) == IF CanSend(q, cap) THEN Send(q, m) ELSE q

=============================================================================
