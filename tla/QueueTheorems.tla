--------------------------- MODULE QueueTheorems ---------------------------
(***************************************************************************)
(* What the operators of ThreadMessageQueue do to the messages of a queue. *)
(***************************************************************************)
EXTENDS ThreadMessageQueue, SequenceTheorems, TLAPS

(* The queues with messages from M that were made for cap of them. *)
BoundedQueue(M, cap) == {q \in QueueOf(M) : Len(q.msgs) <= cap}

-----------------------------------------------------------------------------
(* Sequences.                                                              *)

LEMMA TailProperties ==
    ASSUME NEW M, NEW s \in Seq(M), s # <<>>
    PROVE  /\ Len(s) \in Nat \ {0} /\ s[1] \in M /\ Head(s) = s[1]
           /\ Tail(s) \in Seq(M) /\ Len(Tail(s)) = Len(s) - 1
           /\ \A i \in 1..(Len(s) - 1) : Tail(s)[i] = s[i + 1]
<1>1. Len(s) \in Nat \ {0} /\ s[1] \in M /\ Head(s) = s[1]
      BY EmptySeq, ElementOfSeq
<1> QED BY <1>1, HeadTailProperties

LEMMA LastElement ==
    ASSUME NEW M, NEW s \in Seq(M), s # <<>>
    PROVE  Len(s) \in Nat \ {0} /\ s[Len(s)] \in M
<1>1. Len(s) \in Nat /\ Len(s) # 0
      OBVIOUS
<1>2. Len(s) \in 1..Len(s)
      BY <1>1
<1> QED BY <1>1, <1>2

(* Splitting a sequence at n. *)
LEMMA SplitTypes ==
    ASSUME NEW M, NEW s \in Seq(M), NEW n \in Nat, n <= Len(s)
    PROVE  /\ SubSeq(s, 1, n) \in Seq(M) /\ Len(SubSeq(s, 1, n)) = n
           /\ SubSeq(s, n + 1, Len(s)) \in Seq(M)
<1>1. Len(s) \in Nat /\ \A i \in 1..Len(s) : s[i] \in M
      BY LenProperties
<1>2. (\A i \in 1..n : s[i] \in M) /\ (\A i \in (n + 1)..Len(s) : s[i] \in M)
      BY <1>1
<1>3. SubSeq(s, 1, n) \in Seq(M)
      BY <1>2, SubSeqProperties
<1>4. Len(SubSeq(s, 1, n)) = IF 1 <= n THEN n - 1 + 1 ELSE 0
      BY <1>2, SubSeqProperties
<1>5. SubSeq(s, n + 1, Len(s)) \in Seq(M)
      BY <1>1, <1>2, SubSeqProperties
<1> QED BY <1>3, <1>4, <1>5

(* What is appended to one sequence and removed from the other leaves the  *)
(* two together as they were.                                              *)
LEMMA MoveHead ==
    ASSUME NEW M, NEW s \in Seq(M), NEW t \in Seq(M), t # <<>>
    PROVE  Append(s, Head(t)) \o Tail(t) = s \o t
<1>1. Tail(t) \in Seq(M) /\ Head(t) \in M /\ Len(Tail(t)) = Len(t) - 1
      /\ Len(t) \in Nat \ {0} /\ Head(t) = t[1]
      BY TailProperties
<1>2. \A i \in 1..Len(Tail(t)) : Tail(t)[i] = t[i + 1]
      BY <1>1, TailProperties
<1> DEFINE u == Append(s, Head(t))
<1>3. u \in Seq(M) /\ Len(u) = Len(s) + 1 /\ Len(s) \in Nat
      /\ (\A i \in 1..Len(s) : u[i] = s[i]) /\ u[Len(s) + 1] = Head(t)
      BY <1>1, AppendProperties, LenProperties
<1> HIDE DEF u
<1>4. /\ u \o Tail(t) \in Seq(M) /\ Len(u \o Tail(t)) = Len(u) + Len(Tail(t))
      /\ \A i \in 1..(Len(u) + Len(Tail(t))) :
            (u \o Tail(t))[i] = IF i <= Len(u) THEN u[i] ELSE Tail(t)[i - Len(u)]
      BY <1>1, <1>3, ConcatProperties
<1>5. /\ s \o t \in Seq(M) /\ Len(s \o t) = Len(s) + Len(t)
      /\ \A i \in 1..(Len(s) + Len(t)) :
            (s \o t)[i] = IF i <= Len(s) THEN s[i] ELSE t[i - Len(s)]
      BY ConcatProperties
<1>6. Len(u \o Tail(t)) = Len(s \o t)
      BY <1>1, <1>3, <1>4, <1>5
<1>7. ASSUME NEW i \in 1..(Len(s) + Len(t)) PROVE (u \o Tail(t))[i] = (s \o t)[i]
  <2>1. CASE i <= Len(s)
        BY <2>1, <1>1, <1>3, <1>4, <1>5
  <2>2. CASE i = Len(s) + 1
        BY <2>2, <1>1, <1>3, <1>4, <1>5
  <2>3. CASE i > Len(s) + 1
    <3>1. i - Len(u) \in 1..Len(Tail(t)) /\ (i - Len(u)) + 1 = i - Len(s)
          BY <2>3, <1>1, <1>3
    <3>2. Tail(t)[i - Len(u)] = t[i - Len(s)]
          BY <3>1, <1>2
    <3> QED BY <2>3, <3>2, <1>1, <1>3, <1>4, <1>5
  <2> QED BY <2>1, <2>2, <2>3, <1>3
<1>8. u \o Tail(t) = s \o t
      BY <1>4, <1>5, <1>6, <1>7, SeqEqual
<1> QED BY <1>8 DEF u

-----------------------------------------------------------------------------
(* Queues.                                                                 *)

LEMMA QueueFlags ==
    ASSUME NEW M, NEW q \in QueueOf(M)
    PROVE  /\ SetErrSend(q) \in QueueOf(M)
           /\ SetErrRecv(q) \in QueueOf(M)
           /\ Flush(q) \in QueueOf(M)
<1>1. SetErrSend(q) \in QueueOf(M)
      BY DEF QueueOf, SetErrSend
<1>2. SetErrRecv(q) \in QueueOf(M)
      BY DEF QueueOf, SetErrRecv
<1>3. <<>> \in Seq(M)
      OBVIOUS
<1>4. Flush(q) \in QueueOf(M)
      BY <1>3 DEF QueueOf, Flush
<1> QED BY <1>1, <1>2, <1>4

LEMMA QueueSend ==
    ASSUME NEW M, NEW q \in QueueOf(M), NEW m \in M, NEW cap
    PROVE  Send(q, m) \in QueueOf(M) /\ TrySend(q, m, cap) \in QueueOf(M)
BY DEF QueueOf, Send, TrySend

LEMMA QueueRecv ==
    ASSUME NEW M, NEW q \in QueueOf(M), CanRecv(q)
    PROVE  Head(q.msgs) \in M /\ Recv(q) \in QueueOf(M)
BY DEF QueueOf, Recv, CanRecv

LEMMA EmptyIsBounded ==
    ASSUME NEW M, NEW cap \in Nat
    PROVE  EmptyQueue \in BoundedQueue(M, cap)
<1>1. <<>> \in Seq(M) /\ Len(<<>>) = 0
      BY EmptySeq
<1> QED BY <1>1 DEF EmptyQueue, BoundedQueue, QueueOf

(* Closing a queue leaves the messages alone. *)
LEMMA CloseKeepsMessages ==
    ASSUME NEW M, NEW cap, NEW q \in BoundedQueue(M, cap)
    PROVE  /\ SetErrSend(q) \in BoundedQueue(M, cap) /\ SetErrSend(q).msgs = q.msgs
           /\ SetErrSend(q).err_send /\ SetErrSend(q).err_recv = q.err_recv
           /\ SetErrRecv(q) \in BoundedQueue(M, cap) /\ SetErrRecv(q).msgs = q.msgs
           /\ SetErrRecv(q).err_recv /\ SetErrRecv(q).err_send = q.err_send
<1>1. SetErrSend(q).msgs = q.msgs /\ SetErrRecv(q).msgs = q.msgs
      BY DEF BoundedQueue, QueueOf, SetErrSend, SetErrRecv
<1>2. /\ SetErrSend(q).err_send /\ SetErrSend(q).err_recv = q.err_recv
      /\ SetErrRecv(q).err_recv /\ SetErrRecv(q).err_send = q.err_send
      BY DEF BoundedQueue, QueueOf, SetErrSend, SetErrRecv
<1> QED BY <1>1, <1>2, QueueFlags DEF BoundedQueue

(* A send that has room adds a message at the end. *)
LEMMA SendAppends ==
    ASSUME NEW M, NEW cap \in Nat, NEW q \in BoundedQueue(M, cap), NEW m \in M,
           CanSend(q, cap)
    PROVE  /\ Send(q, m) \in BoundedQueue(M, cap)
           /\ Send(q, m).msgs = Append(q.msgs, m)
           /\ Send(q, m).err_send = q.err_send /\ Send(q, m).err_recv = q.err_recv
           /\ TrySend(q, m, cap) = Send(q, m)
<1>1. q.msgs \in Seq(M) /\ Len(q.msgs) \in Nat
      BY DEF BoundedQueue, QueueOf
<1>2. /\ Send(q, m).msgs = Append(q.msgs, m)
      /\ Send(q, m).err_send = q.err_send /\ Send(q, m).err_recv = q.err_recv
      BY DEF BoundedQueue, QueueOf, Send
<1>3. Len(Append(q.msgs, m)) = Len(q.msgs) + 1
      BY <1>1, AppendProperties
<1>4. Send(q, m) \in QueueOf(M)
      BY QueueSend DEF BoundedQueue
<1> QED BY <1>1, <1>2, <1>3, <1>4 DEF BoundedQueue, CanSend, TrySend

(* A non-blocking send does that or nothing. *)
LEMMA TrySendAppends ==
    ASSUME NEW M, NEW cap \in Nat, NEW q \in BoundedQueue(M, cap), NEW m \in M
    PROVE  /\ TrySend(q, m, cap) \in BoundedQueue(M, cap)
           /\ TrySend(q, m, cap).msgs \in {q.msgs, Append(q.msgs, m)}
           /\ TrySend(q, m, cap).err_send = q.err_send
           /\ TrySend(q, m, cap).err_recv = q.err_recv
<1>1. CASE CanSend(q, cap)
      BY <1>1, SendAppends
<1>2. CASE ~CanSend(q, cap)
      BY <1>2 DEF TrySend
<1> QED BY <1>1, <1>2

(* A receive takes the first message. *)
LEMMA RecvTakesHead ==
    ASSUME NEW M, NEW cap \in Nat, NEW q \in BoundedQueue(M, cap), CanRecv(q)
    PROVE  /\ Recv(q) \in BoundedQueue(M, cap) /\ Head(q.msgs) \in M
           /\ Recv(q).msgs = Tail(q.msgs)
           /\ Recv(q).err_send = q.err_send /\ Recv(q).err_recv = q.err_recv
<1>1. q.msgs \in Seq(M) /\ q.msgs # <<>>
      BY DEF BoundedQueue, QueueOf, CanRecv
<1>2. Recv(q).msgs = Tail(q.msgs)
      /\ Recv(q).err_send = q.err_send /\ Recv(q).err_recv = q.err_recv
      BY DEF BoundedQueue, QueueOf, Recv
<1>3. Len(Tail(q.msgs)) = Len(q.msgs) - 1 /\ Len(q.msgs) \in Nat
      BY <1>1, TailProperties
<1>4. Recv(q) \in QueueOf(M) /\ Head(q.msgs) \in M
      BY QueueRecv DEF BoundedQueue
<1>5. Len(q.msgs) <= cap
      BY DEF BoundedQueue
<1>6. Len(Recv(q).msgs) <= cap
      BY <1>2, <1>3, <1>5
<1> QED BY <1>2, <1>4, <1>6 DEF BoundedQueue

LEMMA FlushEmpties ==
    ASSUME NEW M, NEW cap \in Nat, NEW q \in BoundedQueue(M, cap)
    PROVE  Flush(q) \in BoundedQueue(M, cap) /\ Flush(q).msgs = <<>>
<1>1. Flush(q).msgs = <<>> /\ Len(<<>>) = 0
      BY EmptySeq DEF BoundedQueue, QueueOf, Flush
<1> QED BY <1>1, QueueFlags DEF BoundedQueue

(* No operator opens a queue again, and only a receiver, or the flush of   *)
(* an abort, empties one.                                                  *)
LEMMA QueueKeeps ==
    ASSUME NEW M, NEW q \in QueueOf(M)
    PROVE  /\ SetErrSend(q).err_recv = q.err_recv /\ SetErrSend(q).msgs = q.msgs
           /\ SetErrSend(q).err_send
           /\ SetErrRecv(q).err_recv /\ SetErrRecv(q).msgs = q.msgs
           /\ SetErrRecv(q).err_send = q.err_send
           /\ Flush(q).err_recv = q.err_recv /\ Flush(q).err_send = q.err_send
           /\ Flush(q).msgs = <<>>
           /\ Recv(q).err_recv = q.err_recv /\ Recv(q).err_send = q.err_send
           /\ \A m : /\ Send(q, m).err_recv = q.err_recv
                     /\ Send(q, m).err_send = q.err_send
           /\ \A m \in M : \A cap :
                /\ TrySend(q, m, cap).err_recv = q.err_recv
                /\ TrySend(q, m, cap).err_send = q.err_send
                /\ q.msgs # <<>> => TrySend(q, m, cap).msgs # <<>>
<1>1. ASSUME NEW m \in M, NEW cap, q.msgs # <<>>
      PROVE  TrySend(q, m, cap).msgs # <<>>
  <2>1. CASE CanSend(q, cap)
    <3>1. TrySend(q, m, cap).msgs = Append(q.msgs, m)
          BY <2>1 DEF TrySend, Send, QueueOf
    <3> QED BY <3>1, AppendProperties, EmptySeq DEF QueueOf
  <2> QED BY <1>1, <2>1 DEF TrySend
<1> QED
    BY <1>1 DEF QueueOf, SetErrSend, SetErrRecv, Flush, Recv, Send, TrySend
=============================================================================
