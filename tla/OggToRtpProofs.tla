--------------------------- MODULE OggToRtpProofs ---------------------------
(***************************************************************************)
(* For every size of the queues, every number of streams and pages, all    *)
(* first timestamps and all failures: the lifetime of the two queues that  *)
(* the demuxer job and the producer job share with their caller, the types *)
(* of the model, the one timeline that the streams make, and that what the *)
(* caller posts is sent once and in order.                                 *)
(***************************************************************************)
EXTENDS OggToRtp, QueueTheorems

-----------------------------------------------------------------------------
(* The lifetime of the queues.                                             *)

Pc(j) == IF j = "demuxer" THEN demPc ELSE prodPc

(* Who refers to a queue, and for how long: a job to both ends of its work *)
(* until its thread is done and the event loop has been told; what is      *)
(* collected has no references and gets none.                              *)
HoldersInv ==
    /\ DOMAIN holders = QueueName /\ DOMAIN promise = Job
    /\ finPending \subseteq Job /\ closing \subseteq Job
    /\ \A j \in Job : j \in finPending => Pc(j) = "done" /\ promise[j] = "pending"
    /\ \A j \in Job : promise[j] # "pending" => Pc(j) = "done" /\ j \notin finPending
    /\ \A j \in Job : j \in closing => promise[j] # "pending"
    /\ \A j \in Job : promise[j] = "pending" \/ j \in closing => j \in holders[InputOf[j]]
    /\ promise["demuxer"] = "pending" <=> "demuxer" \in holders["out"]
    /\ \A j \in Job : promise[j] # "pending" /\ j \notin closing => j \notin holders[InputOf[j]]
    /\ "producer" \notin holders["in"]
    /\ \A q \in QueueName : q \in freed => holders[q] = {}

(* The results of threads are no "pending". *)
ResultInv == demRet \in {"ok", "error"} /\ prodRet \in {"ok", "error"}

Inv == HoldersInv /\ ResultInv

LEMMA InvInit == Init => Inv
BY DEF Init, InitHolders, InitDemuxer, InitProducer, Inv, HoldersInv, ResultInv, Pc,
       Job, QueueName, InputOf

LEMMA CallKeeps == Inv /\ Call => Inv'
<1> SUFFICES ASSUME Inv, Call PROVE Inv'
  OBVIOUS
<1>1. UNCHANGED <<demPc, demRet, prodPc, prodRet, finPending, closing, promise, freed>>
  BY DEF Call, demVars, prodVars, loopVars
<1>2. CASE holders' = holders
  BY <1>1, <1>2 DEF Inv, HoldersInv, ResultInv, Pc
<1>3. ASSUME NEW h \in {"app", "listener"}, Forget(h) PROVE Inv'
  <2>1. holders' = [q \in QueueName |-> holders[q] \ {h}]
    BY <1>3 DEF Forget
  <2>2. h \notin Job
    BY DEF Job
  <2> QED
    BY <1>1, <2>1, <2>2 DEF Inv, HoldersInv, ResultInv, Pc, Job, QueueName, InputOf
<1> QED
  BY <1>2, <1>3
     DEF Call, PostOggBuffer, PostDemuxerReset, ClearMessageQueue, CloseSend

LEMMA RestKeeps == Inv /\ RestOfCall => Inv'
BY DEF RestOfCall, ResetAfterClear, CloseRecv, demVars, prodVars, loopVars,
       Inv, HoldersInv, ResultInv, Pc

(* A thread that has not ended yet goes on, or tells the event loop.       *)
LEMMA DemuxerKeeps == Inv /\ Demuxer => Inv'
<1> SUFFICES ASSUME Inv, Demuxer PROVE Inv'
  OBVIOUS
<1>1. UNCHANGED <<holders, prodPc, prodRet, closing, promise, freed>>
  BY DEF Demuxer, prodVars
<1>2. demPc # "done" /\ demRet' \in {"ok", "error"}
  BY DEF Demuxer, DemReadFails, DemSkipReset, DemOpenRead, DemParams, DemRead,
         DemReset, DemTime, DemPost, DemFinish, FinSend, FinRecv, DemExit, Inv, ResultInv
<1>3. \/ finPending' = finPending
      \/ finPending' = finPending \cup {"demuxer"} /\ demPc' = "done"
  BY DEF Demuxer, DemFinish
<1>4. promise["demuxer"] = "pending" /\ "demuxer" \notin finPending
  BY <1>2 DEF Inv, HoldersInv, Pc, Job
<1> QED
  BY <1>1, <1>2, <1>3, <1>4 DEF Inv, HoldersInv, ResultInv, Pc, Job, QueueName, InputOf

LEMMA ProducerKeeps == Inv /\ Producer => Inv'
<1> SUFFICES ASSUME Inv, Producer PROVE Inv'
  OBVIOUS
<1>1. UNCHANGED <<holders, demPc, demRet, closing, promise, freed>>
  BY DEF Producer, demVars
<1>2. prodPc # "done" /\ prodRet' \in {"ok", "error"}
  BY DEF Producer, ProdOpen, ProdRecv, ProdSend, ProdFinish, FinSend, FinRecv, Inv, ResultInv
<1>3. \/ finPending' = finPending
      \/ finPending' = finPending \cup {"producer"} /\ prodPc' = "done"
  BY DEF Producer, ProdFinish
<1>4. promise["producer"] = "pending" /\ "producer" \notin finPending
  BY <1>2 DEF Inv, HoldersInv, Pc, Job
<1> QED
  BY <1>1, <1>2, <1>3, <1>4 DEF Inv, HoldersInv, ResultInv, Pc, Job, QueueName, InputOf

LEMMA CallbackKeeps == Inv /\ Callback => Inv'
<1> SUFFICES ASSUME Inv, Callback PROVE Inv'
  OBVIOUS
<1>1. UNCHANGED <<demPc, demRet, prodPc, prodRet>>
  BY DEF Callback, demVars, prodVars
<1>2. ASSUME NEW j \in Job, AsyncCallback(j) PROVE Inv'
  <2> DEFINE r == IF j = "demuxer" THEN demRet ELSE prodRet
  <2>1. r \in {"ok", "error"} /\ r # "pending"
    BY DEF Inv, ResultInv
  <2>2. /\ j \in finPending /\ finPending' = finPending \ {j}
        /\ closing' = closing \cup {j} /\ promise' = [promise EXCEPT ![j] = r]
        /\ holders' = [holders EXCEPT !["out"] = IF j = "demuxer" THEN @ \ {j} ELSE @]
        /\ freed' = freed
    BY <1>2 DEF AsyncCallback
  <2> HIDE DEF r
  <2>3. CASE j = "demuxer"
    BY <1>1, <2>1, <2>2, <2>3 DEF Inv, HoldersInv, ResultInv, Pc, Job, QueueName, InputOf
  <2>4. CASE j = "producer"
    BY <1>1, <2>1, <2>2, <2>4 DEF Inv, HoldersInv, ResultInv, Pc, Job, QueueName, InputOf
  <2> QED
    BY <2>3, <2>4 DEF Job
<1>3. ASSUME NEW j \in Job, CloseCallback(j) PROVE Inv'
  <2>1. /\ j \in closing /\ closing' = closing \ {j}
        /\ holders' = [holders EXCEPT ![InputOf[j]] = @ \ {j}]
        /\ UNCHANGED <<finPending, promise, freed>>
    BY <1>3 DEF CloseCallback
  <2>2. CASE j = "demuxer"
    BY <1>1, <2>1, <2>2 DEF Inv, HoldersInv, ResultInv, Pc, Job, QueueName, InputOf
  <2>3. CASE j = "producer"
    BY <1>1, <2>1, <2>3 DEF Inv, HoldersInv, ResultInv, Pc, Job, QueueName, InputOf
  <2> QED
    BY <2>2, <2>3 DEF Job
<1> QED
  BY <1>2, <1>3 DEF Callback

LEMMA CollectorKeeps == Inv /\ Collector => Inv'
BY DEF Collector, Collect, demVars, prodVars, Inv, HoldersInv, ResultInv, Pc

LEMMA InvCorrect == Spec => []Inv
<1>1. Inv /\ UNCHANGED vars => Inv'
  BY DEF vars, demVars, prodVars, loopVars, Inv, HoldersInv, ResultInv, Pc
<1>2. Inv /\ [Next]_vars => Inv'
  BY <1>1, CallKeeps, RestKeeps, DemuxerKeeps, ProducerKeeps, CallbackKeeps, CollectorKeeps
     DEF Next
<1> QED
  BY InvInit, <1>2, PTL DEF Spec

(* No queue is freed while a thread uses it, in whatever order the caller, *)
(* the signals and the two jobs let go of it.                              *)
THEOREM QueuesOutliveThreads == Spec => []QueueAlive
<1>1. Inv => QueueAlive
  <2> SUFFICES ASSUME Inv PROVE QueueAlive
    OBVIOUS
  <2>1. \A j \in Job : Pc(j) # "done" => promise[j] = "pending" /\ j \in holders[InputOf[j]]
    BY DEF Inv, HoldersInv
  <2>2. "in" \in freed => demPc = "done"
    BY <2>1 DEF Inv, HoldersInv, Pc, Job, QueueName, InputOf
  <2>3. "out" \in freed => prodPc = "done"
    BY <2>1 DEF Inv, HoldersInv, Pc, Job, QueueName, InputOf
  <2>4. "out" \in freed => demPc = "done"
    BY <2>1 DEF Inv, HoldersInv, Pc, Job, QueueName
  <2> QED
    BY <2>2, <2>3, <2>4 DEF QueueAlive
<1> QED
  BY <1>1, InvCorrect, PTL

(* A job that is over keeps no queue alive.                                *)
THEOREM JobsLetGo == Spec => []NoReferenceLeaks
<1>1. Inv => NoReferenceLeaks
  <2> SUFFICES ASSUME Inv, NEW j \in Job, promise[j] # "pending", j \notin closing,
                      NEW q \in QueueName
               PROVE  j \notin holders[q]
    BY DEF NoReferenceLeaks
  <2> QED
    BY DEF Inv, HoldersInv, Job, QueueName, InputOf
<1> QED
  BY <1>1, InvCorrect, PTL

-----------------------------------------------------------------------------
(* Two queues in one function.                                             *)

In  == queue["in"].msgs
Out == queue["out"].msgs
InQueue  == BoundedQueue(InMessages, Size["in"])
OutQueue == BoundedQueue(OutMessages, Size["out"])
QueuesInv == queue = [q \in QueueName |-> queue[q]]

LEMMA Sizes == Size["in"] \in Nat \ {0} /\ Size["out"] \in Nat \ {0}
BY OggAssumption DEF Size

LEMMA TypeParts ==
    TypeOK <=>
        /\ queue["in"] \in InQueue /\ queue["out"] \in OutQueue
        /\ holders \in [QueueName -> SUBSET ({"app", "listener"} \cup Job)]
        /\ freed \subseteq QueueName /\ finPending \subseteq Job /\ closing \subseteq Job
        /\ promise \in [Job -> {"pending", "ok", "error"}]
        /\ CallerTypes /\ DemTypes /\ ProdTypes
        /\ owed \subseteq Page /\ sent \in Seq(Packet)
        /\ events \subseteq Faults \cup {"cut", "refused"}
BY DEF TypeOK, QueueName, InQueue, OutQueue, BoundedQueue

LEMMA TypePartsPrimed ==
    TypeOK' <=>
        /\ queue'["in"] \in InQueue /\ queue'["out"] \in OutQueue
        /\ holders' \in [QueueName -> SUBSET ({"app", "listener"} \cup Job)]
        /\ freed' \subseteq QueueName /\ finPending' \subseteq Job /\ closing' \subseteq Job
        /\ promise' \in [Job -> {"pending", "ok", "error"}]
        /\ CallerTypes' /\ DemTypes' /\ ProdTypes'
        /\ owed' \subseteq Page /\ sent' \in Seq(Packet)
        /\ events' \subseteq Faults \cup {"cut", "refused"}
BY DEF TypeOK, QueueName, InQueue, OutQueue, BoundedQueue

LEMMA Change ==
    ASSUME QueuesInv, NEW q \in QueueName, NEW v, queue' = [queue EXCEPT ![q] = v]
    PROVE  /\ queue'[q] = v /\ QueuesInv'
           /\ \A r \in QueueName : r # q => queue'[r] = queue[r]
BY DEF QueuesInv

(* What becomes of a queue when a message is sent or received or a flag is *)
(* set.                                                                    *)
LEMMA ChangeIn ==
    ASSUME QueuesInv, TypeOK
    PROVE  /\ \A m \in InMessages : CanSend(queue["in"], Size["in"]) /\ SendTo("in", m) =>
                  /\ QueuesInv' /\ queue'["in"] \in InQueue /\ In' = Append(In, m)
                  /\ queue'["in"].err_send = queue["in"].err_send
                  /\ queue'["in"].err_recv = queue["in"].err_recv
                  /\ queue'["out"] = queue["out"]
           /\ CanRecv(queue["in"]) /\ RecvFrom("in") =>
                  /\ QueuesInv' /\ queue'["in"] \in InQueue
                  /\ In # <<>> /\ Head(In) \in InMessages /\ In' = Tail(In)
                  /\ queue'["in"].err_send = queue["in"].err_send
                  /\ queue'["in"].err_recv = queue["in"].err_recv
                  /\ queue'["out"] = queue["out"]
<1>1. queue["in"] \in InQueue /\ Size["in"] \in Nat
      BY TypeParts, Sizes
<1>2. ASSUME NEW m \in InMessages, CanSend(queue["in"], Size["in"]), SendTo("in", m)
      PROVE  /\ QueuesInv' /\ queue'["in"] \in InQueue /\ In' = Append(In, m)
             /\ queue'["in"].err_send = queue["in"].err_send
             /\ queue'["in"].err_recv = queue["in"].err_recv
             /\ queue'["out"] = queue["out"]
  <2>1. queue'["in"] = Send(queue["in"], m) /\ QueuesInv' /\ queue'["out"] = queue["out"]
        BY <1>2, Change DEF SendTo, QueuesInv, QueueName
  <2> QED BY <1>1, <1>2, <2>1, SendAppends DEF InQueue, In
<1>3. ASSUME CanRecv(queue["in"]), RecvFrom("in")
      PROVE  /\ QueuesInv' /\ queue'["in"] \in InQueue
             /\ In # <<>> /\ Head(In) \in InMessages /\ In' = Tail(In)
             /\ queue'["in"].err_send = queue["in"].err_send
             /\ queue'["in"].err_recv = queue["in"].err_recv
             /\ queue'["out"] = queue["out"]
  <2>1. queue'["in"] = Recv(queue["in"]) /\ QueuesInv' /\ queue'["out"] = queue["out"]
        BY <1>3, Change DEF RecvFrom, QueuesInv, QueueName
  <2> QED BY <1>1, <1>3, <2>1, RecvTakesHead DEF InQueue, In, CanRecv
<1> QED BY <1>2, <1>3

LEMMA ChangeOut ==
    ASSUME QueuesInv, TypeOK
    PROVE  /\ \A m \in OutMessages : CanSend(queue["out"], Size["out"]) /\ SendTo("out", m) =>
                  /\ QueuesInv' /\ queue'["out"] \in OutQueue /\ Out' = Append(Out, m)
                  /\ queue'["out"].err_send = queue["out"].err_send
                  /\ queue'["out"].err_recv = queue["out"].err_recv
                  /\ queue'["in"] = queue["in"]
           /\ \A m \in OutMessages : SendOrDrop("out", m) =>
                  /\ QueuesInv' /\ queue'["out"] \in OutQueue /\ Out' \in {Out, Append(Out, m)}
                  /\ queue'["out"].err_send = queue["out"].err_send
                  /\ queue'["out"].err_recv = queue["out"].err_recv
                  /\ queue["out"].err_send => Out' = Out
                  /\ queue'["in"] = queue["in"]
           /\ CanRecv(queue["out"]) /\ RecvFrom("out") =>
                  /\ QueuesInv' /\ queue'["out"] \in OutQueue
                  /\ Out # <<>> /\ Head(Out) \in OutMessages /\ Out' = Tail(Out)
                  /\ queue'["out"].err_send = queue["out"].err_send
                  /\ queue'["out"].err_recv = queue["out"].err_recv
                  /\ queue'["in"] = queue["in"]
<1>1. queue["out"] \in OutQueue /\ Size["out"] \in Nat
      BY TypeParts, Sizes
<1>2. ASSUME NEW m \in OutMessages, CanSend(queue["out"], Size["out"]), SendTo("out", m)
      PROVE  /\ QueuesInv' /\ queue'["out"] \in OutQueue /\ Out' = Append(Out, m)
             /\ queue'["out"].err_send = queue["out"].err_send
             /\ queue'["out"].err_recv = queue["out"].err_recv
             /\ queue'["in"] = queue["in"]
  <2>1. queue'["out"] = Send(queue["out"], m) /\ QueuesInv' /\ queue'["in"] = queue["in"]
        BY <1>2, Change DEF SendTo, QueuesInv, QueueName
  <2> QED BY <1>1, <1>2, <2>1, SendAppends DEF OutQueue, Out
<1>3. ASSUME NEW m \in OutMessages, SendOrDrop("out", m)
      PROVE  /\ QueuesInv' /\ queue'["out"] \in OutQueue /\ Out' \in {Out, Append(Out, m)}
             /\ queue'["out"].err_send = queue["out"].err_send
             /\ queue'["out"].err_recv = queue["out"].err_recv
             /\ queue["out"].err_send => Out' = Out
             /\ queue'["in"] = queue["in"]
  <2>1. /\ queue'["out"] = TrySend(queue["out"], m, Size["out"]) /\ QueuesInv'
        /\ queue'["in"] = queue["in"]
        BY <1>3, Change DEF SendOrDrop, QueuesInv, QueueName
  <2>2. queue["out"].err_send => queue'["out"] = queue["out"]
        BY <2>1 DEF TrySend, CanSend
  <2> QED BY <1>1, <2>1, <2>2, TrySendAppends DEF OutQueue, Out
<1>4. ASSUME CanRecv(queue["out"]), RecvFrom("out")
      PROVE  /\ QueuesInv' /\ queue'["out"] \in OutQueue
             /\ Out # <<>> /\ Head(Out) \in OutMessages /\ Out' = Tail(Out)
             /\ queue'["out"].err_send = queue["out"].err_send
             /\ queue'["out"].err_recv = queue["out"].err_recv
             /\ queue'["in"] = queue["in"]
  <2>1. queue'["out"] = Recv(queue["out"]) /\ QueuesInv' /\ queue'["in"] = queue["in"]
        BY <1>4, Change DEF RecvFrom, QueuesInv, QueueName
  <2> QED BY <1>1, <1>4, <2>1, RecvTakesHead DEF OutQueue, Out, CanRecv
<1> QED BY <1>2, <1>3, <1>4

(* Closing a queue, in two steps, leaves the messages alone. *)
LEMMA CloseQueue ==
    ASSUME QueuesInv, TypeOK, NEW q \in QueueName,
           \/ queue' = [queue EXCEPT ![q] = SetErrSend(@)]
           \/ queue' = [queue EXCEPT ![q] = SetErrRecv(@)]
    PROVE  /\ QueuesInv' /\ queue'["in"] \in InQueue /\ queue'["out"] \in OutQueue
           /\ In' = In /\ Out' = Out
           /\ \A r \in QueueName : queue[r].err_send => queue'[r].err_send
           /\ \A r \in QueueName : r # q => queue'[r] = queue[r]
           /\ queue' = [queue EXCEPT ![q] = SetErrSend(@)] =>
                 queue'[q].err_send /\ queue'[q].err_recv = queue[q].err_recv
           /\ queue' = [queue EXCEPT ![q] = SetErrRecv(@)] =>
                 queue'[q].err_recv /\ queue'[q].err_send = queue[q].err_send
<1> DEFINE M == IF q = "in" THEN InMessages ELSE OutMessages
<1>1. /\ queue["in"] \in InQueue /\ queue["out"] \in OutQueue
      /\ queue[q] \in BoundedQueue(M, Size[q])
      BY TypeParts DEF QueueName, InQueue, OutQueue
<1> DEFINE s == SetErrSend(queue[q])
<1> DEFINE r == SetErrRecv(queue[q])
<1>2. /\ s \in BoundedQueue(M, Size[q]) /\ s.msgs = queue[q].msgs
      /\ s.err_send /\ s.err_recv = queue[q].err_recv
      /\ r \in BoundedQueue(M, Size[q]) /\ r.msgs = queue[q].msgs
      /\ r.err_recv /\ r.err_send = queue[q].err_send
      BY <1>1, CloseKeepsMessages
<1> HIDE DEF s, r
<1>3. /\ QueuesInv' /\ queue'[q] \in {s, r}
      /\ \A t \in QueueName : t # q => queue'[t] = queue[t]
      /\ queue' = [queue EXCEPT ![q] = SetErrSend(@)] => queue'[q] = s
      /\ queue' = [queue EXCEPT ![q] = SetErrRecv(@)] => queue'[q] = r
      BY Change DEF s, r
<1> QED BY <1>1, <1>2, <1>3 DEF QueueName, InQueue, OutQueue, In, Out

LEMMA ResetIn ==
    ASSUME QueuesInv, TypeOK
    PROVE  /\ SendOrDrop("in", Reset) =>
                  /\ QueuesInv' /\ queue'["in"] \in InQueue
                  /\ In' = In \/ In' = Append(In, Reset)
                  /\ In = <<>> /\ ~queue["in"].err_send => In' = Append(In, Reset)
                  /\ queue["in"].err_send => In' = In
                  /\ queue'["in"].err_send = queue["in"].err_send
                  /\ queue'["in"].err_recv = queue["in"].err_recv
                  /\ queue'["out"] = queue["out"]
           /\ queue' = [queue EXCEPT !["in"] = Flush(@)] =>
                  /\ QueuesInv' /\ queue'["in"] \in InQueue /\ In' = <<>>
                  /\ queue'["in"].err_send = queue["in"].err_send
                  /\ queue'["in"].err_recv = queue["in"].err_recv
                  /\ queue'["out"] = queue["out"]
<1>1. queue["in"] \in InQueue /\ Size["in"] \in Nat \ {0} /\ Reset \in InMessages
      BY TypeParts, Sizes DEF InMessages
<1>2. ASSUME SendOrDrop("in", Reset)
      PROVE  /\ QueuesInv' /\ queue'["in"] \in InQueue
             /\ In' = In \/ In' = Append(In, Reset)
             /\ In = <<>> /\ ~queue["in"].err_send => In' = Append(In, Reset)
             /\ queue["in"].err_send => In' = In
             /\ queue'["in"].err_send = queue["in"].err_send
             /\ queue'["in"].err_recv = queue["in"].err_recv
             /\ queue'["out"] = queue["out"]
  <2>1. /\ queue'["in"] = TrySend(queue["in"], Reset, Size["in"]) /\ QueuesInv'
        /\ queue'["out"] = queue["out"]
        BY <1>2, Change DEF SendOrDrop, QueuesInv, QueueName
  <2>2. queue["in"].err_send => queue'["in"] = queue["in"]
        BY <2>1 DEF TrySend, CanSend
  <2>3. In = <<>> /\ ~queue["in"].err_send => CanSend(queue["in"], Size["in"])
    <3>1. Len(<<>>) = 0
          BY EmptySeq
    <3> QED BY <1>1, <3>1 DEF CanSend, In
  <2>4. CanSend(queue["in"], Size["in"]) => In' = Append(In, Reset)
        BY <1>1, <2>1, SendAppends DEF InQueue, In
  <2> QED BY <1>1, <2>1, <2>2, <2>3, <2>4, TrySendAppends DEF InQueue, In
<1>3. ASSUME queue' = [queue EXCEPT !["in"] = Flush(@)]
      PROVE  /\ QueuesInv' /\ queue'["in"] \in InQueue /\ In' = <<>>
             /\ queue'["in"].err_send = queue["in"].err_send
             /\ queue'["in"].err_recv = queue["in"].err_recv
             /\ queue'["out"] = queue["out"]
  <2>1. queue'["in"] = Flush(queue["in"]) /\ QueuesInv' /\ queue'["out"] = queue["out"]
        BY <1>3, Change DEF QueuesInv, QueueName
  <2>2. /\ Flush(queue["in"]).err_send = queue["in"].err_send
        /\ Flush(queue["in"]).err_recv = queue["in"].err_recv
        BY <1>1 DEF InQueue, BoundedQueue, QueueOf, Flush
  <2> QED BY <1>1, <2>1, <2>2, FlushEmpties DEF InQueue, In
<1> QED BY <1>2, <1>3

LEMMA MessageTypes ==
    /\ Reset \in InMessages /\ Params \in OutMessages /\ StartTime \in OutMessages
    /\ \A p \in Page : OggBuffer(p) \in InMessages /\ OggBuffer(p) # Reset
                       /\ OggBuffer(p).type = "OGG_BUFFER" /\ OggBuffer(p).buf = p
    /\ \A p \in Packet : PostPacket(p) \in OutMessages
                         /\ PostPacket(p).type = "POST_PACKET" /\ PostPacket(p).pkt = p
    /\ Params.type # "POST_PACKET" /\ StartTime.type # "POST_PACKET"
    /\ Reset.type # "OGG_BUFFER"
    /\ \A m \in InMessages : m # Reset => /\ m.type = "OGG_BUFFER" /\ m.buf \in Page
                                          /\ m = OggBuffer(m.buf)
    /\ \A m \in InMessages : m.type = "OGG_BUFFER" => m # Reset
    /\ \A m \in OutMessages : m.type = "POST_PACKET" => m.pkt \in Packet
BY DEF Reset, Params, StartTime, OggBuffer, PostPacket, InMessages, OutMessages

-----------------------------------------------------------------------------
(* The inductive invariant.                                                *)

Opening == {"open", "reopen"}
Reading == {"params", "read", "time", "post"}
Ending  == {"finSend", "finRecv", "fin", "done"}

(* Pages are in the order in which the caller makes them: those that have  *)
(* been read, those in the queue, and the one to be posted next.           *)
Before(p, q) == p.stream < q.stream \/ (p.stream = q.stream /\ p.n < q.n)
OggAt    == {i \in 1..Len(In) : In[i].type = "OGG_BUFFER"}
InPages  == {In[i].buf : i \in OggAt}
Upcoming == [stream |-> stream, n |-> pages]
Headers  == {[stream |-> container[i], n |-> 0] : i \in 1..Len(container)}
Gone     == owed \ InPages
OrderInv ==
    /\ pages <= posts
    /\ \A i, j \in OggAt : i < j => Before(In[i].buf, In[j].buf)
    /\ \A i \in OggAt : Before(In[i].buf, Upcoming)
    /\ \A p \in Gone \cup Headers :
          Before(p, Upcoming) /\ \A i \in OggAt : Before(p, In[i].buf)
    /\ \A i \in OggAt : In[i].buf.n > 0 => In[i].buf \in owed
    /\ \A p \in owed : p.n > 0

(* What comes after what: a page follows the one before it in its stream,  *)
(* and headers follow a reset.                                             *)
Prev(p) == [stream |-> p.stream, n |-> p.n - 1]
Current == IF unread = {} THEN {demPkt} ELSE unread
Comes(m, p) == IF p.n = 0 THEN m = Reset ELSE m = OggBuffer(Prev(p))
Expected(p) ==
    /\ demPc \in Opening =>
        \/ p.n = 0 /\ (container = <<>> \/ "cut" \in events)
        \/ p.n = 1 /\ container # <<>> /\ p.stream = container[Len(container)]
    /\ demPc \in Reading => p.n > 0 /\ Current = {Prev(p)}
HeadPage == {In[i].buf : i \in {j \in OggAt : j = 1}}
NextPage == HeadPage \cup {p \in {Upcoming} : /\ In = <<>> /\ js # "reset"
                                             /\ ~queue["in"].err_send}
ChainInv ==
    /\ \A i \in OggAt : i > 1 => Comes(In[i - 1], In[i].buf)
    /\ In # <<>> => Comes(In[Len(In)], Upcoming)
    /\ \A p \in NextPage : Expected(p)
    /\ js = "reset" => In = <<>> /\ pages = 0

(* The packets that were posted to the producer: those that were sent, one *)
(* that is being sent or whose sending failed, and those in the queue.     *)
(* Each takes a stretch of the timeline, from where the one before it ends *)
(* to its own end; it is longer than one only when there is a gap.         *)
Start(k) == k.pts - Gap(k.page)
Taken == prodPc = "send" \/ "send" \in events
OutAt == {i \in 1..Len(Out) : Out[i].type = "POST_PACKET"}
OutPts(i) == Out[i].pkt.pts
OutStart(i) == Start(Out[i].pkt)
Line == {sent[i] : i \in 1..Len(sent)} \cup {m \in {prodMsg} : Taken}
        \cup {Out[i].pkt : i \in OutAt}
SentEnd == IF sent = <<>> THEN 0 ELSE sent[Len(sent)].pts + 1
NextTaken == IF Taken THEN prodMsg.pts + 1 ELSE SentEnd
PtsInv ==
    /\ \A i \in 1..Len(sent) : Start(sent[i]) = IF i = 1 THEN 0 ELSE sent[i - 1].pts + 1
    /\ \A i, j \in 1..Len(sent) : i < j => sent[i].pts < sent[j].pts
    /\ Taken => Start(prodMsg) = SentEnd
    /\ \A i \in OutAt : NextTaken <= OutStart(i) /\ OutPts(i) < OffsetAfter
    /\ \A i, j \in OutAt : i < j => OutPts(i) < OutStart(j)
    /\ \A v \in NextTaken..(OffsetAfter - 1) :
          \E i \in OutAt : OutStart(i) <= v /\ v <= OutPts(i)
    /\ NextTaken <= OffsetAfter
    /\ "send" \in events => prodPc \in Ending

(* They are owed, and as close to each other as their pages are.           *)
LineInv ==
    /\ \A a \in Line : a.page \in Gone
    /\ \A a, b \in Line :
          a.page.stream = b.page.stream => b.pts - a.pts = b.page.n - a.page.n
    /\ \A b \in Line : \A m \in 1..b.page.n :
          \E a \in Line : a.page = [stream |-> b.page.stream, n |-> m]

(* What was posted of the stream that the demuxer is reading. *)
Posted(c) == IF unread # {} \/ demPc \in {"time", "post"} THEN c.n - 1 ELSE c.n
Chosen(c) ==
    /\ \A a \in Line : a.page.stream = c.stream =>
          a.page.n \in 1..Posted(c) /\ a.pts - a.page.n = OffsetAfter - Posted(c) - 1
    /\ \A m \in 1..Posted(c) : \E a \in Line : a.page = [stream |-> c.stream, n |-> m]
    /\ Posted(c) = 0 => next_expected_pts = AV_NOPTS_VALUE /\ pts_correction = AV_NOPTS_VALUE
    /\ Posted(c) > 0 =>
          /\ next_expected_pts # AV_NOPTS_VALUE /\ pts_correction # AV_NOPTS_VALUE
          /\ next_expected_pts = FirstPts[c.stream] + Posted(c) + pts_correction + pts_offset
Skipped(c) == "cut" \in events /\ \A a \in Line : a.page.stream # c.stream
CurrentInv ==
    /\ demPc \in Opening =>
        /\ \A i \in 1..Len(container) : \A a \in Line : a.page.stream # container[i]
        /\ next_expected_pts \in {AV_NOPTS_VALUE, pts_offset}
        /\ Len(container) > 1 => "cut" \in events
        /\ unread = {}
    /\ demPc \in Reading => \A c \in Current :
        /\ c.n > 0 /\ c \in Gone /\ Current = {c}
        /\ c.stream = stream_idx => Chosen(c)
        /\ c.stream # stream_idx => Skipped(c)
    /\ demPc = "params" => unread # {}
    /\ demPc \in {"time", "post"} => unread = {}

(* Without failures, every packet that is owed is somewhere, or belongs to *)
(* a stream that is lost as a whole.                                       *)
Held(p) == p \in unread \/ (demPc \in {"time", "post"} /\ p = demPkt)
Lost(s) == /\ "cut" \in events /\ \A a \in Line : a.page.stream # s
           /\ demPc \in Opening => \A i \in 1..Len(container) : container[i] # s
           /\ demPc \in Reading => stream_idx # s
KeptInv ==
    events \subseteq {"cut"} =>
        /\ \A p \in owed : \/ p \in InPages \/ Held(p) \/ Lost(p.stream)
                           \/ \E a \in Line : a.page = p
        /\ demPc \in Ending => In = <<>> /\ queue["in"].err_send /\ unread = {}
        /\ prodPc \in Ending => Out = <<>> /\ queue["out"].err_send

ClosedInv ==
    /\ \A q \in QueueName : queue[q].err_recv => queue[q].err_send
    /\ js = "closeIn" => queue["in"].err_send
    /\ js = "closeOut" => queue["out"].err_send
    /\ demPc \in {"finRecv", "fin", "done"} => queue["in"].err_send
    /\ prodPc \in {"finRecv", "fin", "done"} => queue["out"].err_send

-----------------------------------------------------------------------------
(* Type correctness.                                                       *)

LEMMA NoTimestamp == AV_NOPTS_VALUE \in Int /\ AV_NOPTS_VALUE < 0
BY SMT DEF AV_NOPTS_VALUE

LEMMA TypeInit == Init => TypeOK /\ QueuesInv
<1> SUFFICES ASSUME Init PROVE TypeOK /\ QueuesInv
    OBVIOUS
<1>1. QueuesInv /\ queue["in"] \in InQueue /\ queue["out"] \in OutQueue
      BY EmptyIsBounded, Sizes DEF Init, QueuesInv, QueueName, InQueue, OutQueue
<1>2. 1 \in Stream /\ 0 \in 0..MaxPages
      BY OggAssumption DEF Stream
<1>3. NoPage \in Page /\ NoPacket \in Packet
      BY <1>2 DEF NoPage, Page, NoPacket, Packet
<1>4. DemTypes
  <2>1. <<>> \in Seq(Stream)
        OBVIOUS
  <2> QED BY <1>2, <1>3, <2>1 DEF Init, InitDemuxer, DemTypes
<1>5. CallerTypes /\ ProdTypes
      BY <1>2, <1>3 DEF Init, InitProducer, CallerTypes, ProdTypes
<1>6. holders \in [QueueName -> SUBSET ({"app", "listener"} \cup Job)]
      BY DEF Init, InitHolders, QueueName, Job
<1>7. /\ freed \subseteq QueueName /\ finPending \subseteq Job /\ closing \subseteq Job
      /\ promise \in [Job -> {"pending", "ok", "error"}]
      /\ owed \subseteq Page /\ events \subseteq Faults \cup {"cut", "refused"}
      BY DEF Init
<1>8. sent \in Seq(Packet)
  <2>1. <<>> \in Seq(Packet)
        OBVIOUS
  <2> QED BY <2>1 DEF Init
<1> QED BY <1>1, <1>4, <1>5, <1>6, <1>7, <1>8, TypeParts

LEMMA EventTypes ==
    ASSUME TypeOK, NEW kind, Fault(kind)
    PROVE  events' \subseteq Faults \cup {"cut", "refused"}
BY DEF TypeOK, Fault

LEMMA CallerTypesKept ==
    ASSUME TypeOK, QueuesInv, OrderInv, Call \/ RestOfCall
    PROVE  TypeOK' /\ QueuesInv'
<1>1. TypeOK /\ CallerTypes /\ DemTypes /\ ProdTypes
      BY TypeParts
<1>2. UNCHANGED <<demVars, prodVars, loopVars>>
      BY DEF Call, RestOfCall
<1> DEFINE Rest == /\ QueuesInv' /\ queue'["in"] \in InQueue /\ queue'["out"] \in OutQueue
                   /\ holders' \in [QueueName -> SUBSET ({"app", "listener"} \cup Job)]
                   /\ CallerTypes' /\ owed' \subseteq Page
                   /\ events' \subseteq Faults \cup {"cut", "refused"}
<1>3. SUFFICES Rest
  <2>1. DemTypes'
        BY <1>1, <1>2 DEF DemTypes, demVars
  <2>2. ProdTypes' /\ sent' = sent
        BY <1>1, <1>2 DEF ProdTypes, prodVars
  <2> QED BY <1>1, <1>2, <2>1, <2>2, TypeParts, TypePartsPrimed DEF loopVars
<1>4. /\ queue["in"] \in InQueue /\ queue["out"] \in OutQueue
      /\ holders \in [QueueName -> SUBSET ({"app", "listener"} \cup Job)]
      /\ owed \subseteq Page /\ events \subseteq Faults \cup {"cut", "refused"}
      BY TypeParts
<1>5. stream + 1 \in Stream /\ BeginStream
         => stream' \in Stream /\ pages' \in 0..MaxPages
      BY OggAssumption DEF BeginStream
<1>10. ASSUME PostOggBuffer PROVE Rest
  <2> DEFINE p == Upcoming
  <2>1. p \in Page
        BY <1>1 DEF CallerTypes, Page, Upcoming
  <2>2. SendTo("in", OggBuffer(p)) /\ (owed' = owed \/ owed' = owed \cup {p})
        BY <1>10 DEF PostOggBuffer, Upcoming
  <2>3. QueuesInv' /\ queue'["in"] \in InQueue /\ queue'["out"] = queue["out"]
        BY <1>10, <2>1, <2>2, ChangeIn, MessageTypes DEF PostOggBuffer
  <2>4. CallerTypes'
        BY <1>1, <1>10, OggAssumption DEF PostOggBuffer, CallerTypes, OrderInv
  <2> QED BY <1>4, <1>10, <2>1, <2>2, <2>3, <2>4 DEF PostOggBuffer
<1>11. ASSUME PostDemuxerReset PROVE Rest
  <2>1. QueuesInv' /\ queue'["in"] \in InQueue /\ queue'["out"] = queue["out"]
        BY <1>11, ChangeIn, MessageTypes DEF PostDemuxerReset
  <2>2. CallerTypes'
        BY <1>1, <1>5, <1>11 DEF PostDemuxerReset, CallerTypes
  <2> QED BY <1>4, <1>11, <2>1, <2>2 DEF PostDemuxerReset
<1>12. ASSUME ClearMessageQueue PROVE Rest
  <2>1. QueuesInv' /\ queue'["in"] \in InQueue /\ queue'["out"] = queue["out"]
        BY <1>12, ResetIn DEF ClearMessageQueue
  <2>2. CallerTypes'
        BY <1>1, <1>5, <1>12 DEF ClearMessageQueue, CallerTypes
  <2> QED BY <1>4, <1>12, <2>1, <2>2 DEF ClearMessageQueue
<1>13. ASSUME NEW q \in QueueName, CloseSend(q) PROVE Rest
  <2>1. QueuesInv' /\ queue'["in"] \in InQueue /\ queue'["out"] \in OutQueue
        BY <1>13, CloseQueue DEF CloseSend
  <2> QED BY <1>1, <1>4, <1>13, <2>1 DEF CloseSend, CallerTypes
<1>14. ASSUME NEW h, Forget(h) PROVE Rest
  <2>1. holders' \in [QueueName -> SUBSET ({"app", "listener"} \cup Job)]
        BY <1>4, <1>14 DEF Forget
  <2> QED BY <1>1, <1>4, <1>14, <2>1 DEF Forget, CallerTypes, callerVars, QueuesInv
<1>15. ASSUME ResetAfterClear PROVE Rest
  <2>1. QueuesInv' /\ queue'["in"] \in InQueue /\ queue'["out"] = queue["out"]
        BY <1>15, ResetIn DEF ResetAfterClear
  <2> QED BY <1>1, <1>4, <1>15, <2>1 DEF ResetAfterClear, CallerTypes
<1>16. ASSUME CloseRecv PROVE Rest
  <2> DEFINE q == IF js = "closeIn" THEN "in" ELSE "out"
  <2>1. q \in QueueName /\ queue' = [queue EXCEPT ![q] = SetErrRecv(@)]
        BY <1>16 DEF CloseRecv, QueueName
  <2>2. QueuesInv' /\ queue'["in"] \in InQueue /\ queue'["out"] \in OutQueue
        BY <2>1, CloseQueue
  <2> QED BY <1>1, <1>4, <1>16, <2>2 DEF CloseRecv, CallerTypes
<1> QED BY <1>10, <1>11, <1>12, <1>13, <1>14, <1>15, <1>16 DEF Call, RestOfCall

LEMMA OffsetType == TypeOK => OffsetAfter \in Nat /\ pts_offset \in Nat
BY DEF TypeOK, DemTypes, OffsetAfter

LEMMA PageFacts ==
    ASSUME NEW p \in Page
    PROVE  p.stream \in Stream /\ p.stream \in Int /\ p.n \in Nat
           /\ FirstPts[p.stream] \in Int /\ Gap(p) \in Nat
<1>1. p.stream \in Stream /\ p.n \in Nat
      BY OggAssumption DEF Page
<1>2. PICK first : first = FirstPts[p.stream]
      OBVIOUS
<1>3. first \in Int
      BY <1>1, <1>2, OggAssumption
<1>4. Gap(p) = IF p.n = 1 /\ first > 0 THEN first ELSE 0
      BY <1>2 DEF Gap
<1> QED BY <1>1, <1>2, <1>3, <1>4 DEF Stream

LEMMA StretchFacts ==
    ASSUME NEW k \in Packet
    PROVE  k.pts \in Int /\ Start(k) \in Int /\ Start(k) <= k.pts
<1>1. k.pts \in Int /\ Gap(k.page) \in Nat
      BY PageFacts DEF Packet
<1> QED BY <1>1 DEF Start

(* The packet in hand continues the timeline. *)
LEMMA NextPts ==
    ASSUME TypeOK, CurrentInv, demPc = "post", demPkt.stream = stream_idx
    PROVE  /\ demPkt \in Page /\ Current = {demPkt} /\ Posted(demPkt) = demPkt.n - 1
           /\ demPkt.n > 0 /\ Chosen(demPkt)
           /\ Correction \in Nat /\ Correction # AV_NOPTS_VALUE
           /\ DemPts = OffsetAfter + Gap(demPkt) /\ DemPts \in Nat /\ DemPts + 1 # AV_NOPTS_VALUE
           /\ DemPts = FirstPts[demPkt.stream] + demPkt.n - 1 + Correction + pts_offset
<1>1. DemTypes /\ demPkt \in Page /\ OffsetAfter \in Nat /\ pts_offset \in Nat
      BY OffsetType DEF TypeOK, DemTypes
<1>2. demPkt.n \in Nat /\ FirstPts[demPkt.stream] \in Int /\ Gap(demPkt) \in Nat
      BY <1>1, PageFacts
<1>3. unread = {} /\ Current = {demPkt} /\ demPkt.n > 0 /\ Chosen(demPkt)
      BY DEF CurrentInv, Current, Reading
<1>4. Posted(demPkt) = demPkt.n - 1
      BY <1>3 DEF Posted
<1> DEFINE first == FirstPts[demPkt.stream]
<1>5. StreamPts(demPkt) = first + demPkt.n - 1
      BY DEF StreamPts
<1>6. CASE demPkt.n = 1
  <2>1. next_expected_pts = AV_NOPTS_VALUE /\ pts_correction = AV_NOPTS_VALUE
        BY <1>3, <1>4, <1>6 DEF Chosen
  <2>2. OffsetAfter = pts_offset
        BY <2>1 DEF OffsetAfter
  <2>3. Correction = IF first < 0 THEN -first ELSE 0
        BY <1>2, <1>5, <1>6, <2>1 DEF Correction
  <2>6. Gap(demPkt) = IF first > 0 THEN first ELSE 0
        BY <1>6 DEF Gap
  <2> HIDE DEF first
  <2>4. Correction \in Nat /\ first + Correction = Gap(demPkt)
        BY <1>2, <2>3, <2>6 DEF first
  <2>5. DemPts = pts_offset + Gap(demPkt)
        BY <1>1, <1>2, <1>5, <1>6, <2>4 DEF DemPts, first
  <2> QED BY <1>1, <1>2, <1>3, <1>4, <1>6, <2>2, <2>4, <2>5, NoTimestamp DEF first
<1>7. CASE demPkt.n > 1
  <2>1. /\ next_expected_pts # AV_NOPTS_VALUE /\ pts_correction # AV_NOPTS_VALUE
        /\ next_expected_pts = first + (demPkt.n - 1) + pts_correction + pts_offset
        BY <1>2, <1>3, <1>4, <1>7 DEF Chosen
  <2>2. Correction = pts_correction /\ pts_correction \in Nat
        BY <1>1, <2>1 DEF Correction, DemTypes
  <2>3. OffsetAfter = next_expected_pts
        BY <2>1 DEF OffsetAfter
  <2> HIDE DEF first
  <2>4. DemPts = first + demPkt.n - 1 + Correction + pts_offset
        BY <1>5 DEF DemPts
  <2>5. first \in Int /\ Gap(demPkt) = 0
        BY <1>2, <1>7 DEF first, Gap
  <2> QED BY <1>1, <1>2, <1>3, <1>4, <2>1, <2>2, <2>3, <2>4, <2>5, NoTimestamp DEF first
<1> QED BY <1>2, <1>3, <1>6, <1>7

LEMMA DemuxerTypesKept ==
    ASSUME TypeOK, QueuesInv, CurrentInv, Demuxer
    PROVE  TypeOK' /\ QueuesInv'
<1>1. DemTypes
      BY DEF TypeOK, DemTypes
<1>2. UNCHANGED <<holders, callerVars, prodVars, closing, promise, freed>>
      BY DEF Demuxer
<1> DEFINE Rest == /\ QueuesInv' /\ queue'["in"] \in InQueue /\ queue'["out"] \in OutQueue
                   /\ DemTypes' /\ finPending' \subseteq Job
                   /\ events' \subseteq Faults \cup {"cut", "refused"}
<1>3. SUFFICES Rest
  <2>1. CallerTypes' /\ owed' = owed
        BY <1>2 DEF TypeOK, CallerTypes, callerVars
  <2>2. ProdTypes' /\ sent' = sent
        BY <1>2 DEF TypeOK, ProdTypes, prodVars
  <2> QED BY <1>2, <2>1, <2>2, TypeParts, TypePartsPrimed
<1>4. /\ queue["in"] \in InQueue /\ queue["out"] \in OutQueue /\ finPending \subseteq Job
      /\ events \subseteq Faults \cup {"cut", "refused"}
      BY TypeParts
<1>5. /\ finPending' \subseteq Job
      BY <1>4 DEF Demuxer, DemFinish, Job
<1>6. ASSUME CanRecv(queue["in"]), RecvFrom("in")
      PROVE  /\ QueuesInv' /\ queue'["in"] \in InQueue /\ queue'["out"] \in OutQueue
             /\ Head(In) # Reset => Head(In).buf \in Page
      BY <1>4, <1>6, ChangeIn, MessageTypes
<1>10. ASSUME DemReadFails PROVE Rest
  <2>1. DemTypes'
        BY <1>1, <1>10 DEF DemReadFails, DemExit, DemTypes
  <2>2. events' \subseteq Faults \cup {"cut", "refused"}
        BY <1>4, <1>10, EventTypes DEF DemReadFails
  <2> QED BY <1>4, <1>5, <1>6, <1>10, <2>1, <2>2 DEF DemReadFails, QueuesInv
<1>11. ASSUME DemSkipReset PROVE Rest
  <2>1. DemTypes'
        BY <1>1, <1>11 DEF DemSkipReset, DemTypes
  <2> QED BY <1>4, <1>5, <1>6, <1>11, <2>1 DEF DemSkipReset
<1>12. ASSUME DemOpenRead PROVE Rest
  <2> DEFINE p == Head(queue["in"].msgs).buf
  <2>1. p \in Page
        BY <1>6, <1>12 DEF DemOpenRead, In
  <2>2. p.stream \in Stream
        BY <2>1, PageFacts
  <2>3. container' \in Seq(Stream) /\ unread' \subseteq Page
    <3>1. Append(container, p.stream) \in Seq(Stream)
          BY <1>1, <2>2, AppendProperties DEF DemTypes
    <3> QED BY <1>1, <1>12, <2>1, <3>1 DEF DemOpenRead, DemTypes
  <2>4. stream_idx' \in Stream
    <3>1. \A s \in ToSet(container) : s \in Stream
          BY <1>1 DEF DemTypes, ToSet
    <3> QED BY <1>1, <1>12, <3>1 DEF DemOpenRead, DemTypes
  <2> HIDE DEF p
  <2>5. DemTypes'
        BY <1>1, <1>12, <2>3, <2>4 DEF DemOpenRead, DemTypes
  <2> QED BY <1>4, <1>5, <1>6, <1>12, <2>5 DEF DemOpenRead
<1>13. ASSUME DemParams PROVE Rest
  <2>1. DemTypes'
        BY <1>1, <1>13 DEF DemParams, DemExit, DemTypes
  <2>2. QueuesInv' /\ queue'["in"] \in InQueue /\ queue'["out"] \in OutQueue
        BY <1>4, <1>13, ChangeOut, MessageTypes DEF DemParams, QueuesInv
  <2> QED BY <1>4, <1>5, <1>13, <2>1, <2>2 DEF DemParams
<1>14. ASSUME DemRead PROVE Rest
  <2>1. DemTypes'
    <3>1. demPkt' \in Page /\ unread' \subseteq Page
          BY <1>1, <1>6, <1>14 DEF DemRead, DemTypes, In
    <3>2. UNCHANGED <<demRet, should_reset, container, stream_idx, timeSent,
                      pts_correction, next_expected_pts, pts_offset>>
          /\ demPc' \in {"post", "time"}
          BY <1>14 DEF DemRead
    <3> QED BY <1>1, <3>1, <3>2 DEF DemTypes
  <2>2. QueuesInv' /\ queue'["in"] \in InQueue /\ queue'["out"] \in OutQueue
        BY <1>4, <1>6, <1>14 DEF DemRead, QueuesInv
  <2> QED BY <1>4, <1>5, <1>14, <2>1, <2>2 DEF DemRead
<1>15. ASSUME DemReset PROVE Rest
  <2>1. DemTypes'
    <3>1. <<>> \in Seq(Stream)
          OBVIOUS
    <3> QED BY <1>1, <1>15, <3>1, OffsetType DEF DemReset, DemTypes
  <2> QED BY <1>4, <1>5, <1>6, <1>15, <2>1 DEF DemReset
<1>16. ASSUME DemTime PROVE Rest
  <2>1. DemTypes'
        BY <1>1, <1>16 DEF DemTime, DemTypes
  <2> QED BY <1>4, <1>5, <1>16, <2>1, ChangeOut, MessageTypes DEF DemTime
<1>17. ASSUME DemPost PROVE Rest
  <2>1. CASE demPkt.stream = stream_idx /\ CanSend(queue["out"], Size["out"])
             /\ SendTo("out", PostPacket([page |-> demPkt, pts |-> DemPts]))
    <3>1. /\ demPkt \in Page /\ DemPts \in Nat /\ Correction \in Nat /\ DemPts + 1 \in Nat
          BY <1>17, <2>1, NextPts DEF DemPost
    <3>2. [page |-> demPkt, pts |-> DemPts] \in Packet
          BY <3>1 DEF Packet
    <3>3. QueuesInv' /\ queue'["in"] \in InQueue /\ queue'["out"] \in OutQueue
          BY <1>4, <2>1, <3>2, ChangeOut, MessageTypes
    <3>4. DemTypes'
          BY <1>1, <1>17, <3>1 DEF DemPost, DemExit, DemTypes
    <3>5. events' \subseteq Faults \cup {"cut", "refused"}
          BY <1>4, <1>17 DEF DemPost
    <3> QED BY <1>5, <3>3, <3>4, <3>5
  <2>2. CASE UNCHANGED <<queue, pts_correction, next_expected_pts>>
    <3>1. DemTypes'
          BY <1>1, <1>17, <2>2 DEF DemPost, DemExit, DemTypes
    <3> QED BY <1>4, <1>5, <1>17, <2>2, <3>1 DEF DemPost, QueuesInv
  <2> QED BY <1>17, <2>1, <2>2 DEF DemPost
<1>18. ASSUME DemFinish PROVE Rest
  <2>1. DemTypes'
        BY <1>1, <1>18 DEF DemFinish, FinSend, FinRecv, DemTypes
  <2>2. QueuesInv' /\ queue'["in"] \in InQueue /\ queue'["out"] \in OutQueue
        BY <1>4, <1>18, CloseQueue DEF DemFinish, FinSend, FinRecv, QueueName, QueuesInv
  <2> QED BY <1>4, <1>5, <1>18, <2>1, <2>2 DEF DemFinish
<1> QED BY <1>10, <1>11, <1>12, <1>13, <1>14, <1>15, <1>16, <1>17, <1>18 DEF Demuxer

LEMMA ProducerTypesKept ==
    ASSUME TypeOK, QueuesInv, Producer
    PROVE  TypeOK' /\ QueuesInv'
<1>1. ProdTypes /\ sent \in Seq(Packet)
      BY DEF TypeOK
<1>2. UNCHANGED <<holders, callerVars, demVars, closing, promise, freed>>
      BY DEF Producer
<1> DEFINE Rest == /\ QueuesInv' /\ queue'["in"] \in InQueue /\ queue'["out"] \in OutQueue
                   /\ ProdTypes' /\ sent' \in Seq(Packet) /\ finPending' \subseteq Job
                   /\ events' \subseteq Faults \cup {"cut", "refused"}
<1>3. SUFFICES Rest
  <2>1. CallerTypes' /\ owed' = owed
        BY <1>2 DEF TypeOK, CallerTypes, callerVars
  <2>2. DemTypes'
        BY <1>2 DEF TypeOK, DemTypes, demVars
  <2> QED BY <1>2, <2>1, <2>2, TypeParts, TypePartsPrimed
<1>4. /\ queue["in"] \in InQueue /\ queue["out"] \in OutQueue /\ finPending \subseteq Job
      /\ events \subseteq Faults \cup {"cut", "refused"}
      BY TypeParts
<1>5. /\ finPending' \subseteq Job
      BY <1>4 DEF Producer, ProdFinish, Job
<1>10. ASSUME ProdOpen PROVE Rest
  <2>1. events' \subseteq Faults \cup {"cut", "refused"}
        BY <1>4, <1>10, EventTypes DEF ProdOpen
  <2> QED BY <1>1, <1>4, <1>5, <1>10, <2>1 DEF ProdOpen, ProdTypes, QueuesInv
<1>11. ASSUME ProdRecv PROVE Rest
  <2>1. CASE CanRecv(queue["out"]) /\ RecvFrom("out")
    <3>1. /\ QueuesInv' /\ queue'["in"] \in InQueue /\ queue'["out"] \in OutQueue
          /\ Head(Out) \in OutMessages
          BY <1>4, <2>1, ChangeOut
    <3>2. Head(Out).type = "POST_PACKET" => Head(Out).pkt \in Packet
          BY <3>1, MessageTypes
    <3>3. ProdTypes'
          BY <1>1, <1>11, <3>2 DEF ProdRecv, ProdTypes, Out
    <3> QED BY <1>1, <1>4, <1>5, <1>11, <3>1, <3>3 DEF ProdRecv
  <2>2. CASE UNCHANGED <<queue, prodMsg>>
    <3>1. ProdTypes'
          BY <1>1, <1>11, <2>2 DEF ProdRecv, ProdTypes
    <3> QED BY <1>1, <1>4, <1>5, <1>11, <2>2, <3>1 DEF ProdRecv, QueuesInv
  <2> QED BY <1>11, <2>1, <2>2 DEF ProdRecv
<1>12. ASSUME ProdSend PROVE Rest
  <2>1. events' \subseteq Faults \cup {"cut", "refused"}
        BY <1>4, <1>12, EventTypes DEF ProdSend
  <2>2. Append(sent, prodMsg) \in Seq(Packet)
        BY <1>1, AppendProperties DEF ProdTypes
  <2> QED BY <1>1, <1>4, <1>5, <1>12, <2>1, <2>2 DEF ProdSend, ProdTypes, QueuesInv
<1>13. ASSUME ProdFinish PROVE Rest
  <2>1. ProdTypes'
        BY <1>1, <1>13 DEF ProdFinish, FinSend, FinRecv, ProdTypes
  <2>2. QueuesInv' /\ queue'["in"] \in InQueue /\ queue'["out"] \in OutQueue
        BY <1>4, <1>13, CloseQueue DEF ProdFinish, FinSend, FinRecv, QueueName, QueuesInv
  <2> QED BY <1>1, <1>4, <1>5, <1>13, <2>1, <2>2 DEF ProdFinish
<1> QED BY <1>10, <1>11, <1>12, <1>13 DEF Producer

LEMMA LoopTypesKept ==
    ASSUME TypeOK, QueuesInv, Callback \/ Collector \/ UNCHANGED vars
    PROVE  TypeOK' /\ QueuesInv'
<1>1. /\ queue["in"] \in InQueue /\ queue["out"] \in OutQueue
      /\ holders \in [QueueName -> SUBSET ({"app", "listener"} \cup Job)]
      /\ freed \subseteq QueueName /\ finPending \subseteq Job /\ closing \subseteq Job
      /\ promise \in [Job -> {"pending", "ok", "error"}]
      /\ CallerTypes /\ DemTypes /\ ProdTypes
      /\ owed \subseteq Page /\ sent \in Seq(Packet)
      /\ events \subseteq Faults \cup {"cut", "refused"}
      BY TypeParts
<1>2. UNCHANGED <<queue, callerVars, demVars, prodVars, events>>
      BY DEF Callback, Collector, vars
<1>3. /\ QueuesInv' /\ queue' = queue /\ owed' = owed /\ sent' = sent /\ events' = events
      /\ CallerTypes' /\ DemTypes' /\ ProdTypes'
      BY <1>1, <1>2 DEF QueuesInv, CallerTypes, DemTypes, ProdTypes, callerVars, demVars, prodVars
<1> DEFINE Rest == /\ holders' \in [QueueName -> SUBSET ({"app", "listener"} \cup Job)]
                   /\ freed' \subseteq QueueName /\ finPending' \subseteq Job
                   /\ closing' \subseteq Job /\ promise' \in [Job -> {"pending", "ok", "error"}]
<1>4. SUFFICES Rest
      BY <1>1, <1>3, TypePartsPrimed
<1>5. ASSUME NEW j \in Job, AsyncCallback(j) PROVE Rest
      BY <1>1, <1>5 DEF AsyncCallback, DemTypes, ProdTypes
<1>6. ASSUME NEW j \in Job, CloseCallback(j) PROVE Rest
  <2>1. InputOf[j] \in QueueName
        BY DEF Job, InputOf, QueueName
  <2> QED BY <1>1, <1>6, <2>1 DEF CloseCallback
<1>7. ASSUME NEW q \in QueueName, Collect(q) PROVE Rest
      BY <1>1, <1>7 DEF Collect
<1>8. UNCHANGED vars => Rest
      BY <1>1 DEF vars, loopVars
<1> QED BY <1>5, <1>6, <1>7, <1>8 DEF Callback, Collector

LEMMA TypesKept ==
    ASSUME TypeOK, QueuesInv, OrderInv, CurrentInv, [Next]_vars
    PROVE  TypeOK' /\ QueuesInv'
BY CallerTypesKept, DemuxerTypesKept, ProducerTypesKept, LoopTypesKept DEF Next

-----------------------------------------------------------------------------
(* How the demuxer's queue and the pages in it change.                     *)

LEMMA InFacts ==
    ASSUME TypeOK
    PROVE  /\ In \in Seq(InMessages) /\ Len(In) \in Nat
           /\ stream \in Nat /\ pages \in Nat /\ Upcoming \in Page /\ owed \subseteq Page
           /\ Upcoming.stream = stream /\ Upcoming.n = pages
           /\ \A i \in OggAt : i \in 1..Len(In) /\ In[i].buf \in Page
                               /\ In[i] = OggBuffer(In[i].buf)
           /\ \A i \in 1..Len(In) : i \notin OggAt => In[i] = Reset
<1>1. In \in Seq(InMessages) /\ owed \subseteq Page /\ CallerTypes
      BY TypeParts DEF InQueue, BoundedQueue, QueueOf, In
<1>2. Len(In) \in Nat /\ \A i \in 1..Len(In) : In[i] \in InMessages
      BY <1>1, LenProperties
<1>3. stream \in Nat /\ pages \in Nat /\ Upcoming \in Page
      BY <1>1, OggAssumption DEF CallerTypes, Stream, Upcoming, Page
<1>4. \A i \in OggAt : i \in 1..Len(In) /\ In[i].type = "OGG_BUFFER"
      BY DEF OggAt
<1>5. \A i \in OggAt : In[i].buf \in Page /\ In[i] = OggBuffer(In[i].buf)
      BY <1>2, <1>4, MessageTypes
<1>6. \A i \in 1..Len(In) : i \notin OggAt => In[i] = Reset
      BY <1>2, MessageTypes DEF OggAt
<1> QED BY <1>1, <1>2, <1>3, <1>4, <1>5, <1>6 DEF Upcoming

LEMMA InAppend ==
    ASSUME TypeOK, NEW m \in InMessages, In' = Append(In, m)
    PROVE  /\ Len(In') = Len(In) + 1 /\ In'[Len(In) + 1] = m
           /\ \A i \in 1..Len(In) : In'[i] = In[i]
           /\ OggAt' = OggAt \cup {i \in {Len(In) + 1} : m.type = "OGG_BUFFER"}
           /\ InPages' = InPages \cup {x.buf : x \in {y \in {m} : y.type = "OGG_BUFFER"}}
<1>1. In \in Seq(InMessages) /\ Len(In) \in Nat
      BY InFacts
<1>2. /\ Len(In') = Len(In) + 1 /\ In'[Len(In) + 1] = m
      /\ \A i \in 1..Len(In) : In'[i] = In[i]
      BY <1>1, AppendProperties
<1>3. OggAt' = OggAt \cup {i \in {Len(In) + 1} : m.type = "OGG_BUFFER"}
      BY <1>1, <1>2 DEF OggAt
<1>4. \A i \in OggAt : In'[i].buf = In[i].buf
      BY <1>2 DEF OggAt
<1>5. InPages' = {In'[i].buf : i \in OggAt'}
      BY DEF InPages
<1>6. CASE m.type = "OGG_BUFFER"
  <2>1. OggAt' = OggAt \cup {Len(In) + 1}
        BY <1>3, <1>6
  <2>2. InPages' = InPages \cup {m.buf}
        BY <1>2, <1>4, <1>5, <2>1 DEF InPages
  <2> QED BY <1>2, <1>3, <1>6, <2>2
<1>7. CASE m.type # "OGG_BUFFER"
  <2>1. OggAt' = OggAt
        BY <1>3, <1>7
  <2>2. InPages' = InPages
        BY <1>4, <1>5, <2>1 DEF InPages
  <2> QED BY <1>2, <1>3, <1>7, <2>2
<1> QED BY <1>6, <1>7

LEMMA InTail ==
    ASSUME TypeOK, In # <<>>, In' = Tail(In)
    PROVE  /\ Len(In') = Len(In) - 1 /\ Len(In) \in Nat \ {0} /\ Head(In) = In[1]
           /\ \A i \in 1..(Len(In) - 1) : In'[i] = In[i + 1]
           /\ OggAt' = {i \in 1..(Len(In) - 1) : i + 1 \in OggAt}
           /\ \A p : p \in InPages <=> p \in InPages' \/ (1 \in OggAt /\ p = In[1].buf)
<1>1. In \in Seq(InMessages)
      BY InFacts
<1>2. /\ Len(In) \in Nat \ {0} /\ Head(In) = In[1] /\ Len(In') = Len(In) - 1
      /\ \A i \in 1..(Len(In) - 1) : In'[i] = In[i + 1]
      BY <1>1, TailProperties
<1>3. OggAt' = {i \in 1..(Len(In) - 1) : i + 1 \in OggAt}
      BY <1>2 DEF OggAt
<1>4. ASSUME NEW p, p \in InPages' PROVE p \in InPages
  <2>1. PICK i \in OggAt' : p = In'[i].buf
        BY <1>4 DEF InPages
  <2>2. i \in 1..(Len(In) - 1) /\ i + 1 \in OggAt /\ p = In[i + 1].buf
        BY <1>2, <1>3, <2>1
  <2> QED BY <2>2 DEF InPages
<1>5. ASSUME NEW p, p \in InPages PROVE p \in InPages' \/ (1 \in OggAt /\ p = In[1].buf)
  <2>1. PICK i \in OggAt : p = In[i].buf
        BY <1>5 DEF InPages
  <2>2. i \in 1..Len(In)
        BY DEF OggAt
  <2>3. CASE i = 1
        BY <2>1, <2>3
  <2>4. CASE i # 1
    <3>1. i - 1 \in 1..(Len(In) - 1) /\ (i - 1) + 1 = i
          BY <1>2, <2>2, <2>4
    <3>2. i - 1 \in OggAt' /\ In'[i - 1] = In[i]
          BY <1>2, <1>3, <3>1
    <3> QED BY <2>1, <3>2 DEF InPages
  <2> QED BY <2>3, <2>4
<1>6. 1 \in OggAt => In[1].buf \in InPages
      BY DEF InPages
<1> QED BY <1>2, <1>3, <1>4, <1>5, <1>6

(* What a step does to the demuxer's queue: nothing, or it posts a page or *)
(* a reset, clears the queue, or takes a message.                          *)
Same  == In' = In /\ UNCHANGED <<owed, stream, pages, posts>>
Post  == /\ js # "reset" /\ ~queue["in"].err_send
         /\ In' = Append(In, OggBuffer(Upcoming)) /\ UNCHANGED <<js, stream>>
         /\ owed' = IF pages > 0 THEN owed \cup {Upcoming} ELSE owed
         /\ pages' = pages + 1 /\ posts' = posts + 1
Cut   == /\ js # "reset" /\ ~queue["in"].err_send /\ In' = Append(In, Reset)
         /\ stream' = stream + 1 /\ pages' = 0 /\ UNCHANGED <<js, owed, posts>>
Clear == /\ js' = "reset" /\ In' = <<>> /\ owed' = owed \ InPages
         /\ stream' = stream + 1 /\ pages' = 0 /\ UNCHANGED posts
After == /\ js = "reset" /\ js' = "idle" /\ UNCHANGED <<owed, stream, pages, posts>>
         /\ \/ In' = In /\ queue["in"].err_send
            \/ In' = Append(In, Reset) /\ ~queue["in"].err_send
Take  == In # <<>> /\ In' = Tail(In) /\ UNCHANGED <<js, owed, stream, pages, posts>>

LEMMA WaitingPages == TypeOK => Waiting("in") = InPages
<1> SUFFICES ASSUME TypeOK PROVE Waiting("in") = InPages
  OBVIOUS
<1>1. Waiting("in") = {m.buf : m \in {x \in ToSet(In) : x.type = "OGG_BUFFER"}}
      BY DEF Waiting, In
<1>2. ToSet(In) = {In[i] : i \in 1..Len(In)}
      BY InFacts DEF ToSet
<1> QED BY <1>1, <1>2 DEF InPages, OggAt

(* Only the caller touches its end of the queue.                           *)
LEMMA CallerSteps ==
    ASSUME TypeOK, QueuesInv, ChainInv, Call \/ RestOfCall
    PROVE  /\ UNCHANGED <<demVars, prodVars, loopVars, events, Out>>
           /\ \A q \in QueueName : queue[q].err_send => queue'[q].err_send
           /\ Post \/ Cut \/ Clear \/ After \/ (Same /\ js # "reset" /\ js' # "reset")
<1>1. UNCHANGED <<demVars, prodVars, loopVars>>
      BY DEF Call, RestOfCall
<1> DEFINE Keeps == \A q \in QueueName : queue[q].err_send => queue'[q].err_send
<1> DEFINE Rest == /\ UNCHANGED <<events, Out>> /\ Keeps
                   /\ Post \/ Cut \/ Clear \/ After \/ (Same /\ js # "reset" /\ js' # "reset")
<1>2. \A p : queue'["in"].err_send = queue["in"].err_send /\ queue'["out"] = queue["out"]
             => Keeps /\ Out' = Out
      BY DEF QueueName, Out
<1>3. Upcoming \in Page /\ OggBuffer(Upcoming) \in InMessages /\ Reset \in InMessages
      /\ Upcoming.n = pages
      BY InFacts, MessageTypes
<1>10. ASSUME PostOggBuffer PROVE Rest
  <2>1. /\ js = "idle" /\ CanSend(queue["in"], Size["in"])
        /\ SendTo("in", OggBuffer(Upcoming))
        /\ owed' = IF Upcoming.n > 0 THEN owed \cup {Upcoming} ELSE owed
        /\ pages' = pages + 1 /\ posts' = posts + 1 /\ UNCHANGED <<js, stream, events>>
        BY <1>10 DEF PostOggBuffer, Upcoming, IsPacket
  <2>2. /\ In' = Append(In, OggBuffer(Upcoming)) /\ queue'["out"] = queue["out"]
        /\ queue'["in"].err_send = queue["in"].err_send
        BY <1>3, <2>1, ChangeIn
  <2>3. ~queue["in"].err_send
        BY <2>1 DEF CanSend
  <2>4. Post
        BY <1>3, <2>1, <2>2, <2>3 DEF Post
  <2> QED BY <1>2, <2>1, <2>2, <2>4
<1>11. ASSUME PostDemuxerReset PROVE Rest
  <2>1. /\ js = "idle" /\ CanSend(queue["in"], Size["in"]) /\ SendTo("in", Reset)
        /\ stream' = stream + 1 /\ pages' = 0 /\ UNCHANGED <<js, owed, posts, events>>
        BY <1>11 DEF PostDemuxerReset, BeginStream
  <2>2. /\ In' = Append(In, Reset) /\ queue'["out"] = queue["out"]
        /\ queue'["in"].err_send = queue["in"].err_send
        BY <1>3, <2>1, ChangeIn
  <2>3. Cut
        BY <2>1, <2>2 DEF Cut, CanSend
  <2> QED BY <1>2, <2>1, <2>2, <2>3
<1>12. ASSUME ClearMessageQueue PROVE Rest
  <2>1. /\ queue' = [queue EXCEPT !["in"] = Flush(@)] /\ js' = "reset"
        /\ owed' = owed \ InPages
        /\ stream' = stream + 1 /\ pages' = 0 /\ UNCHANGED <<posts, events>>
        BY <1>12, WaitingPages DEF ClearMessageQueue, BeginStream
  <2>2. /\ In' = <<>> /\ queue'["out"] = queue["out"]
        /\ queue'["in"].err_send = queue["in"].err_send
        BY <2>1, ResetIn
  <2>3. Clear
        BY <2>1, <2>2 DEF Clear
  <2> QED BY <1>2, <2>1, <2>2, <2>3
<1>13. ASSUME NEW q \in QueueName, CloseSend(q) PROVE Rest
  <2>1. In' = In /\ Out' = Out /\ Keeps
        BY <1>13, CloseQueue DEF CloseSend
  <2>2. Same /\ js # "reset" /\ js' # "reset" /\ events' = events
        BY <1>13, <2>1 DEF CloseSend, Same
  <2> QED BY <2>1, <2>2
<1>14. ASSUME NEW h, Forget(h) PROVE Rest
  <2>1. In' = In /\ Out' = Out /\ Keeps
        BY <1>14 DEF Forget, In, Out
  <2>2. Same /\ js # "reset" /\ js' # "reset" /\ events' = events
        BY <1>14, <2>1 DEF Forget, Same, callerVars
  <2> QED BY <2>1, <2>2
<1>15. ASSUME ResetAfterClear PROVE Rest
  <2>1. /\ js = "reset" /\ js' = "idle" /\ SendOrDrop("in", Reset)
        /\ UNCHANGED <<owed, stream, pages, posts, events>>
        BY <1>15 DEF ResetAfterClear
  <2>2. In = <<>>
        BY <2>1 DEF ChainInv
  <2>3. /\ queue'["in"].err_send = queue["in"].err_send /\ queue'["out"] = queue["out"]
        /\ ~queue["in"].err_send => In' = Append(In, Reset)
        /\ queue["in"].err_send => In' = In
        BY <2>1, <2>2, ResetIn
  <2>4. After
        BY <2>1, <2>3 DEF After
  <2> QED BY <1>2, <2>1, <2>3, <2>4
<1>16. ASSUME CloseRecv PROVE Rest
  <2> DEFINE q == IF js = "closeIn" THEN "in" ELSE "out"
  <2>1. q \in QueueName /\ queue' = [queue EXCEPT ![q] = SetErrRecv(@)]
        BY <1>16 DEF CloseRecv, QueueName
  <2>2. In' = In /\ Out' = Out /\ Keeps
        BY <2>1, CloseQueue
  <2>3. Same /\ js # "reset" /\ js' # "reset" /\ events' = events
        BY <1>16, <2>2 DEF CloseRecv, Same
  <2> QED BY <2>2, <2>3
<1>17. Rest
      BY <1>10, <1>11, <1>12, <1>13, <1>14, <1>15, <1>16 DEF Call, RestOfCall
<1> QED BY <1>1, <1>17

LEMMA InReset ==
    ASSUME TypeOK, In' = Append(In, Reset)
    PROVE  /\ OggAt' = OggAt /\ InPages' = InPages
           /\ \A i \in OggAt : In'[i] = In[i]
<1>1. Reset \in InMessages /\ Reset.type # "OGG_BUFFER"
      BY MessageTypes
<1> DEFINE m == Reset
<1>2. /\ \A i \in 1..Len(In) : In'[i] = In[i]
      /\ OggAt' = OggAt \cup {i \in {Len(In) + 1} : m.type = "OGG_BUFFER"}
      /\ InPages' = InPages \cup {x.buf : x \in {y \in {m} : y.type = "OGG_BUFFER"}}
      BY <1>1, InAppend
<1>3. \A i \in OggAt : i \in 1..Len(In)
      BY InFacts
<1> HIDE DEF m
<1>4. m.type # "OGG_BUFFER"
      BY <1>1 DEF m
<1> QED BY <1>2, <1>3, <1>4

(* The order of pages, and which of them have been read.                   *)
LEMMA Ordered ==
    ASSUME NEW p \in Page, NEW q \in Page
    PROVE  /\ p.stream \in Nat /\ p.n \in Nat
           /\ ~Before(p, p) /\ (Before(p, q) => ~Before(q, p))
           /\ Before(p, q) /\ q.n = 0 => p.stream < q.stream
<1>1. /\ p.stream \in Nat /\ p.n \in Nat /\ q.stream \in Nat /\ q.n \in Nat
      BY OggAssumption DEF Page, Stream
<1> QED BY <1>1 DEF Before

LEMMA OrderSame ==
    ASSUME TypeOK, OrderInv, Same, Headers' \subseteq Headers
    PROVE  OrderInv' /\ Gone' = Gone
<1>1. OggAt' = OggAt /\ InPages' = InPages /\ Upcoming' = Upcoming
      BY DEF Same, OggAt, InPages, Upcoming
<1>2. Gone' = Gone
      BY <1>1 DEF Gone, Same
<1> QED BY <1>1, <1>2 DEF OrderInv, Same

LEMMA OrderPost ==
    ASSUME TypeOK, OrderInv, Post, Headers' \subseteq Headers
    PROVE  OrderInv' /\ Gone' = Gone
<1> DEFINE new == OggBuffer(Upcoming)
<1> DEFINE last == Len(In) + 1
<1>1. /\ new \in InMessages /\ new.type = "OGG_BUFFER" /\ new.buf = Upcoming
      BY InFacts, MessageTypes
<1>2. In' = Append(In, new)
      BY DEF Post
<1> HIDE DEF new
<1>3. /\ Len(In') = last /\ In'[last] = new
      /\ \A i \in 1..Len(In) : In'[i] = In[i]
      /\ OggAt' = OggAt \cup {last} /\ InPages' = InPages \cup {Upcoming}
      BY <1>1, <1>2, InAppend
<1>4. /\ Len(In) \in Nat /\ pages \in Nat /\ stream \in Nat
      /\ Upcoming.stream = stream /\ Upcoming.n = pages
      /\ \A i \in OggAt : i \in 1..Len(In) /\ In[i].buf \in Page
      /\ owed \subseteq Page
      BY InFacts
<1>5. Upcoming'.stream = stream /\ Upcoming'.n = pages + 1
      BY DEF Post, Upcoming
<1>6. /\ Before(Upcoming, Upcoming')
      /\ \A p : p.n \in Int /\ Before(p, Upcoming) => Before(p, Upcoming')
  <2>1. Before(Upcoming, Upcoming')
        BY <1>4, <1>5 DEF Before
  <2>2. ASSUME NEW p, p.n \in Int, Before(p, Upcoming) PROVE Before(p, Upcoming')
    <3>1. CASE p.stream < stream
          BY <1>4, <1>5, <2>2, <3>1 DEF Before
    <3>2. CASE p.stream = stream /\ p.n < pages
      <4>1. p.n < pages + 1
            BY <1>4, <2>2, <3>2
      <4> QED BY <1>5, <3>2, <4>1 DEF Before
    <3> QED BY <1>4, <2>2, <3>1, <3>2 DEF Before
  <2> QED BY <2>1, <2>2
<1>7. Gone' = Gone
  <2>1. Upcoming \notin Gone
        BY InFacts, Ordered DEF OrderInv
  <2>2. owed' \subseteq owed \cup {Upcoming} /\ owed \subseteq owed'
        BY DEF Post
  <2> QED BY <1>3, <2>1, <2>2 DEF Gone
<1> HIDE DEF last
<1>8. \A i \in OggAt' : (i \in OggAt /\ In'[i] = In[i] /\ i < last) \/ (i = last /\ In'[i].buf = Upcoming)
      BY <1>1, <1>3, <1>4 DEF last
<1>9. pages' <= posts'
  <2>1. pages <= posts /\ posts \in Nat
        BY OggAssumption DEF OrderInv, TypeOK, CallerTypes
  <2> QED BY <1>4, <2>1 DEF Post
<1>10. \A i, j \in OggAt' : i < j => Before(In'[i].buf, In'[j].buf)
  <2> SUFFICES ASSUME NEW i \in OggAt', NEW j \in OggAt', i < j
               PROVE  Before(In'[i].buf, In'[j].buf)
    OBVIOUS
  <2>1. CASE j \in OggAt /\ In'[j] = In[j] /\ j < last
    <3>1. i # last
          BY <1>4, <2>1 DEF last
    <3> QED BY <1>8, <2>1, <3>1 DEF OrderInv
  <2>2. CASE j = last /\ In'[j].buf = Upcoming
    <3>1. i # last
          BY <1>4, <2>2 DEF last
    <3> QED BY <1>8, <2>2, <3>1 DEF OrderInv
  <2> QED BY <1>8, <2>1, <2>2
<1>11. \A i \in OggAt' : Before(In'[i].buf, Upcoming')
  <2>1. \A i \in OggAt : In[i].buf.n \in Int
        BY <1>4, Ordered
  <2> QED BY <1>6, <1>8, <2>1 DEF OrderInv
<1>12. \A p \in Gone' \cup Headers' :
          Before(p, Upcoming') /\ \A i \in OggAt' : Before(p, In'[i].buf)
  <2>1. \A p \in Gone \cup Headers : p.n \in Int
    <3>1. \A p \in Gone : p \in Page
          BY <1>4 DEF Gone
    <3> QED BY <3>1, Ordered DEF Headers
  <2> QED BY <1>6, <1>7, <1>8, <2>1 DEF OrderInv
<1>13. \A i \in OggAt' : In'[i].buf.n > 0 => In'[i].buf \in owed'
  <2>1. owed \subseteq owed' /\ (pages > 0 => Upcoming \in owed')
        BY DEF Post
  <2>2. \A i \in OggAt : In[i].buf.n > 0 => In[i].buf \in owed'
        BY <2>1 DEF OrderInv
  <2> QED BY <1>4, <1>8, <2>1, <2>2
<1>14. \A p \in owed' : p.n > 0
      BY <1>4 DEF OrderInv, Post
<1> QED BY <1>7, <1>9, <1>10, <1>11, <1>12, <1>13, <1>14 DEF OrderInv

(* The next stream begins after all that there is.                         *)
LEMMA OrderBegin ==
    ASSUME TypeOK, OrderInv, Headers' \subseteq Headers,
           OggAt' \subseteq OggAt, \A i \in OggAt' : In'[i] = In[i],
           stream' = stream + 1, pages' = 0, posts' = posts,
           owed' \subseteq owed, Gone' = Gone, \A i \in OggAt' : In[i].buf \in owed => In[i].buf \in owed'
    PROVE  OrderInv'
<1>1. /\ pages \in Nat /\ stream \in Nat /\ Upcoming.stream = stream /\ Upcoming.n = pages
      /\ \A i \in OggAt : In[i].buf \in Page
      BY InFacts
<1>2. Upcoming'.stream = stream + 1
      BY DEF Upcoming
<1>3. ASSUME NEW p, p.stream \in Int, Before(p, Upcoming) PROVE Before(p, Upcoming')
      BY <1>1, <1>2, <1>3 DEF Before
<1>4. pages' <= posts'
      BY OggAssumption DEF TypeOK, CallerTypes
<1>5. \A p \in Gone \cup Headers : p.stream \in Int
  <2>1. \A p \in Gone : p \in Page
        BY InFacts DEF Gone
  <2>2. \A i \in 1..Len(container) : container[i] \in Stream
        BY LenProperties DEF TypeOK, DemTypes
  <2>3. \A p \in Headers : p.stream \in Stream
        BY <2>2 DEF Headers
  <2> QED BY <2>1, <2>3, Ordered DEF Stream
<1>6. \A i \in OggAt : In[i].buf.stream \in Int
      BY <1>1, Ordered
<1> QED BY <1>3, <1>4, <1>5, <1>6 DEF OrderInv

LEMMA OrderCut ==
    ASSUME TypeOK, OrderInv, Cut, Headers' \subseteq Headers
    PROVE  OrderInv' /\ Gone' = Gone
<1>1. /\ OggAt' = OggAt /\ InPages' = InPages
      /\ \A i \in OggAt : In'[i] = In[i]
      BY InReset DEF Cut
<1>2. Gone' = Gone
      BY <1>1 DEF Gone, Cut
<1> QED BY <1>1, <1>2, OrderBegin DEF Cut

LEMMA OrderClear ==
    ASSUME TypeOK, OrderInv, Clear, Headers' \subseteq Headers
    PROVE  OrderInv' /\ Gone' = Gone /\ owed' = Gone /\ InPages' = {}
<1>1. Len(<<>>) = 0 /\ In' = <<>>
      BY EmptySeq DEF Clear
<1>2. OggAt' = {} /\ InPages' = {}
      BY <1>1 DEF OggAt, InPages
<1>3. Gone' = Gone /\ owed' = Gone
      BY <1>2 DEF Gone, Clear
<1>4. owed' \subseteq owed /\ stream' = stream + 1 /\ pages' = 0 /\ posts' = posts
      BY DEF Clear
<1> QED BY <1>2, <1>3, <1>4, OrderBegin

LEMMA OrderAfter ==
    ASSUME TypeOK, OrderInv, After, Headers' \subseteq Headers
    PROVE  OrderInv' /\ Gone' = Gone
<1>1. CASE In' = In
      BY <1>1, OrderSame DEF After, Same
<1>2. CASE In' = Append(In, Reset)
  <2>1. /\ OggAt' = OggAt /\ InPages' = InPages
        /\ \A i \in OggAt : In'[i] = In[i]
        BY <1>2, InReset
  <2>2. Gone' = Gone /\ Upcoming' = Upcoming
        BY <2>1 DEF Gone, After, Upcoming
  <2> QED BY <2>1, <2>2 DEF OrderInv, After
<1> QED BY <1>1, <1>2 DEF After

LEMMA OrderTake ==
    ASSUME TypeOK, OrderInv, Take, Headers' \subseteq Headers \cup HeadPage
    PROVE  /\ OrderInv' /\ Gone \subseteq Gone' /\ Gone' \subseteq Gone \cup HeadPage
           /\ \A p \in HeadPage : p.n > 0 => p \in Gone'
           /\ \A p \in HeadPage : \A q \in Gone \cup Headers : Before(q, p)
<1>1. /\ Len(In) \in Nat \ {0}
      /\ \A i \in 1..(Len(In) - 1) : In'[i] = In[i + 1]
      /\ OggAt' = {i \in 1..(Len(In) - 1) : i + 1 \in OggAt}
      /\ \A p : p \in InPages <=> p \in InPages' \/ (1 \in OggAt /\ p = In[1].buf)
      BY InTail DEF Take
<1>2. /\ \A i \in OggAt : i \in 1..Len(In) /\ In[i].buf \in Page
      /\ Upcoming' = Upcoming
      BY InFacts DEF Take, Upcoming
<1>3. \A p \in HeadPage : 1 \in OggAt /\ p = In[1].buf
      BY DEF HeadPage
<1>4. \A i \in OggAt' : i + 1 \in OggAt /\ In'[i] = In[i + 1] /\ i + 1 > 1 /\ i \in Nat
      BY <1>1
<1>5. Gone \subseteq Gone' /\ Gone' \subseteq Gone \cup HeadPage
      BY <1>1 DEF Gone, Take, HeadPage
<1>6. \A p \in HeadPage : \A i \in OggAt' : Before(p, In'[i].buf)
      BY <1>3, <1>4 DEF OrderInv
<1>7. \A p \in HeadPage : p.n > 0 => p \in Gone'
  <2> SUFFICES ASSUME NEW p \in HeadPage, p.n > 0, p \in InPages' PROVE FALSE
    <3>1. \A p \in HeadPage : p.n > 0 => p \in owed'
          BY <1>3 DEF OrderInv, Take
    <3> QED BY <3>1 DEF Gone
  <2>1. PICK i \in OggAt' : p = In'[i].buf
        BY DEF InPages
  <2>2. p \in Page /\ Before(p, p)
        BY <1>2, <1>3, <1>6, <2>1
  <2> QED BY <2>2, Ordered
<1>8. \A i, j \in OggAt' : i < j => Before(In'[i].buf, In'[j].buf)
  <2> SUFFICES ASSUME NEW i \in OggAt', NEW j \in OggAt', i < j
               PROVE  Before(In'[i].buf, In'[j].buf)
    OBVIOUS
  <2>1. i + 1 < j + 1 /\ i + 1 \in OggAt /\ j + 1 \in OggAt
        BY <1>4
  <2> QED BY <1>4, <2>1 DEF OrderInv
<1>9. \A i \in OggAt' : Before(In'[i].buf, Upcoming')
      BY <1>2, <1>4 DEF OrderInv
<1>10. \A p \in Gone' \cup Headers' :
          Before(p, Upcoming') /\ \A i \in OggAt' : Before(p, In'[i].buf)
  <2> SUFFICES ASSUME NEW p \in Gone \cup Headers \cup HeadPage
               PROVE  Before(p, Upcoming') /\ \A i \in OggAt' : Before(p, In'[i].buf)
    BY <1>5
  <2>1. CASE p \in HeadPage
        BY <1>2, <1>3, <1>6, <2>1 DEF OrderInv
  <2>2. CASE p \in Gone \cup Headers
        BY <1>2, <1>4, <2>2 DEF OrderInv
  <2> QED BY <2>1, <2>2
<1>11. \A i \in OggAt' : In'[i].buf.n > 0 => In'[i].buf \in owed'
      BY <1>4 DEF OrderInv, Take
<1>12. pages' <= posts' /\ \A p \in owed' : p.n > 0
      BY DEF OrderInv, Take
<1>13. \A p \in HeadPage : \A q \in Gone \cup Headers : Before(q, p)
      BY <1>3 DEF OrderInv
<1> QED BY <1>5, <1>7, <1>8, <1>9, <1>10, <1>11, <1>12, <1>13 DEF OrderInv

-----------------------------------------------------------------------------
(* What follows what in the demuxer's queue.                               *)

LEMMA Follows ==
    ASSUME NEW p \in Page
    PROVE  /\ Comes(Reset, p) => p.n = 0
           /\ \A q \in Page : Comes(OggBuffer(q), p) =>
                 p.n = q.n + 1 /\ p.stream = q.stream /\ q = Prev(p)
<1>1. Comes(Reset, p) => p.n = 0
      BY DEF Comes, Reset, OggBuffer
<1>2. ASSUME NEW q \in Page, Comes(OggBuffer(q), p)
      PROVE  p.n = q.n + 1 /\ p.stream = q.stream /\ q = Prev(p)
  <2>1. OggBuffer(q) # Reset
        BY MessageTypes
  <2>2. OggBuffer(q) = OggBuffer(Prev(p))
        BY <1>2, <2>1 DEF Comes
  <2>3. OggBuffer(q).buf = OggBuffer(Prev(p)).buf
        BY <2>2
  <2>4. q = Prev(p)
        BY <2>3 DEF OggBuffer
  <2>5. q.n = p.n - 1 /\ q.stream = p.stream /\ p.n \in Nat
        BY <2>4, PageFacts DEF Prev
  <2> QED BY <2>4, <2>5
<1> QED BY <1>1, <1>2

LEMMA ChainSame ==
    ASSUME TypeOK, ChainInv, Same, js' = "reset" <=> js = "reset",
           queue["in"].err_send => queue'["in"].err_send,
           \A p \in NextPage : Expected(p) => Expected(p)'
    PROVE  ChainInv'
<1>1. OggAt' = OggAt /\ Upcoming' = Upcoming /\ In' = In
      BY DEF Same, OggAt, Upcoming
<1>2. NextPage' \subseteq NextPage
      BY <1>1 DEF NextPage, HeadPage
<1> QED BY <1>1, <1>2 DEF ChainInv, Same

LEMMA ChainTake ==
    ASSUME TypeOK, ChainInv, Take, queue'["in"].err_send = queue["in"].err_send,
           \A p \in Page : Comes(In[1], p) => Expected(p)'
    PROVE  ChainInv'
<1>1. /\ Len(In) \in Nat \ {0} /\ Len(In') = Len(In) - 1
      /\ \A i \in 1..(Len(In) - 1) : In'[i] = In[i + 1]
      /\ OggAt' = {i \in 1..(Len(In) - 1) : i + 1 \in OggAt}
      BY InTail DEF Take
<1>2. /\ In # <<>> /\ js' = js /\ pages' = pages /\ Upcoming' = Upcoming
      BY DEF Take, Upcoming
<1>3. Upcoming \in Page /\ \A i \in OggAt : i \in 1..Len(In) /\ In[i].buf \in Page
      BY InFacts
<1>4. \A i \in OggAt' : i > 1 => Comes(In'[i - 1], In'[i].buf)
  <2> SUFFICES ASSUME NEW i \in OggAt', i > 1 PROVE Comes(In'[i - 1], In'[i].buf)
    OBVIOUS
  <2>1. /\ i \in 1..(Len(In) - 1) /\ i + 1 \in OggAt /\ i + 1 > 1 /\ (i + 1) - 1 = i
        /\ i - 1 \in 1..(Len(In) - 1) /\ (i - 1) + 1 = i
        BY <1>1
  <2>2. In'[i] = In[i + 1] /\ In'[i - 1] = In[i]
        BY <1>1, <2>1
  <2>3. Comes(In[(i + 1) - 1], In[i + 1].buf)
        BY <2>1 DEF ChainInv
  <2> QED BY <2>1, <2>2, <2>3
<1>5. In' # <<>> => Comes(In'[Len(In')], Upcoming')
  <2>1. In' \in Seq(InMessages)
    <3>1. In \in Seq(InMessages) /\ In' = Tail(In)
          BY InFacts DEF Take
    <3> QED BY <1>2, <3>1, TailProperties
  <2>2. In' # <<>> => Len(In') # 0
        BY <2>1, EmptySeq
  <2>3. Len(In') # 0 => Len(In') \in 1..(Len(In) - 1) /\ Len(In') + 1 = Len(In)
        BY <1>1
  <2>4. Len(In') # 0 => In'[Len(In')] = In[Len(In)]
        BY <1>1, <2>3
  <2> QED BY <1>2, <2>2, <2>4 DEF ChainInv
<1>6. \A p \in NextPage' : Expected(p)'
  <2> SUFFICES ASSUME NEW p \in NextPage' PROVE p \in Page /\ Comes(In[1], p)
    OBVIOUS
  <2>1. CASE p \in HeadPage'
    <3>1. 1 \in OggAt' /\ p = In'[1].buf
          BY <2>1 DEF HeadPage
    <3>2. 1 + 1 \in OggAt /\ p = In[1 + 1].buf
          BY <1>1, <3>1
    <3>3. 2 \in OggAt /\ 2 > 1 /\ 2 - 1 = 1 /\ p = In[2].buf
          BY <3>2
    <3>4. Comes(In[2 - 1], In[2].buf)
          BY <3>3 DEF ChainInv
    <3> QED BY <1>3, <3>3, <3>4
  <2>2. CASE p = Upcoming' /\ In' = <<>>
    <3>1. Len(In) - 1 = 0
          BY <1>1, <2>2, EmptySeq
    <3>2. Len(In) = 1
      <4>1. Len(In) \in Nat
            BY InFacts
      <4> QED BY <3>1, <4>1
    <3>3. Comes(In[Len(In)], Upcoming)
          BY <1>2 DEF ChainInv
    <3> QED BY <1>2, <1>3, <2>2, <3>2, <3>3
  <2> QED BY <2>1, <2>2 DEF NextPage
<1>7. js' # "reset"
      BY <1>2 DEF ChainInv
<1> QED BY <1>4, <1>5, <1>6, <1>7 DEF ChainInv

LEMMA ExpectedSame ==
    ASSUME NEW p, UNCHANGED <<demPc, container, events, unread, demPkt>>
    PROVE  Expected(p)' <=> Expected(p)
BY DEF Expected, Current

LEMMA ChainPost ==
    ASSUME TypeOK, ChainInv, Post, UNCHANGED <<demPc, container, events, unread, demPkt>>
    PROVE  ChainInv'
<1> DEFINE m == OggBuffer(Upcoming)
<1> DEFINE last == Len(In) + 1
<1>1. /\ m \in InMessages /\ m.type = "OGG_BUFFER" /\ m.buf = Upcoming
      BY InFacts, MessageTypes
<1>2. In' = Append(In, m) /\ js # "reset" /\ js' = js /\ ~queue["in"].err_send
      BY DEF Post
<1>3. /\ pages \in Nat /\ Upcoming.stream = stream /\ Upcoming.n = pages
      /\ Len(In) \in Nat /\ In \in Seq(InMessages) /\ Upcoming \in Page
      /\ \A i \in OggAt : i \in 1..Len(In)
      BY InFacts
<1>4. Comes(m, Upcoming')
  <2>1. Upcoming'.n = pages + 1 /\ Upcoming'.stream = stream
        BY DEF Post, Upcoming
  <2>2. Prev(Upcoming') = Upcoming
        BY <1>3, <2>1 DEF Prev, Upcoming
  <2> QED BY <1>3, <2>1, <2>2 DEF Comes
<1> HIDE DEF m
<1>5. /\ Len(In') = last /\ In'[last] = m
      /\ \A i \in 1..Len(In) : In'[i] = In[i]
      /\ OggAt' = OggAt \cup {last}
      BY <1>1, <1>2, InAppend
<1>6. \A i \in OggAt' : i > 1 => Comes(In'[i - 1], In'[i].buf)
  <2> SUFFICES ASSUME NEW i \in OggAt', i > 1 PROVE Comes(In'[i - 1], In'[i].buf)
    OBVIOUS
  <2>1. CASE i \in OggAt
    <3>1. i \in 1..Len(In) /\ i - 1 \in 1..Len(In)
          BY <1>3, <2>1
    <3> QED BY <1>5, <2>1, <3>1 DEF ChainInv
  <2>2. CASE i = last
    <3>1. i - 1 = Len(In) /\ Len(In) \in 1..Len(In)
          BY <1>3, <2>2
    <3>2. In # <<>>
          BY <3>1, EmptySeq
    <3>3. Comes(In[Len(In)], Upcoming)
          BY <3>2 DEF ChainInv
    <3> QED BY <1>1, <1>5, <2>2, <3>1, <3>3
  <2> QED BY <1>5, <2>1, <2>2
<1>7. \A p \in NextPage' : Expected(p)'
  <2>1. NextPage' \subseteq NextPage
    <3>1. In' # <<>>
          BY <1>3, <1>5, EmptySeq
    <3>2. ASSUME NEW p \in HeadPage' PROVE p \in NextPage
      <4>1. 1 \in OggAt' /\ p = In'[1].buf
            BY DEF HeadPage
      <4>2. CASE 1 \in OggAt
            BY <1>3, <1>5, <4>1, <4>2 DEF HeadPage, NextPage
      <4>3. CASE 1 = last
        <5>1. Len(In) = 0
              BY <1>3, <4>3
        <5>2. In = <<>>
              BY <1>3, <5>1, EmptySeq
        <5>3. p = Upcoming
              BY <1>1, <1>5, <4>1, <4>3
        <5> QED BY <1>2, <5>2, <5>3 DEF NextPage
      <4> QED BY <1>5, <4>1, <4>2, <4>3
    <3> QED BY <3>1, <3>2 DEF NextPage
  <2> QED BY <2>1, ExpectedSame DEF ChainInv
<1> QED BY <1>2, <1>4, <1>5, <1>6, <1>7 DEF ChainInv

(* A reset at the end: the headers of a stream are next.                   *)
LEMMA ChainReset ==
    ASSUME TypeOK, ChainInv, In' = Append(In, Reset), js' # "reset", Upcoming'.n = 0,
           UNCHANGED <<demPc, container, events, unread, demPkt>>
    PROVE  ChainInv'
<1> DEFINE m == Reset
<1> DEFINE last == Len(In) + 1
<1>1. m \in InMessages /\ m.type # "OGG_BUFFER" /\ Comes(m, Upcoming')
      BY MessageTypes DEF Comes
<1>2. In' = Append(In, m)
      OBVIOUS
<1>3. Len(In) \in Nat /\ \A i \in OggAt : i \in 1..Len(In)
      BY InFacts
<1> HIDE DEF m
<1>5. /\ Len(In') = last /\ In'[last] = m
      /\ \A i \in 1..Len(In) : In'[i] = In[i]
      BY <1>1, <1>2, InAppend
<1>6. OggAt' = OggAt
      BY <1>2, InReset DEF m
<1>7. \A i \in OggAt' : i > 1 => Comes(In'[i - 1], In'[i].buf)
  <2> SUFFICES ASSUME NEW i \in OggAt, i > 1 PROVE Comes(In'[i - 1], In'[i].buf)
    BY <1>6
  <2>1. i \in 1..Len(In) /\ i - 1 \in 1..Len(In)
        BY <1>3
  <2> QED BY <1>5, <2>1 DEF ChainInv
<1>8. \A p \in NextPage' : Expected(p)'
  <2>1. NextPage' \subseteq NextPage
    <3>1. In' # <<>>
          BY <1>3, <1>5, EmptySeq
    <3>2. HeadPage' \subseteq HeadPage
          BY <1>3, <1>5, <1>6 DEF HeadPage
    <3> QED BY <3>1, <3>2 DEF NextPage
  <2> QED BY <2>1, ExpectedSame DEF ChainInv
<1> QED BY <1>1, <1>5, <1>7, <1>8 DEF ChainInv

LEMMA CallerKeepsOrder ==
    ASSUME TypeOK, QueuesInv, OrderInv, ChainInv, Call \/ RestOfCall
    PROVE  OrderInv' /\ ChainInv' /\ Gone' = Gone
<1>1. /\ UNCHANGED <<demPc, container, events, unread, demPkt>>
      /\ Post \/ Cut \/ Clear \/ After \/ (Same /\ js # "reset" /\ js' # "reset")
      /\ queue["in"].err_send => queue'["in"].err_send
      BY CallerSteps DEF demVars, QueueName
<1>2. Headers' \subseteq Headers
      BY <1>1 DEF Headers
<1>3. \A p : Expected(p)' <=> Expected(p)
      BY <1>1, ExpectedSame
<1>4. CASE Post
      BY <1>1, <1>2, <1>4, OrderPost, ChainPost
<1>5. CASE Cut
  <2>1. In' = Append(In, Reset) /\ js' # "reset" /\ Upcoming'.n = 0
        BY <1>5 DEF Cut, Upcoming
  <2> QED BY <1>1, <1>2, <1>5, <2>1, OrderCut, ChainReset
<1>6. CASE Clear
  <2>1. Len(<<>>) = 0
        BY EmptySeq
  <2>2. In' = <<>> /\ js' = "reset" /\ pages' = 0
        BY <1>6 DEF Clear
  <2>3. OggAt' = {}
        BY <2>1, <2>2 DEF OggAt
  <2>4. NextPage' = {}
        BY <2>2, <2>3 DEF NextPage, HeadPage
  <2>5. ChainInv'
        BY <2>2, <2>3, <2>4 DEF ChainInv
  <2> QED BY <1>2, <1>6, <2>5, OrderClear
<1>7. CASE After
  <2>1. js = "reset" /\ js' = "idle" /\ Upcoming' = Upcoming /\ pages' = pages
        BY <1>7 DEF After, Upcoming
  <2>2. In = <<>> /\ pages = 0
        BY <2>1 DEF ChainInv
  <2>3. Upcoming'.n = 0
        BY <2>1, <2>2 DEF Upcoming
  <2>4. ChainInv'
    <3>1. CASE In' = Append(In, Reset)
          BY <1>1, <2>1, <2>3, <3>1, ChainReset
    <3>2. CASE In' = In /\ queue["in"].err_send
      <4>1. In' = <<>> /\ queue'["in"].err_send
            BY <1>1, <2>2, <3>2
      <4>2. OggAt' = {}
            BY <4>1, EmptySeq DEF OggAt
      <4>3. NextPage' = {}
            BY <4>1, <4>2 DEF NextPage, HeadPage
      <4> QED BY <2>1, <4>1, <4>2, <4>3 DEF ChainInv
    <3> QED BY <1>7, <3>1, <3>2 DEF After
  <2> QED BY <1>2, <1>7, <2>4, OrderAfter
<1>8. CASE Same /\ js # "reset" /\ js' # "reset"
      BY <1>1, <1>2, <1>3, <1>8, OrderSame, ChainSame
<1> QED BY <1>1, <1>4, <1>5, <1>6, <1>7, <1>8

(* The demuxer takes the first message.                                    *)
LEMMA TakeIn ==
    ASSUME TypeOK, QueuesInv, CanRecv(queue["in"]), RecvFrom("in"), UNCHANGED callerVars
    PROVE  /\ Take /\ Out' = Out /\ \A q \in QueueName : queue'[q].err_send = queue[q].err_send
           /\ Head(queue["in"].msgs) = In[1]
           /\ In[1] = Reset => HeadPage = {}
           /\ In[1] # Reset => /\ 1 \in OggAt /\ In[1].buf \in Page /\ HeadPage = {In[1].buf}
                               /\ In[1] = OggBuffer(In[1].buf)
                               /\ In[1].buf \in NextPage
<1>1. /\ In # <<>> /\ Head(In) \in InMessages /\ In' = Tail(In)
      /\ queue'["in"].err_send = queue["in"].err_send
      /\ queue'["out"] = queue["out"]
      BY ChangeIn
<1>2. Take /\ Out' = Out /\ \A q \in QueueName : queue'[q].err_send = queue[q].err_send
      BY <1>1 DEF Take, callerVars, Out, QueueName
<1>3. Head(In) = In[1] /\ Len(In) \in Nat \ {0}
      BY <1>1, InTail
<1>4. In[1] = Reset => 1 \notin OggAt
      BY MessageTypes DEF OggAt
<1>5. In[1] # Reset => 1 \in OggAt
      BY <1>3, InFacts
<1>6. 1 \in OggAt => In[1].buf \in Page /\ HeadPage = {In[1].buf} /\ In[1] = OggBuffer(In[1].buf)
      BY InFacts DEF HeadPage
<1>7. 1 \notin OggAt => HeadPage = {}
      BY DEF HeadPage
<1> QED BY <1>2, <1>3, <1>4, <1>5, <1>6, <1>7 DEF In, NextPage

(* A step of the demuxer that leaves its queue alone.                      *)
LEMMA SameIn ==
    ASSUME In' = In, UNCHANGED callerVars
    PROVE  Same /\ js' = js
BY DEF Same, callerVars

LEMMA DemuxerKeepsOrder ==
    ASSUME TypeOK, QueuesInv, OrderInv, ChainInv, CurrentInv, Demuxer
    PROVE  /\ OrderInv' /\ ChainInv' /\ Gone \subseteq Gone'
           /\ \A q \in QueueName : queue[q].err_send => queue'[q].err_send
<1> DEFINE Keeps == \A q \in QueueName : queue[q].err_send => queue'[q].err_send
<1> DEFINE Rest == OrderInv' /\ ChainInv' /\ Gone \subseteq Gone' /\ Keeps
<1>1. UNCHANGED callerVars
      BY DEF Demuxer
<1>2. ASSUME CanRecv(queue["in"]), RecvFrom("in"), Headers' \subseteq Headers \cup HeadPage,
             \A p \in Page : Comes(In[1], p) => Expected(p)'
      PROVE  Rest
  <2>1. Take /\ \A q \in QueueName : queue'[q].err_send = queue[q].err_send
        BY <1>1, <1>2, TakeIn
  <2>2. OrderInv' /\ Gone \subseteq Gone'
        BY <1>2, <2>1, OrderTake
  <2>3. ChainInv' /\ Keeps
        BY <1>2, <2>1, ChainTake DEF QueueName
  <2> QED BY <2>2, <2>3
<1>3. ASSUME In' = In, Keeps, Headers' \subseteq Headers,
             \A p \in Page : Expected(p) => Expected(p)'
      PROVE  Rest
  <2>1. Same /\ js' = js
        BY <1>1, <1>3, SameIn
  <2>2. OrderInv' /\ Gone' = Gone
        BY <1>3, <2>1, OrderSame
  <2>3. NextPage \subseteq Page
        BY InFacts DEF NextPage, HeadPage
  <2>4. queue["in"].err_send => queue'["in"].err_send
        BY <1>3 DEF QueueName
  <2>5. ChainInv'
        BY <1>3, <2>1, <2>3, <2>4, ChainSame
  <2> QED BY <1>3, <2>2, <2>5
<1>4. demPc' \in Ending => \A p : Expected(p)'
      BY DEF Expected, Opening, Reading, Ending
<1>5. container' = container \/ container' = <<>> => Headers' \subseteq Headers
  <2>1. Len(<<>>) = 0
        BY EmptySeq
  <2> QED BY <2>1 DEF Headers
<1>6. CanRecv(queue["in"]) /\ RecvFrom("in") =>
         /\ Head(queue["in"].msgs) = In[1]
         /\ In[1] # Reset => /\ In[1].buf \in Page /\ HeadPage = {In[1].buf}
                             /\ In[1] = OggBuffer(In[1].buf) /\ In[1].buf \in NextPage
      BY <1>1, TakeIn
<1>7. queue' = queue => In' = In /\ Keeps
      BY DEF In
<1>8. \A m \in OutMessages : SendTo("out", m) /\ CanSend(queue["out"], Size["out"]) => In' = In /\ Keeps
      BY ChangeOut DEF In, QueueName
<1>10. ASSUME DemReadFails PROVE Rest
  <2>1. demPc' \in Ending /\ container' = container
        BY <1>10 DEF DemReadFails, DemExit, Ending
  <2> QED BY <1>2, <1>3, <1>4, <1>5, <1>7, <1>10, <2>1 DEF DemReadFails
<1>11. ASSUME DemSkipReset PROVE Rest
  <2>1. CanRecv(queue["in"]) /\ RecvFrom("in") /\ In[1] = Reset /\ container' = container
        BY <1>6, <1>11 DEF DemSkipReset
  <2>2. demPc' \in Opening /\ (container' = <<>> \/ "cut" \in events')
        BY <1>11 DEF DemSkipReset, Opening
  <2>3. \A p : p.n = 0 => Expected(p)'
        BY <2>2 DEF Expected, Opening, Reading
  <2> QED BY <1>2, <1>5, <2>1, <2>3, Follows
<1>12. ASSUME DemOpenRead PROVE Rest
  <2> DEFINE h == In[1].buf
  <2>1. /\ CanRecv(queue["in"]) /\ RecvFrom("in") /\ In[1] # Reset
        /\ In[1] = OggBuffer(h) /\ h \in Page /\ HeadPage = {h}
        /\ demPc \in Opening
        BY <1>6, <1>12 DEF DemOpenRead, Opening
  <2>2. CASE ~IsPacket(h) /\ container' = Append(container, h.stream) /\ demPc' = demPc
    <3> HIDE DEF h
    <3>1. container \in Seq(Stream) /\ h.stream \in Stream /\ h.n = 0
          BY <2>1, <2>2, PageFacts DEF TypeOK, DemTypes, IsPacket
    <3>2. /\ Len(container) \in Nat /\ Len(container') = Len(container) + 1
          /\ \A i \in 1..Len(container) : container'[i] = container[i]
          /\ container'[Len(container) + 1] = h.stream
          BY <2>2, <3>1, AppendProperties, LenProperties
    <3>3. Headers' \subseteq Headers \cup {h}
      <4>1. h = [stream |-> h.stream, n |-> 0]
            BY <2>1, <3>1 DEF Page
      <4>2. \A i \in 1..Len(container') : i \in 1..Len(container) \/ i = Len(container) + 1
            BY <3>2
      <4> QED BY <3>2, <4>1, <4>2 DEF Headers
    <3>4. container' # <<>>
          BY <3>2, EmptySeq
    <3>5. \A p \in Page : Comes(In[1], p) => Expected(p)'
      <4> SUFFICES ASSUME NEW p \in Page, Comes(OggBuffer(h), p) PROVE Expected(p)'
        BY <2>1
      <4>1. p.n = 1 /\ p.stream = h.stream
        <5>1. p.n = h.n + 1 /\ p.stream = h.stream
              BY <2>1, Follows
        <5> QED BY <3>1, <5>1
      <4>2. container'[Len(container')] = h.stream
            BY <3>2
      <4> QED BY <2>1, <2>2, <3>4, <4>1, <4>2 DEF Expected, Opening, Reading
    <3> QED BY <1>2, <2>1, <3>3, <3>5
  <2>3. CASE /\ IsPacket(h) /\ unread' = {h} /\ container' = container
             /\ demPc' \in {"params", "read"}
    <3> HIDE DEF h
    <3>1. demPc' \in Reading /\ demPc' \notin Opening /\ Current' = {h} /\ h.n > 0
          BY <2>3 DEF Reading, Opening, Current, IsPacket
    <3>2. \A p \in Page : Comes(In[1], p) => Expected(p)'
      <4> SUFFICES ASSUME NEW p \in Page, Comes(OggBuffer(h), p) PROVE Expected(p)'
        BY <2>1
      <4>1. p.n = h.n + 1 /\ h = Prev(p)
            BY <2>1, Follows
      <4>2. p.n > 0
            BY <2>1, <4>1, PageFacts
      <4> QED BY <3>1, <4>1, <4>2 DEF Expected
    <3> QED BY <1>2, <1>5, <2>1, <2>3, <3>2
  <2> QED BY <1>6, <1>12, <2>1, <2>2, <2>3 DEF DemOpenRead
<1>13. ASSUME DemParams PROVE Rest
  <2>1. container' = container /\ In' = In /\ Keeps
        BY <1>7, <1>8, <1>13, MessageTypes DEF DemParams
  <2>2. \A p : Expected(p) => Expected(p)'
    <3>1. CASE demPc' \in Ending
          BY <1>4, <3>1
    <3>2. CASE demPc' = "read"
          BY <1>13, <3>2 DEF DemParams, Expected, Opening, Reading, Current
    <3> QED BY <1>13, <3>1, <3>2 DEF DemParams, DemExit, Ending
  <2> QED BY <1>3, <1>5, <2>1, <2>2
<1>14. ASSUME DemRead PROVE Rest
  <2>1. /\ demPc = "read" /\ demPc \in Reading /\ demPc' \in Reading /\ demPc' \notin Opening
        /\ container' = container
        BY <1>14 DEF DemRead, Reading, Opening
  <2>2. CASE unread # {} /\ demPkt' \in unread /\ unread' = {} /\ queue' = queue
    <3>1. Current' = Current
      <4>1. Current = unread /\ Current' = {demPkt'}
            BY <2>2 DEF Current
      <4>2. \A c \in Current : Current = {c}
            BY <2>1 DEF CurrentInv
      <4> QED BY <2>2, <4>1, <4>2
    <3>2. \A p : Expected(p) => Expected(p)'
          BY <2>1, <3>1 DEF Expected
    <3> QED BY <1>3, <1>5, <1>7, <2>1, <2>2, <3>2
  <2>3. CASE /\ unread = {} /\ CanRecv(queue["in"]) /\ Head(queue["in"].msgs) # Reset
             /\ RecvFrom("in") /\ demPkt' = Head(queue["in"].msgs).buf /\ unread' = unread
    <3> DEFINE h == In[1].buf
    <3>1. /\ In[1] = OggBuffer(h) /\ h \in Page /\ demPkt' = h
          BY <1>6, <2>3
    <3> HIDE DEF h
    <3>2. Current' = {h}
          BY <2>3, <3>1 DEF Current
    <3>3. \A p \in Page : Comes(In[1], p) => Expected(p)'
      <4> SUFFICES ASSUME NEW p \in Page, Comes(OggBuffer(h), p) PROVE Expected(p)'
        BY <3>1
      <4>1. p.n = h.n + 1 /\ h = Prev(p)
            BY <3>1, Follows
      <4>2. p.n > 0
            BY <3>1, <4>1, PageFacts
      <4> QED BY <2>1, <3>2, <4>1, <4>2 DEF Expected
    <3> QED BY <1>2, <1>5, <2>1, <2>3, <3>3
  <2> QED BY <1>14, <2>2, <2>3 DEF DemRead
<1>15. ASSUME DemReset PROVE Rest
  <2>1. /\ CanRecv(queue["in"]) /\ RecvFrom("in") /\ In[1] = Reset /\ container' = <<>>
        /\ demPc' \in Opening
        BY <1>6, <1>15 DEF DemReset, Opening
  <2>2. \A p : p.n = 0 => Expected(p)'
        BY <2>1 DEF Expected, Opening, Reading
  <2> QED BY <1>2, <1>5, <2>1, <2>2, Follows
<1>16. ASSUME DemTime PROVE Rest
  <2>1. In' = In /\ Keeps
        BY <1>16, ChangeOut, MessageTypes DEF DemTime, In, QueueName
  <2>2. \A p : Expected(p) => Expected(p)'
        BY <1>16 DEF DemTime, Expected, Opening, Reading, Current
  <2> QED BY <1>3, <1>5, <1>16, <2>1, <2>2 DEF DemTime
<1>17. ASSUME DemPost PROVE Rest
  <2>1. In' = In /\ Keeps
    <3>1. CASE demPkt.stream = stream_idx /\ CanSend(queue["out"], Size["out"])
               /\ SendTo("out", PostPacket([page |-> demPkt, pts |-> DemPts]))
      <4>1. /\ demPkt \in Page /\ DemPts \in Nat
            BY <1>17, <3>1, NextPts DEF DemPost
      <4>2. [page |-> demPkt, pts |-> DemPts] \in Packet
            BY <4>1 DEF Packet
      <4> QED BY <1>8, <3>1, <4>2, MessageTypes
    <3> QED BY <1>7, <1>17, <3>1 DEF DemPost
  <2>2. \A p : Expected(p) => Expected(p)'
    <3>1. CASE demPc' \in Ending
          BY <1>4, <3>1
    <3>2. CASE demPc' = "read"
          BY <1>17, <3>2 DEF DemPost, Expected, Opening, Reading, Current
    <3> QED BY <1>17, <3>1, <3>2 DEF DemPost, DemExit, Ending
  <2> QED BY <1>3, <1>5, <1>17, <2>1, <2>2 DEF DemPost
<1>18. ASSUME DemFinish PROVE Rest
  <2>1. demPc' \in Ending /\ container' = container
        BY <1>18 DEF DemFinish, FinSend, FinRecv, Ending
  <2>2. In' = In /\ Keeps
        BY <1>7, <1>18, CloseQueue DEF DemFinish, FinSend, FinRecv, QueueName
  <2> QED BY <1>3, <1>4, <1>5, <2>1, <2>2
<1> QED BY <1>10, <1>11, <1>12, <1>13, <1>14, <1>15, <1>16, <1>17, <1>18 DEF Demuxer

-----------------------------------------------------------------------------
(* The packets that were posted, and their numbers.                        *)

LEMMA OutFacts ==
    ASSUME TypeOK
    PROVE  /\ Out \in Seq(OutMessages) /\ Len(Out) \in Nat
           /\ sent \in Seq(Packet) /\ Len(sent) \in Nat /\ prodMsg \in Packet
           /\ \A i \in OutAt : i \in 1..Len(Out) /\ Out[i].pkt \in Packet
           /\ \A i \in OutAt : OutPts(i) \in Int /\ OutStart(i) \in Int /\ OutStart(i) <= OutPts(i)
           /\ SentEnd \in Int /\ NextTaken \in Int /\ OffsetAfter \in Nat
<1>1. Out \in Seq(OutMessages) /\ sent \in Seq(Packet) /\ prodMsg \in Packet
      BY TypeParts DEF OutQueue, BoundedQueue, QueueOf, Out, ProdTypes
<1>2. Len(Out) \in Nat /\ Len(sent) \in Nat /\ \A i \in 1..Len(Out) : Out[i] \in OutMessages
      BY <1>1, LenProperties
<1>3. \A i \in OutAt : i \in 1..Len(Out) /\ Out[i].type = "POST_PACKET"
      BY DEF OutAt
<1>4. \A i \in OutAt : Out[i].pkt \in Packet
      BY <1>2, <1>3, MessageTypes
<1>5. \A i \in OutAt : OutPts(i) \in Int /\ OutStart(i) \in Int /\ OutStart(i) <= OutPts(i)
      BY <1>4, StretchFacts DEF OutPts, OutStart
<1>7. SentEnd \in Int
  <2>1. CASE sent = <<>>
        BY <2>1 DEF SentEnd
  <2>2. CASE sent # <<>>
    <3>1. sent[Len(sent)] \in Packet
          BY <1>1, <2>2, LenProperties, EmptySeq
    <3>2. sent[Len(sent)].pts \in Int
          BY <3>1, StretchFacts
    <3> QED BY <2>2, <3>2 DEF SentEnd
  <2> QED BY <2>1, <2>2
<1>6. NextTaken \in Int
  <2>1. prodMsg.pts \in Int
        BY <1>1, StretchFacts
  <2> QED BY <1>7, <2>1 DEF NextTaken
<1> QED BY <1>1, <1>2, <1>3, <1>4, <1>5, <1>6, <1>7, OffsetType

LEMMA LineTypes == TypeOK => Line \subseteq Packet
<1> SUFFICES ASSUME TypeOK PROVE Line \subseteq Packet
  OBVIOUS
<1>1. \A i \in 1..Len(sent) : sent[i] \in Packet
      BY OutFacts, LenProperties
<1> QED BY <1>1, OutFacts DEF Line

(* Nothing is posted, taken or sent. *)
LEMMA PtsSame ==
    ASSUME TypeOK, PtsInv, UNCHANGED <<sent, prodMsg>>, Taken' <=> Taken,
           OutAt' = OutAt, \A i \in OutAt : Out'[i] = Out[i], OffsetAfter' = OffsetAfter,
           "send" \in events' => prodPc' \in Ending
    PROVE  PtsInv' /\ Line' = Line
<1>1. /\ SentEnd' = SentEnd /\ NextTaken' = NextTaken
      /\ \A i \in OutAt : OutPts(i)' = OutPts(i) /\ OutStart(i)' = OutStart(i)
      BY DEF SentEnd, NextTaken, OutPts, OutStart, Start
<1>2. Line' = Line
      BY DEF Line
<1> QED BY <1>1, <1>2 DEF PtsInv, Start

LEMMA OutAppend ==
    ASSUME TypeOK, NEW m \in OutMessages, Out' = Append(Out, m)
    PROVE  /\ \A i \in OutAt : Out'[i] = Out[i] /\ i < Len(Out) + 1
           /\ m.type # "POST_PACKET" => OutAt' = OutAt
           /\ m.type = "POST_PACKET" => /\ OutAt' = OutAt \cup {Len(Out) + 1}
                                        /\ Out'[Len(Out) + 1] = m
<1>1. Out \in Seq(OutMessages) /\ Len(Out) \in Nat
      BY OutFacts
<1>2. /\ Len(Out') = Len(Out) + 1 /\ Out'[Len(Out) + 1] = m
      /\ \A i \in 1..Len(Out) : Out'[i] = Out[i]
      BY <1>1, AppendProperties
<1>3. \A i \in OutAt : i \in 1..Len(Out)
      BY DEF OutAt
<1>4. m.type # "POST_PACKET" => OutAt' = OutAt
      BY <1>1, <1>2 DEF OutAt
<1>5. m.type = "POST_PACKET" => OutAt' = OutAt \cup {Len(Out) + 1}
      BY <1>1, <1>2 DEF OutAt
<1> QED BY <1>1, <1>2, <1>3, <1>4, <1>5

(* The demuxer posts the next packet of the timeline. *)
LEMMA PtsPost ==
    ASSUME TypeOK, PtsInv, NEW k \in Packet, Out' = Append(Out, PostPacket(k)),
           Start(k) = OffsetAfter, OffsetAfter' = k.pts + 1,
           UNCHANGED <<sent, prodMsg, prodPc, events>>
    PROVE  PtsInv' /\ Line' = Line \cup {k}
<1> DEFINE m == PostPacket(k)
<1>1. m \in OutMessages /\ m.type = "POST_PACKET" /\ m.pkt = k /\ Out' = Append(Out, m)
      BY MessageTypes
<1>0. PICK last \in Nat : last = Len(Out) + 1
      BY OutFacts
<1> HIDE DEF m
<1>2. /\ \A i \in OutAt : Out'[i] = Out[i] /\ i < last
      /\ OutAt' = OutAt \cup {last} /\ Out'[last] = m
      BY <1>0, <1>1, OutAppend
<1>3. /\ \A i \in OutAt : /\ OutPts(i) \in Int /\ OutStart(i) \in Int /\ i \in Nat
                           /\ OutStart(i) <= OutPts(i)
      /\ NextTaken \in Int /\ OffsetAfter \in Nat /\ Len(Out) \in Nat
      BY OutFacts
<1>4. k.pts \in Int /\ OffsetAfter <= k.pts /\ OffsetAfter' = k.pts + 1
      BY StretchFacts
<1>5. /\ \A i \in OutAt : OutPts(i)' = OutPts(i) /\ OutStart(i)' = OutStart(i)
      /\ OutPts(last)' = k.pts /\ OutStart(last)' = OffsetAfter
  <2>1. OutPts(last)' = Out'[last].pkt.pts
        BY DEF OutPts
  <2>2. OutStart(last)' = Start(Out'[last].pkt)
        BY DEF OutStart, Start
  <2> QED BY <1>1, <1>2, <2>1, <2>2 DEF OutPts, OutStart, Start
<1>6. SentEnd' = SentEnd /\ NextTaken' = NextTaken /\ (Taken' <=> Taken)
      BY DEF SentEnd, NextTaken, Taken
<1>7. Line' = Line \cup {k}
  <2>1. {Out'[i].pkt : i \in OutAt'} = {Out[i].pkt : i \in OutAt} \cup {k}
        BY <1>1, <1>2
  <2> QED BY <1>6, <2>1 DEF Line
<1>8. \A i \in OutAt' : NextTaken' <= OutStart(i)' /\ OutPts(i)' < OffsetAfter'
  <2>1. \A i \in OutAt : NextTaken <= OutStart(i) /\ OutPts(i) < k.pts + 1
        BY <1>3, <1>4 DEF PtsInv
  <2>2. NextTaken <= OffsetAfter /\ k.pts < k.pts + 1
        BY <1>4 DEF PtsInv
  <2> QED BY <1>2, <1>4, <1>5, <1>6, <2>1, <2>2
<1>9. \A i, j \in OutAt' : i < j => OutPts(i)' < OutStart(j)'
  <2> SUFFICES ASSUME NEW i \in OutAt', NEW j \in OutAt', i < j
               PROVE  OutPts(i)' < OutStart(j)'
    OBVIOUS
  <2>1. CASE j \in OutAt
    <3>1. i # last
          BY <1>2, <1>3, <2>1
    <3> QED BY <1>2, <1>5, <2>1, <3>1 DEF PtsInv
  <2>2. CASE j = last
    <3>1. i # last
          BY <2>2
    <3> QED BY <1>2, <1>5, <2>2, <3>1 DEF PtsInv
  <2> QED BY <1>2, <2>1, <2>2
<1>10. \A v \in NextTaken'..(OffsetAfter' - 1) :
          \E i \in OutAt' : OutStart(i)' <= v /\ v <= OutPts(i)'
  <2> SUFFICES ASSUME NEW v \in NextTaken..k.pts
               PROVE  \E i \in OutAt' : OutStart(i)' <= v /\ v <= OutPts(i)'
    BY <1>3, <1>4, <1>6
  <2>1. CASE OffsetAfter <= v
        BY <1>2, <1>4, <1>5, <2>1
  <2>2. CASE v < OffsetAfter
    <3>1. v \in NextTaken..(OffsetAfter - 1)
          BY <1>3, <1>4, <2>2
    <3>2. PICK i \in OutAt : OutStart(i) <= v /\ v <= OutPts(i)
          BY <3>1 DEF PtsInv
    <3> QED BY <1>2, <1>5, <3>2
  <2> QED BY <1>3, <1>4, <2>1, <2>2
<1>11. NextTaken' <= OffsetAfter'
  <2>1. NextTaken <= OffsetAfter
        BY DEF PtsInv
  <2> QED BY <1>3, <1>4, <1>6, <2>1
<1>12. /\ \A i \in 1..Len(sent') : Start(sent'[i]) = IF i = 1 THEN 0 ELSE sent'[i - 1].pts + 1
       /\ \A i, j \in 1..Len(sent') : i < j => sent'[i].pts < sent'[j].pts
       /\ Taken' => Start(prodMsg') = SentEnd'
      BY <1>6 DEF PtsInv
<1>13. "send" \in events' => prodPc' \in Ending
      BY DEF PtsInv
<1> QED BY <1>7, <1>8, <1>9, <1>10, <1>11, <1>12, <1>13 DEF PtsInv, Start

LEMMA OutTail ==
    ASSUME TypeOK, Out # <<>>, Out' = Tail(Out)
    PROVE  /\ Len(Out) \in Nat \ {0} /\ Head(Out) = Out[1]
           /\ OutAt' = {i \in 1..(Len(Out) - 1) : i + 1 \in OutAt}
           /\ \A i \in OutAt' : /\ Out'[i] = Out[i + 1] /\ OutPts(i)' = OutPts(i + 1)
                               /\ OutStart(i)' = OutStart(i + 1)
           /\ \A i \in OutAt : i > 1 => i - 1 \in OutAt' /\ (i - 1) + 1 = i
<1>1. Out \in Seq(OutMessages)
      BY OutFacts
<1>2. /\ Len(Out) \in Nat \ {0} /\ Head(Out) = Out[1] /\ Len(Out') = Len(Out) - 1
      /\ \A i \in 1..(Len(Out) - 1) : Out'[i] = Out[i + 1]
      BY <1>1, TailProperties
<1>3. OutAt' = {i \in 1..(Len(Out) - 1) : i + 1 \in OutAt}
      BY <1>2 DEF OutAt
<1>4. \A i \in OutAt' : /\ Out'[i] = Out[i + 1] /\ OutPts(i)' = OutPts(i + 1)
                        /\ OutStart(i)' = OutStart(i + 1)
      BY <1>2, <1>3 DEF OutPts, OutStart, Start
<1>5. ASSUME NEW i \in OutAt, i > 1 PROVE i - 1 \in OutAt' /\ (i - 1) + 1 = i
  <2>1. i \in 1..Len(Out)
        BY DEF OutAt
  <2>2. i - 1 \in 1..(Len(Out) - 1) /\ (i - 1) + 1 = i
        BY <1>2, <1>5, <2>1
  <2> QED BY <1>3, <2>2
<1> QED BY <1>2, <1>3, <1>4, <1>5

(* The producer takes the next packet. *)
LEMMA PtsTake ==
    ASSUME TypeOK, PtsInv, ~Taken, 1 \in OutAt, Out # <<>>, Out' = Tail(Out),
           prodMsg' = Out[1].pkt, prodPc' = "send",
           sent' = sent, events' = events, OffsetAfter' = OffsetAfter
    PROVE  PtsInv' /\ Line' = Line
<1>1. /\ OutAt' = {i \in 1..(Len(Out) - 1) : i + 1 \in OutAt}
      /\ \A i \in OutAt' : /\ Out'[i] = Out[i + 1] /\ OutPts(i)' = OutPts(i + 1)
                          /\ OutStart(i)' = OutStart(i + 1)
      /\ \A i \in OutAt : i > 1 => i - 1 \in OutAt' /\ (i - 1) + 1 = i
      BY OutTail
<1>2. /\ \A i \in OutAt : /\ OutPts(i) \in Int /\ OutStart(i) \in Int /\ i \in Nat \ {0}
                          /\ OutStart(i) <= OutPts(i)
      /\ NextTaken \in Int /\ OffsetAfter \in Nat /\ Len(sent) \in Nat
      BY OutFacts
<1>3. /\ SentEnd' = SentEnd /\ NextTaken = SentEnd /\ Taken'
      /\ NextTaken' = OutPts(1) + 1
      BY DEF SentEnd, NextTaken, Taken, OutPts
<1>4. OutStart(1) = NextTaken
  <2>1. NextTaken <= OutStart(1) /\ OutPts(1) < OffsetAfter
        BY DEF PtsInv
  <2>2. NextTaken \in NextTaken..(OffsetAfter - 1)
        BY <1>2, <2>1
  <2>3. PICK i \in OutAt : OutStart(i) <= NextTaken /\ NextTaken <= OutPts(i)
        BY <2>2 DEF PtsInv
  <2>4. CASE i = 1
        BY <1>2, <2>1, <2>3, <2>4
  <2>5. CASE 1 < i
    <3>1. OutPts(1) < OutStart(i)
          BY <2>5 DEF PtsInv
    <3> QED BY <1>2, <2>1, <2>3, <3>1
  <2> QED BY <1>2, <2>4, <2>5
<1>5. Start(prodMsg') = SentEnd'
      BY <1>3, <1>4 DEF OutStart
<1>6. \A i \in OutAt' : /\ i \in Nat /\ i + 1 \in OutAt /\ 1 < i + 1
                        /\ OutPts(i)' = OutPts(i + 1) /\ OutStart(i)' = OutStart(i + 1)
      BY <1>1
<1>7. \A i \in OutAt' : NextTaken' <= OutStart(i)' /\ OutPts(i)' < OffsetAfter'
  <2> SUFFICES ASSUME NEW i \in OutAt' PROVE NextTaken' <= OutStart(i)' /\ OutPts(i)' < OffsetAfter'
    OBVIOUS
  <2>1. OutPts(1) < OutStart(i + 1) /\ OutPts(i + 1) < OffsetAfter
        BY <1>6 DEF PtsInv
  <2> QED BY <1>2, <1>3, <1>6, <2>1
<1>8. \A i, j \in OutAt' : i < j => OutPts(i)' < OutStart(j)'
  <2> SUFFICES ASSUME NEW i \in OutAt', NEW j \in OutAt', i < j
               PROVE  OutPts(i)' < OutStart(j)'
    OBVIOUS
  <2>1. i + 1 < j + 1 /\ i + 1 \in OutAt /\ j + 1 \in OutAt
        BY <1>6
  <2>2. OutPts(i + 1) < OutStart(j + 1)
        BY <2>1 DEF PtsInv
  <2> QED BY <1>6, <2>2
<1>9. \A v \in NextTaken'..(OffsetAfter' - 1) :
         \E i \in OutAt' : OutStart(i)' <= v /\ v <= OutPts(i)'
  <2> SUFFICES ASSUME NEW v \in (OutPts(1) + 1)..(OffsetAfter - 1)
               PROVE  \E i \in OutAt' : OutStart(i)' <= v /\ v <= OutPts(i)'
    BY <1>3
  <2>1. v \in NextTaken..(OffsetAfter - 1) /\ OutPts(1) < v
        BY <1>2, <1>4
  <2>2. PICK i \in OutAt : OutStart(i) <= v /\ v <= OutPts(i)
        BY <2>1 DEF PtsInv
  <2>3. i # 1
        BY <1>2, <2>1, <2>2
  <2>4. i > 1
        BY <1>2, <2>3
  <2>5. i - 1 \in OutAt' /\ OutPts(i - 1)' = OutPts(i) /\ OutStart(i - 1)' = OutStart(i)
    <3>1. i - 1 \in OutAt' /\ (i - 1) + 1 = i
          BY <1>1, <2>4
    <3>2. /\ OutPts(i - 1)' = OutPts((i - 1) + 1)
          /\ OutStart(i - 1)' = OutStart((i - 1) + 1)
          BY <1>6, <3>1
    <3> QED BY <3>1, <3>2
  <2> QED BY <2>2, <2>5
<1>10. NextTaken' <= OffsetAfter'
  <2>1. OutPts(1) < OffsetAfter
        BY DEF PtsInv
  <2> QED BY <1>2, <1>3, <2>1
<1>11. Line' = Line
  <2>1. {Out'[i].pkt : i \in OutAt'} \cup {Out[1].pkt} = {Out[i].pkt : i \in OutAt}
    <3>1. ASSUME NEW i \in OutAt PROVE Out[i].pkt \in {Out'[j].pkt : j \in OutAt'} \cup {Out[1].pkt}
      <4>1. CASE i > 1
        <5>1. i - 1 \in OutAt' /\ Out'[i - 1] = Out[i]
              BY <1>1, <4>1
        <5> QED BY <5>1
      <4>2. i > 1 \/ i = 1
            BY <1>2
      <4> QED BY <4>1, <4>2
    <3>2. ASSUME NEW i \in OutAt' PROVE Out'[i].pkt \in {Out[j].pkt : j \in OutAt}
          BY <1>1, <1>6
    <3> QED BY <3>1, <3>2
  <2>2. {k \in {prodMsg} : Taken} = {} /\ {k \in {prodMsg'} : Taken'} = {Out[1].pkt}
        BY <1>3
  <2> QED BY <2>1, <2>2 DEF Line
<1>12. "send" \in events' => prodPc' \in Ending
      BY DEF Taken
<1>13. /\ \A i \in 1..Len(sent') : Start(sent'[i]) = IF i = 1 THEN 0 ELSE sent'[i - 1].pts + 1
       /\ \A i, j \in 1..Len(sent') : i < j => sent'[i].pts < sent'[j].pts
      BY DEF PtsInv
<1> QED BY <1>5, <1>7, <1>8, <1>9, <1>10, <1>11, <1>12, <1>13 DEF PtsInv, Start

(* The producer frees a message that is no packet. *)
LEMMA PtsDrop ==
    ASSUME TypeOK, PtsInv, 1 \notin OutAt, Out # <<>>, Out' = Tail(Out),
           UNCHANGED <<sent, prodMsg, prodPc, events>>, OffsetAfter' = OffsetAfter
    PROVE  PtsInv' /\ Line' = Line
<1>1. /\ OutAt' = {i \in 1..(Len(Out) - 1) : i + 1 \in OutAt}
      /\ \A i \in OutAt' : /\ Out'[i] = Out[i + 1] /\ OutPts(i)' = OutPts(i + 1)
                          /\ OutStart(i)' = OutStart(i + 1)
      /\ \A i \in OutAt : i > 1 => i - 1 \in OutAt' /\ (i - 1) + 1 = i
      BY OutTail
<1>2. \A i \in OutAt' : i \in Nat /\ i + 1 \in OutAt
      BY <1>1
<1>3. ASSUME NEW i \in OutAt
      PROVE  \E j \in OutAt' : /\ j + 1 = i /\ Out'[j] = Out[i]
                               /\ OutPts(j)' = OutPts(i) /\ OutStart(j)' = OutStart(i)
  <2>1. i \in 1..Len(Out) /\ i # 1
        BY OutFacts
  <2>2. i > 1
        BY <2>1
  <2>3. i - 1 \in OutAt' /\ (i - 1) + 1 = i
        BY <1>1, <2>2
  <2> QED BY <1>1, <2>3
<1>4. SentEnd' = SentEnd /\ NextTaken' = NextTaken /\ (Taken' <=> Taken)
      BY DEF SentEnd, NextTaken, Taken
<1>5. {Out'[i].pkt : i \in OutAt'} = {Out[i].pkt : i \in OutAt}
      BY <1>1, <1>2, <1>3
<1>6. Line' = Line
      BY <1>4, <1>5 DEF Line
<1>7. \A i \in OutAt' : NextTaken' <= OutStart(i)' /\ OutPts(i)' < OffsetAfter'
      BY <1>1, <1>2, <1>4 DEF PtsInv
<1>8. \A i, j \in OutAt' : i < j => OutPts(i)' < OutStart(j)'
  <2> SUFFICES ASSUME NEW i \in OutAt', NEW j \in OutAt', i < j
               PROVE  OutPts(i)' < OutStart(j)'
    OBVIOUS
  <2>1. i + 1 < j + 1 /\ i + 1 \in OutAt /\ j + 1 \in OutAt
        BY <1>2
  <2>2. OutPts(i + 1) < OutStart(j + 1)
        BY <2>1 DEF PtsInv
  <2> QED BY <1>1, <2>2
<1>9. \A v \in NextTaken'..(OffsetAfter' - 1) :
         \E i \in OutAt' : OutStart(i)' <= v /\ v <= OutPts(i)'
  <2> SUFFICES ASSUME NEW v \in NextTaken..(OffsetAfter - 1)
               PROVE  \E i \in OutAt' : OutStart(i)' <= v /\ v <= OutPts(i)'
    BY <1>4
  <2>1. PICK i \in OutAt : OutStart(i) <= v /\ v <= OutPts(i)
        BY DEF PtsInv
  <2> QED BY <1>3, <2>1
<1>10. /\ \A i \in 1..Len(sent') : Start(sent'[i]) = IF i = 1 THEN 0 ELSE sent'[i - 1].pts + 1
       /\ \A i, j \in 1..Len(sent') : i < j => sent'[i].pts < sent'[j].pts
       /\ Taken' => Start(prodMsg') = SentEnd'
       /\ NextTaken' <= OffsetAfter'
       /\ "send" \in events' => prodPc' \in Ending
      BY <1>4 DEF PtsInv
<1> QED BY <1>6, <1>7, <1>8, <1>9, <1>10 DEF PtsInv, Start

(* What has been sent lies before the end of what has been sent. *)
LEMMA SentBefore ==
    ASSUME TypeOK, PtsInv, NEW i \in 1..Len(sent)
    PROVE  sent[i].pts \in Int /\ sent[i].pts < SentEnd
<1>1. sent \in Seq(Packet) /\ Len(sent) \in Nat
      BY OutFacts
<1>2. sent # <<>> /\ Len(sent) \in 1..Len(sent)
      BY <1>1, EmptySeq
<1>3. sent[i].pts \in Int /\ sent[Len(sent)].pts \in Int
      BY <1>1, <1>2, LenProperties, StretchFacts
<1>4. i = Len(sent) \/ sent[i].pts < sent[Len(sent)].pts
      BY <1>1, <1>2 DEF PtsInv
<1> QED BY <1>2, <1>3, <1>4 DEF SentEnd

(* The producer sends it. *)
LEMMA PtsSend ==
    ASSUME TypeOK, PtsInv, prodPc = "send", prodPc' = "recv", sent' = Append(sent, prodMsg),
           Out' = Out, events' = events, OffsetAfter' = OffsetAfter
    PROVE  PtsInv' /\ Line' = Line
<1>1. Taken /\ "send" \notin events /\ ~Taken'
      BY DEF Taken, PtsInv, Ending
<1>2. sent \in Seq(Packet) /\ prodMsg \in Packet
      BY OutFacts
<1>3. /\ Len(sent) \in Nat /\ Len(sent') = Len(sent) + 1 /\ sent'[Len(sent) + 1] = prodMsg
      /\ \A i \in 1..Len(sent) : sent'[i] = sent[i]
      BY <1>2, AppendProperties, LenProperties
<1>4. /\ sent' # <<>> /\ SentEnd' = prodMsg.pts + 1
      /\ NextTaken = prodMsg.pts + 1 /\ NextTaken' = NextTaken
  <2>1. sent' # <<>>
        BY <1>3, EmptySeq
  <2>2. SentEnd' = prodMsg.pts + 1
        BY <1>3, <2>1 DEF SentEnd
  <2> QED BY <1>1, <2>1, <2>2 DEF NextTaken
<1>5. OutAt' = OutAt /\ \A i \in OutAt : OutPts(i)' = OutPts(i) /\ OutStart(i)' = OutStart(i)
      BY DEF OutAt, OutPts, OutStart, Start
<1>8. /\ Start(prodMsg) = SentEnd /\ prodMsg.pts \in Int /\ SentEnd \in Int
      /\ SentEnd <= prodMsg.pts
      BY <1>1, <1>2, StretchFacts, OutFacts DEF PtsInv
<1>9. \A i \in 1..Len(sent) : sent[i].pts < SentEnd
      BY SentBefore
<1>6. /\ \A i \in 1..Len(sent') : Start(sent'[i]) = IF i = 1 THEN 0 ELSE sent'[i - 1].pts + 1
      /\ \A i, j \in 1..Len(sent') : i < j => sent'[i].pts < sent'[j].pts
  <2>1. \A i \in 1..Len(sent') : i \in 1..Len(sent) \/ i = Len(sent) + 1
        BY <1>3
  <2>2. ASSUME NEW i \in 1..Len(sent')
        PROVE  Start(sent'[i]) = IF i = 1 THEN 0 ELSE sent'[i - 1].pts + 1
    <3>1. CASE i \in 1..Len(sent)
      <4>1. i = 1 \/ i - 1 \in 1..Len(sent)
            BY <1>3, <3>1
      <4>2. Start(sent[i]) = IF i = 1 THEN 0 ELSE sent[i - 1].pts + 1
            BY <3>1 DEF PtsInv
      <4> QED BY <1>3, <3>1, <4>1, <4>2
    <3>2. CASE i = Len(sent) + 1 /\ sent = <<>>
      <4>1. i = 1 /\ sent'[i] = prodMsg
            BY <1>3, <3>2, EmptySeq
      <4> QED BY <1>8, <3>2, <4>1 DEF SentEnd
    <3>3. CASE i = Len(sent) + 1 /\ sent # <<>>
      <4>1. /\ i # 1 /\ i - 1 = Len(sent) /\ sent'[i] = prodMsg
            /\ sent'[Len(sent)] = sent[Len(sent)]
            BY <1>2, <1>3, <3>3, EmptySeq
      <4> QED BY <1>8, <3>3, <4>1 DEF SentEnd
    <3> QED BY <2>1, <3>1, <3>2, <3>3
  <2>3. ASSUME NEW i \in 1..Len(sent'), NEW j \in 1..Len(sent'), i < j
        PROVE  sent'[i].pts < sent'[j].pts
    <3>1. i \in 1..Len(sent)
          BY <1>3, <2>3
    <3>2. CASE j \in 1..Len(sent)
          BY <1>3, <2>3, <3>1, <3>2 DEF PtsInv
    <3>3. CASE j = Len(sent) + 1
      <4>1. sent[i].pts \in Int /\ sent[i].pts < SentEnd
            BY <1>2, <1>9, <3>1, LenProperties, StretchFacts
      <4>2. sent'[j] = prodMsg /\ sent'[i] = sent[i]
            BY <1>3, <3>1, <3>3
      <4>3. sent[i].pts < prodMsg.pts
            BY <1>8, <4>1
      <4> QED BY <4>2, <4>3
    <3> QED BY <2>1, <3>2, <3>3
  <2> QED BY <2>2, <2>3
<1>7. Line' = Line
  <2>1. {sent'[i] : i \in 1..Len(sent')} = {sent[i] : i \in 1..Len(sent)} \cup {prodMsg}
    <3>1. \A i : i \in 1..Len(sent') <=> i \in 1..Len(sent) \/ i = Len(sent) + 1
          BY <1>3
    <3> QED BY <1>3, <3>1
  <2>2. {Out'[i].pkt : i \in OutAt'} = {Out[i].pkt : i \in OutAt}
        BY <1>5
  <2>3. {k \in {prodMsg} : Taken} = {prodMsg} /\ {k \in {prodMsg'} : Taken'} = {}
        BY <1>1
  <2> QED BY <2>1, <2>2, <2>3 DEF Line
<1>10. /\ \A i \in OutAt' : NextTaken' <= OutStart(i)' /\ OutPts(i)' < OffsetAfter'
       /\ \A i, j \in OutAt' : i < j => OutPts(i)' < OutStart(j)'
       /\ \A v \in NextTaken'..(OffsetAfter' - 1) :
             \E i \in OutAt' : OutStart(i)' <= v /\ v <= OutPts(i)'
       /\ NextTaken' <= OffsetAfter'
      BY <1>4, <1>5 DEF PtsInv
<1> QED BY <1>1, <1>6, <1>7, <1>10 DEF PtsInv, Start

-----------------------------------------------------------------------------
(* What the demuxer does to the packets that were posted.                  *)

InHand == [page |-> demPkt, pts |-> OffsetAfter + Gap(demPkt)]
Posts  == /\ demPc = "post" /\ demPc' = "read" /\ demPkt.stream = stream_idx
          /\ Line' = Line \cup {InHand} /\ OffsetAfter' = InHand.pts + 1
          /\ pts_correction' = Correction /\ next_expected_pts' = InHand.pts + 1
          /\ UNCHANGED <<In, container, unread, stream_idx, demPkt, pts_offset, events>>

LEMMA DemuxerPosts ==
    ASSUME TypeOK, QueuesInv, PtsInv, CurrentInv, Demuxer
    PROVE  /\ PtsInv'
           /\ (Line' = Line /\ OffsetAfter' = OffsetAfter) \/ (Posts /\ DemPost)
           /\ queue["out"].err_send => Out' = Out
<1>1. UNCHANGED prodVars
      BY DEF Demuxer
<1> DEFINE Rest == /\ PtsInv' /\ Line' = Line /\ OffsetAfter' = OffsetAfter
                   /\ queue["out"].err_send => Out' = Out
<1>2. ASSUME "send" \in events' => "send" \in events, "send" \in events => "send" \in events',
             OffsetAfter' = OffsetAfter,
             \/ Out' = Out
             \/ /\ \E m \in OutMessages : Out' = Append(Out, m) /\ m.type # "POST_PACKET"
                /\ ~queue["out"].err_send
      PROVE  Rest
  <2>1. UNCHANGED <<sent, prodMsg>> /\ (Taken' <=> Taken)
        BY <1>1, <1>2 DEF Taken, prodVars
  <2>2. "send" \in events' => prodPc' \in Ending
        BY <1>1, <1>2 DEF PtsInv, prodVars
  <2>3. OutAt' = OutAt /\ \A i \in OutAt : Out'[i] = Out[i]
    <3>1. CASE Out' = Out
          BY <3>1 DEF OutAt
    <3>2. ASSUME NEW m \in OutMessages, Out' = Append(Out, m), m.type # "POST_PACKET"
          PROVE  OutAt' = OutAt /\ \A i \in OutAt : Out'[i] = Out[i]
          BY <3>2, OutAppend
    <3> QED BY <1>2, <3>1, <3>2
  <2> QED BY <1>2, <2>1, <2>2, <2>3, PtsSame
<1>3. CanRecv(queue["in"]) /\ RecvFrom("in") => Out' = Out
      BY ChangeIn DEF Out
<1>4. queue' = queue => Out' = Out
      BY DEF Out
<1>5. /\ UNCHANGED <<next_expected_pts, pts_offset>> => OffsetAfter' = OffsetAfter
      BY DEF OffsetAfter
<1>10. ASSUME DemReadFails PROVE Rest
  <2>1. "send" \in events' <=> "send" \in events
        BY <1>10 DEF DemReadFails, Fault
  <2> QED BY <1>2, <1>3, <1>4, <1>5, <1>10, <2>1 DEF DemReadFails
<1>11. ASSUME DemSkipReset PROVE Rest
  <2>1. "send" \in events' <=> "send" \in events
        BY <1>11 DEF DemSkipReset
  <2> QED BY <1>2, <1>3, <1>5, <1>11, <2>1 DEF DemSkipReset
<1>12. ASSUME DemOpenRead PROVE Rest
  <2>1. OffsetAfter' = OffsetAfter
    <3>1. next_expected_pts \in {AV_NOPTS_VALUE, pts_offset} /\ pts_offset' = pts_offset
          BY <1>12 DEF DemOpenRead, CurrentInv, Opening
    <3>2. OffsetAfter = pts_offset
          BY <3>1 DEF OffsetAfter
    <3>3. next_expected_pts' = next_expected_pts \/ next_expected_pts' = AV_NOPTS_VALUE
          BY <1>12 DEF DemOpenRead
    <3> QED BY <1>5, <3>1, <3>2, <3>3 DEF OffsetAfter
  <2> QED BY <1>2, <1>3, <1>12, <2>1 DEF DemOpenRead
<1>13. ASSUME DemParams PROVE Rest
  <2>1. "send" \in events' <=> "send" \in events
        BY <1>13 DEF DemParams
  <2>2. UNCHANGED <<next_expected_pts, pts_offset>>
        BY <1>13 DEF DemParams
  <2>3. CASE CanSend(queue["out"], Size["out"]) /\ SendTo("out", Params)
    <3>1. Out' = Append(Out, Params) /\ ~queue["out"].err_send
          BY <2>3, ChangeOut, MessageTypes DEF CanSend
    <3>2. \E m \in OutMessages : Out' = Append(Out, m) /\ m.type # "POST_PACKET"
          BY <3>1, MessageTypes
    <3> QED BY <1>2, <1>5, <2>1, <2>2, <3>1, <3>2
  <2>4. CASE queue' = queue
        BY <1>2, <1>4, <1>5, <2>1, <2>2, <2>4
  <2> QED BY <1>13, <2>3, <2>4 DEF DemParams
<1>14. ASSUME DemRead PROVE Rest
      BY <1>2, <1>3, <1>4, <1>5, <1>14 DEF DemRead
<1>15. ASSUME DemReset PROVE Rest
  <2>1. OffsetAfter' = OffsetAfter
    <3>1. pts_offset' = OffsetAfter /\ next_expected_pts' = next_expected_pts
          BY <1>15 DEF DemReset
    <3> QED BY <3>1 DEF OffsetAfter
  <2> QED BY <1>2, <1>3, <1>15, <2>1 DEF DemReset
<1>16. ASSUME DemTime PROVE Rest
  <2>1. /\ Out' = Out \/ Out' = Append(Out, StartTime)
        /\ queue["out"].err_send => Out' = Out
        BY <1>16, ChangeOut, MessageTypes DEF DemTime
  <2>2. Out' = Append(Out, StartTime) =>
           \E m \in OutMessages : Out' = Append(Out, m) /\ m.type # "POST_PACKET"
        BY MessageTypes
  <2>3. UNCHANGED <<next_expected_pts, pts_offset, events>>
        BY <1>16 DEF DemTime
  <2> QED BY <1>2, <1>5, <2>1, <2>2, <2>3
<1>17. ASSUME DemPost PROVE Rest \/ (PtsInv' /\ Posts /\ ~queue["out"].err_send)
  <2>1. CASE UNCHANGED <<queue, pts_correction, next_expected_pts>>
    <3>1. "send" \in events' <=> "send" \in events
          BY <1>17 DEF DemPost
    <3>2. pts_offset' = pts_offset
          BY <1>17 DEF DemPost
    <3> QED BY <1>2, <1>4, <1>5, <2>1, <3>1, <3>2
  <2>2. CASE /\ demPkt.stream = stream_idx /\ CanSend(queue["out"], Size["out"])
             /\ SendTo("out", PostPacket([page |-> demPkt, pts |-> DemPts]))
             /\ pts_correction' = Correction /\ next_expected_pts' = DemPts + 1
             /\ demPc' = "read" /\ UNCHANGED <<demRet, events>>
    <3>1. demPc = "post" /\ UNCHANGED <<container, unread, stream_idx, demPkt, pts_offset>>
          BY <1>17 DEF DemPost
    <3>2. /\ demPkt \in Page /\ DemPts = OffsetAfter + Gap(demPkt) /\ DemPts \in Nat
          /\ DemPts + 1 # AV_NOPTS_VALUE /\ Gap(demPkt) \in Nat /\ OffsetAfter \in Nat
          BY <2>2, <3>1, NextPts, PageFacts, OffsetType
    <3>3. /\ InHand \in Packet /\ InHand.pts = DemPts /\ InHand.page = demPkt
          /\ InHand = [page |-> demPkt, pts |-> DemPts]
          BY <3>2 DEF InHand, Packet
    <3>11. Start(InHand) = OffsetAfter
          BY <3>2, <3>3 DEF Start
    <3> DEFINE m == PostPacket(InHand)
    <3>4. m \in OutMessages
          BY <3>3, MessageTypes
    <3>5. SendTo("out", m)
          BY <2>2, <3>3
    <3>6. Out' = Append(Out, m) /\ In' = In
          BY <2>2, <3>4, <3>5, ChangeOut DEF In
    <3>7. OffsetAfter' = InHand.pts + 1 /\ next_expected_pts' = InHand.pts + 1
          BY <2>2, <3>2, <3>3 DEF OffsetAfter
    <3> HIDE DEF m
    <3>8. UNCHANGED <<sent, prodMsg, prodPc, events>>
          BY <1>1, <2>2 DEF prodVars
    <3>9. ASSUME NEW k \in Packet, k = InHand PROVE PtsInv' /\ Line' = Line \cup {k}
      <4>1. /\ Start(k) = OffsetAfter /\ OffsetAfter' = k.pts + 1
            /\ Out' = Append(Out, PostPacket(k))
            BY <3>6, <3>7, <3>9, <3>11 DEF m
      <4> QED BY <3>8, <4>1, PtsPost
    <3>10. PtsInv' /\ Line' = Line \cup {InHand}
          BY <3>3, <3>9
    <3> QED BY <2>2, <3>1, <3>6, <3>7, <3>8, <3>10 DEF Posts, CanSend
  <2> QED BY <1>17, <2>1, <2>2 DEF DemPost
<1>18. ASSUME DemFinish PROVE Rest
  <2>1. Out' = Out
        BY <1>4, <1>18, CloseQueue DEF DemFinish, FinSend, FinRecv, QueueName
  <2> QED BY <1>2, <1>5, <1>18, <2>1 DEF DemFinish
<1> QED BY <1>10, <1>11, <1>12, <1>13, <1>14, <1>15, <1>16, <1>17, <1>18 DEF Demuxer

(* The producer only moves them on. *)
LEMMA ProducerKeepsPts ==
    ASSUME TypeOK, QueuesInv, PtsInv, Producer
    PROVE  /\ PtsInv' /\ Line' = Line /\ In' = In
           /\ "cut" \in events' <=> "cut" \in events
           /\ \A q \in QueueName : queue[q].err_send => queue'[q].err_send
<1> DEFINE Keeps == \A q \in QueueName : queue[q].err_send => queue'[q].err_send
<1> DEFINE Rest == PtsInv' /\ Line' = Line /\ In' = In /\ ("cut" \in events' <=> "cut" \in events)
                   /\ Keeps
<1>1. UNCHANGED demVars /\ OffsetAfter' = OffsetAfter
      BY DEF Producer, demVars, OffsetAfter
<1>2. queue' = queue => In' = In /\ Out' = Out /\ Keeps
      BY DEF In, Out
<1>3. ASSUME UNCHANGED <<sent, prodMsg>>, Taken' <=> Taken, Out' = Out,
             "send" \in events' => prodPc' \in Ending
      PROVE  PtsInv' /\ Line' = Line
  <2>1. OutAt' = OutAt /\ \A i \in OutAt : Out'[i] = Out[i]
        BY <1>3 DEF OutAt
  <2> QED BY <1>1, <1>3, <2>1, PtsSame
<1>10. ASSUME ProdOpen PROVE Rest
  <2>1. /\ queue' = queue /\ UNCHANGED <<sent, prodMsg>>
        /\ prodPc = "open" /\ prodPc' \in {"recv", "finSend"}
        /\ events' = events \/ events' = events \cup {"open"}
        BY <1>10 DEF ProdOpen, Fault
  <2>2. "send" \notin events
        BY <2>1 DEF PtsInv, Ending
  <2>3. "send" \notin events' /\ ("cut" \in events' <=> "cut" \in events)
        BY <2>1, <2>2
  <2>4. ~Taken /\ ~Taken'
        BY <2>1, <2>2, <2>3 DEF Taken
  <2> QED BY <1>2, <1>3, <2>1, <2>3, <2>4
<1>11. ASSUME ProdRecv PROVE Rest
  <2>1. prodPc = "recv" /\ UNCHANGED <<sent, events>>
        BY <1>11 DEF ProdRecv
  <2>2. "send" \notin events /\ ~Taken
        BY <2>1 DEF PtsInv, Ending, Taken
  <2>3. CASE CanRecv(queue["out"]) /\ RecvFrom("out")
    <3>1. /\ Out # <<>> /\ Out' = Tail(Out) /\ queue'["in"] = queue["in"]
          /\ queue'["out"].err_send = queue["out"].err_send
          BY <2>3, ChangeOut
    <3>2. In' = In /\ Keeps
          BY <3>1 DEF In, QueueName
    <3>3. Head(Out) = Out[1] /\ Len(Out) \in Nat \ {0}
          BY <3>1, OutTail
    <3>4. CASE Head(Out).type = "POST_PACKET"
      <4>1. prodMsg' = Out[1].pkt /\ prodPc' = "send"
            BY <1>11, <2>3, <3>3, <3>4 DEF ProdRecv, Out, RecvFails, CanRecv
      <4>2. 1 \in OutAt
            BY <3>3, <3>4 DEF OutAt
      <4>3. PtsInv' /\ Line' = Line
            BY <1>1, <2>1, <2>2, <3>1, <4>1, <4>2, PtsTake
      <4> QED BY <2>1, <3>2, <4>3
    <3>5. CASE Head(Out).type # "POST_PACKET"
      <4>1. UNCHANGED <<prodMsg, prodPc>>
            BY <1>11, <2>3, <3>5 DEF ProdRecv, Out, RecvFails, CanRecv
      <4>2. 1 \notin OutAt
            BY <3>3, <3>5 DEF OutAt
      <4>3. PtsInv' /\ Line' = Line
            BY <1>1, <2>1, <3>1, <4>1, <4>2, PtsDrop
      <4> QED BY <2>1, <3>2, <4>3
    <3> QED BY <3>4, <3>5
  <2>4. CASE queue' = queue /\ prodMsg' = prodMsg /\ prodPc' = "finSend"
    <3>1. ~Taken'
          BY <2>1, <2>2, <2>4 DEF Taken
    <3> QED BY <1>2, <1>3, <2>1, <2>2, <2>4, <3>1
  <2> QED BY <1>11, <2>3, <2>4 DEF ProdRecv
<1>12. ASSUME ProdSend PROVE Rest
  <2>1. prodPc = "send" /\ queue' = queue /\ prodMsg' = prodMsg
        BY <1>12 DEF ProdSend
  <2>2. CASE sent' = Append(sent, prodMsg) /\ prodPc' = "recv" /\ events' = events
        BY <1>1, <1>2, <2>1, <2>2, PtsSend
  <2>3. CASE Fault("send") /\ prodPc' = "finSend" /\ sent' = sent
    <3>1. "send" \in events' /\ ("cut" \in events' <=> "cut" \in events)
          BY <2>3 DEF Fault
    <3>2. Taken /\ Taken'
          BY <2>1, <3>1 DEF Taken
    <3>3. prodPc' \in Ending
          BY <2>3 DEF Ending
    <3> QED BY <1>2, <1>3, <2>1, <2>3, <3>1, <3>2, <3>3
  <2> QED BY <1>12, <2>2, <2>3 DEF ProdSend
<1>13. ASSUME ProdFinish PROVE Rest
  <2>1. /\ UNCHANGED <<sent, prodMsg, events>>
        /\ prodPc \in Ending /\ prodPc' \in Ending /\ prodPc # "send" /\ prodPc' # "send"
        BY <1>13 DEF ProdFinish, FinSend, FinRecv, Ending
  <2>2. Taken' <=> Taken
        BY <2>1 DEF Taken
  <2>3. In' = In /\ Out' = Out /\ Keeps
        BY <1>2, <1>13, CloseQueue DEF ProdFinish, FinSend, FinRecv, QueueName
  <2> QED BY <1>3, <2>1, <2>2, <2>3
<1> QED BY <1>10, <1>11, <1>12, <1>13 DEF Producer

-----------------------------------------------------------------------------
(* The packets that were posted, as parts of their streams.                *)

LEMMA LineSame ==
    ASSUME LineInv, Line' = Line, Gone \subseteq Gone'
    PROVE  LineInv'
BY DEF LineInv

LEMMA LinePosts ==
    ASSUME TypeOK, LineInv, CurrentInv, Posts, Gone \subseteq Gone'
    PROVE  LineInv'
<1> DEFINE c == demPkt
<1>1. /\ c \in Page /\ c.n \in Nat /\ c \in Gone /\ Chosen(c) /\ Posted(c) = c.n - 1
      /\ OffsetAfter \in Int
  <2>1. c \in Page /\ Current = {c} /\ Posted(c) = c.n - 1 /\ Chosen(c)
        BY NextPts DEF Posts
  <2>2. c \in Gone
        BY <2>1 DEF Posts, CurrentInv, Reading
  <2> QED BY <2>1, <2>2, PageFacts, OffsetType
<1>2. /\ InHand.page = c /\ InHand.pts = OffsetAfter + Gap(c) /\ Gap(c) \in Nat
      /\ c.n > 1 => Gap(c) = 0
      BY <1>1, PageFacts DEF InHand, Gap
<1>3. Line' = Line \cup {InHand} /\ Line \subseteq Packet
      BY LineTypes DEF Posts
<1>4. \A a \in Line : a.page \in Page /\ a.page.n \in Nat /\ a.pts \in Int
      BY <1>3, PageFacts DEF Packet
<1> HIDE DEF c
<1>5. \A a \in Line : a.page.stream = c.stream => a.pts - a.page.n = InHand.pts - c.n
  <2> SUFFICES ASSUME NEW a \in Line, a.page.stream = c.stream
               PROVE  a.pts - a.page.n = InHand.pts - c.n
    OBVIOUS
  <2>1. a.page.n \in 1..(c.n - 1) /\ a.pts - a.page.n = OffsetAfter - (c.n - 1) - 1
        BY <1>1 DEF Chosen
  <2>2. c.n > 1
        BY <1>1, <2>1
  <2>3. InHand.pts = OffsetAfter
        BY <1>1, <1>2, <2>2
  <2> QED BY <1>1, <1>4, <2>1, <2>3
<1>6. \A a \in Line' : a.page \in Gone'
      BY <1>1, <1>2, <1>3 DEF LineInv
<1>7. \A a, b \in Line' : a.page.stream = b.page.stream => b.pts - a.pts = b.page.n - a.page.n
  <2> SUFFICES ASSUME NEW a \in Line', NEW b \in Line', a.page.stream = b.page.stream
               PROVE  b.pts - a.pts = b.page.n - a.page.n
    OBVIOUS
  <2>1. CASE a \in Line /\ b \in Line
        BY <2>1 DEF LineInv
  <2>2. CASE a \in Line /\ b = InHand
    <3>1. a.pts - a.page.n = InHand.pts - c.n /\ InHand.pts \in Int
          BY <1>1, <1>2, <1>5, <2>2
    <3> QED BY <1>1, <1>2, <1>4, <2>2, <3>1
  <2>3. CASE a = InHand /\ b \in Line
    <3>1. b.pts - b.page.n = InHand.pts - c.n /\ InHand.pts \in Int
          BY <1>1, <1>2, <1>5, <2>3
    <3> QED BY <1>1, <1>2, <1>4, <2>3, <3>1
  <2>4. CASE a = InHand /\ b = InHand
        BY <1>1, <1>2, <2>4
  <2> QED BY <1>3, <2>1, <2>2, <2>3, <2>4
<1>8. \A b \in Line' : \A m \in 1..b.page.n :
         \E a \in Line' : a.page = [stream |-> b.page.stream, n |-> m]
  <2> SUFFICES ASSUME NEW b \in Line', NEW m \in 1..b.page.n
               PROVE  \E a \in Line' : a.page = [stream |-> b.page.stream, n |-> m]
    OBVIOUS
  <2>1. CASE b \in Line
        BY <1>3, <2>1 DEF LineInv
  <2>2. CASE b = InHand
    <3>1. CASE m = c.n
      <4>1. c = [stream |-> c.stream, n |-> c.n]
            BY <1>1 DEF Page
      <4> QED BY <1>2, <1>3, <2>2, <3>1, <4>1
    <3>2. CASE m # c.n
      <4>1. m \in 1..Posted(c)
            BY <1>1, <1>2, <2>2, <3>2
      <4>2. PICK a \in Line : a.page = [stream |-> c.stream, n |-> m]
            BY <1>1, <4>1 DEF Chosen
      <4> QED BY <1>2, <1>3, <2>2, <4>2
    <3> QED BY <3>1, <3>2
  <2> QED BY <1>3, <2>1, <2>2
<1> QED BY <1>6, <1>7, <1>8 DEF LineInv

LEMMA ChosenSame ==
    ASSUME NEW c, NEW d, Chosen(c), d.stream = c.stream, Posted(d)' = Posted(c),
           Line' = Line, OffsetAfter' = OffsetAfter,
           UNCHANGED <<next_expected_pts, pts_correction, pts_offset>>
    PROVE  Chosen(d)'
BY DEF Chosen

LEMMA SkippedSame ==
    ASSUME NEW c, NEW d, Skipped(c), d.stream = c.stream, Line' = Line,
           "cut" \in events => "cut" \in events'
    PROVE  Skipped(d)'
BY DEF Skipped

(* The demuxer is where it was. *)
LEMMA CurrentSame ==
    ASSUME CurrentInv, Line' = Line, Gone \subseteq Gone',
           "cut" \in events => "cut" \in events',
           UNCHANGED <<demPc, container, unread, stream_idx, demPkt,
                       next_expected_pts, pts_correction, pts_offset>>
    PROVE  CurrentInv'
<1>1. OffsetAfter' = OffsetAfter /\ Current' = Current /\ \A c : Posted(c)' = Posted(c)
      BY DEF OffsetAfter, Current, Posted
<1>2. \A c : Chosen(c) => Chosen(c)'
      BY <1>1, ChosenSame
<1>3. \A c : Skipped(c) => Skipped(c)'
      BY SkippedSame
<1> QED BY <1>1, <1>2, <1>3 DEF CurrentInv

LEMMA DemuxerKeepsCurrent ==
    ASSUME TypeOK, QueuesInv, OrderInv, ChainInv, PtsInv, LineInv, CurrentInv, Demuxer
    PROVE  LineInv' /\ CurrentInv'
<1>1. UNCHANGED callerVars
      BY DEF Demuxer
<1>2. Gone \subseteq Gone'
      BY DemuxerKeepsOrder
<1>3. (Line' = Line /\ OffsetAfter' = OffsetAfter) \/ (Posts /\ DemPost)
      BY DemuxerPosts
<1>4. LineInv'
      BY <1>2, <1>3, LineSame, LinePosts
<1>5. CanRecv(queue["in"]) /\ RecvFrom("in") =>
         /\ Take /\ Head(queue["in"].msgs) = In[1]
         /\ In[1] # Reset => /\ In[1].buf \in Page /\ HeadPage = {In[1].buf}
                             /\ In[1].buf \in NextPage
      BY <1>1, TakeIn
<1>6. demPc' \in Ending => CurrentInv'
      BY DEF CurrentInv, Ending, Opening, Reading
<1>7. Line \subseteq Packet /\ \A a \in Line : a.page \in Gone
      BY LineTypes DEF LineInv
<1>10. ASSUME DemReadFails PROVE CurrentInv'
      BY <1>6, <1>10 DEF DemReadFails, DemExit, Ending
<1>11. ASSUME DemSkipReset PROVE CurrentInv'
  <2>1. Line' = Line
        BY <1>3, <1>11 DEF Posts, DemSkipReset
  <2> QED BY <1>2, <1>11, <2>1, CurrentSame DEF DemSkipReset
<1>12. ASSUME DemOpenRead PROVE CurrentInv'
  <2>0. PICK h \in Page : h = In[1].buf
        BY <1>5, <1>12 DEF DemOpenRead
  <2>1. /\ demPc \in Opening /\ HeadPage = {h} /\ h \in NextPage /\ Take
        /\ h = Head(queue["in"].msgs).buf
        BY <1>5, <1>12, <2>0 DEF DemOpenRead, Opening
  <2>2. \A q \in Gone : Before(q, h)
    <3>1. h = In[1].buf /\ 1 \in OggAt
          BY <2>1 DEF HeadPage
    <3> QED BY <3>1 DEF OrderInv
  <2>3. Expected(h)
        BY <2>1 DEF ChainInv
  <2>4. /\ \A i \in 1..Len(container) : \A a \in Line : a.page.stream # container[i]
        /\ next_expected_pts \in {AV_NOPTS_VALUE, pts_offset}
        /\ (Len(container) > 1 => "cut" \in events) /\ unread = {}
        BY <2>1 DEF CurrentInv
  <2>5. Line' = Line /\ OffsetAfter' = OffsetAfter
        BY <1>3, <2>1 DEF Posts, Opening
  <2>6. h.n \in Nat /\ h.stream \in Stream
        BY <2>1, PageFacts
  <2>7. events' = events /\ pts_offset' = pts_offset
        BY <1>12 DEF DemOpenRead
  <2>8. container \in Seq(Stream) /\ Len(container) \in Nat
        BY LenProperties DEF TypeOK, DemTypes
  <2>9. \A p : ~IsPacket(p) <=> ~(p.n > 0)
        BY DEF IsPacket
  <2>10. CASE /\ h.n = 0 /\ container' = Append(container, h.stream) /\ demPc' = demPc
              /\ UNCHANGED <<unread, next_expected_pts>>
    <3>1. /\ Len(container') = Len(container) + 1
          /\ \A i \in 1..Len(container) : container'[i] = container[i]
          /\ container'[Len(container) + 1] = h.stream
          BY <2>6, <2>8, <2>10, AppendProperties
    <3>2. \A a \in Line : a.page.stream # h.stream
      <4> SUFFICES ASSUME NEW a \in Line PROVE a.page.stream # h.stream
        OBVIOUS
      <4>1. a.page \in Page /\ Before(a.page, h)
            BY <1>7, <2>2 DEF Packet
      <4>2. a.page.stream < h.stream /\ a.page.stream \in Nat /\ h.stream \in Nat
            BY <2>1, <2>10, <4>1, Ordered
      <4> QED BY <4>2
    <3>3. \A i \in 1..Len(container') : i \in 1..Len(container) \/ i = Len(container) + 1
          BY <2>8, <3>1
    <3>4. \A i \in 1..Len(container') : \A a \in Line' : a.page.stream # container'[i]
          BY <2>4, <2>5, <3>1, <3>2, <3>3
    <3>5. Len(container') > 1 => "cut" \in events'
      <4>1. CASE container = <<>>
        <5>1. Len(container') = 1
              BY <3>1, <4>1, EmptySeq
        <5> QED BY <5>1
      <4>2. CASE container # <<>>
            BY <2>1, <2>3, <2>7, <2>10, <4>2 DEF Expected
      <4> QED BY <4>1, <4>2
    <3>6. /\ demPc' \in Opening /\ demPc' \notin Reading /\ demPc' # "params"
          /\ demPc' \notin {"time", "post"} /\ unread' = {}
          BY <2>1, <2>4, <2>10 DEF Opening, Reading
    <3>7. next_expected_pts' \in {AV_NOPTS_VALUE, pts_offset'}
          BY <2>4, <2>7, <2>10
    <3> QED BY <3>4, <3>5, <3>6, <3>7 DEF CurrentInv
  <2>11. CASE /\ h.n > 0 /\ unread' = {h} /\ stream_idx' \in ToSet(container)
              /\ pts_correction' = AV_NOPTS_VALUE /\ next_expected_pts' = AV_NOPTS_VALUE
              /\ demPc' \in {"params", "read"}
    <3>1. /\ demPc' \in Reading /\ demPc' \notin Opening /\ demPc' \notin {"time", "post"}
          /\ Current' = {h} /\ unread' # {}
          BY <2>11 DEF Reading, Opening, Current
    <3>2. h.n = 1 /\ container # <<>> /\ h.stream = container[Len(container)]
          BY <2>1, <2>3, <2>11 DEF Expected
    <3>3. h \in Gone'
      <4>1. h \in owed'
        <5>1. 1 \in OggAt /\ h = In[1].buf
              BY <2>1 DEF HeadPage
        <5> QED BY <2>1, <2>11, <5>1 DEF OrderInv, Take
      <4>2. h \notin InPages'
        <5> SUFFICES ASSUME h \in InPages' PROVE FALSE
          OBVIOUS
        <5>1. PICK i \in OggAt' : h = In'[i].buf
              BY DEF InPages
        <5>2. i + 1 \in OggAt /\ In'[i] = In[i + 1] /\ 1 < i + 1
              BY <2>1, InTail DEF Take
        <5>3. 1 \in OggAt /\ h = In[1].buf
              BY <2>1 DEF HeadPage
        <5>4. Before(h, h)
              BY <5>1, <5>2, <5>3 DEF OrderInv
        <5> QED BY <2>1, <5>4, Ordered
      <4> QED BY <4>1, <4>2 DEF Gone
    <3>4. PICK k \in 1..Len(container) : stream_idx' = container[k]
          BY <2>8, <2>11 DEF ToSet
    <3>5. Posted(h)' = 0
      <4>1. Posted(h)' = h.n - 1
            BY <3>1 DEF Posted
      <4> QED BY <3>2, <4>1
    <3>6. stream_idx' = h.stream => Chosen(h)'
      <4>1. stream_idx' = h.stream => \A a \in Line' : a.page.stream # h.stream
            BY <2>4, <2>5, <3>4
      <4>2. 1..0 = {} /\ ~(0 > 0)
            OBVIOUS
      <4> QED BY <2>11, <3>5, <4>1, <4>2 DEF Chosen
    <3>7. stream_idx' # h.stream => Skipped(h)'
      <4> SUFFICES ASSUME stream_idx' # h.stream PROVE Skipped(h)'
        OBVIOUS
      <4>1. k # Len(container) /\ Len(container) \in 1..Len(container)
            BY <2>8, <3>2, <3>4
      <4>2. Len(container) > 1
            BY <2>8, <4>1
      <4>3. "cut" \in events'
            BY <2>4, <2>7, <4>2
      <4>4. \A a \in Line' : a.page.stream # h.stream
            BY <2>4, <2>5, <3>2, <4>1
      <4> QED BY <4>3, <4>4 DEF Skipped
    <3> QED BY <2>11, <3>1, <3>3, <3>6, <3>7 DEF CurrentInv
  <2> QED BY <1>12, <2>1, <2>6, <2>9, <2>10, <2>11 DEF DemOpenRead
<1>13. ASSUME DemParams PROVE CurrentInv'
  <2>1. CASE demPc' \in Ending
        BY <1>6, <2>1
  <2>2. CASE demPc' = "read"
    <3>1. /\ demPc = "params" /\ unread # {} /\ demPc' = "read"
          /\ UNCHANGED <<container, unread, stream_idx, demPkt,
                         next_expected_pts, pts_correction, pts_offset>>
          /\ "cut" \in events => "cut" \in events'
          BY <1>13, <2>2 DEF DemParams, CurrentInv
    <3>2. Line' = Line /\ OffsetAfter' = OffsetAfter /\ Current' = Current
          BY <1>3, <3>1 DEF Posts, Current
    <3>3. \A c : Posted(c)' = Posted(c)
          BY <3>1 DEF Posted
    <3>4. \A c : Chosen(c) => Chosen(c)'
          BY <3>1, <3>2, <3>3, ChosenSame
    <3>5. \A c : Skipped(c) => Skipped(c)'
          BY <3>1, <3>2, SkippedSame
    <3>6. \A c \in Current' : /\ c.n > 0 /\ c \in Gone' /\ Current' = {c}
                              /\ c.stream = stream_idx' => Chosen(c)'
                              /\ c.stream # stream_idx' => Skipped(c)'
          BY <1>2, <3>1, <3>2, <3>4, <3>5 DEF CurrentInv, Reading
    <3> QED BY <3>1, <3>6 DEF CurrentInv, Opening
  <2> QED BY <1>13, <2>1, <2>2 DEF DemParams, DemExit, Ending
<1>14. ASSUME DemRead PROVE CurrentInv'
  <2>1. /\ demPc = "read" /\ demPc' \in {"time", "post"} /\ unread' = {}
        /\ UNCHANGED <<stream_idx, next_expected_pts, pts_correction, pts_offset, events>>
        BY <1>14 DEF DemRead
  <2>2. Line' = Line /\ OffsetAfter' = OffsetAfter /\ Current' = {demPkt'}
        BY <1>3, <2>1 DEF Posts, Current
  <2>3. \A c : Posted(c)' = c.n - 1
        BY <2>1 DEF Posted
  <2>4. PICK d \in Page : Current = {d}
    <3>1. demPkt \in Page /\ unread \subseteq Page
          BY DEF TypeOK, DemTypes
    <3> QED BY <2>1, <3>1 DEF CurrentInv, Current, Reading
  <2>5. /\ d.n > 0 /\ d \in Gone
        /\ d.stream = stream_idx => Chosen(d)
        /\ d.stream # stream_idx => Skipped(d)
        BY <2>1, <2>4 DEF CurrentInv, Reading
  <2>6. PICK h : h = demPkt'
        OBVIOUS
  <2>7. h.n > 0 /\ h \in Gone' /\ h.stream = d.stream /\ Posted(d) = h.n - 1
    <3>1. CASE unread # {} /\ demPkt' \in unread
          BY <1>2, <2>4, <2>5, <2>6, <3>1 DEF Current, Posted
    <3>2. CASE /\ unread = {} /\ CanRecv(queue["in"]) /\ Head(queue["in"].msgs) # Reset
               /\ RecvFrom("in") /\ demPkt' = Head(queue["in"].msgs).buf
      <4>1. h = In[1].buf /\ h \in Page /\ h \in NextPage /\ h \in HeadPage /\ Take
            BY <1>5, <2>6, <3>2
      <4>2. Expected(h)
            BY <4>1 DEF ChainInv
      <4>3. h.n > 0 /\ Current = {Prev(h)}
            BY <2>1, <4>2 DEF Expected, Reading
      <4>4. d = Prev(h)
            BY <2>4, <4>3
      <4>5. d.stream = h.stream /\ d.n = h.n - 1
            BY <4>4 DEF Prev
      <4>6. Posted(d) = d.n
            BY <2>1, <3>2 DEF Posted
      <4>7. h \in Gone'
        <5>1. container' = container
              BY <1>14 DEF DemRead
        <5>2. Headers' \subseteq Headers \cup HeadPage
              BY <5>1 DEF Headers
        <5> QED BY <4>1, <4>3, <5>2, OrderTake
      <4> QED BY <4>3, <4>5, <4>6, <4>7
    <3> QED BY <1>14, <3>1, <3>2 DEF DemRead
  <2>8. d.stream = stream_idx => Chosen(h)'
        BY <2>1, <2>2, <2>3, <2>5, <2>7, ChosenSame
  <2>9. d.stream # stream_idx => Skipped(h)'
        BY <2>1, <2>2, <2>5, <2>7, SkippedSame
  <2> QED BY <2>1, <2>2, <2>6, <2>7, <2>8, <2>9 DEF CurrentInv, Opening, Reading
<1>15. ASSUME DemReset PROVE CurrentInv'
  <2>1. /\ demPc' = "reopen" /\ container' = <<>> /\ pts_offset' = OffsetAfter /\ unread = {}
        /\ UNCHANGED <<unread, next_expected_pts>>
        BY <1>15 DEF DemReset
  <2>2. next_expected_pts' \in {AV_NOPTS_VALUE, pts_offset'}
        BY <2>1 DEF OffsetAfter
  <2>3. Len(container') = 0 /\ 1..0 = {}
        BY <2>1, EmptySeq
  <2> QED BY <2>1, <2>2, <2>3 DEF CurrentInv, Opening, Reading
<1>16. ASSUME DemTime PROVE CurrentInv'
  <2>1. /\ demPc = "time" /\ demPc' = "post" /\ unread = {}
        /\ UNCHANGED <<container, unread, stream_idx, demPkt,
                       next_expected_pts, pts_correction, pts_offset, events>>
        BY <1>16 DEF DemTime, CurrentInv
  <2>2. Line' = Line /\ OffsetAfter' = OffsetAfter /\ Current' = Current
        BY <1>3, <2>1 DEF Posts, Current
  <2>3. \A c : Posted(c)' = Posted(c)
        BY <2>1 DEF Posted
  <2>4. \A c : (Chosen(c) => Chosen(c)') /\ (Skipped(c) => Skipped(c)')
        BY <2>1, <2>2, <2>3, ChosenSame, SkippedSame
  <2>5. \A c \in Current' : /\ c.n > 0 /\ c \in Gone' /\ Current' = {c}
                            /\ c.stream = stream_idx' => Chosen(c)'
                            /\ c.stream # stream_idx' => Skipped(c)'
        BY <1>2, <2>1, <2>2, <2>4 DEF CurrentInv, Reading
  <2> QED BY <2>1, <2>5 DEF CurrentInv, Opening
<1>17. ASSUME DemPost PROVE CurrentInv'
  <2>0. demPc = "post" /\ unread = {} /\ unread' = {} /\ UNCHANGED <<stream_idx, demPkt, pts_offset>>
        BY <1>17 DEF DemPost, CurrentInv
  <2>1. PICK c \in Page : c = demPkt
        BY DEF TypeOK, DemTypes
  <2>2. Current = {c} /\ Current' = {c} /\ c.n > 0 /\ c \in Gone'
    <3>1. Current = {c} /\ Current' = {c}
          BY <2>0, <2>1 DEF Current
    <3> QED BY <1>2, <2>0, <3>1 DEF CurrentInv, Reading
  <2>3. CASE demPc' \in Ending
        BY <1>6, <2>3
  <2>4. CASE demPkt.stream # stream_idx /\ demPc' = "read"
    <3>1. events' = events /\ Line' = Line
          BY <1>3, <1>17, <2>4 DEF DemPost, Posts
    <3>2. Skipped(c)
          BY <2>0, <2>1, <2>2, <2>4 DEF CurrentInv, Reading
    <3>3. Skipped(c)'
          BY <3>1, <3>2, SkippedSame
    <3> QED BY <2>0, <2>1, <2>2, <2>4, <3>3 DEF CurrentInv, Opening, Reading
  <2>5. CASE demPkt.stream = stream_idx /\ demPc' = "read"
    <3>1. Posts
      <4>1. next_expected_pts' = DemPts + 1 /\ OffsetAfter \in Nat
            BY <1>17, <2>5, OffsetType DEF DemPost, DemExit
      <4>2. DemPts = OffsetAfter + Gap(c) /\ Gap(c) \in Nat /\ DemPts + 1 # AV_NOPTS_VALUE
            BY <2>0, <2>1, <2>5, NextPts, PageFacts
      <4>3. OffsetAfter' = DemPts + 1
            BY <4>1, <4>2 DEF OffsetAfter
      <4>4. OffsetAfter' # OffsetAfter
            BY <4>1, <4>2, <4>3
      <4> QED BY <1>3, <4>4
    <3>2. /\ Posted(c) = c.n - 1 /\ Chosen(c) /\ c.n \in Nat
          /\ OffsetAfter \in Nat /\ DemPts \in Nat /\ DemPts + 1 # AV_NOPTS_VALUE
          /\ Correction # AV_NOPTS_VALUE /\ Correction \in Nat
          /\ DemPts = OffsetAfter + Gap(c)
          /\ DemPts = FirstPts[c.stream] + c.n - 1 + Correction + pts_offset
      <4>1. /\ Posted(demPkt) = demPkt.n - 1 /\ Chosen(demPkt)
            /\ DemPts \in Nat /\ DemPts + 1 # AV_NOPTS_VALUE
            /\ Correction # AV_NOPTS_VALUE /\ Correction \in Nat
            /\ DemPts = OffsetAfter + Gap(demPkt)
            /\ DemPts = FirstPts[demPkt.stream] + demPkt.n - 1 + Correction + pts_offset
            BY <2>0, <2>5, NextPts
      <4> QED BY <2>1, <4>1, PageFacts, OffsetType
    <3>3. c.n > 1 => DemPts = OffsetAfter
          BY <3>2 DEF Gap
    <3>4. Posted(c)' = c.n
          BY <2>0, <2>5 DEF Posted
    <3>5. Chosen(c)'
      <4>1. InHand.page = c /\ InHand.pts = DemPts
            BY <2>1, <3>2 DEF InHand
      <4>2. /\ Line' = Line \cup {InHand} /\ OffsetAfter' = DemPts + 1
            /\ pts_correction' = Correction /\ next_expected_pts' = DemPts + 1
            /\ pts_offset' = pts_offset
            BY <3>1, <4>1 DEF Posts
      <4>3. \A a \in Line : a.page.n \in Nat /\ a.pts \in Int
            BY <1>7, PageFacts DEF Packet
      <4>4. ASSUME NEW a \in Line', a.page.stream = c.stream
            PROVE  a.page.n \in 1..c.n /\ a.pts - a.page.n = OffsetAfter' - c.n - 1
        <5>1. CASE a = InHand
              BY <2>2, <3>2, <4>2, <4>1, <5>1
        <5>2. CASE a \in Line
          <6>1. a.page.n \in 1..(c.n - 1) /\ a.pts - a.page.n = OffsetAfter - (c.n - 1) - 1
                BY <3>2, <4>4, <5>2 DEF Chosen
          <6>2. c.n > 1
                BY <3>2, <6>1
          <6>3. DemPts = OffsetAfter
                BY <3>3, <6>2
          <6> QED BY <3>2, <4>2, <4>3, <5>2, <6>1, <6>3
        <5> QED BY <4>2, <5>1, <5>2
      <4>5. \A m \in 1..c.n : \E a \in Line' : a.page = [stream |-> c.stream, n |-> m]
        <5> SUFFICES ASSUME NEW m \in 1..c.n
                     PROVE  \E a \in Line' : a.page = [stream |-> c.stream, n |-> m]
          OBVIOUS
        <5>1. CASE m = c.n
          <6>1. c = [stream |-> c.stream, n |-> c.n]
                BY DEF Page
          <6> QED BY <4>2, <4>1, <5>1, <6>1
        <5>2. CASE m # c.n
          <6>1. m \in 1..Posted(c)
                BY <3>2, <5>2
          <6>2. PICK a \in Line : a.page = [stream |-> c.stream, n |-> m]
                BY <3>2, <6>1 DEF Chosen
          <6> QED BY <4>2, <6>2
        <5> QED BY <5>1, <5>2
      <4>6. next_expected_pts' = FirstPts[c.stream] + c.n + pts_correction' + pts_offset'
        <5>1. FirstPts[c.stream] \in Int /\ pts_offset \in Nat
              BY PageFacts, OffsetType
        <5>2. PICK f \in Int : f = FirstPts[c.stream]
              BY <5>1
        <5>3. DemPts + 1 = f + c.n + Correction + pts_offset
              BY <2>2, <3>2, <5>1, <5>2
        <5> QED BY <4>2, <5>2, <5>3
      <4>7. next_expected_pts' # AV_NOPTS_VALUE /\ pts_correction' # AV_NOPTS_VALUE
            BY <3>2, <4>2
      <4>8. ~(c.n = 0)
            BY <2>2, <3>2
      <4> QED BY <3>4, <4>4, <4>5, <4>6, <4>7, <4>8 DEF Chosen
    <3> QED BY <2>0, <2>1, <2>2, <2>5, <3>5 DEF CurrentInv, Opening, Reading
  <2> QED BY <1>17, <2>3, <2>4, <2>5 DEF DemPost, DemExit, Ending
<1>18. ASSUME DemFinish PROVE CurrentInv'
      BY <1>6, <1>18 DEF DemFinish, FinSend, FinRecv, Ending
<1> QED BY <1>4, <1>10, <1>11, <1>12, <1>13, <1>14, <1>15, <1>16, <1>17, <1>18 DEF Demuxer

-----------------------------------------------------------------------------
(* Closing, and what is kept.                                              *)

LEMMA ClosedKept ==
    ASSUME TypeOK, QueuesInv, ClosedInv, [Next]_vars
    PROVE  ClosedInv'
<1>1. ASSUME \A q \in QueueName : /\ queue'[q].err_send = queue[q].err_send
                                  /\ queue'[q].err_recv = queue[q].err_recv,
             js' = js \/ js' \in {"idle", "reset"},
             demPc' \in {"finRecv", "fin", "done"} => demPc \in {"finRecv", "fin", "done"},
             prodPc' \in {"finRecv", "fin", "done"} => prodPc \in {"finRecv", "fin", "done"}
      PROVE  ClosedInv'
      BY <1>1 DEF ClosedInv, QueueName
<1>2. ASSUME queue' = queue, UNCHANGED <<js, demPc, prodPc>> PROVE ClosedInv'
      BY <1>2 DEF ClosedInv
<1>3. UNCHANGED vars => ClosedInv'
      BY <1>2 DEF vars, callerVars, demVars, prodVars
<1>4. Callback \/ Collector => ClosedInv'
      BY <1>2 DEF Callback, Collector, callerVars, demVars, prodVars
<1>5. ASSUME Call \/ RestOfCall PROVE ClosedInv'
  <2>0. UNCHANGED <<demPc, prodPc>>
        BY <1>5 DEF Call, RestOfCall, demVars, prodVars
  <2>1. ASSUME PostOggBuffer PROVE ClosedInv'
    <3>1. OggBuffer(Upcoming) \in InMessages
          BY InFacts, MessageTypes
    <3>2. CanSend(queue["in"], Size["in"]) /\ SendTo("in", OggBuffer(Upcoming)) /\ js' = js
          BY <2>1 DEF PostOggBuffer, Upcoming
    <3> QED BY <1>1, <2>0, <3>1, <3>2, ChangeIn DEF QueueName
  <2>2. ASSUME PostDemuxerReset PROVE ClosedInv'
        BY <1>1, <2>0, <2>2, ChangeIn, MessageTypes DEF PostDemuxerReset, QueueName
  <2>3. ASSUME ClearMessageQueue PROVE ClosedInv'
        BY <1>1, <2>0, <2>3, ResetIn DEF ClearMessageQueue, QueueName
  <2>4. ASSUME ResetAfterClear PROVE ClosedInv'
        BY <1>1, <2>0, <2>4, ResetIn DEF ResetAfterClear, QueueName
  <2>5. ASSUME NEW h, Forget(h) PROVE ClosedInv'
        BY <1>2, <2>0, <2>5 DEF Forget, callerVars
  <2>6. ASSUME NEW q \in QueueName, CloseSend(q) PROVE ClosedInv'
    <3>1. /\ js = "idle" /\ queue' = [queue EXCEPT ![q] = SetErrSend(@)]
          /\ js' = IF q = "in" THEN "closeIn" ELSE "closeOut"
          BY <2>6 DEF CloseSend
    <3>2. /\ queue'[q].err_send /\ queue'[q].err_recv = queue[q].err_recv
          /\ \A r \in QueueName : r # q => queue'[r] = queue[r]
          BY <3>1, CloseQueue
    <3> QED BY <2>0, <3>1, <3>2 DEF ClosedInv, QueueName
  <2>7. ASSUME CloseRecv PROVE ClosedInv'
    <3> DEFINE q == IF js = "closeIn" THEN "in" ELSE "out"
    <3>1. /\ js \in {"closeIn", "closeOut"} /\ js' = "idle" /\ q \in QueueName
          /\ queue' = [queue EXCEPT ![q] = SetErrRecv(@)]
          BY <2>7 DEF CloseRecv, QueueName
    <3>2. /\ queue'[q].err_recv /\ queue'[q].err_send = queue[q].err_send
          /\ \A r \in QueueName : r # q => queue'[r] = queue[r]
          BY <3>1, CloseQueue
    <3>3. queue[q].err_send
      <4>1. CASE js = "closeIn"
            BY <4>1 DEF ClosedInv
      <4>2. CASE js = "closeOut"
            BY <4>2 DEF ClosedInv
      <4> QED BY <3>1, <4>1, <4>2
    <3> QED BY <2>0, <3>1, <3>2, <3>3 DEF ClosedInv, QueueName
  <2> QED BY <1>5, <2>1, <2>2, <2>3, <2>4, <2>5, <2>6, <2>7 DEF Call, RestOfCall
<1>6. ASSUME NEW q \in QueueName, UNCHANGED js,
             \/ /\ queue' = [queue EXCEPT ![q] = SetErrSend(@)]
                /\ \/ q = "in" /\ demPc' = "finRecv" /\ prodPc' = prodPc
                   \/ q = "out" /\ prodPc' = "finRecv" /\ demPc' = demPc
             \/ /\ queue' = [queue EXCEPT ![q] = SetErrRecv(@)]
                /\ \/ q = "in" /\ demPc = "finRecv" /\ prodPc' = prodPc
                   \/ q = "out" /\ prodPc = "finRecv" /\ demPc' = demPc
      PROVE  ClosedInv'
  <2>1. CASE queue' = [queue EXCEPT ![q] = SetErrSend(@)]
    <3>1. /\ queue'[q].err_send /\ queue'[q].err_recv = queue[q].err_recv
          /\ \A r \in QueueName : r # q => queue'[r] = queue[r]
          /\ \A r \in QueueName : queue[r].err_send => queue'[r].err_send
          BY <2>1, CloseQueue
    <3> QED BY <1>6, <3>1 DEF ClosedInv, QueueName
  <2>2. CASE queue' = [queue EXCEPT ![q] = SetErrRecv(@)]
    <3>1. /\ queue'[q].err_recv /\ queue'[q].err_send = queue[q].err_send
          /\ \A r \in QueueName : r # q => queue'[r] = queue[r]
          /\ queue' = [queue EXCEPT ![q] = SetErrSend(@)] => queue'[q].err_send
          BY <2>2, CloseQueue
    <3>2. queue[q].err_send
          BY <1>6, <3>1 DEF ClosedInv
    <3> QED BY <1>6, <3>1, <3>2 DEF ClosedInv, QueueName
  <2> QED BY <1>6, <2>1, <2>2
<1>7. ASSUME Demuxer PROVE ClosedInv'
  <2>0. UNCHANGED <<js, prodPc>>
        BY <1>7 DEF Demuxer, callerVars, prodVars
  <2>1. ASSUME DemFinish PROVE ClosedInv'
    <3>1. CASE demPc = "fin" /\ demPc' = "done" /\ queue' = queue
          BY <2>0, <3>1 DEF ClosedInv
    <3> QED BY <1>6, <2>0, <2>1, <3>1 DEF DemFinish, FinSend, FinRecv, QueueName
  <2>2. ASSUME CanRecv(queue["in"]), RecvFrom("in"), demPc' \notin {"finRecv", "fin", "done"}
        PROVE  ClosedInv'
        BY <1>1, <2>0, <2>2, ChangeIn DEF QueueName
  <2>3. ASSUME queue' = queue, demPc' \notin {"finRecv", "fin", "done"} PROVE ClosedInv'
        BY <1>1, <2>0, <2>3
  <2>4. ASSUME NEW m \in OutMessages,
               \/ CanSend(queue["out"], Size["out"]) /\ SendTo("out", m)
               \/ SendOrDrop("out", m),
               demPc' \notin {"finRecv", "fin", "done"}
        PROVE  ClosedInv'
        BY <1>1, <2>0, <2>4, ChangeOut DEF QueueName
  <2>5. DemReadFails \/ DemSkipReset \/ DemOpenRead \/ DemReset \/ DemRead => ClosedInv'
        BY <2>2, <2>3 DEF DemReadFails, DemSkipReset, DemOpenRead, DemReset, DemRead, DemExit
  <2>6. DemParams \/ DemTime => ClosedInv'
        BY <2>3, <2>4, MessageTypes DEF DemParams, DemTime, DemExit
  <2>7. ASSUME DemPost PROVE ClosedInv'
    <3>1. demPc' \notin {"finRecv", "fin", "done"}
          BY <2>7 DEF DemPost, DemExit
    <3>2. CASE CanSend(queue["out"], Size["out"])
               /\ SendTo("out", PostPacket([page |-> demPkt, pts |-> DemPts]))
      <4>1. /\ queue'["out"] = Send(queue["out"], PostPacket([page |-> demPkt, pts |-> DemPts]))
            /\ queue'["in"] = queue["in"]
            BY <3>2, Change DEF SendTo, QueuesInv, QueueName
      <4>2. queue["out"] \in OutQueue
            BY TypeParts
      <4>3. /\ queue'["out"].err_send = queue["out"].err_send
            /\ queue'["out"].err_recv = queue["out"].err_recv
            BY <4>1, <4>2 DEF Send, OutQueue, BoundedQueue, QueueOf
      <4> QED BY <1>1, <2>0, <3>1, <4>1, <4>3 DEF QueueName
    <3> QED BY <2>3, <2>7, <3>1, <3>2 DEF DemPost
  <2> QED BY <1>7, <2>1, <2>5, <2>6, <2>7 DEF Demuxer
<1>8. ASSUME Producer PROVE ClosedInv'
  <2>0. UNCHANGED <<js, demPc>>
        BY <1>8 DEF Producer, callerVars, demVars
  <2>1. ASSUME ProdFinish PROVE ClosedInv'
    <3>1. CASE prodPc = "fin" /\ prodPc' = "done" /\ queue' = queue
          BY <2>0, <3>1 DEF ClosedInv
    <3> QED BY <1>6, <2>0, <2>1, <3>1 DEF ProdFinish, FinSend, FinRecv, QueueName
  <2>2. ASSUME ProdRecv PROVE ClosedInv'
    <3>1. prodPc' \notin {"finRecv", "fin", "done"}
          BY <2>2 DEF ProdRecv
    <3> QED BY <1>1, <2>0, <2>2, <3>1, ChangeOut DEF ProdRecv, QueueName
  <2>3. ProdOpen \/ ProdSend => ClosedInv'
        BY <1>1, <2>0 DEF ProdOpen, ProdSend
  <2> QED BY <1>8, <2>1, <2>2, <2>3 DEF Producer
<1> QED BY <1>3, <1>4, <1>5, <1>7, <1>8 DEF Next

(* Nothing that is owed gets lost while the demuxer stays where it is. *)
LEMMA KeptSame ==
    ASSUME TypeOK, KeptInv, Line' = Line, events' \subseteq {"cut"} => events \subseteq {"cut"},
           "cut" \in events => "cut" \in events',
           UNCHANGED <<demPc, container, unread, stream_idx, demPkt>>,
           owed' \subseteq owed \cup InPages', Gone' \subseteq Gone,
           demPc \in Ending /\ In = <<>> /\ queue["in"].err_send
              => In' = <<>> /\ queue'["in"].err_send,
           events' \subseteq {"cut"} /\ prodPc' \in Ending
              => Out' = <<>> /\ queue'["out"].err_send
    PROVE  KeptInv'
<1> SUFFICES ASSUME events' \subseteq {"cut"} PROVE KeptInv'
  BY DEF KeptInv
<1>1. \A p : Held(p)' = Held(p)
      BY DEF Held
<1>2. \A s : Lost(s) => Lost(s)'
      BY DEF Lost
<1>3. ASSUME NEW p \in owed', p \notin InPages'
      PROVE  Held(p)' \/ Lost(p.stream)' \/ \E a \in Line' : a.page = p
  <2>1. p \in Gone
        BY <1>3 DEF Gone
  <2>2. p \in owed /\ p \notin InPages
        BY <2>1 DEF Gone
  <2>3. Held(p) \/ Lost(p.stream) \/ \E a \in Line : a.page = p
        BY <2>2 DEF KeptInv
  <2> QED BY <1>1, <1>2, <2>3
<1>4. demPc' \in Ending => In' = <<>> /\ queue'["in"].err_send /\ unread' = {}
      BY DEF KeptInv
<1> QED BY <1>3, <1>4 DEF KeptInv

LEMMA CallerKeepsRest ==
    ASSUME TypeOK, QueuesInv, OrderInv, ChainInv, PtsInv, LineInv, CurrentInv, KeptInv,
           Call \/ RestOfCall
    PROVE  PtsInv' /\ LineInv' /\ CurrentInv' /\ KeptInv'
<1>1. /\ UNCHANGED <<demVars, prodVars, events, Out>>
      /\ \A q \in QueueName : queue[q].err_send => queue'[q].err_send
      /\ Post \/ Cut \/ Clear \/ After \/ Same
      BY CallerSteps
<1>2. Gone' = Gone
      BY CallerKeepsOrder
<1>3. /\ UNCHANGED <<sent, prodMsg, prodPc>> /\ OutAt' = OutAt /\ OffsetAfter' = OffsetAfter
      /\ \A i \in OutAt : Out'[i] = Out[i]
      /\ UNCHANGED <<demPc, container, unread, stream_idx, demPkt,
                     next_expected_pts, pts_correction, pts_offset>>
      BY <1>1 DEF OutAt, OffsetAfter, demVars, prodVars
<1>4. PtsInv' /\ Line' = Line
  <2>1. Taken' <=> Taken
        BY <1>1, <1>3 DEF Taken
  <2>2. "send" \in events' => prodPc' \in Ending
        BY <1>1, <1>3 DEF PtsInv
  <2> QED BY <1>1, <1>3, <2>1, <2>2, PtsSame
<1>5. LineInv' /\ CurrentInv'
      BY <1>1, <1>2, <1>3, <1>4, LineSame, CurrentSame
<1>6. owed' \subseteq owed \cup InPages'
  <2>1. CASE Post
    <3>1. In' = Append(In, OggBuffer(Upcoming)) /\ owed' \subseteq owed \cup {Upcoming}
          BY <2>1 DEF Post
    <3>2. /\ OggBuffer(Upcoming) \in InMessages /\ OggBuffer(Upcoming).type = "OGG_BUFFER"
          /\ OggBuffer(Upcoming).buf = Upcoming
          BY InFacts, MessageTypes
    <3>3. Upcoming \in InPages'
          BY <3>1, <3>2, InAppend
    <3> QED BY <3>1, <3>3
  <2>2. CASE Cut \/ Clear \/ After \/ Same
        BY <2>2 DEF Cut, Clear, After, Same
  <2> QED BY <1>1, <2>1, <2>2
<1>7. ASSUME In = <<>>, queue["in"].err_send PROVE In' = <<>> /\ queue'["in"].err_send
  <2>1. queue'["in"].err_send
        BY <1>1, <1>7 DEF QueueName
  <2>2. Clear \/ Same => In' = <<>>
        BY <1>7 DEF Clear, Same
  <2>3. ~Post /\ ~Cut /\ (After => In' = <<>>)
        BY <1>7 DEF Post, Cut, After
  <2> QED BY <1>1, <2>1, <2>2, <2>3
<1>8. events \subseteq {"cut"} /\ prodPc' \in Ending => Out' = <<>> /\ queue'["out"].err_send
      BY <1>1, <1>3 DEF KeptInv, QueueName
<1>9. KeptInv'
      BY <1>1, <1>2, <1>3, <1>4, <1>6, <1>7, <1>8, KeptSame
<1> QED BY <1>4, <1>5, <1>9

LEMMA DemuxerKeepsKept ==
    ASSUME TypeOK, QueuesInv, OrderInv, ChainInv, PtsInv, LineInv, CurrentInv, KeptInv,
           ClosedInv, Demuxer
    PROVE  KeptInv'
<1>1. UNCHANGED callerVars /\ prodPc' = prodPc /\ owed' = owed
      BY DEF Demuxer, prodVars, callerVars
<1>2. \A q \in QueueName : queue[q].err_send => queue'[q].err_send
      BY DemuxerKeepsOrder
<1>3. /\ Line' = Line \/ (Posts /\ DemPost)
      /\ queue["out"].err_send => Out' = Out
      BY DemuxerPosts
<1>4. CanRecv(queue["in"]) /\ RecvFrom("in") =>
         /\ Take /\ Head(queue["in"].msgs) = In[1]
         /\ In[1] = Reset => HeadPage = {}
         /\ In[1] # Reset => In[1].buf \in Page /\ HeadPage = {In[1].buf}
      BY <1>1, TakeIn
<1>5. CanRecv(queue["in"]) /\ RecvFrom("in") =>
         /\ Gone' \subseteq Gone \cup HeadPage
         /\ \A p \in HeadPage : \A q \in Gone : Before(q, p)
  <2> SUFFICES ASSUME CanRecv(queue["in"]), RecvFrom("in")
               PROVE  /\ Gone' \subseteq Gone \cup HeadPage
                      /\ \A p \in HeadPage : \A q \in Gone : Before(q, p)
    OBVIOUS
  <2>1. \A p : p \in InPages <=> p \in InPages' \/ (1 \in OggAt /\ p = In[1].buf)
        BY <1>4, InTail DEF Take
  <2>2. Gone' \subseteq Gone \cup HeadPage
        BY <1>1, <2>1 DEF Gone, HeadPage
  <2>3. \A p \in HeadPage : 1 \in OggAt /\ p = In[1].buf
        BY DEF HeadPage
  <2> QED BY <2>2, <2>3 DEF OrderInv
<1>6. In' = In => Gone' = Gone
      BY <1>1 DEF Gone, InPages, OggAt
<1> SUFFICES ASSUME events' \subseteq {"cut"} PROVE KeptInv'
  BY DEF KeptInv
<1>7. events \subseteq events'
      BY DEF Demuxer, DemReadFails, DemSkipReset, DemOpenRead, DemParams, DemRead, DemReset,
             DemTime, DemPost, DemFinish, Fault
<1>8. \A p \in Gone : Held(p) \/ Lost(p.stream) \/ \E a \in Line : a.page = p
      BY <1>7 DEF KeptInv, Gone
<1>9. prodPc' \in Ending => Out' = <<>> /\ queue'["out"].err_send
      BY <1>1, <1>2, <1>3, <1>7 DEF KeptInv, QueueName
<1> DEFINE Kept == \A p \in Gone' : Held(p)' \/ Lost(p.stream)' \/ \E a \in Line' : a.page = p
<1> DEFINE Rest == /\ Kept
                   /\ demPc' \in Ending => In' = <<>> /\ queue'["in"].err_send /\ unread' = {}
<1>10. SUFFICES Rest
  <2>1. ASSUME Kept, NEW p \in owed', p \notin InPages'
        PROVE  Held(p)' \/ Lost(p.stream)' \/ \E a \in Line' : a.page = p
        BY <2>1 DEF Gone
  <2> QED BY <1>9, <2>1 DEF KeptInv
<1>11. ASSUME Line' = Line, demPc' \in Ending, In' = In, \A p : ~Held(p) PROVE Kept
  <2>1. \A s : Lost(s) => Lost(s)'
        BY <1>7, <1>11 DEF Lost, Ending, Opening, Reading
  <2> QED BY <1>6, <1>8, <1>11, <2>1
<1>12. ASSUME DemReadFails PROVE Rest
  <2>1. /\ demPc \in {"open", "reopen", "read"} /\ unread = {} /\ unread' = unread
        /\ demPc' \in Ending /\ "toolarge" \notin events'
        BY <1>12 DEF DemReadFails, DemExit, Ending
  <2>2. RecvFails(queue["in"]) /\ queue' = queue
        BY <1>12, <2>1 DEF DemReadFails, Fault
  <2>3. In = <<>> /\ In' = In /\ queue'["in"].err_send
        BY <2>2 DEF RecvFails, In, ClosedInv, QueueName
  <2>4. Line' = Line /\ \A p : ~Held(p)
        BY <1>3, <2>1 DEF Posts, Held
  <2> QED BY <1>11, <2>1, <2>3, <2>4
<1>13. ASSUME DemSkipReset PROVE Rest
  <2>1. /\ Gone' \subseteq Gone /\ demPc' = demPc /\ demPc \in Opening
        /\ UNCHANGED <<container, unread, stream_idx, demPkt>>
        BY <1>4, <1>5, <1>13 DEF DemSkipReset, Opening
  <2>2. Line' = Line
        BY <1>3, <2>1 DEF Posts, Opening
  <2>3. (\A p : Held(p)' = Held(p)) /\ \A s : Lost(s) => Lost(s)'
        BY <1>7, <2>1, <2>2 DEF Held, Lost
  <2> QED BY <1>8, <2>1, <2>2, <2>3 DEF Opening, Ending
<1>14. ASSUME DemOpenRead PROVE Rest
  <2>0. PICK h \in Page : h = In[1].buf
        BY <1>4, <1>14 DEF DemOpenRead
  <2>1. /\ demPc \in Opening /\ h = Head(queue["in"].msgs).buf
        /\ Gone' \subseteq Gone \cup {h} /\ \A q \in Gone : Before(q, h)
        BY <1>4, <1>5, <1>14, <2>0 DEF DemOpenRead, Opening
  <2>2. unread = {} /\ \A p : ~Held(p)
        BY <2>1 DEF CurrentInv, Held, Opening
  <2>3. Line' = Line
        BY <1>3, <2>1 DEF Posts, Opening
  <2>4. container \in Seq(Stream) /\ Len(container) \in Nat /\ h.n \in Nat /\ h.stream \in Stream
        BY LenProperties, PageFacts DEF TypeOK, DemTypes
  <2>5. CASE ~IsPacket(h) /\ container' = Append(container, h.stream) /\ demPc' = demPc
    <3>1. h \notin Gone'
          BY <1>1, <2>5 DEF Gone, OrderInv, IsPacket
    <3>2. ASSUME NEW p \in Gone, Lost(p.stream) PROVE Lost(p.stream)'
      <4>1. p.stream # h.stream
        <5>1. p \in Page /\ h.n = 0
              BY <2>4, <2>5, InFacts DEF Gone, IsPacket
        <5>2. p.stream < h.stream /\ p.stream \in Nat /\ h.stream \in Nat
              BY <2>1, <5>1, Ordered
        <5> QED BY <5>2
      <4>2. /\ Len(container') = Len(container) + 1
            /\ \A i \in 1..Len(container) : container'[i] = container[i]
            /\ container'[Len(container) + 1] = h.stream
            BY <2>4, <2>5, AppendProperties
      <4>3. \A i \in 1..Len(container') : i \in 1..Len(container) \/ i = Len(container) + 1
            BY <2>4, <4>2
      <4>4. \A i \in 1..Len(container') : container'[i] # p.stream
            BY <2>1, <3>2, <4>1, <4>2, <4>3 DEF Lost
      <4> QED BY <1>7, <2>1, <2>3, <2>5, <3>2, <4>4 DEF Lost, Opening, Reading
    <3> QED BY <1>8, <2>1, <2>2, <2>3, <2>5, <3>1, <3>2 DEF Opening, Ending
  <2>6. CASE /\ IsPacket(h) /\ unread' = {h} /\ stream_idx' \in ToSet(container)
             /\ demPc' \in {"params", "read"}
    <3>1. Held(h)'
          BY <2>6 DEF Held
    <3>2. ASSUME NEW s, Lost(s) PROVE Lost(s)'
      <4>1. \A i \in 1..Len(container) : container[i] # s
            BY <2>1, <3>2 DEF Lost
      <4>2. stream_idx' # s
            BY <2>4, <2>6, <4>1 DEF ToSet
      <4> QED BY <1>7, <2>3, <2>6, <3>2, <4>2 DEF Lost, Opening
    <3> QED BY <1>8, <2>1, <2>2, <2>3, <2>6, <3>1, <3>2 DEF Ending
  <2> QED BY <1>14, <2>1, <2>5, <2>6 DEF DemOpenRead
<1>15. ASSUME DemParams PROVE Rest
  <2>1. "refused" \notin events'
        OBVIOUS
  <2>2. /\ demPc = "params" /\ demPc' = "read" /\ SendTo("out", Params)
        /\ CanSend(queue["out"], Size["out"])
        /\ UNCHANGED <<container, unread, stream_idx, demPkt>>
        BY <1>15, <2>1 DEF DemParams
  <2>3. In' = In /\ Line' = Line
        BY <1>3, <2>2, ChangeOut, MessageTypes DEF In, Posts
  <2>4. (\A p : Held(p)' = Held(p)) /\ \A s : Lost(s) => Lost(s)'
        BY <1>7, <2>2, <2>3 DEF Held, Lost, Opening, Reading
  <2> QED BY <1>6, <1>8, <2>2, <2>3, <2>4 DEF Ending
<1>16. ASSUME DemRead PROVE Rest
  <2>1. /\ demPc = "read" /\ demPc' \in {"time", "post"} /\ unread' = {}
        /\ UNCHANGED <<stream_idx, events>>
        BY <1>16 DEF DemRead
  <2>2. Line' = Line
        BY <1>3, <2>1 DEF Posts
  <2>3. \A s : Lost(s) => Lost(s)'
        BY <2>1, <2>2 DEF Lost, Opening, Reading
  <2>4. PICK h : h = demPkt'
        OBVIOUS
  <2>5. Held(h)'
        BY <2>1, <2>4 DEF Held
  <2>6. CASE unread # {} /\ demPkt' \in unread /\ queue' = queue
    <3>1. Gone' = Gone
          BY <1>6, <2>6 DEF In
    <3>2. \A p : Held(p) => p = h
          BY <2>1, <2>4, <2>6 DEF Held, CurrentInv, Current, Reading
    <3> QED BY <1>8, <2>1, <2>2, <2>3, <2>5, <3>1, <3>2 DEF Ending
  <2>7. CASE /\ unread = {} /\ CanRecv(queue["in"]) /\ Head(queue["in"].msgs) # Reset
             /\ RecvFrom("in") /\ demPkt' = Head(queue["in"].msgs).buf
    <3>1. Gone' \subseteq Gone \cup {h}
          BY <1>4, <1>5, <2>4, <2>7
    <3>2. \A p : ~Held(p)
          BY <2>1, <2>7 DEF Held
    <3> QED BY <1>8, <2>1, <2>2, <2>3, <2>5, <3>1, <3>2 DEF Ending
  <2> QED BY <1>16, <2>6, <2>7 DEF DemRead
<1>17. ASSUME DemReset PROVE Rest
  <2>1. /\ demPc = "read" /\ demPc' = "reopen" /\ unread = {} /\ container' = <<>>
        /\ Gone' \subseteq Gone
        BY <1>4, <1>5, <1>17 DEF DemReset
  <2>2. Line' = Line /\ \A p : ~Held(p)
        BY <1>3, <2>1 DEF Posts, Held
  <2>3. Len(container') = 0 /\ 1..0 = {}
        BY <2>1, EmptySeq
  <2>4. \A s : Lost(s) => Lost(s)'
        BY <1>7, <2>1, <2>2, <2>3 DEF Lost, Reading
  <2> QED BY <1>8, <2>1, <2>2, <2>4 DEF Ending
<1>18. ASSUME DemTime PROVE Rest
  <2>1. /\ demPc = "time" /\ demPc' = "post" /\ SendOrDrop("out", StartTime)
        /\ UNCHANGED <<container, unread, stream_idx, demPkt>>
        BY <1>18 DEF DemTime
  <2>2. In' = In /\ Line' = Line
        BY <1>3, <2>1, ChangeOut, MessageTypes DEF In, Posts
  <2>3. (\A p : Held(p)' = Held(p)) /\ \A s : Lost(s) => Lost(s)'
        BY <1>7, <2>1, <2>2 DEF Held, Lost, Opening, Reading
  <2> QED BY <1>6, <1>8, <2>1, <2>2, <2>3 DEF Ending
<1>19. ASSUME DemPost PROVE Rest
  <2>0. "refused" \notin events'
        OBVIOUS
  <2>1. /\ demPc = "post" /\ demPc' = "read" /\ unread = {}
        /\ UNCHANGED <<container, unread, stream_idx, demPkt>>
        BY <1>19, <2>0 DEF DemPost, CurrentInv
  <2>2. \A p : Held(p) => p = demPkt
        BY <2>1 DEF Held
  <2>3. CASE demPkt.stream # stream_idx /\ queue' = queue
    <3>1. Line' = Line /\ Gone' = Gone
          BY <1>3, <1>6, <2>3 DEF Posts, In
    <3>2. \A s : Lost(s) => Lost(s)'
          BY <1>7, <2>1, <3>1 DEF Lost, Opening, Reading
    <3>3. Skipped(demPkt)
          BY <2>1, <2>3 DEF CurrentInv, Current, Reading
    <3>4. \A p : p = demPkt => Lost(p.stream)'
          BY <1>7, <2>1, <2>3, <3>1, <3>3 DEF Lost, Skipped, Opening, Reading
    <3> QED BY <1>8, <2>1, <2>2, <3>1, <3>2, <3>4 DEF Ending
  <2>4. CASE Posts
    <3>1. /\ Line' = Line \cup {InHand} /\ In' = In /\ demPkt.stream = stream_idx
          /\ InHand.page = demPkt
          BY <2>4 DEF Posts, InHand
    <3>2. \A s : Lost(s) => Lost(s)'
          BY <1>7, <2>1, <3>1 DEF Lost, Opening, Reading
    <3> QED BY <1>6, <1>8, <2>1, <2>2, <3>1, <3>2 DEF Ending
  <2>5. demPkt.stream = stream_idx => Posts
    <3> SUFFICES ASSUME demPkt.stream = stream_idx PROVE Posts
      OBVIOUS
    <3>1. next_expected_pts' = DemPts + 1 /\ OffsetAfter \in Nat
          BY <1>19, <2>0, OffsetType DEF DemPost
    <3>2. DemPts = OffsetAfter + Gap(demPkt) /\ Gap(demPkt) \in Nat /\ DemPts + 1 # AV_NOPTS_VALUE
          BY <2>1, NextPts, PageFacts
    <3>3. OffsetAfter' = DemPts + 1
          BY <3>1, <3>2 DEF OffsetAfter
    <3>4. (Line' = Line /\ OffsetAfter' = OffsetAfter) \/ (Posts /\ DemPost)
          BY DemuxerPosts
    <3> QED BY <3>1, <3>2, <3>3, <3>4
  <2> QED BY <1>19, <2>0, <2>3, <2>4, <2>5 DEF DemPost
<1>20. ASSUME DemFinish PROVE Rest
  <2>1. /\ demPc \in Ending /\ demPc' \in Ending /\ unread' = unread
        BY <1>20 DEF DemFinish, FinSend, FinRecv, Ending
  <2>2. In' = In /\ Line' = Line
    <3>1. In' = In
          BY <1>20, CloseQueue DEF DemFinish, FinSend, FinRecv, QueueName, In
    <3> QED BY <1>3, <2>1, <3>1 DEF Posts, Ending
  <2>3. In = <<>> /\ queue["in"].err_send /\ unread = {}
        BY <1>7, <2>1 DEF KeptInv
  <2>4. \A p : ~Held(p)
        BY <2>1, <2>3 DEF Held, Ending
  <2> QED BY <1>2, <1>11, <2>1, <2>2, <2>3, <2>4 DEF QueueName
<1> QED BY <1>12, <1>13, <1>14, <1>15, <1>16, <1>17, <1>18, <1>19, <1>20 DEF Demuxer

LEMMA ProducerKeepsRest ==
    ASSUME TypeOK, QueuesInv, OrderInv, ChainInv, PtsInv, LineInv, CurrentInv, KeptInv,
           ClosedInv, Producer
    PROVE  OrderInv' /\ ChainInv' /\ PtsInv' /\ LineInv' /\ CurrentInv' /\ KeptInv'
<1>1. UNCHANGED <<callerVars, demVars>>
      BY DEF Producer
<1>2. /\ PtsInv' /\ Line' = Line /\ In' = In
      /\ "cut" \in events' <=> "cut" \in events
      /\ \A q \in QueueName : queue[q].err_send => queue'[q].err_send
      BY ProducerKeepsPts
<1>3. /\ Same /\ js' = js
      /\ UNCHANGED <<demPc, container, unread, stream_idx, demPkt,
                     next_expected_pts, pts_correction, pts_offset>>
      BY <1>1, <1>2, SameIn DEF demVars
<1>4. Headers' = Headers
      BY <1>3 DEF Headers
<1>5. OrderInv' /\ Gone' = Gone
      BY <1>3, <1>4, OrderSame
<1>6. ChainInv'
  <2>1. \A p : Expected(p) => Expected(p)'
        BY <1>2, <1>3 DEF Expected, Current
  <2> QED BY <1>2, <1>3, <2>1, ChainSame DEF QueueName
<1>7. LineInv' /\ CurrentInv'
      BY <1>2, <1>3, <1>5, LineSame, CurrentSame
<1>8. events \subseteq events' /\ owed' = owed
      BY <1>1 DEF Producer, ProdOpen, ProdRecv, ProdSend, ProdFinish, Fault, callerVars
<1>9. ASSUME events' \subseteq {"cut"}, prodPc' \in Ending
      PROVE  Out' = <<>> /\ queue'["out"].err_send
  <2>1. CASE prodPc \in Ending
    <3>1. ProdFinish
          BY <2>1 DEF Producer, ProdOpen, ProdRecv, ProdSend, Ending
    <3>2. Out' = Out
          BY <3>1, CloseQueue DEF ProdFinish, FinSend, FinRecv, QueueName, Out
    <3> QED BY <1>2, <1>8, <1>9, <2>1, <3>2 DEF KeptInv, QueueName
  <2>2. CASE prodPc \notin Ending
    <3>1. ~ProdOpen /\ ~ProdSend /\ ~ProdFinish
          BY <1>9, <2>2 DEF ProdOpen, ProdSend, ProdFinish, FinSend, FinRecv, Fault, Ending
    <3>2. RecvFails(queue["out"]) /\ queue' = queue
          BY <1>9, <2>2, <3>1 DEF Producer, ProdRecv, Ending
    <3> QED BY <3>2 DEF RecvFails, ClosedInv, Out, QueueName
  <2> QED BY <2>1, <2>2
<1>10. KeptInv'
  <2>1. events' \subseteq {"cut"} => events \subseteq {"cut"}
        BY <1>8
  <2>2. owed' \subseteq owed \cup InPages' /\ Gone' \subseteq Gone
        BY <1>5, <1>8
  <2>3. demPc \in Ending /\ In = <<>> /\ queue["in"].err_send
           => In' = <<>> /\ queue'["in"].err_send
        BY <1>2 DEF QueueName
  <2> QED BY <1>2, <1>3, <1>9, <2>1, <2>2, <2>3, KeptSame
<1> QED BY <1>2, <1>5, <1>6, <1>7, <1>10

LEMMA LoopKeepsRest ==
    ASSUME OrderInv, ChainInv, PtsInv, LineInv, CurrentInv, KeptInv,
           Callback \/ Collector \/ UNCHANGED vars
    PROVE  OrderInv' /\ ChainInv' /\ PtsInv' /\ LineInv' /\ CurrentInv' /\ KeptInv'
<1>1. UNCHANGED <<queue, callerVars, demVars, prodVars, events>>
      BY DEF Callback, Collector, vars
<1>2. UNCHANGED <<queue, js, stream, pages, posts, owed, demPc, container, unread, stream_idx,
                  demPkt, pts_correction, next_expected_pts, pts_offset,
                  prodPc, prodMsg, sent, events>>
      BY <1>1 DEF callerVars, demVars, prodVars
<1>3. /\ In' = In /\ Out' = Out /\ Upcoming' = Upcoming /\ Headers' = Headers /\ Current' = Current
      /\ OffsetAfter' = OffsetAfter /\ (Taken' <=> Taken)
      /\ \A i : OutPts(i)' = OutPts(i) /\ OutStart(i)' = OutStart(i)
      /\ \A k : Start(k)' = Start(k)
      /\ \A p : Held(p)' = Held(p) /\ Posted(p)' = Posted(p)
      BY <1>2 DEF In, Out, Upcoming, Headers, Current, OffsetAfter, Taken, OutPts, OutStart,
                  Start, Held, Posted
<1>4. OggAt' = OggAt /\ InPages' = InPages /\ OutAt' = OutAt /\ Line' = Line
      /\ SentEnd' = SentEnd /\ NextTaken' = NextTaken
      BY <1>2, <1>3 DEF OggAt, InPages, OutAt, Line, SentEnd, NextTaken
<1>5. /\ Gone' = Gone /\ HeadPage' = HeadPage
      /\ \A p : Expected(p)' = Expected(p) /\ Lost(p)' = Lost(p)
      /\ \A p : Chosen(p)' = Chosen(p) /\ Skipped(p)' = Skipped(p)
      BY <1>2, <1>3, <1>4 DEF Gone, HeadPage, Expected, Lost, Chosen, Skipped
<1>6. OrderInv'
      BY <1>2, <1>3, <1>4, <1>5 DEF OrderInv
<1>7. ChainInv'
  <2>1. NextPage' = NextPage
        BY <1>2, <1>3, <1>5 DEF NextPage
  <2> QED BY <1>2, <1>3, <1>4, <1>5, <2>1 DEF ChainInv
<1>8. PtsInv'
      BY <1>2, <1>3, <1>4 DEF PtsInv
<1>9. LineInv' /\ CurrentInv'
      BY <1>2, <1>3, <1>4, <1>5 DEF LineInv, CurrentInv
<1>10. KeptInv'
      BY <1>2, <1>3, <1>4, <1>5 DEF KeptInv
<1> QED BY <1>6, <1>7, <1>8, <1>9, <1>10

-----------------------------------------------------------------------------
(* The theorems.                                                           *)

IInv == /\ TypeOK /\ QueuesInv /\ OrderInv /\ ChainInv /\ PtsInv /\ LineInv
        /\ CurrentInv /\ KeptInv /\ ClosedInv

LEMMA IInvInit == Init => IInv
<1> SUFFICES ASSUME Init PROVE IInv
  OBVIOUS
<1>1. TypeOK /\ QueuesInv
      BY TypeInit
<1>2. /\ In = <<>> /\ Out = <<>> /\ sent = <<>> /\ container = <<>> /\ owed = {} /\ unread = {}
      /\ js = "idle" /\ stream = 1 /\ pages = 0 /\ posts = 0 /\ events = {}
      /\ demPc = "open" /\ prodPc = "open"
      /\ next_expected_pts = AV_NOPTS_VALUE /\ pts_offset = 0
      /\ \A q \in QueueName : ~queue[q].err_send /\ ~queue[q].err_recv
      BY DEF Init, InitDemuxer, InitProducer, EmptyQueue, In, Out, QueueName
<1>3. Len(<<>>) = 0 /\ \A s : 1..0 = {}
      BY EmptySeq
<1>4. OggAt = {} /\ OutAt = {} /\ InPages = {} /\ Headers = {} /\ Gone = {}
      BY <1>2, <1>3 DEF OggAt, OutAt, InPages, Headers, Gone
<1>5. ~Taken /\ OffsetAfter = 0 /\ NextTaken = 0
      BY <1>2, <1>3 DEF Taken, OffsetAfter, NextTaken, SentEnd
<1>6. Line = {}
      BY <1>2, <1>3, <1>4, <1>5 DEF Line
<1>7. OrderInv
      BY <1>2, <1>4 DEF OrderInv
<1>8. ChainInv
  <2>1. \A p \in NextPage : p = Upcoming
        BY <1>4 DEF NextPage, HeadPage
  <2>2. Expected(Upcoming)
        BY <1>2 DEF Expected, Upcoming, Opening, Reading
  <2> QED BY <1>2, <1>4, <2>1, <2>2 DEF ChainInv
<1>9. PtsInv
      BY <1>2, <1>3, <1>4, <1>5 DEF PtsInv
<1>10. LineInv
      BY <1>6 DEF LineInv
<1>11. CurrentInv
      BY <1>2, <1>3 DEF CurrentInv, Opening, Reading
<1>12. KeptInv
      BY <1>2 DEF KeptInv, Ending
<1>13. ClosedInv
      BY <1>2 DEF ClosedInv, QueueName
<1> QED BY <1>1, <1>7, <1>8, <1>9, <1>10, <1>11, <1>12, <1>13 DEF IInv

LEMMA IInvStep == IInv /\ [Next]_vars => IInv'
<1> SUFFICES ASSUME IInv, [Next]_vars PROVE IInv'
  OBVIOUS
<1>1. /\ TypeOK /\ QueuesInv /\ OrderInv /\ ChainInv /\ PtsInv /\ LineInv
      /\ CurrentInv /\ KeptInv /\ ClosedInv
      BY DEF IInv
<1>2. TypeOK' /\ QueuesInv'
      BY <1>1, TypesKept
<1>3. ClosedInv'
      BY <1>1, ClosedKept
<1>4. Call \/ RestOfCall => OrderInv' /\ ChainInv' /\ PtsInv' /\ LineInv' /\ CurrentInv' /\ KeptInv'
      BY <1>1, CallerKeepsOrder, CallerKeepsRest
<1>5. Demuxer => OrderInv' /\ ChainInv' /\ PtsInv' /\ LineInv' /\ CurrentInv' /\ KeptInv'
      BY <1>1, DemuxerKeepsOrder, DemuxerPosts, DemuxerKeepsCurrent, DemuxerKeepsKept
<1>6. Producer => OrderInv' /\ ChainInv' /\ PtsInv' /\ LineInv' /\ CurrentInv' /\ KeptInv'
      BY <1>1, ProducerKeepsRest
<1>7. Callback \/ Collector \/ UNCHANGED vars
         => OrderInv' /\ ChainInv' /\ PtsInv' /\ LineInv' /\ CurrentInv' /\ KeptInv'
      BY <1>1, LoopKeepsRest
<1>8. OrderInv' /\ ChainInv' /\ PtsInv' /\ LineInv' /\ CurrentInv' /\ KeptInv'
      BY <1>4, <1>5, <1>6, <1>7 DEF Next
<1> QED BY <1>2, <1>3, <1>8 DEF IInv

(* What the demuxer, its two queues and the producer agree on at any time  *)
(* is kept by every step of any of them, of the caller and of the event    *)
(* loop, for queues of every size.                                         *)
THEOREM InductiveInvariant == Spec => []IInv
BY IInvInit, IInvStep, PTL DEF Spec

(* Types: no queue ever holds more than it was made for.                   *)
THEOREM TypeCorrect == Spec => []TypeOK
<1>1. IInv => TypeOK
      BY DEF IInv
<1> QED BY <1>1, InductiveInvariant, PTL

(* The demuxer's pts_offset and pts_correction make one timeline of the    *)
(* streams, however many there are, and wherever resets, interruptions and *)
(* failures cut them.  A first timestamp below zero leaves no trace, and   *)
(* one above zero a gap of its length before the stream, and no other.     *)
THEOREM OneTimeline == Spec => []TimelineContinues
<1>1. IInv => TimelineContinues
  <2> SUFFICES ASSUME IInv PROVE TimelineContinues
    OBVIOUS
  <2>1. sent \in Seq(Packet) /\ Len(sent) \in Nat /\ DOMAIN sent = 1..Len(sent)
        BY LenProperties DEF IInv, TypeOK
  <2>2. ASSUME NEW i \in 1..Len(sent)
        PROVE  sent[i].pts = (IF i = 1 THEN 0 ELSE sent[i - 1].pts + 1) + Gap(sent[i].page)
    <3>1. sent[i].pts - Gap(sent[i].page) = IF i = 1 THEN 0 ELSE sent[i - 1].pts + 1
          BY DEF IInv, PtsInv, Start
    <3>2. sent[i].pts \in Int /\ Gap(sent[i].page) \in Nat
      <4>1. sent[i] \in Packet
            BY <2>1, LenProperties
      <4> QED BY <4>1, PageFacts DEF Packet
    <3> QED BY <3>1, <3>2
  <2> QED BY <2>1, <2>2 DEF TimelineContinues
<1> QED BY <1>1, InductiveInvariant, PTL

(* What has left of a stream is always what the caller posted of it, up to *)
(* some packet, each once.                                                 *)
THEOREM SentOnceInOrder == Spec => []SentInOrder
<1>1. IInv => SentInOrder
  <2> SUFFICES ASSUME IInv, NEW i \in DOMAIN sent
               PROVE  /\ sent[i].page \in owed
                      /\ Of(sent[i].page.stream, SentPages(i - 1)) =
                            {q \in Of(sent[i].page.stream, owed) : q.n < sent[i].page.n}
    BY DEF SentInOrder
  <2>1. TypeOK /\ OrderInv /\ PtsInv /\ LineInv
        BY DEF IInv
  <2>2. /\ sent \in Seq(Packet) /\ Len(sent) \in Nat /\ i \in 1..Len(sent)
        /\ \A k \in 1..Len(sent) : sent[k] \in Packet /\ sent[k] \in Line
        BY <2>1, OutFacts, LenProperties DEF Line
  <2> DEFINE p == sent[i].page
  <2>3. /\ p \in owed /\ p \in Page /\ p.n \in Nat /\ sent[i] \in Line
        /\ sent[i].pts \in Int /\ sent[i].pts < SentEnd
        BY <2>1, <2>2, PageFacts, SentBefore DEF LineInv, Gone, Packet
  <2>4. ASSUME NEW k \in 1..(i - 1), sent[k].page.stream = p.stream
        PROVE  sent[k].page \in owed /\ sent[k].page.n < p.n
    <3>1. k \in 1..Len(sent) /\ k < i
          BY <2>2
    <3>2. sent[k] \in Line /\ sent[k].page \in Page /\ sent[k].pts \in Int
          BY <2>2, <3>1 DEF Packet
    <3>3. sent[i].pts - sent[k].pts = p.n - sent[k].page.n
          BY <2>1, <2>3, <2>4, <3>2 DEF LineInv
    <3>4. sent[k].page.n \in Nat
          BY <3>2, PageFacts
    <3>5. sent[k].pts < sent[i].pts
          BY <2>1, <2>2, <3>1 DEF PtsInv
    <3>6. sent[k].page.n < p.n
      <4> HIDE DEF p
      <4> QED BY <2>3, <3>2, <3>3, <3>4, <3>5
    <3>7. sent[k].page \in owed
          BY <2>1, <3>2 DEF LineInv, Gone
    <3> QED BY <3>6, <3>7
  <2>5. ASSUME NEW q \in owed, q.stream = p.stream, q.n < p.n
        PROVE  \E k \in 1..(i - 1) : sent[k].page = q
    <3>1. q \in Page /\ q.n \in Nat /\ q.n > 0
          BY <2>1, <2>5, InFacts, PageFacts DEF OrderInv
    <3>2. q.n \in 1..p.n
          BY <2>3, <2>5, <3>1
    <3>3. PICK a \in Line : a.page = [stream |-> p.stream, n |-> q.n]
          BY <2>1, <2>3, <3>2 DEF LineInv
    <3>4. a.page = q
          BY <2>5, <3>1, <3>3 DEF Page
    <3>5. sent[i].pts - a.pts = p.n - q.n
          BY <2>1, <2>3, <2>5, <3>4 DEF LineInv
    <3>6. a.pts \in Int
          BY <2>1, LineTypes DEF Packet
    <3>7. a.pts < sent[i].pts
      <4> HIDE DEF p
      <4> QED BY <2>3, <2>5, <3>1, <3>5, <3>6
    <3>8. a.pts < SentEnd /\ SentEnd \in Int
          BY <2>1, <2>3, <3>6, <3>7, OutFacts
    <3>9. PICK k \in 1..Len(sent) : a = sent[k]
      <4>1. Taken => SentEnd <= prodMsg.pts
            BY <2>1, OutFacts, StretchFacts DEF PtsInv
      <4>2. SentEnd <= NextTaken
        <5>1. prodMsg.pts \in Int
              BY <2>1, OutFacts, StretchFacts
        <5> QED BY <3>8, <4>1, <5>1 DEF NextTaken
      <4>3. CASE a \in {prodMsg} /\ Taken
            BY <3>6, <3>8, <4>1, <4>3
      <4>4. ASSUME NEW j \in OutAt, a = Out[j].pkt PROVE FALSE
        <5>1. /\ NextTaken <= OutStart(j) /\ OutStart(j) <= OutPts(j) /\ OutPts(j) = a.pts
              /\ NextTaken \in Int /\ OutStart(j) \in Int
              BY <2>1, <4>4, OutFacts DEF PtsInv, OutPts
        <5> QED BY <3>6, <3>8, <4>2, <5>1
      <4> QED BY <4>3, <4>4 DEF Line
    <3>10. k < i
      <4>1. i < k => sent[i].pts < sent[k].pts
            BY <2>1, <2>2 DEF PtsInv
      <4> QED BY <2>2, <2>3, <3>6, <3>7, <3>9, <4>1
    <3>11. k \in 1..(i - 1)
          BY <2>2, <3>10
    <3> QED BY <3>4, <3>9, <3>11
  <2> HIDE DEF p
  <2>6. Of(p.stream, SentPages(i - 1)) = {q \in Of(p.stream, owed) : q.n < p.n}
    <3>1. ASSUME NEW q \in Of(p.stream, SentPages(i - 1))
          PROVE  q \in {r \in Of(p.stream, owed) : r.n < p.n}
      <4>1. PICK k \in 1..(i - 1) : q = sent[k].page
            BY DEF Of, SentPages
      <4> QED BY <2>4, <3>1, <4>1 DEF Of
    <3>2. ASSUME NEW q \in Of(p.stream, owed), q.n < p.n
          PROVE  q \in Of(p.stream, SentPages(i - 1))
      <4>1. q \in owed /\ q.stream = p.stream
            BY DEF Of
      <4>2. PICK k \in 1..(i - 1) : sent[k].page = q
            BY <2>5, <3>2, <4>1
      <4> QED BY <4>1, <4>2 DEF Of, SentPages
    <3> QED BY <3>1, <3>2
  <2> QED BY <2>3, <2>6 DEF p
<1> QED BY <1>1, InductiveInvariant, PTL

(* Jobs that end without an error have sent everything: no message is left *)
(* behind in a queue that is closed, in the demuxer's hands or in those of *)
(* the producer.                                                           *)
THEOREM EverythingArrives == Spec => []EverythingSent
<1>1. IInv /\ Inv => EverythingSent
  <2> SUFFICES ASSUME IInv, Inv, \A j \in Job : promise[j] = "ok", events \subseteq {"cut"},
                      NEW s \in Stream
               PROVE  \/ Of(s, SentPages(Len(sent))) = Of(s, owed)
                      \/ "cut" \in events /\ Of(s, SentPages(Len(sent))) = {}
    BY DEF EverythingSent
  <2>1. TypeOK /\ KeptInv /\ LineInv
        BY DEF IInv
  <2>2. demPc = "done" /\ prodPc = "done"
    <3>1. \A j \in Job : Pc(j) = "done"
          BY DEF Inv, HoldersInv
    <3> QED BY <3>1 DEF Pc, Job
  <2>3. In = <<>> /\ unread = {} /\ Out = <<>>
        BY <2>1, <2>2 DEF KeptInv, Ending
  <2>4. InPages = {} /\ OutAt = {}
    <3>1. Len(<<>>) = 0
          BY EmptySeq
    <3> QED BY <2>3, <3>1 DEF InPages, OggAt, OutAt
  <2>5. Line = {sent[i] : i \in 1..Len(sent)}
    <3>1. ~Taken
          BY <2>2 DEF Taken
    <3> QED BY <2>4, <3>1 DEF Line
  <2>6. \A p : ~Held(p)
        BY <2>2, <2>3 DEF Held
  <2>7. \A p \in owed : Lost(p.stream) \/ \E a \in Line : a.page = p
        BY <2>1, <2>4, <2>6 DEF KeptInv
  <2>8. \A p : p \in SentPages(Len(sent)) <=> \E a \in Line : a.page = p
        BY <2>5 DEF SentPages
  <2>9. SentPages(Len(sent)) \subseteq owed
        BY <2>1, <2>8 DEF LineInv, Gone
  <2>10. CASE Lost(s)
        BY <2>8, <2>10 DEF Lost, Of
  <2>11. CASE ~Lost(s)
    <3>1. \A p \in owed : p.stream = s => p \in SentPages(Len(sent))
          BY <2>7, <2>8, <2>11
    <3> QED BY <2>9, <3>1 DEF Of
  <2> QED BY <2>10, <2>11
<1> QED BY <1>1, InductiveInvariant, InvCorrect, PTL

-----------------------------------------------------------------------------
(* Nobody is left waiting.                                                 *)

(* Who closes a queue to senders is about to close it to the receiver.     *)
FlagsInv ==
    /\ queue["in"].err_send =>
          queue["in"].err_recv \/ js = "closeIn" \/ demPc = "finRecv"
    /\ queue["out"].err_send =>
          queue["out"].err_recv \/ js = "closeOut" \/ prodPc = "finRecv"

(* The end of a thread is announced, and an input is opened with resets    *)
(* that it can skip.                                                       *)
AwakeInv ==
    /\ FlagsInv
    /\ demPc = "done" => "demuxer" \in finPending \/ promise["demuxer"] # "pending"
    /\ prodPc = "done" => "producer" \in finPending \/ promise["producer"] # "pending"
    /\ demPc \in Opening => should_reset

LEMMA FlagsKept ==
    ASSUME TypeOK, QueuesInv, FlagsInv, [Next]_vars
    PROVE  FlagsInv'
<1>1. ASSUME \A q \in QueueName : /\ queue'[q].err_send = queue[q].err_send
                                  /\ queue'[q].err_recv = queue[q].err_recv,
             js \in {"closeIn", "closeOut"} => js' = js,
             demPc = "finRecv" => demPc' = demPc,
             prodPc = "finRecv" => prodPc' = prodPc
      PROVE  FlagsInv'
      BY <1>1 DEF FlagsInv, QueueName
<1>2. UNCHANGED vars \/ Callback \/ Collector => FlagsInv'
      BY <1>1 DEF vars, Callback, Collector, callerVars, demVars, prodVars
<1>3. ASSUME NEW q \in QueueName, queue' = [queue EXCEPT ![q] = SetErrSend(@)],
             IF q = "in" THEN js' = "closeIn" \/ demPc' = "finRecv"
                         ELSE js' = "closeOut" \/ prodPc' = "finRecv",
             js \in {"closeIn", "closeOut"} => js' = js,
             demPc = "finRecv" => demPc' = demPc,
             prodPc = "finRecv" => prodPc' = prodPc
      PROVE  FlagsInv'
  <2>1. \A r \in QueueName : r # q => queue'[r] = queue[r]
        BY <1>3, CloseQueue
  <2> QED BY <1>3, <2>1 DEF FlagsInv, QueueName
<1>4. ASSUME NEW q \in QueueName, queue' = [queue EXCEPT ![q] = SetErrRecv(@)],
             q # "in" => /\ js = "closeIn" => js' = js
                         /\ demPc = "finRecv" => demPc' = demPc,
             q # "out" => /\ js = "closeOut" => js' = js
                          /\ prodPc = "finRecv" => prodPc' = prodPc
      PROVE  FlagsInv'
  <2>1. queue'[q].err_recv /\ \A r \in QueueName : r # q => queue'[r] = queue[r]
        BY <1>4, CloseQueue
  <2> QED BY <1>4, <2>1 DEF FlagsInv, QueueName
<1>5. ASSUME Call \/ RestOfCall PROVE FlagsInv'
  <2>0. UNCHANGED <<demPc, prodPc>>
        BY <1>5 DEF Call, RestOfCall, demVars, prodVars
  <2>1. ASSUME PostOggBuffer PROVE FlagsInv'
    <3>1. OggBuffer(Upcoming) \in InMessages
          BY InFacts, MessageTypes
    <3>2. CanSend(queue["in"], Size["in"]) /\ SendTo("in", OggBuffer(Upcoming)) /\ js' = js
          BY <2>1 DEF PostOggBuffer, Upcoming
    <3> QED BY <1>1, <2>0, <3>1, <3>2, ChangeIn DEF QueueName
  <2>2. PostDemuxerReset => FlagsInv'
        BY <1>1, <2>0, ChangeIn, MessageTypes DEF PostDemuxerReset, QueueName
  <2>3. ClearMessageQueue \/ ResetAfterClear => FlagsInv'
        BY <1>1, <2>0, ResetIn DEF ClearMessageQueue, ResetAfterClear, QueueName
  <2>4. ASSUME NEW h, Forget(h) PROVE FlagsInv'
        BY <1>1, <2>0, <2>4 DEF Forget, callerVars
  <2>5. ASSUME NEW q \in QueueName, CloseSend(q) PROVE FlagsInv'
        BY <1>3, <2>0, <2>5 DEF CloseSend, QueueName
  <2>6. ASSUME CloseRecv PROVE FlagsInv'
    <3>1. CASE js = "closeIn"
          BY <1>4, <2>0, <2>6, <3>1 DEF CloseRecv, QueueName
    <3>2. CASE js = "closeOut"
          BY <1>4, <2>0, <2>6, <3>2 DEF CloseRecv, QueueName
    <3> QED BY <2>6, <3>1, <3>2 DEF CloseRecv
  <2> QED BY <1>5, <2>1, <2>2, <2>3, <2>4, <2>5, <2>6 DEF Call, RestOfCall
<1>6. ASSUME Demuxer PROVE FlagsInv'
  <2>0. UNCHANGED <<js, prodPc>>
        BY <1>6 DEF Demuxer, callerVars, prodVars
  <2>1. DemFinish => FlagsInv'
    <3>1. FinSend(demPc, "in") /\ demPc' = "finRecv" => FlagsInv'
          BY <1>3, <2>0 DEF FinSend, QueueName
    <3>2. FinRecv(demPc, "in") => FlagsInv'
          BY <1>4, <2>0 DEF FinRecv, QueueName
    <3>3. demPc = "fin" /\ UNCHANGED queue => FlagsInv'
          BY <1>1, <2>0
    <3> QED BY <3>1, <3>2, <3>3 DEF DemFinish
  <2>2. ASSUME CanRecv(queue["in"]), RecvFrom("in"), demPc # "finRecv" PROVE FlagsInv'
        BY <1>1, <2>0, <2>2, ChangeIn DEF QueueName
  <2>3. ASSUME queue' = queue, demPc # "finRecv" PROVE FlagsInv'
        BY <1>1, <2>0, <2>3
  <2>4. ASSUME NEW m \in OutMessages,
               \/ CanSend(queue["out"], Size["out"]) /\ SendTo("out", m)
               \/ SendOrDrop("out", m),
               demPc # "finRecv"
        PROVE  FlagsInv'
        BY <1>1, <2>0, <2>4, ChangeOut DEF QueueName
  <2>5. DemReadFails \/ DemSkipReset \/ DemOpenRead \/ DemReset \/ DemRead => FlagsInv'
        BY <2>2, <2>3 DEF DemReadFails, DemSkipReset, DemOpenRead, DemReset, DemRead
  <2>6. DemParams \/ DemTime => FlagsInv'
        BY <2>3, <2>4, MessageTypes DEF DemParams, DemTime
  <2>7. ASSUME DemPost PROVE FlagsInv'
    <3> DEFINE m == PostPacket([page |-> demPkt, pts |-> DemPts])
    <3>1. CASE CanSend(queue["out"], Size["out"]) /\ SendTo("out", m)
      <4>1. queue'["out"] = Send(queue["out"], m) /\ queue'["in"] = queue["in"]
            BY <3>1, Change DEF SendTo, QueuesInv, QueueName
      <4>2. queue["out"] \in OutQueue
            BY TypeParts
      <4>3. /\ queue'["out"].err_send = queue["out"].err_send
            /\ queue'["out"].err_recv = queue["out"].err_recv
            BY <4>1, <4>2 DEF Send, OutQueue, BoundedQueue, QueueOf
      <4> QED BY <1>1, <2>0, <2>7, <4>1, <4>3 DEF DemPost, QueueName
    <3> QED BY <2>3, <2>7, <3>1 DEF DemPost
  <2> QED BY <1>6, <2>1, <2>5, <2>6, <2>7 DEF Demuxer
<1>7. ASSUME Producer PROVE FlagsInv'
  <2>0. UNCHANGED <<js, demPc>>
        BY <1>7 DEF Producer, callerVars, demVars
  <2>1. ProdFinish => FlagsInv'
    <3>1. FinSend(prodPc, "out") /\ prodPc' = "finRecv" => FlagsInv'
          BY <1>3, <2>0 DEF FinSend, QueueName
    <3>2. FinRecv(prodPc, "out") => FlagsInv'
          BY <1>4, <2>0 DEF FinRecv, QueueName
    <3>3. prodPc = "fin" /\ UNCHANGED queue => FlagsInv'
          BY <1>1, <2>0
    <3> QED BY <3>1, <3>2, <3>3 DEF ProdFinish
  <2>2. ProdRecv => FlagsInv'
        BY <1>1, <2>0, ChangeOut DEF ProdRecv, QueueName
  <2>3. ProdOpen \/ ProdSend => FlagsInv'
        BY <1>1, <2>0 DEF ProdOpen, ProdSend
  <2> QED BY <1>7, <2>1, <2>2, <2>3 DEF Producer
<1> QED BY <1>2, <1>5, <1>6, <1>7 DEF Next

LEMMA AwakeInit == Init => AwakeInv
BY DEF Init, InitDemuxer, InitProducer, EmptyQueue, QueueName, AwakeInv, FlagsInv

LEMMA AwakeKept ==
    ASSUME TypeOK, QueuesInv, HoldersInv, ResultInv, AwakeInv, [Next]_vars
    PROVE  AwakeInv'
<1>1. FlagsInv'
      BY FlagsKept DEF AwakeInv
<1> USE <1>1 DEF AwakeInv, Opening
<1>2. UNCHANGED vars => AwakeInv'
      BY DEF vars, demVars, prodVars, loopVars
<1>3. Call \/ RestOfCall \/ Collector => AwakeInv'
      BY DEF Call, RestOfCall, Collector, Collect, demVars, prodVars, loopVars
<1>4. Callback => AwakeInv'
  <2>1. ASSUME NEW j \in Job, AsyncCallback(j), UNCHANGED <<demVars, prodVars>> PROVE AwakeInv'
    <3>1. promise'[j] # "pending" /\ \A i \in Job : i # j => promise'[i] = promise[i]
          BY <2>1 DEF AsyncCallback, HoldersInv, ResultInv
    <3>2. \A i \in Job : i # j /\ i \in finPending => i \in finPending'
          BY <2>1 DEF AsyncCallback
    <3> QED BY <2>1, <3>1, <3>2 DEF demVars, prodVars, Job
  <2>2. ASSUME NEW j \in Job, CloseCallback(j), UNCHANGED <<demVars, prodVars>> PROVE AwakeInv'
        BY <2>2 DEF CloseCallback, demVars, prodVars
  <2> QED BY <2>1, <2>2 DEF Callback
<1>5. Demuxer => AwakeInv'
      BY DEF Demuxer, DemReadFails, DemSkipReset, DemOpenRead, DemParams, DemRead, DemReset,
             DemTime, DemPost, DemFinish, DemExit, prodVars
<1>6. Producer => AwakeInv'
      BY DEF Producer, ProdOpen, ProdRecv, ProdSend, ProdFinish, demVars
<1> QED BY <1>2, <1>3, <1>4, <1>5, <1>6 DEF Next

LEMMA AwakeInvariance == Spec => []AwakeInv
<1>1. IInv /\ Inv /\ AwakeInv /\ [Next]_vars => AwakeInv'
      BY AwakeKept DEF IInv, Inv
<1> QED BY <1>1, AwakeInit, InductiveInvariant, InvCorrect, PTL DEF Spec

(* The demuxer and the producer never wait for each other, nor for one     *)
(* that has gone: the demuxer waits at the producer's queue only while the *)
(* producer has something to take from it, and both wait for messages only *)
(* at queues that are empty and open.                                      *)
THEOREM NobodyIsLeftWaiting == Spec => []OnlyCallerIsAwaited
<1>1. IInv /\ Inv /\ AwakeInv => OnlyCallerIsAwaited
  <2> SUFFICES ASSUME IInv, Inv, AwakeInv, js = "idle", finPending = {},
                      DemuxerWaits, ProducerWaits
               PROVE  /\ demPc \notin {"params", "post"}
                      /\ \A j \in Job : promise[j] = "pending" => queue[InputOf[j]] = EmptyQueue
    BY DEF OnlyCallerIsAwaited
  <2>1. /\ queue["in"] \in InQueue /\ queue["out"] \in OutQueue
        /\ ChainInv /\ ClosedInv /\ FlagsInv
        BY TypeParts DEF IInv, AwakeInv
  <2>2. ASSUME NEW q \in QueueName, queue[q].msgs = <<>>, ~queue[q].err_recv,
               demPc # "finRecv", prodPc # "finRecv"
        PROVE  queue[q] = EmptyQueue
    <3>1. ~queue[q].err_send
          BY <2>1, <2>2 DEF FlagsInv, QueueName
    <3> QED BY <2>1, <2>2, <3>1
            DEF EmptyQueue, QueueName, InQueue, OutQueue, BoundedQueue, QueueOf
  <2>3. prodPc = "done" => promise["producer"] # "pending" /\ queue["out"].err_send
        BY <2>1 DEF AwakeInv, ClosedInv
  <2>4. prodPc = "recv" => Out = <<>> /\ ~queue["out"].err_recv
        BY DEF ProducerWaits, CanRecv, RecvFails, Out
  <2>5. ~(~CanSend(queue["out"], Size["out"]) /\ ~SendFails(queue["out"]))
    <3> SUFFICES ASSUME ~queue["out"].err_send, ~(Len(Out) < Size["out"]) PROVE FALSE
      BY DEF CanSend, SendFails, Out
    <3>1. Out # <<>>
          BY Sizes, EmptySeq
    <3> QED BY <2>3, <2>4, <3>1 DEF ProducerWaits
  <2>6. demPc \in Opening => In = <<>>
    <3> SUFFICES ASSUME demPc \in Opening, In # <<>> PROVE FALSE
      OBVIOUS
    <3> DEFINE m == Head(In)
    <3>1. m = In[1] /\ m \in InMessages /\ 1 \in 1..Len(In)
          BY <2>1, InFacts DEF InQueue, BoundedQueue, QueueOf, In
    <3>2. should_reset /\ IF m = Reset THEN ~should_reset
                                       ELSE IsPacket(m.buf) /\ container = <<>>
          BY DEF AwakeInv, DemuxerWaits, CanRecv, Opening, In
    <3>3. m.type = "OGG_BUFFER" /\ m.buf \in Page
          BY <3>1, <3>2 DEF InMessages, Reset
    <3>4. Expected(m.buf)
          BY <2>1, <3>1, <3>3 DEF ChainInv, NextPage, HeadPage, OggAt
    <3> QED BY <3>2, <3>3, <3>4 DEF Expected, IsPacket, Page
  <2>7. CASE demPc = "done"
    <3>1. promise["demuxer"] # "pending"
          BY <2>7 DEF AwakeInv
    <3> QED BY <2>2, <2>3, <2>4, <2>7, <3>1 DEF ProducerWaits, Job, InputOf, QueueName, Out
  <2>8. CASE demPc \in {"open", "reopen", "read"} /\ ~RecvFails(queue["in"]) /\ In = <<>>
    <3>1. ~queue["in"].err_recv
          BY <2>8 DEF RecvFails, In
    <3> QED BY <2>2, <2>3, <2>4, <2>8, <3>1
            DEF ProducerWaits, Job, InputOf, QueueName, In, Out
  <2> QED BY <2>5, <2>6, <2>7, <2>8 DEF DemuxerWaits, Opening, CanRecv, In
<1> QED BY <1>1, InductiveInvariant, InvCorrect, AwakeInvariance, PTL

=============================================================================
