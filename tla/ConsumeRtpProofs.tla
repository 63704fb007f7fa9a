-------------------------- MODULE ConsumeRtpProofs --------------------------
(***************************************************************************)
(* For every stream of frames that do not overlap, all sizes of the queues *)
(* and all failures: the types of ConsumeRtp, the order of its shutdown,   *)
(* that no decoded frame is lost between the threads, the timeline that    *)
(* the decoder makes of the packets, and that the whole is an AudioSink.   *)
(***************************************************************************)
EXTENDS ConsumeRtp, QueueTheorems

-----------------------------------------------------------------------------
(* The inductive invariant.                                                *)

(* The threads end one after another.                                      *)
ThreadsInv ==
    /\ decPc = "start" => demPc = "none"
    /\ decPc \in {"finSend", "finRecv", "finAsync", "done"} => demPc = "done"
    /\ finPending \/ js = "cleanup" \/ ~cbOpen \/ promise = "resolved" => decPc = "done"

(* The first message is the one with the codec parameters.                 *)
ParamsInv ==
    /\ demPc \in {"none", "open", "params"} => queue.msgs = <<>>
    /\ decPc \in {"emit", "notify"} => decoder
    /\ decPc \in {"start", "recv", "handle"} /\ ~decoder =>
        \/ decPc = "handle" /\ decMsg = Params
        \/ decPc # "handle" /\ queue.msgs # <<>> /\ Head(queue.msgs) = Params
        \/ /\ decPc # "handle" /\ queue.msgs = <<>>
           /\ demPc \in {"none", "open", "params", "exit", "done"}

(* The decoder says that nothing more will come when it has given away all *)
(* it had; only then is the reference to onAudioData deleted.              *)
CallbackInv ==
    /\ decPc = "emit" => out # <<>>
    /\ out # <<>> => decPc \in {"emit", "notify"}
    /\ cbQ.err_recv => decPc \in {"finishNotify", "close", "stop", "join", "finSend",
                                  "finRecv", "finAsync", "done", "crashed"}
    /\ ~callbackRef => cbQ.msgs = <<>> /\ cbQ.err_recv

(* Every frame is delivered or waits in the queue.                         *)
DeliveryInv ==
    /\ "throw" \notin faults => ~exception /\ queued = delivered \o cbQ.msgs
    /\ promise = "resolved" => cbQ.msgs = <<>>

(* The frames of the sender, moved to where the demuxer posts them, as far *)
(* as the last one that it has let through.                                *)
Arrived ==
    {p \in Frames : /\ prev_pts # AV_NOPTS_VALUE
                    /\ [pts |-> p.pts - pts_correction, dur |-> p.dur] \in Stream
                    /\ 0 <= p.pts /\ p.pts <= prev_pts + pts_correction}

ReadInv ==
    /\ demRet = "packet" => demPkt \in Stream
    /\ demPc \in {"time", "post"} => demRet \in {"packet", "unwanted"}
    /\ prev_pts = AV_NOPTS_VALUE <=> pts_correction = AV_NOPTS_VALUE
    /\ prev_pts # AV_NOPTS_VALUE => prev_pts + pts_correction >= 0

IsPacket(m) == m.type = "POST_PACKET"
Handled     == decPc = "handle" /\ IsPacket(decMsg)
Waiting     == {i \in 1..Len(queue.msgs) : IsPacket(queue.msgs[i])}
Pts(i)      == queue.msgs[i].pkt.pts

(* Packets come to the decoder in the order of their timestamps.           *)
OrderInv ==
    /\ \A i \in Waiting : queue.msgs[i].pkt \in Arrived
    /\ \A i, j \in Waiting : i < j => Pts(i) <= Pts(j)
    /\ Handled => decMsg.pkt \in Arrived
    /\ Handled => \A i \in Waiting : decMsg.pkt.pts <= Pts(i)

(* The last packet that was decoded; those to come are not older.          *)
LastPacket == [pts |-> expected_pts - last_frame_size, dur |-> last_frame_size]
LastInv ==
    expected_pts # AV_NOPTS_VALUE =>
        /\ LastPacket \in Arrived
        /\ \A i \in Waiting : LastPacket.pts <= Pts(i)
        /\ Handled => LastPacket.pts <= decMsg.pkt.pts

(* What is given out is a timeline that ends with that packet.             *)
Follows(b, a) ==
    \/ b = a
    \/ a.pts + a.dur <= b.pts /\ b.pts < a.pts + 2 * a.dur
Timeline(s) == \A i \in 1..(Len(s) - 1) : Follows(s[i + 1], s[i])
Given == decoded \o out
GivenInv ==
    "decode" \notin faults =>
        /\ Timeline(Given)
        /\ Given = <<>> <=> expected_pts = AV_NOPTS_VALUE
        /\ Given # <<>> => Given[Len(Given)] = LastPacket

-----------------------------------------------------------------------------
(* Type correctness.                                                       *)

DecQueue == BoundedQueue(Messages, DEFAULT_MESSAGE_QUEUE_SIZE)
BufQueue == BoundedQueue(Frames, CALLBACK_QUEUE_SIZE)

LEMMA TypeParts ==
    TypeOK <=> /\ queue \in DecQueue /\ cbQ \in BufQueue
               /\ DemTypes /\ DecTypes /\ JsTypes /\ HistoryTypes
BY DEF TypeOK, BoundedQueue, DecQueue, BufQueue

LEMMA TypePartsPrimed ==
    TypeOK' <=> /\ queue' \in DecQueue /\ cbQ' \in BufQueue
                /\ DemTypes' /\ DecTypes' /\ JsTypes' /\ HistoryTypes'
BY DEF TypeOK, BoundedQueue, DecQueue, BufQueue

LEMMA Sizes == DEFAULT_MESSAGE_QUEUE_SIZE \in Nat /\ CALLBACK_QUEUE_SIZE \in Nat
BY ConsumeRtpAssumption

LEMMA NoTimestamp == AV_NOPTS_VALUE \in Int /\ AV_NOPTS_VALUE < 0
BY SMT DEF AV_NOPTS_VALUE

LEMMA MessageTypes ==
    /\ Params \in Messages /\ Tick \in Messages
    /\ \A t \in StartTimes : [type |-> t] \in Messages
    /\ \A p \in Frames : Packet(p) \in Messages
    /\ ~IsPacket(Params) /\ ~IsPacket(Tick)
    /\ \A t \in StartTimes : ~IsPacket([type |-> t])
    /\ \A m \in Messages : IsPacket(m) => m.pkt \in Frames
BY DEF Params, Tick, StartTimes, Packet, Messages, IsPacket

LEMMA TypeInit == Init => TypeOK
<1> SUFFICES ASSUME Init PROVE TypeOK
    OBVIOUS
<1>1. queue \in DecQueue /\ cbQ \in BufQueue
      BY EmptyIsBounded, Sizes DEF Init, InitHandles, DecQueue, BufQueue
<1>2. DemTypes
  <2>1. demPkt \in Frames /\ timesSent \subseteq StartTimes
        BY DEF Init, InitDemuxer, Frames
  <2>2. reads \in 0..MaxReads
        BY ConsumeRtpAssumption DEF Init, InitDemuxer
  <2>3. shutdown \in BOOLEAN
        BY DEF Init, InitDemuxer
  <2> QED BY <2>1, <2>2, <2>3, NoTimestamp DEF Init, InitDemuxer, DemTypes
<1>3. DecTypes
  <2>1. <<>> \in Seq(Frames)
        OBVIOUS
  <2>2. OPUS_FRAME \in Nat \ {0}
        BY DEF OPUS_FRAME
  <2> QED BY <2>1, <2>2, MessageTypes DEF Init, InitDecoder, DecTypes
<1>4. JsTypes
      BY DEF Init, InitHandles, JsTypes
<1>5. HistoryTypes
  <2>1. <<>> \in Seq(Frames)
        OBVIOUS
  <2> QED BY <2>1 DEF Init, HistoryTypes
<1> QED BY <1>1, <1>2, <1>3, <1>4, <1>5, TypeParts

LEMMA FaultTypes ==
    ASSUME NEW kind, HistoryTypes, Fault(kind)
    PROVE  faults' \subseteq Faults
BY DEF HistoryTypes, Fault

(* The demuxer. *)
LEMMA DemuxerTypes ==
    ASSUME TypeOK, ReadInv, DemStep \/ Network
    PROVE  TypeOK'
<1>1. /\ queue \in DecQueue /\ cbQ \in BufQueue
      /\ DemTypes /\ DecTypes /\ JsTypes /\ HistoryTypes
      BY TypeParts
<1>2. UNCHANGED <<cbQ, shutdown, decPc, decData, js, jsData, signals, outputs>>
      BY DEF DemStep, Network
<1>3. cbQ' \in BufQueue
      BY <1>1, <1>2
<1>4. DecTypes'
      BY <1>1, <1>2 DEF DecTypes, decData
<1>5. JsTypes'
      BY <1>1, <1>2 DEF JsTypes, jsData, signals
<1>6. decoded' \in Seq(Frames) /\ queued' \in Seq(Frames) /\ delivered' \in Seq(Frames)
      BY <1>1, <1>2 DEF HistoryTypes, outputs, jsData
<1>7. ASSUME NEW m \in Messages, PostToDecoder(m) PROVE queue' \in DecQueue
      BY <1>1, <1>7, TrySendAppends, Sizes DEF DecQueue, PostToDecoder
<1>8. queue' = queue => queue' \in DecQueue
      BY <1>1
<1> SUFFICES queue' \in DecQueue /\ DemTypes' /\ faults' \subseteq Faults
    BY <1>3, <1>4, <1>5, <1>6, TypePartsPrimed DEF HistoryTypes
<1> HIDE <1>3, <1>4, <1>5, <1>6
<1>10. ASSUME DemOpen PROVE queue' \in DecQueue /\ DemTypes' /\ faults' \subseteq Faults
       BY <1>1, <1>2, <1>10, FaultTypes DEF DemOpen, DemTypes, demData, HistoryTypes
<1>11. ASSUME DemParams PROVE queue' \in DecQueue /\ DemTypes' /\ faults' \subseteq Faults
  <2>1. CanSend(queue, DEFAULT_MESSAGE_QUEUE_SIZE) => Send(queue, Params) \in DecQueue
        BY <1>1, SendAppends, MessageTypes, Sizes DEF DecQueue
  <2> QED BY <1>1, <1>2, <1>11, <2>1 DEF DemParams, DemTypes, demData, HistoryTypes
<1>12. ASSUME DemRead PROVE queue' \in DecQueue /\ DemTypes' /\ faults' \subseteq Faults
       BY <1>1, <1>2, <1>12, ConsumeRtpAssumption DEF DemRead, DemTypes, HistoryTypes
<1>13. ASSUME DemInterrupted
       PROVE queue' \in DecQueue /\ DemTypes' /\ faults' \subseteq Faults
       BY <1>1, <1>2, <1>13 DEF DemInterrupted, DemTypes, HistoryTypes
<1>14. ASSUME DemTick PROVE queue' \in DecQueue /\ DemTypes' /\ faults' \subseteq Faults
       BY <1>1, <1>2, <1>7, <1>14, MessageTypes DEF DemTick, DemTypes, demData, HistoryTypes
<1>15. ASSUME DemCheck PROVE queue' \in DecQueue /\ DemTypes' /\ faults' \subseteq Faults
       BY <1>1, <1>2, <1>15 DEF DemCheck, DemTypes, demData, HistoryTypes
<1>16. ASSUME DemTime PROVE queue' \in DecQueue /\ DemTypes' /\ faults' \subseteq Faults
  <2>1. TimeDue \in StartTimes
        BY DEF TimeDue, StartTimes
  <2>2. queue' \in DecQueue
        BY <1>7, <1>16, <2>1, MessageTypes DEF DemTime
  <2> QED BY <1>1, <1>2, <1>16, <2>1, <2>2 DEF DemTime, DemTypes, HistoryTypes
<1>17. ASSUME DemPost PROVE queue' \in DecQueue /\ DemTypes' /\ faults' \subseteq Faults
  <2>1. Correction \in Nat
        BY <1>1 DEF Correction, DemTypes, Frames
  <2> DEFINE p == [demPkt EXCEPT !.pts = @ + Correction]
  <2>2. p \in Frames
        BY <1>1, <2>1 DEF DemTypes, Frames
  <2>3. queue' \in DecQueue
        BY <1>7, <1>8, <1>17, <2>2, MessageTypes DEF DemPost
  <2>4. prev_pts' \in Int /\ pts_correction' \in Nat \cup {AV_NOPTS_VALUE}
        BY <1>1, <1>17, <2>1 DEF DemPost, DemTypes, Frames
  <2>5. demPc' \in {"read", "exit"}
        BY <1>17 DEF DemPost
  <2> QED BY <1>1, <1>2, <1>17, <2>3, <2>4, <2>5 DEF DemPost, DemTypes, HistoryTypes
<1>18. ASSUME DemExit PROVE queue' \in DecQueue /\ DemTypes' /\ faults' \subseteq Faults
  <2>1. queue' \in DecQueue
        BY <1>1, <1>18, CloseKeepsMessages DEF DemExit, DecQueue
  <2> QED BY <1>1, <1>2, <1>18, <2>1 DEF DemExit, DemTypes, demData, HistoryTypes
<1> QED BY <1>10, <1>11, <1>12, <1>13, <1>14, <1>15, <1>16, <1>17, <1>18
           DEF DemStep, Network

(* The decoder.  What it gives out for a packet: the concealed frames, of  *)
(* the size of the last one, and the packet.                               *)
LEMMA Division ==
    ASSUME NEW a \in Nat, NEW b \in Nat \ {0}
    PROVE  a \div b \in Nat /\ b * (a \div b) <= a /\ a < b * (a \div b) + b
BY Z3

LEMMA MissingIsNat ==
    ASSUME DecTypes, NEW pts \in Int
    PROVE  MissingFrames(pts) \in Nat
BY Division DEF DecTypes, MissingFrames

LEMMA ConcealedFrames ==
    ASSUME DecTypes, NEW pkt \in Frames
    PROVE  LET n == MissingFrames(pkt.pts)
               frames == Append(Concealed(pkt.pts), pkt)
           IN /\ n \in Nat
              /\ frames \in Seq(Frames) /\ Len(frames) = n + 1
              /\ frames[n + 1] = pkt
              /\ \A i \in 1..n :
                    frames[i] = [pts |-> expected_pts + (i - 1) * last_frame_size,
                                 dur |-> last_frame_size]
<1> DEFINE n == MissingFrames(pkt.pts)
<1> DEFINE frame(i) == [pts |-> expected_pts + (i - 1) * last_frame_size,
                        dur |-> last_frame_size]
<1> DEFINE c == [i \in 1..n |-> frame(i)]
<1>1. pkt.pts \in Int /\ n \in Nat
      BY MissingIsNat DEF Frames
<1>2. expected_pts \in Int /\ last_frame_size \in Nat \ {0}
      BY NoTimestamp DEF DecTypes
<1>3. Concealed(pkt.pts) = c
      BY DEF Concealed
<1> HIDE DEF n
<1>4. \A i \in 1..n : frame(i) \in Frames
  <2> SUFFICES ASSUME NEW i \in 1..n PROVE frame(i) \in Frames
      OBVIOUS
  <2>1. (i - 1) * last_frame_size \in Int
        BY <1>1, <1>2
  <2> QED BY <1>2, <2>1 DEF Frames
<1> HIDE DEF frame
<1>5. c \in Seq(Frames) /\ Len(c) = n
      BY <1>1, <1>4
<1>6. \A i \in 1..n : c[i] = frame(i)
      OBVIOUS
<1> HIDE DEF c
<1>7. /\ Append(c, pkt) \in Seq(Frames) /\ Len(Append(c, pkt)) = n + 1
      /\ Append(c, pkt)[n + 1] = pkt /\ \A i \in 1..n : Append(c, pkt)[i] = c[i]
      BY <1>5, AppendProperties
<1> QED BY <1>1, <1>3, <1>6, <1>7 DEF frame, n

LEMMA DecoderTypes ==
    ASSUME TypeOK, CallbackInv, Handled => decMsg.pkt \in Arrived, Decoder
    PROVE  TypeOK'
<1>1. /\ queue \in DecQueue /\ cbQ \in BufQueue
      /\ DemTypes /\ DecTypes /\ JsTypes /\ HistoryTypes
      BY TypeParts
<1>2. UNCHANGED <<demData, js, jsData>>
      BY DEF Decoder
<1> DEFINE Rest == /\ queue' \in DecQueue /\ cbQ' \in BufQueue /\ DecTypes'
                   /\ demPc' \in {demPc, "open"} /\ shutdown' \in BOOLEAN
                   /\ cbPending' \in BOOLEAN /\ finPending' \in BOOLEAN
                   /\ decoded' \in Seq(Frames) /\ queued' \in Seq(Frames)
                   /\ faults' \subseteq Faults
<1>3. SUFFICES Rest
  <2>1. Rest => DemTypes'
        BY <1>1, <1>2 DEF DemTypes, demData
  <2>2. Rest => JsTypes'
        BY <1>1, <1>2 DEF JsTypes, jsData
  <2>3. Rest => HistoryTypes'
        BY <1>1, <1>2 DEF HistoryTypes, jsData
  <2> QED BY <2>1, <2>2, <2>3, TypePartsPrimed
<1>4. ASSUME UNCHANGED <<decData, outputs>>, decPc' \in {"start", "recv", "handle", "emit",
                  "notify", "finish", "finishNotify", "close", "stop", "join", "finSend",
                  "finRecv", "finAsync", "done", "crashed"}
      PROVE  DecTypes' /\ decoded' \in Seq(Frames) /\ queued' \in Seq(Frames)
      BY <1>1, <1>4 DEF DecTypes, decData, HistoryTypes, outputs
<1>5. shutdown \in BOOLEAN /\ cbPending \in BOOLEAN /\ finPending \in BOOLEAN
      /\ faults \subseteq Faults
      BY <1>1 DEF DemTypes, JsTypes, HistoryTypes
<1>6. /\ SetErrSend(queue) \in DecQueue /\ SetErrRecv(queue) \in DecQueue
      /\ SetErrRecv(cbQ) \in BufQueue
      BY <1>1, CloseKeepsMessages DEF DecQueue, BufQueue
<1>10. ASSUME DecStart PROVE Rest
       BY <1>1, <1>4, <1>5, <1>10, FaultTypes DEF DecStart, signals
<1>11. ASSUME DecRecv PROVE Rest
  <2>1. CanRecv(queue) => Recv(queue) \in DecQueue /\ Head(queue.msgs) \in Messages
        BY <1>1, RecvTakesHead, Sizes DEF DecQueue
  <2>2. queue' \in DecQueue /\ decMsg' \in Messages
        BY <1>1, <1>11, <2>1 DEF DecRecv, DecTypes
  <2>3. DecTypes'
        BY <1>1, <1>11, <2>2 DEF DecRecv, DecTypes
  <2> QED BY <1>1, <1>5, <1>11, <2>2, <2>3 DEF DecRecv, signals, outputs, HistoryTypes
<1>12. ASSUME DecOther PROVE Rest
  <2>1. DecTypes'
        BY <1>1, <1>12 DEF DecOther, DecTypes
  <2>2. faults' \subseteq Faults
        BY <1>1, <1>5, <1>12, FaultTypes DEF DecOther
  <2> QED BY <1>1, <1>5, <1>12, <2>1, <2>2 DEF DecOther, signals, outputs, HistoryTypes
<1>13. ASSUME DecPacket PROVE Rest
  <2> DEFINE frames == Append(Concealed(decMsg.pkt.pts), decMsg.pkt)
  <2> DEFINE last == Len(frames)
  <2>1. decMsg.pkt \in Frames /\ decMsg.pkt.pts >= 0
        BY <1>13 DEF DecPacket, Handled, IsPacket, Arrived
  <2>2. frames \in Seq(Frames) /\ last \in Nat
        BY <1>1, <2>1, ConcealedFrames
  <2> HIDE DEF frames
  <2>3. decMsg.pkt.pts + decMsg.pkt.dur \in Nat /\ decMsg.pkt.dur \in Nat \ {0}
        BY <2>1 DEF Frames
  <2>4. /\ faults' \subseteq Faults /\ decPc' \in {"emit", "recv"}
        /\ expected_pts' \in Nat \cup {AV_NOPTS_VALUE} /\ last_frame_size' \in Nat \ {0}
        BY <1>1, <1>5, <1>13, <2>3, FaultTypes DEF DecPacket, DecTypes
  <2>5. out' \in Seq(Frames)
    <3>1. ASSUME NEW n \in 0..(last - 1), NEW good \in Increasing(n, last)
          PROVE  [i \in 1..n |-> frames[good[i]]] \in Seq(Frames)
      <4>1. \A i \in 1..n : frames[good[i]] \in Frames
            BY <2>2, ElementOfSeq DEF Increasing
      <4>2. n \in Nat
            BY <2>2
      <4> HIDE DEF last
      <4> QED BY <4>1, <4>2
    <3>2. \/ out' = frames
          \/ \E n \in 0..(last - 1) : \E good \in Increasing(n, last) :
                out' = [i \in 1..n |-> frames[good[i]]]
          BY <1>13 DEF DecPacket, frames
    <3> QED BY <2>2, <3>1, <3>2
  <2>6. UNCHANGED <<queue, cbQ, demPc, shutdown, decMsg, decoder, signals, outputs>>
        BY <1>13 DEF DecPacket
  <2> QED BY <1>1, <1>5, <2>4, <2>5, <2>6 DEF DecTypes, signals, outputs, HistoryTypes
<1>14. ASSUME DecEmit PROVE Rest
  <2>1. out \in Seq(Frames) /\ out # <<>>
        BY <1>1, <1>14 DEF DecEmit, DecTypes, CallbackInv
  <2>2. Head(out) \in Frames /\ Tail(out) \in Seq(Frames)
        BY <2>1, TailProperties
  <2>3. cbQ' \in BufQueue
        BY <1>1, <1>14, <2>2, TrySendAppends, Sizes DEF DecEmit, BufQueue
  <2>4. decoded' \in Seq(Frames) /\ queued' \in Seq(Frames)
    <3>1. \A s \in Seq(Frames) : Append(s, Head(out)) \in Seq(Frames)
          BY <2>2, AppendProperties
    <3> QED BY <1>1, <1>14, <3>1 DEF DecEmit, HistoryTypes
  <2>5. DecTypes'
        BY <1>1, <1>14, <2>2 DEF DecEmit, DecTypes, AfterOutput
  <2> QED BY <1>1, <1>5, <1>14, <2>3, <2>4, <2>5 DEF DecEmit, signals
<1>15. ASSUME DecNotify PROVE Rest
       BY <1>1, <1>4, <1>5, <1>15 DEF DecNotify, AfterOutput
<1>16. ASSUME DecFinish PROVE Rest
       BY <1>1, <1>4, <1>5, <1>6, <1>16 DEF DecFinish, signals
<1>17. ASSUME DecFinishNotify PROVE Rest
       BY <1>1, <1>4, <1>5, <1>17 DEF DecFinishNotify
<1>18. ASSUME DecClose PROVE Rest
       BY <1>1, <1>4, <1>5, <1>6, <1>18 DEF DecClose, signals
<1>19. ASSUME DecStop PROVE Rest
       BY <1>1, <1>4, <1>5, <1>19 DEF DecStop, signals
<1>20. ASSUME DecJoin PROVE Rest
       BY <1>1, <1>4, <1>5, <1>20 DEF DecJoin, signals
<1>21. ASSUME DecFinSend \/ DecFinRecv PROVE Rest
       BY <1>1, <1>4, <1>5, <1>6, <1>21 DEF DecFinSend, DecFinRecv, signals
<1>22. ASSUME DecFinAsync PROVE Rest
       BY <1>1, <1>4, <1>5, <1>22 DEF DecFinAsync
<1> QED BY <1>10, <1>11, <1>12, <1>13, <1>14, <1>15, <1>16, <1>17, <1>18, <1>19, <1>20,
           <1>21, <1>22 DEF Decoder

(* The JavaScript thread. *)
LEMMA EventLoopTypes ==
    ASSUME TypeOK, EventLoop \/ RaiseSignal
    PROVE  TypeOK'
<1>1. /\ queue \in DecQueue /\ cbQ \in BufQueue
      /\ DemTypes /\ DecTypes /\ JsTypes /\ HistoryTypes
      BY TypeParts
<1>2. UNCHANGED <<demPc, demData, shutdown, decPc, decData, outputs>>
      BY DEF EventLoop, RaiseSignal
<1>3. DemTypes' /\ DecTypes'
      BY <1>1, <1>2 DEF DemTypes, DecTypes, demData, decData
<1>4. decoded' \in Seq(Frames) /\ queued' \in Seq(Frames)
      BY <1>1, <1>2 DEF HistoryTypes, outputs
<1> DEFINE Rest == /\ queue' \in DecQueue /\ cbQ' \in BufQueue /\ JsTypes'
                   /\ delivered' \in Seq(Frames) /\ faults' \subseteq Faults
<1>5. SUFFICES Rest
      BY <1>3, <1>4, TypePartsPrimed DEF HistoryTypes
<1>6. delivered \in Seq(Frames) /\ faults \subseteq Faults
      BY <1>1 DEF HistoryTypes
<1>7. SetErrSend(queue) \in DecQueue /\ SetErrRecv(queue) \in DecQueue
      BY <1>1, CloseKeepsMessages DEF DecQueue
<1>10. ASSUME Abort PROVE Rest
       BY <1>1, <1>6, <1>7, <1>10 DEF Abort, JsTypes, signals
<1>11. ASSUME AbortRecv PROVE Rest
       BY <1>1, <1>6, <1>7, <1>11 DEF AbortRecv, JsTypes, signals
<1>12. ASSUME BufferReady PROVE Rest
       BY <1>1, <1>6, <1>12 DEF BufferReady, JsTypes, jsData
<1>13. ASSUME Deliver PROVE Rest
  <2>1. cbQ' \in BufQueue /\ Head(cbQ.msgs) \in Frames
        BY <1>1, <1>13, RecvTakesHead, Sizes DEF Deliver, BufQueue
  <2>2. Append(delivered, Head(cbQ.msgs)) \in Seq(Frames)
        BY <1>6, <2>1, AppendProperties
  <2>3. delivered' \in Seq(Frames) /\ faults' \subseteq Faults
        BY <1>1, <1>6, <1>13, <2>2, FaultTypes DEF Deliver
  <2>4. JsTypes'
        BY <1>1, <1>13 DEF Deliver, JsTypes, signals
  <2> QED BY <1>1, <1>13, <2>1, <2>3, <2>4 DEF Deliver
<1>14. ASSUME DeliverEnd PROVE Rest
  <2>1. callbackRef' \in BOOLEAN
        BY <1>1, <1>14 DEF DeliverEnd, JsTypes
  <2> QED BY <1>1, <1>6, <1>14, <2>1 DEF DeliverEnd, JsTypes, signals
<1>15. ASSUME ThreadFinished PROVE Rest
       BY <1>1, <1>6, <1>15 DEF ThreadFinished, JsTypes, jsData
<1>16. ASSUME CleanupEnd PROVE Rest
  <2>1. callbackRef' \in BOOLEAN
        BY <1>1, <1>16 DEF CleanupEnd, JsTypes
  <2> QED BY <1>1, <1>6, <1>16, <2>1 DEF CleanupEnd, JsTypes, signals
<1> QED BY <1>10, <1>11, <1>12, <1>13, <1>14, <1>15, <1>16 DEF EventLoop, RaiseSignal

LEMMA StutterTypes == TypeOK /\ UNCHANGED vars => TypeOK'
BY DEF vars, TypeOK, DemTypes, DecTypes, JsTypes, HistoryTypes, demData, decData, jsData,
       signals, outputs

-----------------------------------------------------------------------------
(* Shutdown.                                                               *)

LEMMA ThreadsKept ==
    ASSUME TypeOK, ThreadsInv, [Next]_vars
    PROVE  ThreadsInv'
<1>1. CASE DemStep \/ Network
  <2>1. UNCHANGED <<decPc, finPending, js, cbOpen, promise>>
        BY <1>1 DEF DemStep, Network, jsData, signals
  <2>2. demPc # "none" /\ demPc # "done"
        BY <1>1 DEF DemStep, Network, DemOpen, DemParams, DemRead, DemInterrupted, DemTick,
                    DemCheck, DemTime, DemPost, DemExit
  <2> QED BY <2>1, <2>2 DEF ThreadsInv
<1>2. CASE Decoder
  <2>1. UNCHANGED <<js, cbOpen, promise>> /\ decPc # "done"
        BY <1>2 DEF Decoder, jsData, DecStart, DecRecv, DecOther, DecPacket, DecEmit, DecNotify,
                    DecFinish, DecFinishNotify, DecClose, DecStop, DecJoin, DecFinSend,
                    DecFinRecv, DecFinAsync
  <2>2. CASE DecStart
        BY <2>1, <2>2 DEF DecStart, ThreadsInv, signals
  <2>3. CASE DecRecv \/ DecOther \/ DecPacket \/ DecEmit \/ DecNotify \/ DecFinish
             \/ DecFinishNotify \/ DecClose \/ DecStop \/ DecJoin
    <3>1. UNCHANGED <<demPc, finPending>> /\ decPc # "done"
          BY <2>3 DEF DecRecv, DecOther, DecPacket, DecEmit, DecNotify, DecFinish,
                      DecFinishNotify, DecClose, DecStop, DecJoin, signals
    <3>2. /\ decPc' \notin {"start", "finRecv", "finAsync", "done"}
          /\ decPc' = "finSend" => demPc = "done"
          BY <2>3 DEF DecRecv, DecOther, DecPacket, DecEmit, DecNotify, DecFinish, AfterOutput,
                      DecFinishNotify, DecClose, DecStop, DecJoin
    <3> QED BY <2>1, <3>1, <3>2 DEF ThreadsInv
  <2>4. CASE DecFinSend \/ DecFinRecv \/ DecFinAsync
        BY <2>1, <2>4 DEF DecFinSend, DecFinRecv, DecFinAsync, ThreadsInv, signals
  <2> QED BY <1>2, <2>2, <2>3, <2>4 DEF Decoder
<1>3. CASE EventLoop \/ RaiseSignal
  <2>1. UNCHANGED <<demPc, decPc>>
        BY <1>3 DEF EventLoop, RaiseSignal
  <2>2. /\ finPending' => finPending
        /\ js' = "cleanup" => finPending \/ js = "cleanup"
        /\ ~cbOpen' => ~cbOpen \/ js = "cleanup"
        /\ promise' = "resolved" => promise = "resolved" \/ js = "cleanup"
        BY <1>3 DEF EventLoop, RaiseSignal, Abort, AbortRecv, BufferReady, Deliver, DeliverEnd,
                    ThreadFinished, CleanupEnd, jsData, signals
  <2> QED BY <2>1, <2>2 DEF ThreadsInv
<1>4. CASE UNCHANGED vars
      BY <1>4 DEF ThreadsInv, vars, jsData, signals
<1> QED BY <1>1, <1>2, <1>3, <1>4 DEF Next, Terminated

-----------------------------------------------------------------------------
(* What the threads do to the messages in the decoder's queue.             *)

Posted == Packet([demPkt EXCEPT !.pts = @ + Correction])

LEMMA PostedType ==
    ASSUME TypeOK
    PROVE  /\ Posted \in Messages /\ IsPacket(Posted) /\ Correction \in Nat
           /\ Posted.pkt = [pts |-> demPkt.pts + Correction, dur |-> demPkt.dur]
<1>1. DemTypes
      BY DEF TypeOK
<1>2. Correction \in Nat
      BY <1>1 DEF Correction, DemTypes, Frames
<1> DEFINE p == [demPkt EXCEPT !.pts = @ + Correction]
<1>3. p \in Frames /\ p = [pts |-> demPkt.pts + Correction, dur |-> demPkt.dur]
      BY <1>1, <1>2 DEF DemTypes, Frames
<1> HIDE DEF p
<1>4. Posted \in Messages /\ Posted.pkt = p /\ IsPacket(Posted)
      BY <1>3, MessageTypes DEF Packet, IsPacket, Posted, p
<1> QED BY <1>2, <1>3, <1>4

Reading == {"read", "tick", "check", "time", "post"}

LEMMA DemuxerPosts ==
    ASSUME TypeOK, DemStep \/ Network
    PROVE  \/ /\ queue'.msgs = queue.msgs
              /\ demPc' \in {"exit", "done"} \/ {demPc, demPc'} \subseteq Reading
           \/ queue'.msgs = queue.msgs /\ demPc' = "params" /\ demPc = "open"
           \/ demPc = "params" /\ queue'.msgs = Append(queue.msgs, Params)
              /\ demPc' \in {"read", "exit"}
           \/ demPc \in Reading /\ demPc' \in Reading \cup {"exit"}
              /\ \E m \in Messages : /\ IsPacket(m) => DemPost /\ ~Unwanted /\ m = Posted
                                     /\ queue'.msgs = Append(queue.msgs, m)
<1>1. queue \in DecQueue
      BY TypeParts
<1>2. ASSUME NEW m \in Messages, PostToDecoder(m)
      PROVE  queue'.msgs = queue.msgs \/ queue'.msgs = Append(queue.msgs, m)
      BY <1>1, <1>2, TrySendAppends, Sizes DEF DecQueue, PostToDecoder
<1>3. CASE DemOpen \/ DemRead \/ DemInterrupted \/ DemCheck
      BY <1>3 DEF DemOpen, DemRead, DemInterrupted, DemCheck, Reading
<1>4. CASE DemParams
  <2>1. CASE CanSend(queue, DEFAULT_MESSAGE_QUEUE_SIZE) /\ queue' = Send(queue, Params)
        BY <1>1, <1>4, <2>1, SendAppends, MessageTypes, Sizes DEF DecQueue, DemParams, Reading
  <2> QED BY <1>4, <2>1 DEF DemParams, Reading
<1>5. CASE DemTick
      BY <1>2, <1>5, MessageTypes DEF DemTick, Reading
<1>6. CASE DemTime
  <2>1. TimeDue \in StartTimes
        BY DEF TimeDue, StartTimes
  <2>2. [type |-> TimeDue] \in Messages /\ ~IsPacket([type |-> TimeDue])
        BY <2>1, MessageTypes
  <2> QED BY <1>2, <1>6, <2>2 DEF DemTime, Reading
<1>7. CASE DemPost
  <2>1. Unwanted => queue' = queue
        BY <1>7 DEF DemPost
  <2>2. ~Unwanted => queue'.msgs = queue.msgs \/ queue'.msgs = Append(queue.msgs, Posted)
        BY <1>2, <1>7, PostedType DEF DemPost, Posted
  <2> QED BY <1>7, <2>1, <2>2, PostedType DEF DemPost, Reading
<1>8. CASE DemExit
      BY <1>1, <1>8, CloseKeepsMessages DEF DemExit, DecQueue, Reading
<1> QED BY <1>3, <1>4, <1>5, <1>6, <1>7, <1>8 DEF DemStep, Network

LEMMA DecoderTakes ==
    ASSUME TypeOK, Decoder
    PROVE  \/ queue'.msgs = queue.msgs
              /\ (decPc' \in {"recv", "handle"} => decMsg' = decMsg)
              /\ decPc' # "handle"
           \/ /\ decPc = "recv" /\ decPc' = "handle" /\ queue.msgs # <<>>
              /\ decMsg' = Head(queue.msgs) /\ queue'.msgs = Tail(queue.msgs)
<1>1. queue \in DecQueue
      BY TypeParts
<1>2. CASE DecRecv
      BY <1>1, <1>2, RecvTakesHead, Sizes DEF DecRecv, DecQueue, CanRecv
<1>3. CASE DecClose \/ DecFinSend \/ DecFinRecv
      BY <1>1, <1>3, CloseKeepsMessages DEF DecClose, DecFinSend, DecFinRecv, DecQueue
<1>4. CASE DecStart \/ DecOther \/ DecPacket \/ DecEmit \/ DecNotify \/ DecFinish
           \/ DecFinishNotify \/ DecStop \/ DecJoin \/ DecFinAsync
      BY <1>4 DEF DecStart, DecOther, DecPacket, DecEmit, DecNotify, DecFinish, AfterOutput,
                  DecFinishNotify, DecStop, DecJoin, DecFinAsync, decData
<1> QED BY <1>2, <1>3, <1>4 DEF Decoder

LEMMA EventLoopKeepsMessages ==
    ASSUME TypeOK, EventLoop \/ RaiseSignal
    PROVE  queue'.msgs = queue.msgs
<1>1. queue \in DecQueue
      BY TypeParts
<1> QED BY <1>1, CloseKeepsMessages
        DEF EventLoop, RaiseSignal, Abort, AbortRecv, BufferReady, Deliver, DeliverEnd,
            ThreadFinished, CleanupEnd, DecQueue

-----------------------------------------------------------------------------
(* The codec parameters come first.                                        *)

LEMMA ParamsKept ==
    ASSUME TypeOK, ThreadsInv, ParamsInv, [Next]_vars
    PROVE  ParamsInv'
<1>1. queue.msgs \in Seq(Messages) /\ Params \in Messages
      BY MessageTypes, TypeParts DEF DecQueue, BoundedQueue, QueueOf
<1>2. CASE DemStep \/ Network
  <2>1. UNCHANGED <<decPc, decMsg, decoder>>
        BY <1>2 DEF DemStep, Network, decData
  <2>2. demPc # "none"
        BY <1>2 DEF DemStep, Network, DemOpen, DemParams, DemRead, DemInterrupted, DemTick,
                    DemCheck, DemTime, DemPost, DemExit
  <2>3. CASE queue'.msgs = queue.msgs /\ (\/ demPc' \in {"exit", "done"}
                                          \/ {demPc, demPc'} \subseteq Reading
                                          \/ demPc' = "params" /\ demPc = "open")
        BY <2>1, <2>3 DEF ParamsInv, Reading
  <2>4. ASSUME NEW m \in Messages, queue'.msgs = Append(queue.msgs, m)
        PROVE  /\ queue'.msgs # <<>>
               /\ Head(queue'.msgs) = IF queue.msgs = <<>> THEN m ELSE Head(queue.msgs)
        BY <1>1, <2>4, AppendProperties, HeadTailAppend
  <2>5. CASE demPc = "params" /\ queue'.msgs = Append(queue.msgs, Params)
             /\ demPc' \in {"read", "exit"}
        BY <1>1, <2>1, <2>4, <2>5 DEF ParamsInv
  <2>6. CASE /\ demPc \in Reading /\ demPc' \in Reading \cup {"exit"}
             /\ \E m \in Messages : queue'.msgs = Append(queue.msgs, m)
        BY <1>1, <2>1, <2>4, <2>6 DEF ParamsInv, Reading
  <2> QED BY <1>2, <2>3, <2>5, <2>6, DemuxerPosts
<1>3. CASE Decoder
  <2>1. CASE DecStart
        BY <2>1 DEF DecStart, ParamsInv, ThreadsInv, decData
  <2>2. CASE DecRecv
        BY <1>1, <1>3, <2>2, DecoderTakes DEF DecRecv, ParamsInv
  <2>3. CASE DecOther
        BY <2>3 DEF DecOther, ParamsInv
  <2>4. CASE DecPacket \/ DecEmit \/ DecNotify
        BY <2>4 DEF DecPacket, DecEmit, DecNotify, ParamsInv, AfterOutput, decData
  <2>5. CASE \/ DecFinish \/ DecFinishNotify \/ DecClose \/ DecStop \/ DecJoin
             \/ DecFinSend \/ DecFinRecv \/ DecFinAsync
    <3>1. UNCHANGED demPc /\ decPc' \notin {"start", "recv", "handle", "emit", "notify"}
          BY <2>5 DEF DecFinish, DecFinishNotify, DecClose, DecStop, DecJoin, DecFinSend,
                      DecFinRecv, DecFinAsync
    <3>2. queue'.msgs = queue.msgs
          BY <1>3, <3>1, DecoderTakes
    <3> QED BY <3>1, <3>2 DEF ParamsInv
  <2> QED BY <1>3, <2>1, <2>2, <2>3, <2>4, <2>5 DEF Decoder
<1>4. CASE EventLoop \/ RaiseSignal
  <2>1. UNCHANGED <<decPc, decMsg, decoder, demPc>>
        BY <1>4 DEF EventLoop, RaiseSignal, decData
  <2> QED BY <1>4, <2>1, EventLoopKeepsMessages DEF ParamsInv
<1>5. CASE UNCHANGED vars
      BY <1>5 DEF ParamsInv, vars, decData
<1> QED BY <1>2, <1>3, <1>4, <1>5 DEF Next, Terminated

-----------------------------------------------------------------------------
(* The callback queue.                                                     *)

Ended == {"finishNotify", "close", "stop", "join", "finSend", "finRecv", "finAsync", "done",
          "crashed"}

LEMMA CallbackKept ==
    ASSUME TypeOK, CallbackInv, [Next]_vars
    PROVE  CallbackInv'
<1>1. cbQ \in BufQueue /\ out \in Seq(Frames)
      BY TypeParts DEF DecTypes
<1>2. CASE DemStep \/ Network
      BY <1>2 DEF DemStep, Network, CallbackInv, decData, jsData
<1>3. CASE Decoder
  <2>1. UNCHANGED callbackRef
        BY <1>3 DEF Decoder, jsData
  <2>2. CASE DecStart \/ DecRecv \/ DecOther \/ DecClose \/ DecStop \/ DecJoin
             \/ DecFinSend \/ DecFinRecv \/ DecFinAsync \/ DecFinishNotify
    <3>1. UNCHANGED <<cbQ, out>>
          BY <2>2 DEF DecStart, DecRecv, DecOther, DecClose, DecStop, DecJoin, DecFinSend,
                      DecFinRecv, DecFinAsync, DecFinishNotify, decData
    <3>2. decPc \notin {"emit", "notify"} /\ decPc' \notin {"emit", "notify"}
          BY <2>2 DEF DecStart, DecRecv, DecOther, DecClose, DecStop, DecJoin, DecFinSend,
                      DecFinRecv, DecFinAsync, DecFinishNotify
    <3>3. decPc \in Ended => decPc' \in Ended
          BY <2>2 DEF DecStart, DecRecv, DecOther, DecClose, DecStop, DecJoin, DecFinSend,
                      DecFinRecv, DecFinAsync, DecFinishNotify, Ended
    <3> QED BY <2>1, <3>1, <3>2, <3>3 DEF CallbackInv, Ended
  <2>3. CASE DecPacket
    <3> DEFINE frames == Append(Concealed(decMsg.pkt.pts), decMsg.pkt)
    <3>1. frames \in Seq(Frames) /\ frames # <<>> /\ Len(frames) \in Nat
      <4>1. decMsg.pkt \in Frames /\ DecTypes
            BY <2>3, TypeParts, MessageTypes DEF DecPacket, DecTypes, IsPacket
      <4>2. frames \in Seq(Frames) /\ MissingFrames(decMsg.pkt.pts) \in Nat
            /\ Len(frames) = MissingFrames(decMsg.pkt.pts) + 1
            BY <4>1, ConcealedFrames
      <4> HIDE DEF frames
      <4> QED BY <4>2, EmptySeq
    <3> HIDE DEF frames
    <3>2. ASSUME NEW n \in Nat, NEW good
          PROVE  [i \in 1..n |-> frames[good[i]]] = <<>> <=> n = 0
      <4> DEFINE f == [i \in 1..n |-> frames[good[i]]]
      <4>1. n = 0 => f = <<>>
            OBVIOUS
      <4>2. n > 0 => 1 \in DOMAIN f /\ DOMAIN <<>> = {}
            OBVIOUS
      <4> QED BY <4>1, <4>2
    <3>3. \/ out' = frames /\ decPc' = "emit"
          \/ \E n \in 0..(Len(frames) - 1) : \E good :
                /\ out' = [i \in 1..n |-> frames[good[i]]]
                /\ decPc' = IF n = 0 THEN "recv" ELSE "emit"
          BY <2>3 DEF DecPacket, frames
    <3>4. (decPc' = "emit" /\ out' # <<>>) \/ (decPc' = "recv" /\ out' = <<>>)
          BY <3>1, <3>2, <3>3
    <3> QED BY <2>1, <2>3, <3>4 DEF DecPacket, CallbackInv
  <2>4. CASE DecEmit
    <3>1. decPc' = "emit" => out' # <<>>
          BY <2>4 DEF DecEmit, AfterOutput
    <3>2. decPc' \in {"emit", "notify"} \/ out' = <<>>
          BY <2>4 DEF DecEmit, AfterOutput
    <3>3. ~cbQ.err_recv
          BY <2>4 DEF DecEmit, CallbackInv
    <3>4. ~cbQ'.err_recv
          BY <1>1, <2>4, <3>3 DEF DecEmit, TrySend, Send, BufQueue, BoundedQueue, QueueOf
    <3> QED BY <2>1, <3>1, <3>2, <3>3, <3>4 DEF CallbackInv
  <2>5. CASE DecNotify
        BY <2>1, <2>5 DEF DecNotify, CallbackInv, AfterOutput, decData
  <2>6. CASE DecFinish
    <3>1. cbQ'.msgs = cbQ.msgs /\ cbQ'.err_recv
          BY <1>1, <2>6, CloseKeepsMessages DEF DecFinish, BufQueue
    <3> QED BY <2>1, <2>6, <3>1 DEF DecFinish, CallbackInv, decData
  <2> QED BY <1>3, <2>2, <2>3, <2>4, <2>5, <2>6 DEF Decoder
<1>4. CASE EventLoop \/ RaiseSignal
  <2>1. UNCHANGED <<decPc, out>>
        BY <1>4 DEF EventLoop, RaiseSignal, decData
  <2>2. CASE Abort \/ AbortRecv \/ BufferReady \/ ThreadFinished
        BY <2>1, <2>2 DEF Abort, AbortRecv, BufferReady, ThreadFinished, CallbackInv, jsData
  <2>3. CASE Deliver
    <3>1. cbQ.msgs # <<>> /\ cbQ'.err_recv = cbQ.err_recv
          BY <1>1, <2>3, RecvTakesHead, Sizes DEF Deliver, BufQueue, CanRecv
    <3> QED BY <2>1, <2>3, <3>1 DEF Deliver, CallbackInv
  <2>4. CASE DeliverEnd \/ CleanupEnd
        BY <2>1, <2>4 DEF DeliverEnd, CleanupEnd, CallbackInv, RecvFails
  <2> QED BY <1>4, <2>2, <2>3, <2>4 DEF EventLoop, RaiseSignal
<1>5. CASE UNCHANGED vars
      BY <1>5 DEF CallbackInv, vars, decData, jsData
<1> QED BY <1>2, <1>3, <1>4, <1>5 DEF Next, Terminated

LEMMA FaultsGrow == [Next]_vars => faults \subseteq faults'
<1>1. DemStep \/ Network => faults \subseteq faults'
      BY DEF DemStep, Network, DemOpen, DemParams, DemRead, DemInterrupted, DemTick, DemCheck,
             DemTime, DemPost, DemExit, Fault
<1>2. Decoder => faults \subseteq faults'
      BY DEF Decoder, DecStart, DecRecv, DecOther, DecPacket, DecEmit, DecNotify, DecFinish,
             DecFinishNotify, DecClose, DecStop, DecJoin, DecFinSend, DecFinRecv, DecFinAsync,
             Fault
<1>3. EventLoop \/ RaiseSignal => faults \subseteq faults'
      BY DEF EventLoop, RaiseSignal, Abort, AbortRecv, BufferReady, Deliver, DeliverEnd,
             ThreadFinished, CleanupEnd, Fault
<1> QED BY <1>1, <1>2, <1>3 DEF Next, Terminated, vars

LEMMA AppendToConcat ==
    \A s, t \in Seq(Frames) : \A e \in Frames : Append(s \o t, e) = s \o Append(t, e)
<1> SUFFICES ASSUME NEW s \in Seq(Frames), NEW t \in Seq(Frames), NEW e \in Frames
             PROVE  Append(s \o t, e) = s \o Append(t, e)
    OBVIOUS
<1> QED OBVIOUS

LEMMA DeliveryKept ==
    ASSUME TypeOK, ThreadsInv, CallbackInv, DeliveryInv, [Next]_vars
    PROVE  DeliveryInv'
<1>1. /\ cbQ \in BufQueue /\ cbQ.msgs \in Seq(Frames)
      /\ queued \in Seq(Frames) /\ delivered \in Seq(Frames)
      BY TypeParts DEF BufQueue, BoundedQueue, QueueOf, HistoryTypes
<1>2. "throw" \notin faults' => "throw" \notin faults
      BY FaultsGrow
<1>3. CASE UNCHANGED <<cbQ, queued, delivered, exception, promise>>
      BY <1>2, <1>3 DEF DeliveryInv
<1>4. CASE DecEmit /\ Decoder
  <2>1. Head(out) \in Frames
        BY <1>4, TailProperties, TypeParts DEF DecEmit, CallbackInv, DecTypes
  <2>2. promise # "resolved" /\ UNCHANGED <<delivered, exception, promise>>
        BY <1>4 DEF DecEmit, Decoder, ThreadsInv, jsData
  <2>3. CASE CanSend(cbQ, CALLBACK_QUEUE_SIZE)
    <3>1. cbQ'.msgs = Append(cbQ.msgs, Head(out)) /\ queued' = Append(queued, Head(out))
          BY <1>1, <1>4, <2>1, <2>3, SendAppends, Sizes DEF DecEmit, BufQueue
    <3>2. queued = delivered \o cbQ.msgs => queued' = delivered' \o cbQ'.msgs
      <4>1. Append(delivered \o cbQ.msgs, Head(out)) = delivered \o Append(cbQ.msgs, Head(out))
            BY <1>1, <2>1, AppendToConcat, Zenon
      <4> QED BY <2>2, <3>1, <4>1
    <3> QED BY <1>2, <2>2, <3>2 DEF DeliveryInv
  <2>4. CASE ~CanSend(cbQ, CALLBACK_QUEUE_SIZE)
        BY <1>2, <1>4, <2>2, <2>4 DEF DecEmit, TrySend, DeliveryInv
  <2> QED BY <2>3, <2>4
<1>5. CASE DecFinish /\ Decoder
  <2>1. cbQ'.msgs = cbQ.msgs
        BY <1>1, <1>5, CloseKeepsMessages DEF DecFinish, BufQueue
  <2> QED BY <1>2, <1>5, <2>1 DEF DecFinish, Decoder, DeliveryInv, jsData, outputs
<1>6. CASE Deliver /\ EventLoop
  <2>1. cbQ.msgs # <<>> /\ cbQ'.msgs = Tail(cbQ.msgs)
        BY <1>1, <1>6, RecvTakesHead, Sizes DEF Deliver, BufQueue, CanRecv
  <2>2. promise' = promise /\ promise # "resolved" /\ queued' = queued
        BY <1>6, <2>1 DEF Deliver, EventLoop, DeliveryInv, outputs
  <2>3. Append(delivered, Head(cbQ.msgs)) \o Tail(cbQ.msgs) = delivered \o cbQ.msgs
        BY <1>1, <2>1, MoveHead
  <2>4. ASSUME "throw" \notin faults'
        PROVE  ~exception' /\ delivered' = Append(delivered, Head(cbQ.msgs))
        BY <1>2, <1>6, <2>4 DEF Deliver, Fault, DeliveryInv
  <2> QED BY <1>2, <2>1, <2>2, <2>3, <2>4 DEF DeliveryInv
<1>7. CASE AbortRecv /\ EventLoop
      BY <1>2, <1>7 DEF AbortRecv, EventLoop, DeliveryInv, outputs
<1>8. CASE CleanupEnd /\ EventLoop
      BY <1>2, <1>8 DEF CleanupEnd, EventLoop, DeliveryInv, outputs
<1>9. CASE Decoder /\ ~DecEmit /\ ~DecFinish
  <2>1. UNCHANGED <<cbQ, outputs, jsData>>
        BY <1>9 DEF Decoder, DecStart, DecRecv, DecOther, DecPacket, DecNotify,
                    DecFinishNotify, DecClose, DecStop, DecJoin, DecFinSend, DecFinRecv,
                    DecFinAsync
  <2> QED BY <1>3, <2>1 DEF outputs, jsData
<1>10. CASE (EventLoop \/ RaiseSignal) /\ ~Deliver /\ ~AbortRecv /\ ~CleanupEnd
  <2>1. UNCHANGED <<cbQ, outputs, delivered, exception, promise>>
        BY <1>10 DEF EventLoop, RaiseSignal, Abort, BufferReady, DeliverEnd, ThreadFinished,
                     jsData
  <2> QED BY <1>3, <2>1 DEF outputs
<1>11. CASE DemStep \/ Network \/ UNCHANGED vars
       BY <1>3, <1>11 DEF DemStep, Network, vars, jsData, outputs
<1> QED BY <1>4, <1>5, <1>6, <1>7, <1>8, <1>9, <1>10, <1>11
        DEF Next, Terminated, Decoder, EventLoop, RaiseSignal

-----------------------------------------------------------------------------
(* The order of the packets.                                               *)

LEMMA StreamFrame ==
    ASSUME TypeOK, NEW f \in Stream
    PROVE  f \in Frames /\ f.pts \in Int /\ f.dur \in Nat \ {0} /\ f.pts # AV_NOPTS_VALUE
BY ConsumeRtpAssumption, StreamAssumption DEF Frames

(* A packet that is let through is not older than those before.            *)
LEMMA PostedArrives ==
    ASSUME TypeOK, ReadInv, DemPost, ~Unwanted
    PROVE  /\ demPkt \in Stream
           /\ prev_pts' = demPkt.pts /\ prev_pts' # AV_NOPTS_VALUE
           /\ pts_correction' = Correction /\ pts_correction' # AV_NOPTS_VALUE
           /\ prev_pts' + pts_correction' >= 0
           /\ prev_pts # AV_NOPTS_VALUE =>
                 prev_pts <= prev_pts' /\ pts_correction = pts_correction'
<1>1. /\ DemTypes /\ demPkt \in Stream
      BY DEF TypeOK, DemPost, ReadInv, Unwanted
<1>2. demPkt.pts \in Int /\ demPkt.pts # AV_NOPTS_VALUE
      BY <1>1, StreamFrame
<1>3. prev_pts' = demPkt.pts /\ pts_correction' = Correction /\ Correction \in Nat
      BY PostedType DEF DemPost
<1>4. Correction # AV_NOPTS_VALUE
      BY <1>3, NoTimestamp
<1>5. prev_pts # AV_NOPTS_VALUE =>
         /\ prev_pts <= demPkt.pts /\ Correction = pts_correction
         /\ prev_pts + pts_correction >= 0
      BY <1>1, <1>2 DEF Unwanted, Correction, ReadInv, DemTypes
<1>6. prev_pts = AV_NOPTS_VALUE => demPkt.pts + Correction >= 0
      BY <1>2 DEF Correction, ReadInv
<1>7. demPkt.pts + Correction >= 0
      BY <1>1, <1>2, <1>3, <1>5, <1>6 DEF DemTypes
<1> QED BY <1>1, <1>2, <1>3, <1>4, <1>5, <1>7

LEMMA DemuxerReads ==
    ASSUME TypeOK, [Next]_vars, ~(DemPost /\ ~Unwanted)
    PROVE  UNCHANGED <<prev_pts, pts_correction>>
<1>1. CASE DemStep \/ Network
      BY <1>1 DEF DemStep, Network, DemOpen, DemParams, DemRead, DemInterrupted, DemTick,
                  DemCheck, DemTime, DemPost, DemExit, demData
<1>2. CASE Decoder \/ EventLoop \/ RaiseSignal \/ UNCHANGED vars
      BY <1>2 DEF Decoder, EventLoop, RaiseSignal, vars, demData
<1> QED BY <1>1, <1>2 DEF Next, Terminated

LEMMA ReadKept ==
    ASSUME TypeOK, ReadInv, [Next]_vars
    PROVE  ReadInv'
<1>1. CASE DemPost /\ ~Unwanted
  <2>1. demPc' \in {"exit", "read"} /\ UNCHANGED <<demRet, demPkt>>
        BY <1>1 DEF DemPost
  <2> QED BY <1>1, <2>1, PostedArrives DEF ReadInv
<1>2. CASE ~(DemPost /\ ~Unwanted) /\ (DemStep \/ Network)
  <2>1. UNCHANGED <<prev_pts, pts_correction>>
        BY <1>2, DemuxerReads
  <2>2. /\ demRet' = "packet" => demPkt' \in Stream
        /\ demPc' \in {"time", "post"} => demRet' \in {"packet", "unwanted"}
        BY <1>2 DEF DemStep, Network, DemOpen, DemParams, DemRead, DemInterrupted, DemTick,
                    DemCheck, DemTime, DemPost, DemExit, demData, ReadInv, TypeOK, DemTypes
  <2> QED BY <2>1, <2>2 DEF ReadInv
<1>3. CASE Decoder
  <2>1. demPc' \in {demPc, "open"} /\ UNCHANGED demData
        BY <1>3 DEF Decoder, DecStart, DecRecv, DecOther, DecPacket, DecEmit, DecNotify,
                    DecFinish, DecFinishNotify, DecClose, DecStop, DecJoin, DecFinSend,
                    DecFinRecv, DecFinAsync
  <2> QED BY <2>1 DEF ReadInv, demData
<1>4. CASE EventLoop \/ RaiseSignal \/ UNCHANGED vars
      BY <1>4 DEF EventLoop, RaiseSignal, vars, ReadInv, demData
<1> QED BY <1>1, <1>2, <1>3, <1>4 DEF Next, Terminated

LEMMA ArrivedGrows ==
    ASSUME TypeOK, ReadInv, [Next]_vars
    PROVE  \A p \in Arrived : p \in Arrived'
<1> SUFFICES ASSUME NEW p \in Arrived PROVE p \in Arrived'
    OBVIOUS
<1>1. CASE DemPost /\ ~Unwanted
  <2>1. prev_pts \in Int /\ pts_correction \in Nat /\ prev_pts' \in Int
        BY <1>1, PostedArrives, StreamFrame DEF Arrived, ReadInv, TypeOK, DemTypes
  <2> QED BY <1>1, <2>1, PostedArrives DEF Arrived, Frames
<1>2. CASE ~(DemPost /\ ~Unwanted)
      BY <1>2, DemuxerReads DEF Arrived
<1> QED BY <1>1, <1>2

LEMMA PostedLast ==
    ASSUME TypeOK, ReadInv, DemPost, ~Unwanted
    PROVE  Posted.pkt \in Arrived' /\ \A p \in Arrived : p.pts <= Posted.pkt.pts
<1>1. demPkt \in Stream /\ prev_pts' = demPkt.pts /\ pts_correction' = Correction
      BY PostedArrives
<1>2. demPkt \in Frames /\ demPkt.pts \in Int /\ demPkt.dur \in Nat \ {0}
      BY <1>1, StreamFrame
<1>3. Posted.pkt = [pts |-> demPkt.pts + Correction, dur |-> demPkt.dur] /\ Correction \in Nat
      BY PostedType
<1>4. [pts |-> Posted.pkt.pts - Correction, dur |-> Posted.pkt.dur] = demPkt
      BY <1>2, <1>3 DEF Frames
<1>5. Posted.pkt \in Arrived'
      BY <1>1, <1>2, <1>3, <1>4, PostedArrives DEF Arrived, Frames
<1>6. \A p \in Arrived : p.pts <= Posted.pkt.pts
  <2> SUFFICES ASSUME NEW p \in Arrived PROVE p.pts <= Posted.pkt.pts
      OBVIOUS
  <2>1. /\ prev_pts # AV_NOPTS_VALUE /\ p.pts \in Int /\ p.pts <= prev_pts + pts_correction
        BY DEF Arrived, Frames
  <2>2. prev_pts \in Int /\ prev_pts <= demPkt.pts /\ pts_correction = Correction
        BY <1>1, <2>1, PostedArrives DEF TypeOK, DemTypes
  <2> QED BY <1>2, <1>3, <2>1, <2>2
<1> QED BY <1>5, <1>6

(* Where the packets of the queue were before a step. *)
LEMMA WaitingAfterAppend ==
    ASSUME TypeOK, NEW m \in Messages, queue'.msgs = Append(queue.msgs, m),
           NEW i \in Waiting'
    PROVE  \/ i \in Waiting /\ queue'.msgs[i] = queue.msgs[i]
           \/ i = Len(queue.msgs) + 1 /\ queue'.msgs[i] = m /\ IsPacket(m)
<1>1. queue.msgs \in Seq(Messages)
      BY TypeParts DEF DecQueue, BoundedQueue, QueueOf
<1> QED BY <1>1, AppendProperties, LenProperties DEF Waiting, IsPacket

LEMMA WaitingAfterTail ==
    ASSUME TypeOK, queue.msgs # <<>>, queue'.msgs = Tail(queue.msgs), NEW i \in Waiting'
    PROVE  i \in Nat /\ i + 1 \in Waiting /\ queue'.msgs[i] = queue.msgs[i + 1]
<1>1. queue.msgs \in Seq(Messages)
      BY TypeParts DEF DecQueue, BoundedQueue, QueueOf
<1>2. Len(queue.msgs) \in Nat /\ Len(queue'.msgs) = Len(queue.msgs) - 1
      BY <1>1, TailProperties
<1>3. i \in 1..(Len(queue.msgs) - 1) /\ IsPacket(queue'.msgs[i])
      BY <1>2 DEF Waiting, IsPacket
<1>4. queue'.msgs[i] = queue.msgs[i + 1]
      BY <1>1, <1>3, TailProperties
<1> QED BY <1>2, <1>3, <1>4 DEF Waiting

LEMMA HeadWaits ==
    ASSUME TypeOK, queue.msgs # <<>>
    PROVE  /\ Head(queue.msgs) = queue.msgs[1]
           /\ IsPacket(Head(queue.msgs)) => 1 \in Waiting
<1>1. queue.msgs \in Seq(Messages)
      BY TypeParts DEF DecQueue, BoundedQueue, QueueOf
<1> QED BY <1>1, TailProperties DEF Waiting

(* A step changes the messages in one of three ways. *)
LEMMA QueueStep ==
    ASSUME TypeOK, ReadInv, [Next]_vars
    PROVE  \/ queue'.msgs = queue.msgs /\ (Handled' => Handled /\ decMsg' = decMsg)
           \/ /\ UNCHANGED <<decPc, decMsg>>
              /\ \E m \in Messages :
                    /\ queue'.msgs = Append(queue.msgs, m)
                    /\ IsPacket(m) => /\ m.pkt \in Arrived'
                                      /\ \A p \in Arrived : p.pts <= m.pkt.pts
           \/ /\ queue.msgs # <<>> /\ queue'.msgs = Tail(queue.msgs)
              /\ decMsg' = Head(queue.msgs)
<1>1. CASE DemStep \/ Network
  <2>1. UNCHANGED <<decPc, decMsg>>
        BY <1>1 DEF DemStep, Network, decData
  <2>2. CASE queue'.msgs = queue.msgs
        BY <2>1, <2>2 DEF Handled
  <2>3. CASE queue'.msgs = Append(queue.msgs, Params)
        BY <2>1, <2>3, MessageTypes
  <2>4. ASSUME NEW m \in Messages, IsPacket(m) => DemPost /\ ~Unwanted /\ m = Posted,
               queue'.msgs = Append(queue.msgs, m)
        PROVE  IsPacket(m) => m.pkt \in Arrived' /\ \A p \in Arrived : p.pts <= m.pkt.pts
        BY <2>4, PostedLast
  <2> QED BY <1>1, <2>1, <2>2, <2>3, <2>4, DemuxerPosts
<1>2. CASE Decoder
      BY <1>2, DecoderTakes DEF Handled
<1>3. CASE EventLoop \/ RaiseSignal
      BY <1>3, EventLoopKeepsMessages DEF EventLoop, RaiseSignal, decData, Handled
<1>4. CASE UNCHANGED vars
      BY <1>4 DEF vars, decData, Handled
<1> QED BY <1>1, <1>2, <1>3, <1>4 DEF Next, Terminated

LEMMA WaitingTypes ==
    ASSUME TypeOK, ReadInv, OrderInv, NEW i \in Waiting
    PROVE  /\ queue.msgs[i].pkt \in Arrived /\ Pts(i) \in Int
           /\ i \in 1..Len(queue.msgs) /\ i \in Nat
<1>1. Len(queue.msgs) \in Nat
      BY TypeParts DEF DecQueue, BoundedQueue, QueueOf
<1>2. i \in 1..Len(queue.msgs) /\ i \in Nat
      BY <1>1 DEF Waiting
<1>3. queue.msgs[i].pkt \in Arrived
      BY DEF OrderInv
<1>4. Pts(i) \in Int
      BY <1>3 DEF Pts, Arrived, Frames
<1> QED BY <1>2, <1>3, <1>4

LEMMA OrderKept ==
    ASSUME TypeOK, ReadInv, OrderInv, [Next]_vars
    PROVE  OrderInv'
<1>1. CASE queue'.msgs = queue.msgs /\ (Handled' => Handled /\ decMsg' = decMsg)
  <2>1. Waiting' = Waiting /\ \A i \in Waiting : Pts(i)' = Pts(i)
        BY <1>1 DEF Waiting, Pts
  <2> QED BY <1>1, <2>1, ArrivedGrows DEF OrderInv
<1>2. ASSUME UNCHANGED <<decPc, decMsg>>, NEW m \in Messages,
             queue'.msgs = Append(queue.msgs, m),
             IsPacket(m) => m.pkt \in Arrived' /\ \A p \in Arrived : p.pts <= m.pkt.pts
      PROVE  OrderInv'
  <2>1. Len(queue.msgs) \in Nat
        BY TypeParts DEF DecQueue, BoundedQueue, QueueOf
  <2>2. \A i \in Waiting' : \/ i \in Waiting /\ queue'.msgs[i] = queue.msgs[i]
                            \/ /\ i = Len(queue.msgs) + 1 /\ queue'.msgs[i] = m
                               /\ m.pkt \in Arrived' /\ \A p \in Arrived : p.pts <= m.pkt.pts
        BY <1>2, WaitingAfterAppend
  <2>3. \A i \in Waiting' : queue'.msgs[i].pkt \in Arrived'
        BY <2>2, WaitingTypes, ArrivedGrows
  <2>4. ASSUME NEW i \in Waiting', NEW j \in Waiting', i < j PROVE Pts(i)' <= Pts(j)'
    <3>1. i \in Waiting
          BY <2>1, <2>2, <2>4, WaitingTypes
    <3>2. queue.msgs[i].pkt \in Arrived /\ queue'.msgs[i] = queue.msgs[i]
          BY <2>1, <2>2, <3>1, WaitingTypes
    <3>3. CASE j \in Waiting /\ queue'.msgs[j] = queue.msgs[j]
          BY <2>4, <3>1, <3>2, <3>3 DEF OrderInv, Pts
    <3>4. CASE queue'.msgs[j] = m /\ \A p \in Arrived : p.pts <= m.pkt.pts
          BY <3>2, <3>4 DEF Pts
    <3> QED BY <2>2, <3>3, <3>4
  <2>5. Handled' <=> Handled
        BY <1>2 DEF Handled
  <2>6. ASSUME Handled, NEW i \in Waiting' PROVE decMsg.pkt.pts <= Pts(i)'
        BY <2>2, <2>6 DEF OrderInv, Pts
  <2> QED BY <1>2, <2>3, <2>4, <2>5, <2>6, ArrivedGrows DEF OrderInv
<1>3. CASE queue.msgs # <<>> /\ queue'.msgs = Tail(queue.msgs) /\ decMsg' = Head(queue.msgs)
  <2>1. \A i \in Waiting' : /\ i \in Nat /\ i + 1 \in Waiting
                            /\ queue'.msgs[i] = queue.msgs[i + 1]
        BY <1>3, WaitingAfterTail
  <2>2. \A i \in Waiting' : queue'.msgs[i].pkt \in Arrived'
        BY <2>1, WaitingTypes, ArrivedGrows
  <2>3. ASSUME NEW i \in Waiting', NEW j \in Waiting', i < j PROVE Pts(i)' <= Pts(j)'
    <3>1. i + 1 \in Waiting /\ j + 1 \in Waiting /\ i + 1 < j + 1
          BY <2>1, <2>3
    <3> QED BY <2>1, <3>1 DEF OrderInv, Pts
  <2>4. ASSUME Handled' PROVE 1 \in Waiting /\ decMsg' = queue.msgs[1]
        BY <1>3, <2>4, HeadWaits DEF Handled
  <2>5. ASSUME Handled' PROVE decMsg'.pkt \in Arrived'
        BY <2>4, <2>5, WaitingTypes, ArrivedGrows
  <2>6. ASSUME Handled', NEW i \in Waiting' PROVE decMsg'.pkt.pts <= Pts(i)'
    <3>1. i + 1 \in Waiting /\ 1 < i + 1
      <4>1. i \in 1..Len(queue'.msgs)
            BY DEF Waiting
      <4> QED BY <2>1, <4>1
    <3>2. Pts(1) <= Pts(i + 1)
          BY <2>4, <2>6, <3>1 DEF OrderInv
    <3> QED BY <2>1, <2>4, <2>6, <3>2 DEF Pts
  <2> QED BY <2>2, <2>3, <2>5, <2>6 DEF OrderInv
<1> QED BY <1>1, <1>2, <1>3, QueueStep

(* Only a packet that was decoded changes what the decoder expects.        *)
LEMMA LastStep ==
    ASSUME TypeOK, OrderInv, [Next]_vars
    PROVE  \/ UNCHANGED <<expected_pts, last_frame_size>>
           \/ /\ Decoder /\ DecPacket /\ Handled /\ decPc' # "handle" /\ UNCHANGED queue
              /\ expected_pts' # AV_NOPTS_VALUE /\ LastPacket' = decMsg.pkt
<1>1. CASE Decoder /\ DecPacket
  <2>1. Handled /\ decPc' # "handle" /\ UNCHANGED queue
        BY <1>1 DEF DecPacket, Handled, IsPacket
  <2>2. decMsg.pkt \in Frames /\ decMsg.pkt.pts >= 0
        BY <2>1 DEF OrderInv, Arrived
  <2>3. \/ UNCHANGED <<expected_pts, last_frame_size>>
        \/ /\ expected_pts' = decMsg.pkt.pts + decMsg.pkt.dur
           /\ last_frame_size' = decMsg.pkt.dur
        BY <1>1 DEF DecPacket
  <2>4. ASSUME expected_pts' = decMsg.pkt.pts + decMsg.pkt.dur,
               last_frame_size' = decMsg.pkt.dur
        PROVE  expected_pts' # AV_NOPTS_VALUE /\ LastPacket' = decMsg.pkt
    <3>1. expected_pts' # AV_NOPTS_VALUE
          BY <2>2, <2>4, NoTimestamp DEF Frames
    <3>2. expected_pts' - last_frame_size' = decMsg.pkt.pts
          BY <2>2, <2>4 DEF Frames
    <3> QED BY <2>2, <2>4, <3>1, <3>2 DEF LastPacket, Frames
  <2> QED BY <1>1, <2>1, <2>3, <2>4
<1>2. CASE Decoder /\ ~DecPacket
      BY <1>2 DEF Decoder, DecStart, DecRecv, DecOther, DecEmit, DecNotify, DecFinish,
                  DecFinishNotify, DecClose, DecStop, DecJoin, DecFinSend, DecFinRecv,
                  DecFinAsync, decData
<1>3. CASE DemStep \/ Network \/ EventLoop \/ RaiseSignal \/ UNCHANGED vars
      BY <1>3 DEF DemStep, Network, EventLoop, RaiseSignal, vars, decData
<1> QED BY <1>1, <1>2, <1>3 DEF Next, Terminated

LEMMA LastKept ==
    ASSUME TypeOK, ReadInv, OrderInv, LastInv, [Next]_vars
    PROVE  LastInv'
<1>1. CASE Handled /\ decPc' # "handle" /\ UNCHANGED queue /\ LastPacket' = decMsg.pkt
  <2>1. LastPacket' \in Arrived'
        BY <1>1, ArrivedGrows DEF OrderInv
  <2>2. \A i \in Waiting' : LastPacket'.pts <= Pts(i)'
        BY <1>1 DEF OrderInv, Waiting, Pts
  <2> QED BY <1>1, <2>1, <2>2 DEF LastInv, Handled
<1>2. CASE UNCHANGED <<expected_pts, last_frame_size>>
  <2> SUFFICES ASSUME expected_pts # AV_NOPTS_VALUE
               PROVE  /\ LastPacket' \in Arrived'
                      /\ \A i \in Waiting' : LastPacket'.pts <= Pts(i)'
                      /\ Handled' => LastPacket'.pts <= decMsg'.pkt.pts
      BY <1>2 DEF LastInv
  <2>1. LastPacket' = LastPacket /\ LastPacket \in Arrived
        BY <1>2 DEF LastInv, LastPacket
  <2>2. /\ LastPacket \in Arrived'
        /\ \A i \in Waiting : LastPacket.pts <= Pts(i)
        /\ Handled => LastPacket.pts <= decMsg.pkt.pts
        BY ArrivedGrows DEF LastInv
  <2> HIDE DEF LastPacket
  <2>3. CASE queue'.msgs = queue.msgs /\ (Handled' => Handled /\ decMsg' = decMsg)
    <3>1. Waiting' = Waiting /\ \A i \in Waiting : Pts(i)' = Pts(i)
          BY <2>3 DEF Waiting, Pts
    <3> QED BY <2>1, <2>2, <2>3, <3>1
  <2>4. ASSUME UNCHANGED <<decPc, decMsg>>, NEW m \in Messages,
               queue'.msgs = Append(queue.msgs, m),
               IsPacket(m) => \A p \in Arrived : p.pts <= m.pkt.pts
        PROVE  /\ \A i \in Waiting' : LastPacket.pts <= Pts(i)'
               /\ Handled' => LastPacket.pts <= decMsg'.pkt.pts
    <3>1. ASSUME NEW i \in Waiting' PROVE LastPacket.pts <= Pts(i)'
      <4>1. CASE i \in Waiting /\ queue'.msgs[i] = queue.msgs[i]
            BY <2>2, <4>1 DEF Pts
      <4>2. CASE queue'.msgs[i] = m /\ IsPacket(m)
            BY <2>1, <2>4, <4>2 DEF Pts
      <4> QED BY <2>4, <4>1, <4>2, WaitingAfterAppend
    <3> QED BY <2>2, <2>4, <3>1 DEF Handled
  <2>5. CASE queue.msgs # <<>> /\ queue'.msgs = Tail(queue.msgs) /\ decMsg' = Head(queue.msgs)
    <3>1. ASSUME NEW i \in Waiting' PROVE LastPacket.pts <= Pts(i)'
      <4>1. i + 1 \in Waiting /\ queue'.msgs[i] = queue.msgs[i + 1]
            BY <2>5, WaitingAfterTail
      <4> QED BY <2>2, <4>1 DEF Pts
    <3>2. ASSUME Handled' PROVE LastPacket.pts <= decMsg'.pkt.pts
      <4>1. 1 \in Waiting /\ decMsg' = queue.msgs[1]
            BY <2>5, <3>2, HeadWaits DEF Handled
      <4> QED BY <2>2, <4>1 DEF Pts
    <3> QED BY <2>1, <2>2, <3>1, <3>2
  <2>6. /\ \A i \in Waiting' : LastPacket.pts <= Pts(i)'
        /\ Handled' => LastPacket.pts <= decMsg'.pkt.pts
    <3>1. CASE \E m \in Messages : UNCHANGED <<decPc, decMsg>>
               /\ queue'.msgs = Append(queue.msgs, m)
               /\ (IsPacket(m) => \A p \in Arrived : p.pts <= m.pkt.pts)
          BY <2>4, <3>1
    <3> QED BY <2>1, <2>2, <2>3, <2>5, <3>1, QueueStep
  <2> QED BY <2>1, <2>2, <2>6
<1> QED BY <1>1, <1>2, LastStep

-----------------------------------------------------------------------------
(* The timeline.                                                           *)

LEMMA ExtendTimeline ==
    ASSUME NEW s \in Seq(Frames), NEW f \in Seq(Frames), f # <<>>,
           Timeline(s), Timeline(f), s # <<>> => Follows(f[1], s[Len(s)])
    PROVE  /\ Timeline(s \o f) /\ s \o f # <<>>
           /\ (s \o f)[Len(s \o f)] = f[Len(f)]
<1>1. Len(s) \in Nat /\ Len(f) \in Nat \ {0} /\ (s # <<>> <=> Len(s) # 0)
      BY EmptySeq, LenProperties
<1> DEFINE t == s \o f
<1>2. /\ t \in Seq(Frames) /\ Len(t) = Len(s) + Len(f)
      /\ \A i \in 1..(Len(s) + Len(f)) : t[i] = IF i <= Len(s) THEN s[i] ELSE f[i - Len(s)]
      BY ConcatProperties
<1> HIDE DEF t
<1>3. ASSUME NEW i \in 1..(Len(t) - 1) PROVE Follows(t[i + 1], t[i])
  <2>1. CASE i < Len(s)
    <3>1. t[i] = s[i] /\ t[i + 1] = s[i + 1] /\ i \in 1..(Len(s) - 1)
          BY <1>1, <1>2, <2>1
    <3> QED BY <3>1 DEF Timeline
  <2>2. CASE i = Len(s)
    <3>1. t[i] = s[Len(s)] /\ t[i + 1] = f[1] /\ s # <<>>
          BY <1>1, <1>2, <2>2
    <3> QED BY <3>1
  <2>3. CASE i > Len(s)
    <3>1. i - Len(s) \in 1..(Len(f) - 1) /\ (i + 1) - Len(s) = (i - Len(s)) + 1
          BY <1>1, <1>2, <2>3
    <3>2. t[i] = f[i - Len(s)] /\ t[i + 1] = f[(i - Len(s)) + 1]
          BY <1>1, <1>2, <2>3, <3>1
    <3> QED BY <3>1, <3>2 DEF Timeline
  <2> QED BY <1>1, <1>2, <2>1, <2>2, <2>3
<1>4. t # <<>> /\ t[Len(t)] = f[Len(f)]
  <2>1. Len(t) - Len(s) = Len(f) /\ Len(t) > Len(s) /\ Len(t) \in 1..(Len(s) + Len(f))
        BY <1>1, <1>2
  <2> QED BY <1>1, <1>2, <2>1
<1> QED BY <1>3, <1>4 DEF Timeline, t

LEMMA NextMultiple ==
    ASSUME NEW i \in Int, NEW d \in Int
    PROVE  (i - 1) * d \in Int /\ i * d = (i - 1) * d + d
OBVIOUS

(* The packet is the last one again, or lies after it in the stream. *)
LEMMA PacketAfterLast ==
    ASSUME TypeOK, ReadInv, OrderInv, LastInv, Handled, expected_pts # AV_NOPTS_VALUE
    PROVE  /\ decMsg.pkt.pts \in Int /\ expected_pts \in Int /\ last_frame_size \in Nat \ {0}
           /\ \/ decMsg.pkt = LastPacket
              \/ expected_pts <= decMsg.pkt.pts
<1> DEFINE p == decMsg.pkt
<1>1. p \in Arrived /\ LastPacket \in Arrived /\ LastPacket.pts <= p.pts
      BY DEF OrderInv, LastInv
<1>2. /\ prev_pts # AV_NOPTS_VALUE /\ pts_correction \in Int
      /\ expected_pts \in Int /\ last_frame_size \in Nat \ {0}
      BY <1>1, NoTimestamp DEF Arrived, TypeOK, DemTypes, DecTypes
<1>3. p.pts \in Int /\ p.dur \in Nat \ {0} /\ p = [pts |-> p.pts, dur |-> p.dur]
      BY <1>1 DEF Arrived, Frames
<1> DEFINE f == [pts |-> p.pts - pts_correction, dur |-> p.dur]
<1> DEFINE g == [pts |-> expected_pts - last_frame_size - pts_correction,
                 dur |-> last_frame_size]
<1>4. f \in Stream /\ g \in Stream
      BY <1>1 DEF Arrived, LastPacket
<1>5. f = g \/ f.pts + f.dur <= g.pts \/ g.pts + g.dur <= f.pts
      BY <1>4, StreamAssumption
<1>6. LastPacket.pts = expected_pts - last_frame_size
      BY DEF LastPacket
<1>7. CASE f = g
  <2>1. f.pts = g.pts /\ f.dur = g.dur
        BY <1>7
  <2>2. p.pts = expected_pts - last_frame_size /\ p.dur = last_frame_size
        BY <1>2, <1>3, <2>1
  <2> QED BY <1>2, <1>3, <2>2 DEF LastPacket
<1>8. CASE f.pts + f.dur <= g.pts
      BY <1>1, <1>2, <1>3, <1>6, <1>8
<1>9. CASE g.pts + g.dur <= f.pts
      BY <1>2, <1>3, <1>9
<1> QED BY <1>2, <1>3, <1>5, <1>7, <1>8, <1>9

(* What the decoder makes of a packet is a timeline that continues the one *)
(* that ends with the last packet.                                         *)
LEMMA PacketTimeline ==
    ASSUME TypeOK, ReadInv, OrderInv, LastInv, Handled
    PROVE  LET frames == Append(Concealed(decMsg.pkt.pts), decMsg.pkt)
           IN /\ frames \in Seq(Frames) /\ frames # <<>>
              /\ frames[Len(frames)] = decMsg.pkt
              /\ Timeline(frames)
              /\ expected_pts # AV_NOPTS_VALUE => Follows(frames[1], LastPacket)
<1> DEFINE p == decMsg.pkt
<1> DEFINE n == MissingFrames(p.pts)
<1> DEFINE frames == Append(Concealed(p.pts), p)
<1> DEFINE d == last_frame_size
<1>1. p \in Frames /\ p.pts \in Int
      BY DEF OrderInv, Arrived, Frames
<1>2. /\ n \in Nat /\ frames \in Seq(Frames) /\ Len(frames) = n + 1 /\ frames[n + 1] = p
      /\ \A i \in 1..n : frames[i] = [pts |-> expected_pts + (i - 1) * d, dur |-> d]
      BY <1>1, ConcealedFrames DEF TypeOK
<1>3. frames # <<>> /\ frames[Len(frames)] = p
      BY <1>2, EmptySeq
<1>4. CASE expected_pts = AV_NOPTS_VALUE
  <2>1. n = 0
        BY <1>4 DEF MissingFrames
  <2>2. Timeline(frames)
    <3> HIDE DEF frames
    <3> QED BY <1>2, <2>1 DEF Timeline
  <2> QED BY <1>2, <1>3, <1>4, <2>2
<1>5. CASE expected_pts # AV_NOPTS_VALUE
  <2>1. /\ expected_pts \in Int /\ d \in Nat \ {0}
        /\ p = LastPacket \/ expected_pts <= p.pts
        BY <1>5, PacketAfterLast
  <2>2. CASE p = LastPacket
    <3>1. n = 0
      <4>1. p.pts = expected_pts - d
            BY <2>2 DEF LastPacket
      <4> QED BY <1>1, <2>1, <4>1 DEF MissingFrames
    <3>2. LastPacket = p
          BY <2>2
    <3> HIDE DEF frames, n, d, p
    <3>3. Timeline(frames) /\ Follows(frames[1], LastPacket)
          BY <1>2, <3>1, <3>2 DEF Timeline, Follows
    <3> QED BY <1>2, <1>3, <3>3 DEF frames, p
  <2>3. CASE expected_pts <= p.pts
    <3>1. d * n <= p.pts - expected_pts /\ p.pts - expected_pts < d * n + d
      <4>1. CASE expected_pts = p.pts
            BY <1>1, <2>1, <4>1 DEF MissingFrames
      <4>2. CASE expected_pts < p.pts
        <5>1. n = (p.pts - expected_pts) \div d /\ p.pts - expected_pts \in Nat
              BY <1>1, <1>5, <2>1, <4>2 DEF MissingFrames
        <5> HIDE DEF n, d
        <5> QED BY <2>1, <5>1, Division
      <4> QED BY <1>1, <2>1, <2>3, <4>1, <4>2
    <3>2. LastPacket.pts = expected_pts - d /\ LastPacket.dur = d
          BY DEF LastPacket
    <3> HIDE DEF frames, n, d, p
    <3>3. n * d = d * n /\ d * n \in Int
          BY <1>2, <2>1
    <3>4. ASSUME NEW i \in 1..(Len(frames) - 1) PROVE Follows(frames[i + 1], frames[i])
      <4>1. i \in 1..n /\ i \in Int /\ frames[i] = [pts |-> expected_pts + (i - 1) * d, dur |-> d]
            BY <1>2
      <4>2. (i - 1) * d \in Int /\ i * d = (i - 1) * d + d
            BY <2>1, <4>1, NextMultiple
      <4>3. CASE i < n
        <5>1. frames[i + 1] = [pts |-> expected_pts + i * d, dur |-> d]
          <6>1. i + 1 \in 1..n /\ (i + 1) - 1 = i
                BY <1>2, <4>1, <4>3
          <6> QED BY <1>2, <6>1
        <5>2. frames[i + 1].pts = frames[i].pts + d /\ frames[i].dur = d
              /\ frames[i].pts \in Int
              BY <2>1, <4>1, <4>2, <5>1
        <5> QED BY <2>1, <5>2 DEF Follows
      <4>4. CASE i = n
        <5>1. frames[i + 1] = p /\ frames[i].dur = d /\ frames[i].pts = expected_pts + (i - 1) * d
              BY <1>2, <4>1, <4>4
        <5>2. /\ frames[i].pts + d <= p.pts /\ p.pts < frames[i].pts + 2 * d
              BY <1>1, <2>1, <3>1, <3>3, <4>2, <4>4, <5>1
        <5> QED BY <5>1, <5>2 DEF Follows
      <4> QED BY <1>2, <4>1, <4>3, <4>4
    <3>5. Follows(frames[1], LastPacket)
      <4>1. CASE n = 0
        <5>1. d * n = 0 /\ frames[1] = p
              BY <1>2, <2>1, <4>1
        <5> QED BY <1>1, <2>1, <2>3, <3>1, <3>2, <5>1 DEF Follows
      <4>2. CASE n > 0
        <5>1. frames[1] = [pts |-> expected_pts + (1 - 1) * d, dur |-> d]
              BY <1>2, <4>2
        <5>2. frames[1].pts = expected_pts
              BY <2>1, <5>1
        <5> QED BY <2>1, <3>2, <5>2 DEF Follows
      <4> QED BY <1>2, <4>1, <4>2
    <3>6. Timeline(frames)
          BY <3>4 DEF Timeline
    <3> QED BY <1>2, <1>3, <3>5, <3>6 DEF frames, p
  <2> QED BY <2>1, <2>2, <2>3
<1> QED BY <1>4, <1>5

LEMMA GivenKept ==
    ASSUME TypeOK, ReadInv, OrderInv, LastInv, CallbackInv, GivenInv, [Next]_vars
    PROVE  GivenInv'
<1> SUFFICES ASSUME "decode" \notin faults'
             PROVE  /\ Timeline(Given)'
                    /\ Given' = <<>> <=> expected_pts' = AV_NOPTS_VALUE
                    /\ Given' # <<>> => Given'[Len(Given')] = LastPacket'
    BY DEF GivenInv
<1>1. /\ Timeline(Given)
      /\ Given = <<>> <=> expected_pts = AV_NOPTS_VALUE
      /\ Given # <<>> => Given[Len(Given)] = LastPacket
      BY FaultsGrow DEF GivenInv
<1>2. decoded \in Seq(Frames) /\ out \in Seq(Frames)
      BY DEF TypeOK, HistoryTypes, DecTypes
<1>3. CASE Given' = Given /\ UNCHANGED <<expected_pts, last_frame_size>>
  <2>1. LastPacket' = LastPacket
        BY <1>3 DEF LastPacket
  <2>2. Timeline(Given)'
        BY <1>1, <1>3 DEF Timeline
  <2> HIDE DEF LastPacket, Given
  <2> QED BY <1>1, <1>3, <2>1, <2>2
<1>4. CASE Decoder /\ DecPacket
  <2> DEFINE frames == Append(Concealed(decMsg.pkt.pts), decMsg.pkt)
  <2>1. Handled /\ out = <<>> /\ decoded' = decoded
        BY <1>4 DEF DecPacket, Handled, IsPacket, CallbackInv, outputs
  <2>2. /\ frames \in Seq(Frames) /\ frames # <<>>
        /\ frames[Len(frames)] = decMsg.pkt /\ Timeline(frames)
        /\ expected_pts # AV_NOPTS_VALUE => Follows(frames[1], LastPacket)
        BY <2>1, PacketTimeline
  <2>3. /\ out' = frames /\ expected_pts' = decMsg.pkt.pts + decMsg.pkt.dur
        /\ last_frame_size' = decMsg.pkt.dur
        BY <1>4 DEF DecPacket, Fault
  <2>4. expected_pts' # AV_NOPTS_VALUE /\ LastPacket' = decMsg.pkt
    <3>1. decMsg.pkt \in Frames /\ decMsg.pkt.pts >= 0
          BY <2>1 DEF OrderInv, Arrived
    <3>2. expected_pts' # AV_NOPTS_VALUE
          BY <2>3, <3>1, NoTimestamp DEF Frames
    <3>3. expected_pts' - last_frame_size' = decMsg.pkt.pts
          BY <2>3, <3>1 DEF Frames
    <3> QED BY <2>3, <3>1, <3>2, <3>3 DEF LastPacket, Frames
  <2> HIDE DEF frames
  <2>5. Given = decoded /\ Given' = decoded \o frames
        BY <1>2, <2>1, <2>3, ConcatEmptySeq DEF Given
  <2>6. Timeline(decoded) /\ (decoded # <<>> => Follows(frames[1], decoded[Len(decoded)]))
        BY <1>1, <2>2, <2>5
  <2>7. /\ Timeline(decoded \o frames) /\ decoded \o frames # <<>>
        /\ (decoded \o frames)[Len(decoded \o frames)] = frames[Len(frames)]
        BY <1>2, <2>2, <2>6, ExtendTimeline
  <2>8. Timeline(Given)'
        BY <2>5, <2>7 DEF Timeline
  <2> QED BY <2>2, <2>4, <2>5, <2>7, <2>8
<1>5. CASE Decoder /\ DecEmit
  <2>1. out # <<>>
        BY <1>5 DEF DecEmit, CallbackInv
  <2>2. Append(decoded, Head(out)) \o Tail(out) = decoded \o out
        BY <1>2, <2>1, MoveHead
  <2>3. UNCHANGED <<expected_pts, last_frame_size>> /\ Given' = Given
        BY <1>5, <2>2 DEF DecEmit, Given
  <2> QED BY <1>3, <2>3
<1>6. CASE Decoder /\ ~DecPacket /\ ~DecEmit
  <2>1. UNCHANGED <<decoded, out, expected_pts, last_frame_size>>
        BY <1>6 DEF Decoder, DecStart, DecRecv, DecOther, DecNotify, DecFinish,
                    DecFinishNotify, DecClose, DecStop, DecJoin, DecFinSend, DecFinRecv,
                    DecFinAsync, decData, outputs
  <2> QED BY <1>3, <2>1 DEF Given
<1>7. CASE DemStep \/ Network \/ EventLoop \/ RaiseSignal \/ UNCHANGED vars
  <2>1. UNCHANGED <<decoded, out, expected_pts, last_frame_size>>
        BY <1>7 DEF DemStep, Network, EventLoop, RaiseSignal, vars, decData, outputs
  <2> QED BY <1>3, <2>1 DEF Given
<1> QED BY <1>4, <1>5, <1>6, <1>7 DEF Next, Terminated

-----------------------------------------------------------------------------

IInv == /\ TypeOK
        /\ ThreadsInv /\ ParamsInv /\ CallbackInv /\ DeliveryInv
        /\ ReadInv /\ OrderInv /\ LastInv /\ GivenInv

LEMMA InductiveInit == Init => IInv
<1> SUFFICES ASSUME Init PROVE IInv
    OBVIOUS
<1>1. TypeOK
      BY TypeInit
<1>2. queue.msgs = <<>> /\ cbQ.msgs = <<>> /\ ~cbQ.err_recv
      BY DEF Init, InitHandles, EmptyQueue
<1>3. ThreadsInv
      BY DEF Init, InitHandles, InitDecoder, InitDemuxer, ThreadsInv
<1>4. ParamsInv
      BY <1>2 DEF Init, InitDecoder, InitDemuxer, ParamsInv
<1>5. CallbackInv
      BY <1>2 DEF Init, InitHandles, InitDecoder, CallbackInv
<1>6. <<>> \o <<>> = <<>>
      BY EmptySeq, ConcatEmptySeq
<1>7. DeliveryInv
      BY <1>2, <1>6 DEF Init, InitHandles, DeliveryInv
<1>8. ReadInv
      BY DEF Init, InitDemuxer, ReadInv
<1>9. Waiting = {} /\ ~Handled
  <2>1. Len(<<>>) = 0
        BY EmptySeq
  <2> QED BY <1>2, <2>1 DEF Init, InitDecoder, Waiting, Handled
<1>10. OrderInv
       BY <1>9 DEF OrderInv
<1>11. LastInv
       BY DEF Init, InitDecoder, LastInv
<1>12. GivenInv
  <2>1. Given = <<>> /\ expected_pts = AV_NOPTS_VALUE
        BY <1>6 DEF Init, InitDecoder, Given
  <2>2. Timeline(<<>>)
        BY EmptySeq DEF Timeline
  <2> QED BY <2>1, <2>2 DEF GivenInv
<1> QED BY <1>1, <1>3, <1>4, <1>5, <1>7, <1>8, <1>10, <1>11, <1>12 DEF IInv

LEMMA TypeStep ==
    ASSUME TypeOK, CallbackInv, ReadInv, OrderInv, [Next]_vars
    PROVE  TypeOK'
<1>1. Handled => decMsg.pkt \in Arrived
      BY DEF OrderInv
<1> QED BY <1>1, DemuxerTypes, DecoderTypes, EventLoopTypes, StutterTypes DEF Next, Terminated

LEMMA InductiveStep == IInv /\ [Next]_vars => IInv'
<1> SUFFICES ASSUME IInv, [Next]_vars PROVE IInv'
    OBVIOUS
<1> USE DEF IInv
<1>1. TypeOK'
      BY TypeStep
<1>2. ThreadsInv'
      BY ThreadsKept
<1>3. ParamsInv'
      BY ParamsKept
<1>4. CallbackInv'
      BY CallbackKept
<1>5. DeliveryInv'
      BY DeliveryKept
<1>6. ReadInv'
      BY ReadKept
<1>7. OrderInv'
      BY OrderKept
<1>8. LastInv'
      BY LastKept
<1>9. GivenInv'
      BY GivenKept
<1> QED BY <1>1, <1>2, <1>3, <1>4, <1>5, <1>6, <1>7, <1>8, <1>9

(* The inductive invariant holds in every state. *)
THEOREM InductiveInvariant == Spec => []IInv
BY InductiveInit, InductiveStep, PTL DEF Spec

-----------------------------------------------------------------------------
(* The properties.                                                         *)

(* Neither the decoder's queue nor the callback's ever holds more than it  *)
(* was made for, whatever the threads do, and no variable leaves its type. *)
THEOREM TypeCorrect == Spec => []TypeOK
BY InductiveInvariant, PTL DEF IInv

(* The decoder thread is done, and done() settled, only after the demuxer  *)
(* thread has ended; no handle or promise is given up while a thread uses  *)
(* it, however the stream ends.                                            *)
THEOREM ShutdownIsOrdered == Spec => []ShutdownOrder
<1>1. IInv => ShutdownOrder
      BY DEF IInv, ThreadsInv, ShutdownOrder
<1> QED BY <1>1, InductiveInvariant, PTL

(* The decoder exists when the first packet reaches it: the codec          *)
(* parameters, which are sent with a wait, cannot be overtaken by packets, *)
(* which are posted without one.                                           *)
THEOREM ParametersComeFirst == Spec => []PacketsFollowParameters
<1>1. IInv => PacketsFollowParameters
  <2>1. ~IsPacket(Params)
        BY MessageTypes
  <2> QED BY <2>1 DEF IInv, ParamsInv, PacketsFollowParameters, IsPacket
<1> QED BY <1>1, InductiveInvariant, PTL

(* The reference to onAudioData is deleted only when the callback queue is *)
(* empty and the decoder has nothing more to put into it.                  *)
THEOREM CallbackStaysAlive == Spec => []CallbackAlive
<1>1. IInv => CallbackAlive
      BY DEF IInv, CallbackInv, CallbackAlive
<1> QED BY <1>1, InductiveInvariant, PTL

(* When done() settles, onAudioData has been called with every frame that  *)
(* the callback queue took, each once and in order, unless it threw.       *)
THEOREM NothingLostBeforeDone == Spec => []DoneAfterLastFrame
<1>1. IInv => DoneAfterLastFrame
  <2> SUFFICES ASSUME IInv, promise = "resolved", "throw" \notin faults
               PROVE  delivered = queued
      BY DEF DoneAfterLastFrame
  <2>1. cbQ.msgs = <<>> /\ queued = delivered \o cbQ.msgs
        BY DEF IInv, DeliveryInv
  <2>2. delivered \in Seq(Frames)
        BY DEF IInv, TypeOK, HistoryTypes
  <2> QED BY <2>1, <2>2, ConcatEmptySeq
<1> QED BY <1>1, InductiveInvariant, PTL

(* For every stream of frames that do not overlap, in whatever order they  *)
(* come, whichever are lost and whichever do not fit into the queue: each  *)
(* frame that is decoded or concealed follows the one before it without an *)
(* overlap and without a hole as long as a frame, or repeats it.           *)
THEOREM TimelineIsKept == Spec => []TimelineKept
<1>1. IInv => TimelineKept
  <2> SUFFICES ASSUME IInv, "decode" \notin faults, NEW i \in 1..(Len(decoded) - 1)
               PROVE  Follows(decoded[i + 1], decoded[i])
      BY DEF TimelineKept, Follows
  <2>1. decoded \in Seq(Frames) /\ out \in Seq(Frames)
        BY DEF IInv, TypeOK, HistoryTypes, DecTypes
  <2>2. Len(decoded) \in Nat /\ Len(out) \in Nat
        BY <2>1, LenProperties
  <2>3. /\ Len(Given) = Len(decoded) + Len(out)
        /\ \A k \in 1..Len(decoded) : Given[k] = decoded[k]
        BY <2>1, <2>2, ConcatProperties DEF Given
  <2>4. Timeline(Given)
        BY DEF IInv, GivenInv
  <2>5. i \in 1..(Len(Given) - 1) /\ i \in 1..Len(decoded) /\ i + 1 \in 1..Len(decoded)
        BY <2>2, <2>3
  <2>6. Follows(Given[i + 1], Given[i])
        BY <2>4, <2>5 DEF Timeline
  <2> QED BY <2>3, <2>5, <2>6
<1> QED BY <1>1, InductiveInvariant, PTL

-----------------------------------------------------------------------------
(* Waiting.                                                                *)

(* A thread that waits has somebody to wait for: whoever has stopped has   *)
(* closed the queue that he served, and said that he has.                  *)
AwakeInv ==
    /\ FramesAreAnnounced
    /\ aborted /\ js # "abortRecv" => queue.err_recv
    /\ demPc = "done" => queue.err_recv
    /\ demPc = "none" =>
          decPc \in {"start", "finish", "finishNotify", "close", "stop", "crashed"}
    /\ decPc \in {"stop", "join"} => queue.err_send
    /\ decPc = "join" => shutdown
    /\ decPc = "done" /\ "throw" \notin faults =>
          finPending \/ js = "cleanup" \/ promise = "resolved"

LEMMA AwakeInit == Init => AwakeInv
BY DEF Init, InitHandles, InitDecoder, InitDemuxer, EmptyQueue, AwakeInv,
       FramesAreAnnounced

LEMMA AwakeKept ==
    ASSUME IInv, AwakeInv, [Next]_vars
    PROVE  AwakeInv'
<1> USE DEF AwakeInv, FramesAreAnnounced
<1>1. queue \in QueueOf(Messages) /\ cbQ \in QueueOf(Frames)
      BY DEF IInv, TypeOK
<1>2. CASE DemStep \/ Network
  <2>1. UNCHANGED <<cbQ, shutdown, decPc, js, aborted, cbOpen, cbPending, finPending, promise>>
        BY <1>2 DEF DemStep, Network, jsData, signals
  <2>2. /\ queue'.err_send = queue.err_send /\ (queue.err_recv => queue'.err_recv)
        /\ demPc' = "done" => queue'.err_recv
        /\ demPc' # "none"
    <3>1. ASSUME NEW m \in Messages, PostToDecoder(m)
          PROVE  queue'.err_send = queue.err_send /\ queue'.err_recv = queue.err_recv
          BY <1>1, <3>1, QueueKeeps DEF PostToDecoder
    <3>2. CASE DemOpen \/ DemRead \/ DemInterrupted \/ DemCheck
          BY <3>2 DEF DemOpen, DemRead, DemInterrupted, DemCheck
    <3>3. CASE DemParams
          BY <1>1, <3>3, QueueKeeps DEF DemParams
    <3>4. CASE DemTick
          BY <3>1, <3>4, MessageTypes DEF DemTick
    <3>5. CASE DemTime
      <4>1. [type |-> TimeDue] \in Messages
            BY MessageTypes DEF TimeDue, StartTimes
      <4> QED BY <3>1, <3>5, <4>1 DEF DemTime
    <3>6. CASE DemPost
      <4>1. CASE Unwanted
            BY <3>6, <4>1 DEF DemPost
      <4>2. CASE ~Unwanted
        <5>1. Posted \in Messages
              BY PostedType DEF IInv
        <5> QED BY <3>1, <3>6, <4>2, <5>1 DEF DemPost, Posted
      <4> QED BY <4>1, <4>2
    <3>7. CASE DemExit
          BY <1>1, <3>7, QueueKeeps DEF DemExit
    <3> QED BY <1>2, <3>2, <3>3, <3>4, <3>5, <3>6, <3>7 DEF DemStep, Network
  <2>3. "throw" \notin faults' => "throw" \notin faults
        BY FaultsGrow
  <2> QED BY <2>1, <2>2, <2>3
<1>3. CASE Decoder
  <2>1. UNCHANGED <<js, aborted, cbOpen, promise>>
        BY <1>3 DEF Decoder, jsData
  <2>2. "throw" \notin faults' => "throw" \notin faults
        BY FaultsGrow
  <2>3. CASE DecStart
        BY <2>1, <2>2, <2>3 DEF DecStart, signals
  <2>4. CASE DecRecv
        BY <1>1, <2>1, <2>2, <2>4, QueueKeeps DEF DecRecv, signals
  <2>5. CASE DecOther \/ DecPacket
        BY <2>1, <2>2, <2>5 DEF DecOther, DecPacket, signals
  <2>6. CASE DecEmit
    <3>1. cbOpen
          BY <2>6 DEF DecEmit, IInv, ThreadsInv
    <3>2. UNCHANGED <<queue, demPc, shutdown, signals>> /\ decPc = "emit"
          /\ decPc' \in {"recv", "emit", "notify"}
          BY <2>6 DEF DecEmit, AfterOutput
    <3>3. decPc' = "notify" \/ cbQ' = cbQ
          BY <2>6 DEF DecEmit, TrySend
    <3> QED BY <2>1, <2>2, <3>1, <3>2, <3>3 DEF signals
  <2>7. CASE DecNotify
    <3>1. cbOpen
          BY <2>7 DEF DecNotify, IInv, ThreadsInv
    <3> QED BY <2>1, <2>2, <2>7, <3>1 DEF DecNotify, AfterOutput
  <2>8. CASE DecFinish \/ DecFinishNotify
        BY <1>1, <2>1, <2>2, <2>8, QueueKeeps DEF DecFinish, DecFinishNotify, signals
  <2>9. CASE DecClose \/ DecFinSend \/ DecFinRecv
        BY <1>1, <2>1, <2>2, <2>9, QueueKeeps DEF DecClose, DecFinSend, DecFinRecv, signals
  <2>10. CASE DecStop \/ DecJoin \/ DecFinAsync
         BY <2>1, <2>2, <2>10 DEF DecStop, DecJoin, DecFinAsync, signals
  <2> QED BY <1>3, <2>3, <2>4, <2>5, <2>6, <2>7, <2>8, <2>9, <2>10 DEF Decoder
<1>4. CASE EventLoop \/ RaiseSignal
  <2>1. UNCHANGED <<demPc, shutdown, decPc>>
        BY <1>4 DEF EventLoop, RaiseSignal
  <2>2. "throw" \notin faults' => "throw" \notin faults
        BY FaultsGrow
  <2>3. CASE Abort \/ AbortRecv
        BY <1>1, <2>1, <2>2, <2>3, QueueKeeps DEF Abort, AbortRecv, signals
  <2>4. CASE BufferReady \/ ThreadFinished
        BY <2>1, <2>2, <2>4 DEF BufferReady, ThreadFinished, jsData
  <2>5. CASE Deliver
    <3>1. cbOpen
          BY <2>5 DEF Deliver, CanRecv
    <3> QED BY <2>1, <2>2, <2>5, <3>1 DEF Deliver, signals
  <2>6. CASE DeliverEnd
        BY <2>1, <2>2, <2>6 DEF DeliverEnd, signals
  <2>7. CASE CleanupEnd
    <3>1. "throw" \notin faults => ~exception
          BY DEF IInv, DeliveryInv
    <3> QED BY <2>1, <2>2, <2>7, <3>1 DEF CleanupEnd, signals
  <2> QED BY <1>4, <2>3, <2>4, <2>5, <2>6, <2>7 DEF EventLoop, RaiseSignal
<1>5. CASE UNCHANGED vars
      BY <1>5 DEF vars, jsData, signals
<1> QED BY <1>2, <1>3, <1>4, <1>5 DEF Next, Terminated

LEMMA AwakeInvariance == Spec => [](IInv /\ AwakeInv)
<1>1. IInv /\ AwakeInv /\ [Next]_vars => AwakeInv'
      BY AwakeKept
<1> QED BY InductiveInvariant, AwakeInit, <1>1, PTL DEF Spec

(* No frame is forgotten in the callback queue: notifications coalesce,    *)
(* but the last frame that was put in is always followed by one.           *)
THEOREM NoFrameIsForgotten == Spec => []FramesAreAnnounced
BY AwakeInvariance, PTL DEF AwakeInv

(* The threads of a stream never wait for each other, nor for one that has *)
(* gone; only the network can be waited for, and only until the signal.    *)
THEOREM NobodyIsLeftWaiting == Spec => []OnlyNetworkIsAwaited
<1>1. IInv /\ AwakeInv => OnlyNetworkIsAwaited
  <2> SUFFICES ASSUME IInv, AwakeInv, NothingPending, DemuxerWaits, DecoderWaits
               PROVE  demPc = "read" /\ ~aborted
      BY DEF OnlyNetworkIsAwaited
  <2>1. /\ js = "idle" /\ promise = "pending" /\ ~finPending /\ "throw" \notin faults
        BY DEF NothingPending
  <2>2. decPc # "done"
        BY <2>1 DEF AwakeInv
  <2>3. CASE decPc = "join" /\ demPc # "done"
        BY <2>3 DEF AwakeInv, DemuxerWaits, SendFails
  <2>4. CASE decPc = "recv" /\ ~CanRecv(queue) /\ ~RecvFails(queue)
    <3>1. queue.msgs = <<>> /\ ~queue.err_recv
          BY <2>4 DEF CanRecv, RecvFails
    <3>2. ~aborted /\ demPc \notin {"none", "done"}
          BY <2>1, <2>4, <3>1 DEF AwakeInv
    <3>3. CanSend(queue, DEFAULT_MESSAGE_QUEUE_SIZE) \/ SendFails(queue)
          BY <3>1, ConsumeRtpAssumption, EmptySeq DEF CanSend, SendFails
    <3> QED BY <3>2, <3>3 DEF DemuxerWaits
  <2> QED BY <2>2, <2>3, <2>4 DEF DecoderWaits
<1> QED BY AwakeInvariance, <1>1, PTL

-----------------------------------------------------------------------------
(* The refinement of AudioSink.                                            *)

(* The callback queue holds the end of what was queued, nothing that was   *)
(* decoded since then is older, and the end of the thread is announced.    *)
SinkInv ==
    /\ Len(cbQ.msgs) <= Len(queued)
    /\ \A i \in 1..Len(cbQ.msgs) :
          cbQ.msgs[i] = queued[(Len(queued) - Len(cbQ.msgs)) + i]
    /\ "decode" \notin faults /\ queued # <<>> =>
          /\ decoded # <<>>
          /\ Abstract!After(decoded[Len(decoded)], queued[Len(queued)])
    /\ decPc \in Ended => cbQ.err_recv

LEMMA SinkTypes ==
    ASSUME TypeOK
    PROVE  /\ cbQ \in BufQueue /\ cbQ.msgs \in Seq(Frames) /\ Len(cbQ.msgs) \in Nat
           /\ queued \in Seq(Frames) /\ Len(queued) \in Nat
           /\ decoded \in Seq(Frames) /\ out \in Seq(Frames) /\ delivered \in Seq(Frames)
<1>1. cbQ \in BufQueue /\ HistoryTypes /\ DecTypes
      BY TypeParts
<1> QED BY <1>1 DEF BufQueue, BoundedQueue, QueueOf, HistoryTypes, DecTypes

(* The next frame to be queued comes after the last that was queued,       *)
(* whatever was decoded in between and did not fit.                        *)
LEMMA NextComesAfter ==
    ASSUME IInv, SinkInv, DecEmit, "decode" \notin faults
    PROVE  /\ Head(out) \in Frames
           /\ queued # <<>> => Abstract!After(Head(out), queued[Len(queued)])
<1> DEFINE h == Head(out)
<1>1. /\ decoded \in Seq(Frames) /\ out \in Seq(Frames) /\ out # <<>>
      /\ queued \in Seq(Frames)
      BY SinkTypes DEF IInv, CallbackInv, DecEmit
<1>2. h \in Frames /\ h = out[1] /\ Len(out) \in Nat \ {0}
      BY <1>1, TailProperties
<1>3. SUFFICES ASSUME queued # <<>>
               PROVE  Abstract!After(h, queued[Len(queued)])
      BY <1>2
<1>4. decoded # <<>> /\ Abstract!After(decoded[Len(decoded)], queued[Len(queued)])
      BY <1>3 DEF SinkInv
<1>5. /\ Len(decoded) \in Nat \ {0} /\ decoded[Len(decoded)] \in Frames
      /\ queued[Len(queued)] \in Frames
      BY <1>1, <1>3, <1>4, LastElement
<1>6. /\ Len(Given) = Len(decoded) + Len(out)
      /\ \A k \in 1..(Len(decoded) + Len(out)) :
            Given[k] = IF k <= Len(decoded) THEN decoded[k] ELSE out[k - Len(decoded)]
      BY <1>1, ConcatProperties DEF Given
<1>7. Timeline(Given)
      BY DEF IInv, GivenInv
<1>8. /\ Len(decoded) \in 1..(Len(Given) - 1)
      /\ Given[Len(decoded)] = decoded[Len(decoded)] /\ Given[Len(decoded) + 1] = h
      BY <1>2, <1>5, <1>6
<1>9. Follows(h, decoded[Len(decoded)])
  <2>1. Follows(Given[Len(decoded) + 1], Given[Len(decoded)])
        BY <1>7, <1>8 DEF Timeline
  <2> QED BY <1>8, <2>1
<1> DEFINE d == decoded[Len(decoded)]
<1> DEFINE q == queued[Len(queued)]
<1>10. d \in Frames /\ q \in Frames /\ Follows(h, d) /\ Abstract!After(d, q)
       BY <1>4, <1>5, <1>9
<1> HIDE DEF h, d, q
<1>11. Abstract!After(h, q)
       BY <1>2, <1>10 DEF Follows, Abstract!After, Frames
<1> QED BY <1>11 DEF h, q

(* A frame that is queued. *)
LEMMA AppendBoth ==
    ASSUME NEW s \in Seq(Frames), NEW t \in Seq(Frames), NEW e \in Frames,
           Len(s) <= Len(t), \A i \in 1..Len(s) : s[i] = t[(Len(t) - Len(s)) + i]
    PROVE  LET u == Append(s, e)
               v == Append(t, e)
           IN /\ Len(u) = Len(s) + 1 /\ Len(v) = Len(t) + 1 /\ v[Len(v)] = e
              /\ \A i \in 1..Len(u) : u[i] = v[(Len(v) - Len(u)) + i]
<1> DEFINE u == Append(s, e)
<1> DEFINE v == Append(t, e)
<1>1. Len(s) \in Nat /\ Len(t) \in Nat
      BY LenProperties
<1>2. /\ Len(u) = Len(s) + 1 /\ u[Len(s) + 1] = e /\ \A i \in 1..Len(s) : u[i] = s[i]
      /\ Len(v) = Len(t) + 1 /\ v[Len(t) + 1] = e /\ \A i \in 1..Len(t) : v[i] = t[i]
      BY AppendProperties
<1> HIDE DEF u, v
<1>3. ASSUME NEW i \in 1..Len(u) PROVE u[i] = v[(Len(v) - Len(u)) + i]
  <2>1. CASE i \in 1..Len(s)
    <3>1. (Len(v) - Len(u)) + i = (Len(t) - Len(s)) + i /\ (Len(t) - Len(s)) + i \in 1..Len(t)
          BY <1>1, <1>2, <2>1
    <3> QED BY <1>2, <2>1, <3>1
  <2>2. CASE i = Len(s) + 1
    <3>1. (Len(v) - Len(u)) + i = Len(t) + 1
          BY <1>1, <1>2, <2>2
    <3> QED BY <1>2, <2>2, <3>1
  <2> QED BY <1>1, <1>2, <2>1, <2>2
<1>4. v[Len(v)] = e
      BY <1>2
<1> QED BY <1>2, <1>3, <1>4 DEF u, v

(* What a step does to what AudioSink looks at. *)
Seen == <<cbQ, queued, decoded, delivered, promise, faults \cap {"decode", "throw"}>>
Sink == <<queued, Len(queued) - Len(cbQ.msgs), delivered, Phase,
          faults \cap {"decode", "throw"}>>

LEMMA SeenSteps ==
    ASSUME [Next]_vars
    PROVE  \/ Decoder /\ (DecEmit \/ DecFinish \/ DecPacket)
           \/ EventLoop /\ (Deliver \/ CleanupEnd)
           \/ UNCHANGED Seen
<1>1. CASE Decoder /\ ~DecEmit /\ ~DecFinish /\ ~DecPacket
  <2>1. UNCHANGED <<cbQ, outputs, jsData>>
        BY <1>1 DEF Decoder, DecStart, DecRecv, DecOther, DecNotify, DecFinishNotify,
                    DecClose, DecStop, DecJoin, DecFinSend, DecFinRecv, DecFinAsync
  <2>2. faults' \cap {"decode", "throw"} = faults \cap {"decode", "throw"}
        BY <1>1 DEF Decoder, DecStart, DecRecv, DecOther, DecNotify, DecFinishNotify,
                    DecClose, DecStop, DecJoin, DecFinSend, DecFinRecv, DecFinAsync, Fault
  <2> QED BY <2>1, <2>2 DEF outputs, jsData, Seen
<1>2. CASE (EventLoop \/ RaiseSignal) /\ ~Deliver /\ ~CleanupEnd
  <2>1. UNCHANGED <<cbQ, outputs, delivered, promise, faults>>
        BY <1>2 DEF EventLoop, RaiseSignal, Abort, AbortRecv, BufferReady, DeliverEnd,
                    ThreadFinished, jsData
  <2> QED BY <2>1 DEF outputs, Seen
<1>3. CASE DemStep \/ Network
  <2>1. UNCHANGED <<cbQ, outputs, jsData>>
        BY <1>3 DEF DemStep, Network
  <2>2. faults' \cap {"decode", "throw"} = faults \cap {"decode", "throw"}
        BY <1>3 DEF DemStep, Network, DemOpen, DemParams, DemRead, DemInterrupted, DemTick,
                    DemCheck, DemTime, DemPost, DemExit, Fault
  <2> QED BY <2>1, <2>2 DEF outputs, jsData, Seen
<1>4. CASE UNCHANGED vars
      BY <1>4 DEF vars, jsData, outputs, Seen
<1> QED BY <1>1, <1>2, <1>3, <1>4 DEF Next, Terminated, EventLoop, RaiseSignal

LEMMA SinkInit == Init => SinkInv
<1> SUFFICES ASSUME Init PROVE SinkInv
    OBVIOUS
<1>1. cbQ.msgs = <<>> /\ queued = <<>> /\ decPc = "start"
      BY DEF Init, InitHandles, InitDecoder, EmptyQueue
<1>2. Len(<<>>) = 0
      BY EmptySeq
<1> QED BY <1>1, <1>2 DEF SinkInv, Ended

(* The end of the thread is announced before it is reached. *)
LEMMA EndAnnounced ==
    ASSUME TypeOK, SinkInv, [Next]_vars
    PROVE  decPc' \in Ended => cbQ'.err_recv
<1>1. cbQ \in BufQueue
      BY SinkTypes
<1>2. CASE Decoder
  <2>1. CASE DecFinish
        BY <1>1, <2>1, CloseKeepsMessages DEF DecFinish, BufQueue
  <2>2. CASE DecStart \/ DecRecv \/ DecOther \/ DecPacket \/ DecEmit \/ DecNotify
        BY <2>2 DEF DecStart, DecRecv, DecOther, DecPacket, DecEmit, DecNotify, AfterOutput,
                    Ended
  <2>3. CASE DecFinishNotify \/ DecClose \/ DecStop \/ DecJoin \/ DecFinSend \/ DecFinRecv
             \/ DecFinAsync
        BY <2>3 DEF DecFinishNotify, DecClose, DecStop, DecJoin, DecFinSend, DecFinRecv,
                    DecFinAsync, Ended, SinkInv
  <2> QED BY <1>2, <2>1, <2>2, <2>3 DEF Decoder
<1>3. CASE EventLoop \/ RaiseSignal
  <2>1. decPc' = decPc
        BY <1>3 DEF EventLoop, RaiseSignal
  <2>2. cbQ'.err_recv = cbQ.err_recv
    <3>1. CASE Deliver
          BY <1>1, <3>1, RecvTakesHead, Sizes DEF Deliver, BufQueue
    <3>2. CASE ~Deliver
          BY <1>3, <3>2 DEF EventLoop, RaiseSignal, Abort, AbortRecv, BufferReady, DeliverEnd,
                            ThreadFinished, CleanupEnd
    <3> QED BY <3>1, <3>2
  <2> QED BY <2>1, <2>2 DEF SinkInv
<1>4. CASE DemStep \/ Network \/ UNCHANGED vars
      BY <1>4 DEF DemStep, Network, vars, SinkInv
<1> QED BY <1>2, <1>3, <1>4 DEF Next, Terminated

LEMMA SinkKept ==
    ASSUME IInv, SinkInv, [Next]_vars
    PROVE  SinkInv'
<1>1. /\ cbQ \in BufQueue /\ cbQ.msgs \in Seq(Frames) /\ Len(cbQ.msgs) \in Nat
      /\ queued \in Seq(Frames) /\ Len(queued) \in Nat
      /\ decoded \in Seq(Frames) /\ out \in Seq(Frames) /\ delivered \in Seq(Frames)
      BY SinkTypes DEF IInv
<1>2. decPc' \in Ended => cbQ'.err_recv
      BY EndAnnounced DEF IInv
<1>3. "decode" \notin faults' => "decode" \notin faults
      BY FaultsGrow
<1>4. CASE cbQ'.msgs = cbQ.msgs /\ UNCHANGED <<queued, decoded>>
      BY <1>2, <1>3, <1>4 DEF SinkInv
<1>5. CASE Decoder /\ DecEmit
  <2> DEFINE h == Head(out)
  <2>1. h \in Frames /\ out # <<>>
        BY <1>1, <1>5, TailProperties DEF IInv, CallbackInv, DecEmit
  <2>2. decoded' = Append(decoded, h) /\ UNCHANGED faults
        BY <1>5 DEF DecEmit
  <2> HIDE DEF h
  <2>3. decoded' # <<>> /\ decoded'[Len(decoded')] = h
    <3> DEFINE d == Append(decoded, h)
    <3>1. d # <<>> /\ Len(d) = Len(decoded) + 1 /\ d[Len(decoded) + 1] = h
          BY <1>1, <2>1, AppendProperties
    <3>2. d # <<>> /\ d[Len(d)] = h
          BY <3>1, Zenon
    <3> QED BY <2>2, <3>2
  <2>4. CASE CanSend(cbQ, CALLBACK_QUEUE_SIZE)
    <3>1. cbQ'.msgs = Append(cbQ.msgs, h) /\ queued' = Append(queued, h)
      <4>1. /\ Send(cbQ, h).msgs = Append(cbQ.msgs, h)
            /\ TrySend(cbQ, h, CALLBACK_QUEUE_SIZE) = Send(cbQ, h)
            BY <1>1, <2>1, <2>4, SendAppends, Sizes DEF BufQueue
      <4>2. cbQ' = TrySend(cbQ, h, CALLBACK_QUEUE_SIZE) /\ queued' = Append(queued, h)
            BY <1>5, <2>4 DEF DecEmit, h
      <4> QED BY <4>1, <4>2
    <3>2. /\ Len(cbQ'.msgs) = Len(cbQ.msgs) + 1 /\ Len(queued') = Len(queued) + 1
          /\ queued'[Len(queued')] = h
          /\ \A i \in 1..Len(cbQ'.msgs) :
                cbQ'.msgs[i] = queued'[(Len(queued') - Len(cbQ'.msgs)) + i]
      <4>1. /\ Len(cbQ.msgs) <= Len(queued)
            /\ \A i \in 1..Len(cbQ.msgs) :
                  cbQ.msgs[i] = queued[(Len(queued) - Len(cbQ.msgs)) + i]
            BY DEF SinkInv
      <4>2. cbQ.msgs \in Seq(Frames) /\ queued \in Seq(Frames) /\ h \in Frames
            BY <1>1, <2>1
      <4> DEFINE u == Append(cbQ.msgs, h)
      <4> DEFINE v == Append(queued, h)
      <4>3. /\ Len(u) = Len(cbQ.msgs) + 1 /\ Len(v) = Len(queued) + 1 /\ v[Len(v)] = h
            /\ \A i \in 1..Len(u) : u[i] = v[(Len(v) - Len(u)) + i]
            BY <4>1, <4>2, AppendBoth, Zenon
      <4>4. cbQ'.msgs = u /\ queued' = v
            BY <3>1
      <4> HIDE DEF u, v
      <4> QED BY <4>3, <4>4
    <3>3. Len(cbQ'.msgs) <= Len(queued')
          BY <1>1, <3>2 DEF SinkInv
    <3>4. Abstract!After(decoded'[Len(decoded')], queued'[Len(queued')])
          BY <2>3, <3>2 DEF Abstract!After
    <3> QED BY <1>2, <2>3, <3>2, <3>3, <3>4 DEF SinkInv
  <2>5. CASE ~CanSend(cbQ, CALLBACK_QUEUE_SIZE)
    <3>1. UNCHANGED <<cbQ, queued>>
          BY <1>5, <2>5 DEF DecEmit, TrySend
    <3>2. "decode" \notin faults /\ queued # <<>> => Abstract!After(h, queued[Len(queued)])
          BY <1>5, NextComesAfter DEF h
    <3> QED BY <1>2, <2>2, <2>3, <3>1, <3>2 DEF SinkInv
  <2> QED BY <2>4, <2>5
<1>6. CASE Decoder /\ DecFinish
  <2>1. cbQ'.msgs = cbQ.msgs
        BY <1>1, <1>6, CloseKeepsMessages DEF DecFinish, BufQueue
  <2> QED BY <1>4, <1>6, <2>1 DEF DecFinish, outputs
<1>7. CASE Decoder /\ DecPacket
      BY <1>4, <1>7 DEF DecPacket, outputs
<1>8. CASE EventLoop /\ Deliver
  <2>1. cbQ.msgs # <<>> /\ cbQ'.msgs = Tail(cbQ.msgs) /\ UNCHANGED <<queued, decoded>>
        BY <1>1, <1>8, RecvTakesHead, Sizes DEF Deliver, EventLoop, BufQueue, CanRecv, outputs
  <2>2. /\ Len(cbQ'.msgs) = Len(cbQ.msgs) - 1
        /\ \A i \in 1..(Len(cbQ.msgs) - 1) : cbQ'.msgs[i] = cbQ.msgs[i + 1]
        BY <1>1, <2>1, TailProperties
  <2>3. ASSUME NEW i \in 1..Len(cbQ'.msgs)
        PROVE  cbQ'.msgs[i] = queued[(Len(queued) - Len(cbQ'.msgs)) + i]
    <3>1. i \in 1..(Len(cbQ.msgs) - 1) /\ i + 1 \in 1..Len(cbQ.msgs)
          /\ (Len(queued) - Len(cbQ'.msgs)) + i = (Len(queued) - Len(cbQ.msgs)) + (i + 1)
          BY <1>1, <2>2
    <3>2. cbQ.msgs[i + 1] = queued[(Len(queued) - Len(cbQ.msgs)) + (i + 1)]
          BY <3>1 DEF SinkInv
    <3> QED BY <2>2, <3>1, <3>2
  <2>4. Len(cbQ'.msgs) <= Len(queued)
        BY <1>1, <2>2 DEF SinkInv
  <2> QED BY <1>2, <1>3, <2>1, <2>3, <2>4 DEF SinkInv
<1>9. CASE EventLoop /\ CleanupEnd
      BY <1>4, <1>9 DEF CleanupEnd, EventLoop, outputs
<1>10. CASE UNCHANGED Seen
       BY <1>4, <1>10 DEF Seen
<1> QED BY <1>5, <1>6, <1>7, <1>8, <1>9, <1>10, SeenSteps

LEMMA SinkInvariance == Spec => [](IInv /\ SinkInv)
<1>1. IInv /\ SinkInv /\ [Next]_vars => SinkInv'
      BY SinkKept
<1> QED BY InductiveInvariant, SinkInit, <1>1, PTL DEF Spec

(* A frame that is decoded extends the audio, or is dropped.               *)
LEMMA EmitStep ==
    ASSUME IInv, SinkInv, Decoder, DecEmit
    PROVE  Abstract!Extend \/ UNCHANGED Sink
<1> DEFINE h == Head(out)
<1>1. cbQ \in BufQueue /\ cbQ.msgs \in Seq(Frames) /\ queued \in Seq(Frames)
      /\ Len(cbQ.msgs) \in Nat /\ Len(queued) \in Nat
      BY SinkTypes DEF IInv
<1>2. h \in Frames /\ out # <<>>
      BY SinkTypes, TailProperties DEF IInv, CallbackInv, DecEmit
<1>3. UNCHANGED <<delivered, promise, faults>>
      BY DEF Decoder, DecEmit, jsData
<1>4. ~cbQ.err_recv /\ promise # "resolved"
      BY DEF IInv, CallbackInv, ThreadsInv, DecEmit
<1>5. CASE CanSend(cbQ, CALLBACK_QUEUE_SIZE)
  <2>1. /\ cbQ'.msgs = Append(cbQ.msgs, h) /\ cbQ'.err_recv = cbQ.err_recv
        /\ queued' = Append(queued, h)
        BY <1>1, <1>2, <1>5, SendAppends, Sizes DEF DecEmit, BufQueue
  <2>2. "decode" \notin faults /\ queued # <<>> => Abstract!After(h, queued[Len(queued)])
        BY NextComesAfter
  <2> HIDE DEF h
  <2>3. Len(Append(cbQ.msgs, h)) = Len(cbQ.msgs) + 1 /\ Len(Append(queued, h)) = Len(queued) + 1
        /\ Append(queued, h)[Len(queued) + 1] = h
        BY <1>1, <1>2, AppendProperties
  <2>4. Len(cbQ'.msgs) = Len(cbQ.msgs) + 1 /\ Len(queued') = Len(queued) + 1
        BY <2>1, <2>3
  <2>5. queued'[Len(queued')] = h
    <3>1. queued'[Len(queued) + 1] = h
          BY <2>1, <2>3
    <3> QED BY <2>4, <3>1, Zenon
  <2>6. Len(queued') - Len(cbQ'.msgs) = Len(queued) - Len(cbQ.msgs)
        BY <1>1, <2>4
  <2>7. Phase = "open" /\ Phase' = Phase
        BY <1>3, <1>4, <2>1 DEF Phase
  <2>8. \/ queued = <<>> \/ "decode" \in faults \cap {"decode", "throw"}
        \/ Abstract!After(h, queued[Len(queued)])
        BY <2>2
  <2> QED BY <1>2, <1>3, <2>1, <2>4, <2>5, <2>6, <2>7, <2>8 DEF Abstract!Extend
<1>6. CASE ~CanSend(cbQ, CALLBACK_QUEUE_SIZE)
  <2>1. UNCHANGED <<cbQ, queued>>
        BY <1>6 DEF DecEmit, TrySend
  <2> QED BY <1>3, <2>1 DEF Sink, Phase
<1> QED BY <1>5, <1>6

(* A frame is handed over, or thrown away because onAudioData threw.       *)
LEMMA DeliverStep ==
    ASSUME IInv, SinkInv, EventLoop, Deliver
    PROVE  Abstract!Deliver
<1> DEFINE e == faults \cap {"decode", "throw"}
<1>1. cbQ \in BufQueue /\ cbQ.msgs \in Seq(Frames) /\ queued \in Seq(Frames)
      /\ Len(cbQ.msgs) \in Nat /\ Len(queued) \in Nat
      BY SinkTypes DEF IInv
<1>2. /\ cbQ.msgs # <<>> /\ cbQ'.msgs = Tail(cbQ.msgs) /\ cbQ'.err_recv = cbQ.err_recv
      BY <1>1, RecvTakesHead, Sizes DEF Deliver, BufQueue, CanRecv
<1>3. UNCHANGED <<queued, promise>>
      BY DEF Deliver, EventLoop, outputs
<1>4. promise # "resolved" /\ ("throw" \notin faults => ~exception)
      BY <1>2 DEF IInv, DeliveryInv
<1>5. Phase # "done" /\ Phase' = Phase
      BY <1>2, <1>3, <1>4 DEF Phase
<1>6. /\ Len(Tail(cbQ.msgs)) = Len(cbQ.msgs) - 1 /\ Len(cbQ.msgs) >= 1
      /\ Head(cbQ.msgs) = cbQ.msgs[1]
      BY <1>1, <1>2, TailProperties
<1> DEFINE n == Len(queued) - Len(cbQ.msgs)
<1>7. n < Len(queued) /\ Len(queued') - Len(cbQ'.msgs) = n + 1
  <2>1. Len(cbQ'.msgs) = Len(cbQ.msgs) - 1 /\ Len(queued') = Len(queued)
        BY <1>2, <1>3, <1>6
  <2> QED BY <1>1, <1>6, <2>1
<1>8. Head(cbQ.msgs) = queued[n + 1]
  <2>1. \A i \in 1..Len(cbQ.msgs) : cbQ.msgs[i] = queued[n + i]
        BY DEF SinkInv
  <2>2. 1 \in 1..Len(cbQ.msgs)
        BY <1>1, <1>6
  <2> QED BY <1>6, <2>1, <2>2
<1>9. \/ delivered' = Append(delivered, Head(cbQ.msgs)) /\ e' \in {e, e \cup {"throw"}}
      \/ "throw" \in e /\ UNCHANGED <<delivered, e>>
      BY <1>4 DEF Deliver, Fault
<1> HIDE DEF e, n
<1>10. \/ delivered' = Append(delivered, queued[n + 1]) /\ e' \in {e, e \cup {"throw"}}
       \/ "throw" \in e /\ UNCHANGED <<delivered, e>>
       BY <1>8, <1>9
<1> QED BY <1>3, <1>5, <1>7, <1>10 DEF Abstract!Deliver, e, n

LEMMA SinkStep ==
    IInv /\ SinkInv /\ [Next]_vars
        => [Abstract!Next]_<<queued, Len(queued) - Len(cbQ.msgs), delivered, Phase,
                             faults \cap {"decode", "throw"}>>
<1> SUFFICES ASSUME IInv, SinkInv, [Next]_vars
             PROVE  Abstract!Next \/ UNCHANGED Sink
    BY DEF Sink
<1>1. CASE Decoder /\ DecEmit
      BY <1>1, EmitStep DEF Abstract!Next
<1>2. CASE Decoder /\ DecPacket
  <2>1. UNCHANGED <<cbQ, queued, delivered, promise>>
        BY <1>2 DEF Decoder, DecPacket, outputs, jsData
  <2>2. \/ UNCHANGED faults
        \/ faults' = faults \cup {"decode"}
        BY <1>2 DEF DecPacket, Fault
  <2>3. \/ faults' \cap {"decode", "throw"} = faults \cap {"decode", "throw"}
        \/ faults' \cap {"decode", "throw"}
              = (faults \cap {"decode", "throw"}) \cup {"decode"}
        BY <2>2
  <2> QED BY <2>1, <2>3 DEF Abstract!CannotDecode, Abstract!Next, Sink, Phase
<1>3. CASE Decoder /\ DecFinish
  <2>1. cbQ'.msgs = cbQ.msgs /\ cbQ'.err_recv
        BY <1>3, SinkTypes, CloseKeepsMessages DEF IInv, DecFinish, BufQueue
  <2>2. UNCHANGED <<queued, delivered, promise, faults>>
        BY <1>3 DEF Decoder, DecFinish, outputs, jsData
  <2>3. ~cbQ.err_recv /\ promise # "resolved"
        BY <1>3 DEF IInv, CallbackInv, ThreadsInv, DecFinish
  <2>4. Phase = "open" /\ Phase' = "ended"
        BY <2>1, <2>2, <2>3 DEF Phase
  <2> QED BY <2>1, <2>2, <2>4 DEF Abstract!End, Abstract!Next
<1>4. CASE EventLoop /\ Deliver
      BY <1>4, DeliverStep DEF Abstract!Next
<1>5. CASE EventLoop /\ CleanupEnd
  <2>1. UNCHANGED <<cbQ, queued, delivered, faults>> /\ cbQ.msgs = <<>>
        BY <1>5 DEF EventLoop, CleanupEnd, outputs
  <2>2. cbQ.err_recv
        BY <1>5 DEF IInv, ThreadsInv, SinkInv, CleanupEnd, Ended
  <2>3. CASE promise' = promise
        BY <2>1, <2>3 DEF Sink, Phase
  <2>4. CASE promise' # promise
    <3>1. promise' = "resolved" /\ promise # "resolved"
          BY <1>5, <2>4 DEF CleanupEnd
    <3>2. Phase = "ended" /\ Phase' = "done"
          BY <2>2, <3>1 DEF Phase
    <3>3. Len(queued) - Len(cbQ.msgs) = Len(queued)
      <4>1. Len(cbQ.msgs) = 0 /\ Len(queued) \in Nat
            BY <2>1, SinkTypes, EmptySeq DEF IInv
      <4> QED BY <4>1
    <3> QED BY <2>1, <3>2, <3>3 DEF Abstract!Finish, Abstract!Next
  <2> QED BY <2>3, <2>4
<1>6. CASE UNCHANGED Seen
      BY <1>6 DEF Seen, Sink, Phase
<1> QED BY <1>1, <1>2, <1>3, <1>4, <1>5, <1>6, SeenSteps

(* For every stream, all sizes of the queues and all failures, the two     *)
(* threads, their queues and the callbacks are one AudioSink: onAudioData  *)
(* gets frames that do not overlap, in order and each at most once, none   *)
(* after the end, and done() settles when none is left.                    *)
THEOREM SinkImplements == Spec => ImplementsAudioSink
<1>1. Init => Abstract!Init
  <2> SUFFICES ASSUME Init PROVE Abstract!Init
      OBVIOUS
  <2>1. queued = <<>> /\ delivered = <<>> /\ cbQ.msgs = <<>> /\ ~cbQ.err_recv
        /\ promise = "pending" /\ faults = {}
        BY DEF Init, InitHandles, EmptyQueue
  <2>2. Len(queued) - Len(cbQ.msgs) = 0
    <3>1. Len(<<>>) = 0
          BY EmptySeq
    <3> QED BY <2>1, <3>1
  <2> QED BY <2>1, <2>2 DEF Abstract!Init, Phase
<1> QED
    BY SinkInvariance, <1>1, SinkStep, PTL
       DEF Spec, ImplementsAudioSink, Abstract!Spec, Abstract!vars

=============================================================================
