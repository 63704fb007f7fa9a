-------------------------- MODULE ProduceRtpProofs --------------------------
(***************************************************************************)
(* For every choice of the constants: the types of ProduceRtp, and the     *)
(* order in which a stream shuts down.                                     *)
(***************************************************************************)
EXTENDS ProduceRtp, QueueTheorems

-----------------------------------------------------------------------------
(* Type correctness.                                                       *)

LEMMA MinOfTwo ==
    ASSUME NEW a \in Int, NEW b \in Int
    PROVE  Min({a, b}) = IF a <= b THEN a ELSE b
<1> DEFINE m == IF a <= b THEN a ELSE b
<1>1. m \in {a, b} /\ \A y \in {a, b} : m <= y
      OBVIOUS
<1>2. \A x \in {a, b} : (\A y \in {a, b} : x <= y) => x = m
      OBVIOUS
<1> QED BY <1>1, <1>2 DEF Min

LEMMA SettingsTypes ==
    /\ StartSettings \in [Settings -> Int]
    /\ \A s \in Settings, v \in Int : CtlValue(s, v) \in Int
BY SettingsAssumption DEF StartSettings, CtlValue, OPUS_AUTO, Settings

LEMMA AcceptedType ==
    ASSUME NEW c \in Seq([msg : Messages, at : Nat])
    PROVE  Accepted(c) \in Nat
<1>1. CASE c = <<>>
      BY <1>1 DEF Accepted
<1>2. CASE c # <<>>
  <2>1. c[Len(c)] \in [msg : Messages, at : Nat]
        BY <1>2, LastElement
  <2>2. c[Len(c)].at \in Nat
        BY <2>1
  <2> QED BY <1>2, <2>2 DEF Accepted, Last
<1> QED BY <1>1, <1>2

(* What an accepted or refused post does to the queue and to the history.  *)
LEMMA PostTypes ==
    ASSUME TypeOK, NEW m \in Messages, NEW n \in Nat, PostToEncoder(m), Log(m, n)
    PROVE  encQ' \in QueueOf(Messages) /\ calls' \in Seq([msg : Messages, at : Nat])
<1>1. encQ' \in QueueOf(Messages)
      BY QueueSend DEF TypeOK, QueueTypes, HistoryTypes, EncTypes, PostToEncoder
<1> DEFINE Calls == [msg : Messages, at : Nat]
           call  == [msg |-> m, at |-> Accepted(calls) + n]
<1>2. calls \in Seq(Calls)
      BY DEF TypeOK, QueueTypes, HistoryTypes, EncTypes
<1>7. Accepted(calls) \in Nat
      BY <1>2, AcceptedType
<1>3. Accepted(calls) + n \in Nat
      BY <1>7
<1>4. call \in Calls
      BY <1>3
<1>5. Append(calls, call) \in Seq(Calls)
      BY <1>2, <1>4
<1>6. calls' \in Seq(Calls)
      BY <1>2, <1>5 DEF Log
<1> QED BY <1>1, <1>6

LEMMA MessageTypes ==
    /\ FlushMessage \in Messages /\ ClearMessage \in Messages
    /\ \A m \in Messages : m.type = "POST_PCM_BUFFER" =>
          /\ m.samples \in Seq(Nat)
          /\ \A t \in Seq(Nat) : [m EXCEPT !.samples = t] \in Messages
    /\ \A m \in Messages : m.type \in Settings =>
          m.value \in Int /\ m # ClearMessage
    /\ \A m \in Messages : m.type = "CLEAR_PRODUCER_QUEUE" => m = ClearMessage
BY DEF Messages, PcmMessages, SetMessages, FlushMessage, ClearMessage, Settings

(* Whatever is done to the flags of the two queues, they keep their types. *)
LEMMA ClosingTypes ==
    ASSUME TypeOK
    PROVE  /\ SetErrSend(encQ) \in QueueOf(Messages)
           /\ SetErrRecv(encQ) \in QueueOf(Messages)
           /\ Flush(encQ) \in QueueOf(Messages)
           /\ SetErrSend(prodQ) \in QueueOf(Packets)
           /\ SetErrRecv(prodQ) \in QueueOf(Packets)
           /\ Flush(prodQ) \in QueueOf(Packets)
<1>1. encQ \in QueueOf(Messages) /\ prodQ \in QueueOf(Packets)
      BY DEF TypeOK, QueueTypes, HistoryTypes, EncTypes
<1> QED BY <1>1, QueueFlags

LEMMA InitTypeOK == Init => TypeOK
<1> SUFFICES ASSUME Init PROVE TypeOK
    OBVIOUS
<1>1. \A M : EmptyQueue \in QueueOf(M)
      BY DEF EmptyQueue, QueueOf
<1>2. NoPacket \in Packets
      BY SettingsTypes DEF NoPacket, Packets
<1>3. NoMessage \in Messages
      BY MessageTypes DEF NoMessage
<1>6. QueueTypes
      BY <1>1 DEF Init, InitJs, InitHandles, InitThreads, QueueTypes
<1>7. JsTypes /\ UvTypes
      BY DEF Init, InitJs, InitHandles, InitThreads, JsTypes, UvTypes
<1>8. ProdTypes
      BY <1>2 DEF Init, InitJs, InitHandles, InitThreads, ProdTypes
<1>5. EncTypes /\ HistoryTypes
      BY <1>2, <1>3, SettingsAssumption, FrameSizeAssumption
         DEF Init, InitJs, InitHandles, InitThreads, EncTypes, HistoryTypes
<1> QED
    BY <1>5, <1>6, <1>7, <1>8 DEF TypeOK

LEMMA JsTypeOK ==
    ASSUME TypeOK, JsCall \/ JsContinue \/ EventLoop
    PROVE  TypeOK'
<1> USE DEF queues, jsVars, uvVars, encVars, prodVars, history
<1>1. ASSUME NEW n \in ChunkSizes, Write(n)
      PROVE  TypeOK'
  <2> DEFINE m == [type    |-> "POST_PCM_BUFFER",
                   samples |-> [i \in 1..n |-> Accepted(calls) + i]]
  <2>1. n \in Nat
        BY ProduceRtpAssumption
  <2>2. Accepted(calls) \in Nat
        BY AcceptedType DEF TypeOK, QueueTypes, HistoryTypes, EncTypes
  <2>3. [i \in 1..n |-> Accepted(calls) + i] \in Seq(Nat)
        BY <2>1, <2>2
  <2>4. m \in Messages
        BY <2>3 DEF Messages, PcmMessages
  <2>5. encQ' \in QueueOf(Messages) /\ calls' \in Seq([msg : Messages, at : Nat])
        BY <1>1, <2>1, <2>4, PostTypes DEF Write
  <2>6. JsTypes'
        BY <1>1 DEF Write, TypeOK, JsTypes
  <2> QED BY <1>1, <2>5, <2>6 DEF Write, TypeOK, QueueTypes, UvTypes, EncTypes, ProdTypes,
             HistoryTypes
<1>2. CASE EndSegment
  <2>1. encQ' \in QueueOf(Messages) /\ calls' \in Seq([msg : Messages, at : Nat])
        BY <1>2, MessageTypes, PostTypes DEF EndSegment
  <2>2. Accepted(calls) \in Nat
        BY AcceptedType DEF TypeOK, QueueTypes, HistoryTypes, EncTypes
  <2>3. HistoryTypes'
        BY <1>2, <2>1, <2>2 DEF EndSegment, TypeOK, HistoryTypes
  <2>4. QueueTypes'
        BY <1>2, <2>1 DEF EndSegment, TypeOK, QueueTypes
  <2>5. JsTypes'
        BY <1>2 DEF EndSegment, TypeOK, JsTypes
  <2> QED
      BY <1>2, <2>3, <2>4, <2>5
         DEF EndSegment, TypeOK, UvTypes, EncTypes, ProdTypes
<1>3. ASSUME NEW s \in Settings, NEW v \in SettingValues[s], SetEncoder(s, v)
      PROVE  TypeOK'
  <2>1. v \in Int
        BY ProduceRtpAssumption
  <2>2. [type |-> s, value |-> v] \in Messages
        BY <2>1 DEF Messages, SetMessages
  <2>3. encQ' \in QueueOf(Messages) /\ calls' \in Seq([msg : Messages, at : Nat])
        BY <1>3, <2>2, PostTypes DEF SetEncoder
  <2>4. JsTypes'
        BY <1>3 DEF SetEncoder, TypeOK, JsTypes
  <2> QED BY <1>3, <2>3, <2>4 DEF SetEncoder, TypeOK, QueueTypes, UvTypes, EncTypes,
             ProdTypes, HistoryTypes
<1>4. CASE End
      BY <1>4, ClosingTypes DEF End, TypeOK, QueueTypes, JsTypes, UvTypes, EncTypes, ProdTypes,
             HistoryTypes
<1>5. CASE EndRecv
  <2>1. JsTypes'
        BY <1>5 DEF EndRecv, TypeOK, JsTypes
  <2> QED BY <1>5, <2>1, ClosingTypes DEF EndRecv, TypeOK, QueueTypes, UvTypes, EncTypes,
             ProdTypes, HistoryTypes
<1>6. CASE Abort
      BY <1>6, ClosingTypes DEF Abort, TypeOK, QueueTypes, JsTypes, UvTypes, EncTypes, ProdTypes,
             HistoryTypes
<1>7. CASE AbortRecv
  <2>1. JsTypes'
        BY <1>7 DEF AbortRecv, TypeOK, JsTypes
  <2> QED BY <1>7, <2>1, ClosingTypes DEF AbortRecv, TypeOK, QueueTypes, UvTypes, EncTypes,
             ProdTypes, HistoryTypes
<1>8. CASE AbortFlush
      BY <1>8, ClosingTypes DEF AbortFlush, TypeOK, QueueTypes, JsTypes, UvTypes, EncTypes, ProdTypes,
             HistoryTypes
<1>9. CASE AbortClear
  <2>1. encQ' \in QueueOf(Messages)
        BY <1>9, MessageTypes, QueueSend DEF AbortClear, PostToEncoder, TypeOK, QueueTypes
  <2> QED BY <1>9, <2>1 DEF AbortClear, TypeOK, QueueTypes, JsTypes, UvTypes, EncTypes,
                            ProdTypes, HistoryTypes
<1>10. CASE DrainCallback
  <2>1. JsTypes' /\ UvTypes'
        BY <1>10 DEF DrainCallback, TypeOK, JsTypes, UvTypes
  <2> QED BY <1>10, <2>1 DEF DrainCallback, TypeOK, QueueTypes, EncTypes, ProdTypes,
                             HistoryTypes
<1>11. CASE FinishCallback
  <2>1. JsTypes' /\ UvTypes'
        BY <1>11 DEF FinishCallback, TypeOK, JsTypes, UvTypes
  <2> QED BY <1>11, <2>1 DEF FinishCallback, TypeOK, QueueTypes, EncTypes, ProdTypes,
                             HistoryTypes
<1>12. CASE RemoveListener
  <2>1. JsTypes'
        BY <1>12 DEF RemoveListener, TypeOK, JsTypes
  <2> QED
      BY <1>12, <2>1
         DEF RemoveListener, TypeOK, QueueTypes, UvTypes, EncTypes, ProdTypes,
             HistoryTypes
<1>13. CASE CallAfterClose
  <2>1. JsTypes'
        BY <1>13 DEF CallAfterClose, TypeOK, JsTypes
  <2> QED
      BY <1>13, <2>1
         DEF CallAfterClose, TypeOK, QueueTypes, UvTypes, EncTypes, ProdTypes,
             HistoryTypes
<1>14. CASE DrainReturn
  <2>1. JsTypes' /\ HistoryTypes'
        BY <1>14 DEF DrainReturn, Fault, TypeOK, JsTypes, HistoryTypes
  <2> QED BY <1>14, <2>1 DEF DrainReturn, TypeOK, QueueTypes, UvTypes, EncTypes,
                             ProdTypes
<1> QED
    BY <1>1, <1>2, <1>3, <1>4, <1>5, <1>6, <1>7, <1>8, <1>9, <1>10, <1>11, <1>12, <1>13,
       <1>14 DEF JsCall, JsContinue, EventLoop

LEMMA EncoderTypeOK ==
    ASSUME TypeOK, Encoder
    PROVE  TypeOK'
<1> USE DEF queues, jsVars, uvVars, encVars, prodVars, history
<1>1. \A samples \in Seq(Nat) : Packet(samples) \in Packets
      BY DEF Packet, Packets, TypeOK, QueueTypes, JsTypes, UvTypes, EncTypes, ProdTypes,
             HistoryTypes
<1>2. SendToProducer => prodQ' \in QueueOf(Packets)
      BY QueueSend DEF SendToProducer, TypeOK, QueueTypes, JsTypes, UvTypes, EncTypes, ProdTypes,
             HistoryTypes
<1>3. /\ <<>> \in Seq(Nat) /\ Len(<<>>) <= FrameSize
      /\ FRAME_SIZE_OUTPUT \in Nat
      BY FrameSizeAssumption DEF FRAME_SIZE_OUTPUT
<1>4. \A rest : AfterInput(rest) \in {"recv", "handle"}
      BY DEF AfterInput
<1>5. CASE EncStartProducer
      BY <1>5 DEF EncStartProducer, Fault, TypeOK, QueueTypes, JsTypes, UvTypes, EncTypes, ProdTypes,
             HistoryTypes
<1>6. CASE EncCreateOpus
      BY <1>6, SettingsTypes DEF EncCreateOpus, Fault, TypeOK, QueueTypes, JsTypes, UvTypes, EncTypes, ProdTypes,
             HistoryTypes
<1>7. CASE EncRecv
      BY <1>7, QueueRecv DEF EncRecv, TypeOK, QueueTypes, JsTypes, UvTypes, EncTypes, ProdTypes,
             HistoryTypes
<1>8. CASE EncEof
      BY <1>8 DEF EncEof, TypeOK, QueueTypes, JsTypes, UvTypes, EncTypes, ProdTypes,
             HistoryTypes
<1>9. CASE EncNotify
      BY <1>9 DEF EncNotify, TypeOK, QueueTypes, JsTypes, UvTypes, EncTypes, ProdTypes,
             HistoryTypes
<1>10. CASE EncFill
  <2> DEFINE n      == Min({Len(encMsg.samples), FrameSize - Len(accum)})
             filled == accum \o SubSeq(encMsg.samples, 1, n)
  <2>1. encMsg \in Messages /\ encMsg.samples \in Seq(Nat) /\ accum \in Seq(Nat)
        BY <1>10, MessageTypes DEF EncFill, TypeOK, QueueTypes, JsTypes, UvTypes, EncTypes, ProdTypes,
             HistoryTypes
  <2>2. /\ Len(encMsg.samples) \in Nat /\ Len(accum) \in Nat /\ FrameSize \in Nat
        /\ Len(accum) <= FrameSize
        BY <2>1, FrameSizeAssumption, LenProperties DEF TypeOK, QueueTypes, HistoryTypes, EncTypes
  <2>3. n \in Nat /\ n <= Len(encMsg.samples) /\ Len(accum) + n <= FrameSize
        BY <2>2, MinOfTwo
  <2>4. /\ SubSeq(encMsg.samples, 1, n) \in Seq(Nat)
        /\ Len(SubSeq(encMsg.samples, 1, n)) = n
        /\ SubSeq(encMsg.samples, n + 1, Len(encMsg.samples)) \in Seq(Nat)
        BY <2>1, <2>3, SplitTypes
  <2>9. Rest(n) \in Seq(Nat)
        BY <2>4 DEF Rest
  <2>8. filled \in Seq(Nat) /\ Len(filled) <= FrameSize
    <3>1. /\ filled \in Seq(Nat)
          /\ Len(filled) = Len(accum) + Len(SubSeq(encMsg.samples, 1, n))
          BY <2>1, <2>4, ConcatProperties
    <3> QED BY <2>3, <2>4, <3>1
  <2>5. Packet(filled) \in Packets
        BY <1>1, <2>8
  <2>6. [encMsg EXCEPT !.samples = Rest(n)] \in Messages
        BY <1>10, <2>1, <2>9, MessageTypes DEF EncFill
  <2>7. /\ encMsg' = [encMsg EXCEPT !.samples = Rest(n)]
        /\ encPkt' \in {encPkt, Packet(filled)}
        /\ accum' \in {filled, <<>>}
        /\ encPc' \in {AfterInput(Rest(n)), "post"}
        /\ faults' = faults \/ Fault("encode")
        /\ UNCHANGED <<queues, jsVars, uvVars, pts, ctl, prodVars, calls, asked>>
        BY <1>10 DEF EncFill
  <2>11. EncTypes'
        BY <1>3, <1>4, <2>2, <2>8, <2>5, <2>6, <2>7 DEF TypeOK, EncTypes
  <2>12. HistoryTypes'
        BY <2>7 DEF Fault, TypeOK, HistoryTypes
  <2> QED
      BY <2>7, <2>11, <2>12
         DEF TypeOK, QueueTypes, JsTypes, UvTypes, ProdTypes
<1>11. CASE EncPost
      BY <1>2, <1>3, <1>4, <1>11 DEF EncPost, TypeOK, QueueTypes, JsTypes, UvTypes, EncTypes, ProdTypes,
             HistoryTypes
<1>12. CASE EncFlush
  <2>1. Packet(accum) \in Packets
        BY <1>1 DEF TypeOK, QueueTypes, HistoryTypes, EncTypes
  <2>4. /\ encPc' \in {"recv", "flushPost"} /\ pts' \in {pts, 0}
        /\ accum' \in {accum, <<>>} /\ encPkt' \in {encPkt, Packet(accum)}
        /\ UNCHANGED <<encMsg, ctl>>
        BY <1>12 DEF EncFlush
  <2>2. EncTypes'
    <3>1. accum' \in Seq(Nat) /\ Len(accum') <= FrameSize
          BY <1>3, <2>4 DEF TypeOK, EncTypes
    <3>2. pts' \in Nat /\ encPkt' \in Packets
          BY <2>1, <2>4 DEF TypeOK, EncTypes
    <3> QED BY <2>4, <3>1, <3>2 DEF TypeOK, EncTypes
  <2>3. HistoryTypes'
        BY <1>12 DEF EncFlush, Fault, TypeOK, HistoryTypes
  <2> QED
      BY <1>12, <2>2, <2>3
         DEF EncFlush, TypeOK, QueueTypes, JsTypes, UvTypes, ProdTypes
<1>13. CASE EncFlushPost
      BY <1>2, <1>3, <1>13 DEF EncFlushPost, TypeOK, QueueTypes, JsTypes, UvTypes, EncTypes, ProdTypes,
             HistoryTypes
<1>14. CASE EncControl
  <2>1. encMsg # ClearMessage => encMsg.type \in Settings /\ encMsg.value \in Int
        BY <1>14, MessageTypes DEF EncControl, TypeOK, QueueTypes, JsTypes, UvTypes, EncTypes, ProdTypes,
             HistoryTypes
  <2>2. ctl' \in [Settings -> Int]
        BY <1>14, <2>1, SettingsTypes DEF EncControl, TypeOK, QueueTypes, JsTypes, UvTypes, EncTypes, ProdTypes,
             HistoryTypes
  <2>3. prodQ' \in QueueOf(Packets)
        BY <1>14, ClosingTypes DEF EncControl, TypeOK, QueueTypes, JsTypes, UvTypes, EncTypes, ProdTypes,
             HistoryTypes
  <2> QED BY <1>14, <2>2, <2>3 DEF EncControl, TypeOK, QueueTypes, JsTypes, UvTypes, EncTypes, ProdTypes,
             HistoryTypes
<1>15. CASE EncStopSend
      BY <1>15, ClosingTypes DEF EncStopSend, TypeOK, QueueTypes, JsTypes, UvTypes, EncTypes, ProdTypes,
             HistoryTypes
<1>16. CASE EncStopRecv
      BY <1>16, ClosingTypes DEF EncStopRecv, TypeOK, QueueTypes, JsTypes, UvTypes, EncTypes, ProdTypes,
             HistoryTypes
<1>17. CASE EncJoin
      BY <1>17 DEF EncJoin, TypeOK, QueueTypes, JsTypes, UvTypes, EncTypes, ProdTypes,
             HistoryTypes
<1>18. CASE EncFinSend
      BY <1>18, ClosingTypes DEF EncFinSend, TypeOK, QueueTypes, JsTypes, UvTypes, EncTypes, ProdTypes,
             HistoryTypes
<1>19. CASE EncFinRecv
      BY <1>19, ClosingTypes DEF EncFinRecv, TypeOK, QueueTypes, JsTypes, UvTypes, EncTypes, ProdTypes,
             HistoryTypes
<1>20. CASE EncFinish
      BY <1>20 DEF EncFinish, TypeOK, QueueTypes, JsTypes, UvTypes, EncTypes, ProdTypes,
             HistoryTypes
<1> QED
    BY <1>5, <1>6, <1>7, <1>8, <1>9, <1>10, <1>11, <1>12, <1>13, <1>14, <1>15,
       <1>16, <1>17, <1>18, <1>19, <1>20 DEF Encoder

LEMMA ProducerTypeOK ==
    ASSUME TypeOK, Producer
    PROVE  TypeOK'
<1> USE DEF queues, jsVars, uvVars, encVars, prodVars, history
<1>1. CASE ProdOpen
      BY <1>1 DEF ProdOpen, Fault, TypeOK, QueueTypes, JsTypes, UvTypes, EncTypes, ProdTypes,
             HistoryTypes
<1>2. CASE ProdRecv
      BY <1>2, QueueRecv DEF ProdRecv, TypeOK, QueueTypes, JsTypes, UvTypes, EncTypes, ProdTypes,
             HistoryTypes
<1>3. CASE ProdEof
      BY <1>3 DEF ProdEof, TypeOK, QueueTypes, JsTypes, UvTypes, EncTypes, ProdTypes,
             HistoryTypes
<1>4. CASE ProdSend
  <2>1. Append(sent, prodPkt) \in Seq(Packets)
        BY DEF TypeOK, ProdTypes
  <2>2. ProdTypes'
        BY <1>4, <2>1 DEF ProdSend, TypeOK, ProdTypes
  <2>3. HistoryTypes'
        BY <1>4 DEF ProdSend, Fault, TypeOK, HistoryTypes
  <2> QED
      BY <1>4, <2>2, <2>3
         DEF ProdSend, TypeOK, QueueTypes, JsTypes, UvTypes, EncTypes
<1>5. CASE ProdExitSend
      BY <1>5, ClosingTypes DEF ProdExitSend, TypeOK, QueueTypes, JsTypes, UvTypes, EncTypes, ProdTypes,
             HistoryTypes
<1>6. CASE ProdExitRecv
      BY <1>6, ClosingTypes DEF ProdExitRecv, TypeOK, QueueTypes, JsTypes, UvTypes, EncTypes, ProdTypes,
             HistoryTypes
<1> QED BY <1>1, <1>2, <1>3, <1>4, <1>5, <1>6 DEF Producer

LEMMA NextTypeOK == TypeOK /\ [Next]_vars => TypeOK'
<1> SUFFICES ASSUME TypeOK, [Next]_vars PROVE TypeOK'
    OBVIOUS
<1>1. CASE UNCHANGED vars
      BY <1>1 DEF vars, queues, jsVars, uvVars, encVars, prodVars, history, TypeOK, QueueTypes, JsTypes, UvTypes, EncTypes, ProdTypes,
             HistoryTypes
<1> QED
    BY <1>1, JsTypeOK, EncoderTypeOK, ProducerTypeOK DEF Next, Terminated

(* Every variable keeps its type: only messages of the queue's own kind    *)
(* travel on it, and no timestamp or sample number is ever negative.       *)
THEOREM TypeCorrect == Spec => []TypeOK
BY InitTypeOK, NextTypeOK, PTL DEF Spec

-----------------------------------------------------------------------------
(* Shutting down.                                                          *)

(* QueueKeeps, for the encoder's queue in a state and the step after it.   *)
LEMMA EncQFields ==
    ASSUME TypeOK
    PROVE  /\ SetErrSend(encQ).err_send /\ SetErrSend(encQ).msgs = encQ.msgs
           /\ SetErrRecv(encQ).err_send = encQ.err_send
           /\ SetErrRecv(encQ).msgs = encQ.msgs
           /\ Flush(encQ).err_send = encQ.err_send /\ Flush(encQ).msgs = <<>>
           /\ Recv(encQ).err_send = encQ.err_send
           /\ \A m : PostToEncoder(m) => encQ'.err_send = encQ.err_send
           /\ \A m : PostToEncoder(m) /\ encQ.err_send => encQ' = encQ
<1>1. encQ \in QueueOf(Messages)
      BY DEF TypeOK, QueueTypes
<1>2. /\ SetErrSend(encQ).err_send /\ SetErrSend(encQ).msgs = encQ.msgs
      /\ SetErrRecv(encQ).err_send = encQ.err_send
      /\ SetErrRecv(encQ).msgs = encQ.msgs
      /\ Flush(encQ).err_send = encQ.err_send /\ Flush(encQ).msgs = <<>>
      /\ Recv(encQ).err_send = encQ.err_send
      BY <1>1, QueueKeeps
<1>3. ASSUME NEW m, PostToEncoder(m)
      PROVE  encQ'.err_send = encQ.err_send /\ (encQ.err_send => encQ' = encQ)
  <2>1. /\ TrySend(encQ, m, QueueDepth).err_send = encQ.err_send
        /\ SendFails(encQ) => TrySend(encQ, m, QueueDepth) = encQ
        BY <1>1 DEF QueueOf, TrySend, Send, CanSend, SendFails
  <2> QED BY <1>3, <2>1 DEF PostToEncoder, SendFails
<1> QED BY <1>2, <1>3

(* Until the encoder thread has started it there is no producer; after the *)
(* join there is none any more; and from finRecv on the encoder's queue    *)
(* refuses what is posted.                                                 *)
ShutdownInv ==
    /\ encPc = "start" => prodPc = "none"
    /\ ShutdownOrder
    /\ encPc \in {"finRecv", "finish", "done"} => encQ.err_send

LEMMA InitShutdownInv == Init => ShutdownInv
BY DEF Init, InitJs, InitHandles, InitThreads, ShutdownInv, ShutdownOrder

LEMMA JsShutdownInv ==
    ASSUME TypeOK, ShutdownInv, JsCall \/ JsContinue \/ EventLoop
    PROVE  ShutdownInv'
<1> USE EncQFields DEF queues, jsVars, uvVars, encVars, prodVars, history,
                       ShutdownInv, ShutdownOrder
<1>1. CASE JsCall
  <2>1. ASSUME NEW n \in ChunkSizes, Write(n)
        PROVE  ShutdownInv'
        BY <2>1 DEF Write
  <2>2. CASE EndSegment
        BY <2>2 DEF EndSegment
  <2>3. ASSUME NEW s \in Settings, NEW v \in SettingValues[s], SetEncoder(s, v)
        PROVE  ShutdownInv'
        BY <2>3 DEF SetEncoder
  <2>4. CASE End
        BY <2>4 DEF End
  <2>5. CASE Abort
        BY <2>5 DEF Abort
  <2>6. CASE CallAfterClose
        BY <2>6 DEF CallAfterClose
  <2> QED BY <1>1, <2>1, <2>2, <2>3, <2>4, <2>5, <2>6 DEF JsCall
<1>2. CASE JsContinue
      BY <1>2 DEF JsContinue, EndRecv, AbortRecv, AbortFlush, AbortClear
<1>3. CASE EventLoop
  <2>1. CASE FinishCallback
        BY <2>1 DEF FinishCallback, TypeOK, UvTypes
  <2>2. CASE DrainCallback \/ DrainReturn \/ RemoveListener
        BY <2>2 DEF DrainCallback, DrainReturn, RemoveListener
  <2> QED BY <1>3, <2>1, <2>2 DEF EventLoop
<1> QED BY <1>1, <1>2, <1>3

LEMMA ThreadsShutdownInv ==
    ASSUME TypeOK, ShutdownInv, Encoder \/ Producer
    PROVE  ShutdownInv'
<1> USE EncQFields DEF queues, jsVars, uvVars, encVars, prodVars, history,
                       ShutdownInv, ShutdownOrder
<1>1. CASE EncStartProducer \/ EncCreateOpus
      BY <1>1 DEF EncStartProducer, EncCreateOpus
<1>2. CASE EncRecv \/ EncEof \/ EncNotify
      BY <1>2 DEF EncRecv, EncEof, EncNotify
<1>3. CASE EncFill \/ EncPost
      BY <1>3 DEF EncFill, EncPost, AfterInput
<1>4. CASE EncFlush \/ EncFlushPost \/ EncControl
      BY <1>4 DEF EncFlush, EncFlushPost, EncControl
<1>5. CASE EncStopSend \/ EncStopRecv \/ EncJoin
      BY <1>5 DEF EncStopSend, EncStopRecv, EncJoin
<1>6. CASE EncFinSend \/ EncFinRecv \/ EncFinish
      BY <1>6 DEF EncFinSend, EncFinRecv, EncFinish
<1>7. CASE Producer
      BY <1>7 DEF Producer, ProdOpen, ProdRecv, ProdEof, ProdSend, ProdExitSend,
                  ProdExitRecv
<1> QED BY <1>1, <1>2, <1>3, <1>4, <1>5, <1>6, <1>7 DEF Encoder

LEMMA NextShutdownInv == TypeOK /\ ShutdownInv /\ [Next]_vars => ShutdownInv'
<1> SUFFICES ASSUME TypeOK, ShutdownInv, [Next]_vars PROVE ShutdownInv'
    OBVIOUS
<1>1. CASE UNCHANGED vars
      BY <1>1 DEF vars, queues, jsVars, uvVars, encVars, prodVars, history,
                  ShutdownInv, ShutdownOrder
<1> QED
    BY <1>1, JsShutdownInv, ThreadsShutdownInv DEF Next, Terminated

LEMMA ShutdownInvariance == Spec => []ShutdownInv
BY TypeCorrect, InitShutdownInv, NextShutdownInv, PTL DEF Spec

(* The threads stop in order: the producer's queue is freed, the drain     *)
(* handle closed and the promise resolved only when nothing uses them.     *)
THEOREM ShutdownIsOrdered == Spec => []ShutdownOrder
BY ShutdownInvariance, PTL DEF ShutdownInv

(* A stream whose promise has resolved is final: no packet leaves and no   *)
(* call is accepted any more.                                              *)
THEOREM ResolvedIsFinal ==
    Spec => [][promise = "resolved" => UNCHANGED <<sent, calls>>]_vars
<1>1. TypeOK /\ ShutdownInv /\ [Next]_vars
      => [promise = "resolved" => UNCHANGED <<sent, calls>>]_vars
  <2> SUFFICES ASSUME TypeOK, ShutdownInv, Next, promise = "resolved"
               PROVE  UNCHANGED <<sent, calls>>
      OBVIOUS
  <2> USE DEF queues, jsVars, uvVars, encVars, prodVars, history
  <2>1. encPc = "done" /\ prodPc \in {"none", "done"} /\ encQ.err_send
        BY DEF ShutdownInv, ShutdownOrder
  <2>2. CASE JsCall
        BY <2>1, <2>2 DEF JsCall, Write, EndSegment, SetEncoder, CallAfterClose, End,
                         Abort, SendFails
  <2>3. CASE JsContinue
        BY <2>3 DEF JsContinue, EndRecv, AbortRecv, AbortFlush, AbortClear
  <2>4. CASE EventLoop
        BY <2>4 DEF EventLoop, DrainCallback, DrainReturn, FinishCallback,
                    RemoveListener
  <2>5. ~Encoder
        BY <2>1 DEF Encoder, EncStartProducer, EncCreateOpus, EncRecv, EncEof,
                    EncNotify, EncFill, EncPost, EncFlush, EncFlushPost, EncControl,
                    EncStopSend, EncStopRecv, EncJoin, EncFinSend, EncFinRecv,
                    EncFinish
  <2>6. ~Producer
        BY <2>1 DEF Producer, ProdOpen, ProdRecv, ProdEof, ProdSend, ProdExitSend,
                    ProdExitRecv
  <2> QED
      BY <2>2, <2>3, <2>4, <2>5, <2>6 DEF Next, Terminated, vars
<1> QED BY TypeCorrect, ShutdownInvariance, <1>1, PTL DEF Spec

-----------------------------------------------------------------------------
(* Aborting.                                                               *)

(* From the abort on the encoder's queue refuses what is posted, so once   *)
(* the listener has flushed it, it stays empty.                            *)
AbortInv ==
    /\ js \in {"abortRecv", "abortFlush", "abortClear"} => aborted
    /\ aborted => encQ.err_send
    /\ ~listener => promise = "resolved"
    /\ aborted /\ js \in {"idle", "endRecv", "abortClear"} /\ promise = "pending"
          => encQ.msgs = <<>>

LEMMA InitAbortInv == Init => AbortInv
BY DEF Init, InitJs, InitHandles, InitThreads, AbortInv

LEMMA JsAbortInv ==
    ASSUME TypeOK, AbortInv, JsCall \/ JsContinue \/ EventLoop
    PROVE  AbortInv'
<1> USE EncQFields DEF queues, jsVars, uvVars, encVars, prodVars, history, AbortInv
<1>1. ASSUME NEW n \in ChunkSizes, Write(n)
      PROVE  AbortInv'
      BY <1>1 DEF Write, SendFails
<1>2. CASE EndSegment
      BY <1>2 DEF EndSegment, SendFails
<1>3. ASSUME NEW s \in Settings, NEW v \in SettingValues[s], SetEncoder(s, v)
      PROVE  AbortInv'
      BY <1>3 DEF SetEncoder, SendFails
<1>4. CASE End
      BY <1>4 DEF End
<1>5. CASE Abort
      BY <1>5 DEF Abort
<1>6. CASE EndRecv
      BY <1>6 DEF EndRecv
<1>7. CASE AbortRecv
  <2>1. promise = "resolved" \/ listener
        BY DEF TypeOK, JsTypes
  <2> QED BY <1>7, <2>1 DEF AbortRecv
<1>8. CASE AbortFlush
      BY <1>8 DEF AbortFlush
<1>9. CASE AbortClear
      BY <1>9 DEF AbortClear
<1>10. CASE DrainCallback
      BY <1>10 DEF DrainCallback
<1>11. CASE FinishCallback
      BY <1>11 DEF FinishCallback
<1>12. CASE RemoveListener
      BY <1>12 DEF RemoveListener
<1>13. CASE CallAfterClose
      BY <1>13 DEF CallAfterClose
<1>14. CASE DrainReturn
      BY <1>14 DEF DrainReturn
<1> QED
    BY <1>1, <1>2, <1>3, <1>4, <1>5, <1>6, <1>7, <1>8, <1>9, <1>10, <1>11, <1>12, <1>13,
       <1>14 DEF JsCall, JsContinue, EventLoop

LEMMA ThreadsAbortInv ==
    ASSUME TypeOK, AbortInv, Encoder \/ Producer
    PROVE  AbortInv'
<1> USE EncQFields DEF queues, jsVars, uvVars, encVars, prodVars, history, AbortInv
<1>1. CASE EncRecv
  <2>1. encQ.msgs # <<>>
        BY <1>1 DEF EncRecv, CanRecv
  <2> QED BY <1>1, <2>1 DEF EncRecv
<1>2. CASE EncFinSend \/ EncFinRecv
      BY <1>2 DEF EncFinSend, EncFinRecv
<1>3. CASE \/ EncStartProducer \/ EncCreateOpus \/ EncEof \/ EncNotify \/ EncFill
           \/ EncPost \/ EncFlush \/ EncFlushPost \/ EncControl \/ EncStopSend
           \/ EncStopRecv \/ EncJoin \/ EncFinish
  <2>1. UNCHANGED <<encQ, js, aborted, listener, promise>>
        BY <1>3 DEF EncStartProducer, EncCreateOpus, EncEof, EncNotify, EncFill,
                    EncPost, EncFlush, EncFlushPost, EncControl, EncStopSend,
                    EncStopRecv, EncJoin, EncFinish
  <2> QED BY <2>1
<1>4. CASE Producer
  <2>1. UNCHANGED <<encQ, js, aborted, listener, promise>>
        BY <1>4 DEF Producer, ProdOpen, ProdRecv, ProdEof, ProdSend, ProdExitSend,
                    ProdExitRecv
  <2> QED BY <2>1
<1> QED BY <1>1, <1>2, <1>3, <1>4 DEF Encoder

LEMMA NextAbortInv == TypeOK /\ AbortInv /\ [Next]_vars => AbortInv'
<1> SUFFICES ASSUME TypeOK, AbortInv, [Next]_vars PROVE AbortInv'
    OBVIOUS
<1>1. CASE UNCHANGED vars
      BY <1>1 DEF vars, queues, jsVars, uvVars, encVars, prodVars, history, AbortInv
<1> QED
    BY <1>1, JsAbortInv, ThreadsAbortInv DEF Next, Terminated

(* After an abort no audio that was queued before it is taken up.          *)
THEOREM AbortedQueueIsEmpty == Spec => []AbortDiscardsQueuedAudio
<1>1. AbortInv => AbortDiscardsQueuedAudio
      BY DEF AbortInv, AbortDiscardsQueuedAudio
<1> QED BY TypeCorrect, InitAbortInv, NextAbortInv, <1>1, PTL DEF Spec

-----------------------------------------------------------------------------
(* Waiting.                                                                *)

(* A thread that waits has somebody to wait for: whoever has stopped has   *)
(* closed the queues that he served, and said that he has.  A notification *)
(* or a promise can only be lost to an exception, and only onDrain leaves  *)
(* one behind.                                                             *)
AwakeInv ==
    /\ WriterNotForgotten
    /\ exception => "throw" \in faults
    /\ ended /\ js # "endRecv" => encQ.err_recv
    /\ aborted /\ js # "abortRecv" => encQ.err_recv
    /\ prodPc = "none" => encPc \in {"start", "finSend", "finRecv", "finish", "done"}
    /\ prodPc \in {"exitRecv", "done"} => prodQ.err_send
    /\ encPc = "join" => prodQ.err_recv
    /\ encPc = "done" => finPending \/ promise = "resolved" \/ "throw" \in faults

LEMMA InitAwakeInv == Init => AwakeInv
BY DEF Init, InitJs, InitHandles, InitThreads, AwakeInv, WriterNotForgotten

LEMMA JsAwakeInv ==
    ASSUME TypeOK, ShutdownInv, AbortInv, AwakeInv, JsCall \/ JsContinue \/ EventLoop
    PROVE  AwakeInv'
<1> USE DEF queues, jsVars, uvVars, encVars, prodVars, history, AwakeInv,
            WriterNotForgotten
<1>1. encQ \in QueueOf(Messages)
      BY DEF TypeOK, QueueTypes
<1>2. ASSUME NEW m \in Messages, PostToEncoder(m)
      PROVE  /\ encQ'.err_recv = encQ.err_recv /\ encQ'.err_send = encQ.err_send
             /\ encQ.msgs # <<>> => encQ'.msgs # <<>>
      BY <1>1, <1>2, QueueKeeps DEF PostToEncoder
<1>3. ASSUME NEW n \in ChunkSizes, Write(n)
      PROVE  AwakeInv'
  <2> DEFINE m == [type    |-> "POST_PCM_BUFFER",
                   samples |-> [i \in 1..n |-> Accepted(calls) + i]]
  <2>1. m \in Messages
    <3>1. n \in Nat /\ Accepted(calls) \in Nat
          BY ProduceRtpAssumption, AcceptedType DEF TypeOK, HistoryTypes
    <3>2. [i \in 1..n |-> Accepted(calls) + i] \in Seq(Nat)
          BY <3>1
    <3> QED BY <3>2 DEF Messages, PcmMessages
  <2>2. PostToEncoder(m) /\ js = "idle" /\ ~exception'
        /\ UNCHANGED <<js, ended, aborted, prodQ, uvVars, encVars, prodVars, faults>>
        BY <1>3 DEF Write
  <2>3. client' = "waiting" => encQ.msgs # <<>>
    <3>1. IsFull(encQ, QueueDepth) => encQ.msgs # <<>>
          BY <1>1, ProduceRtpAssumption, EmptySeq DEF IsFull, QueueOf
    <3> QED BY <1>3, <3>1 DEF Write
  <2> HIDE DEF m
  <2> QED BY <1>2, <2>1, <2>2, <2>3
<1>4. CASE EndSegment
  <2>1. PostToEncoder(FlushMessage) /\ ~exception'
        /\ UNCHANGED <<js, client, ended, aborted, prodQ, uvVars, encVars, prodVars, faults>>
        BY <1>4 DEF EndSegment
  <2> QED BY <1>2, <2>1, MessageTypes
<1>5. ASSUME NEW s \in Settings, NEW v \in SettingValues[s], SetEncoder(s, v)
      PROVE  AwakeInv'
  <2> DEFINE m == [type |-> s, value |-> v]
  <2>1. m \in Messages
    <3>1. v \in Int
          BY ProduceRtpAssumption
    <3> QED BY <3>1 DEF Messages, SetMessages
  <2>2. PostToEncoder(m) /\ ~exception'
        /\ UNCHANGED <<js, client, ended, aborted, prodQ, uvVars, encVars, prodVars, faults>>
        BY <1>5 DEF SetEncoder
  <2> HIDE DEF m
  <2> QED BY <1>2, <2>1, <2>2
<1>6. CASE End \/ Abort
      BY <1>1, <1>6, QueueKeeps DEF End, Abort
<1>7. CASE EndRecv \/ AbortRecv
      BY <1>1, <1>7, QueueKeeps DEF EndRecv, AbortRecv
<1>8. CASE AbortFlush
      BY <1>1, <1>8, QueueKeeps DEF AbortFlush, AbortInv
<1>9. CASE AbortClear
  <2>1. PostToEncoder(ClearMessage) /\ js = "abortClear" /\ js' = "idle"
        /\ UNCHANGED <<prodQ, exception, client, ended, aborted, uvVars, encVars, prodVars,
                       faults>>
        BY <1>9 DEF AbortClear
  <2> QED BY <1>2, <2>1, MessageTypes
<1>10. CASE DrainCallback
       BY <1>10 DEF DrainCallback
<1>11. CASE FinishCallback
       BY <1>11 DEF FinishCallback
<1>12. CASE RemoveListener
       BY <1>12 DEF RemoveListener
<1>13. CASE CallAfterClose
       BY <1>13 DEF CallAfterClose
<1>14. CASE DrainReturn
       BY <1>14 DEF DrainReturn, Fault
<1> QED
    BY <1>3, <1>4, <1>5, <1>6, <1>7, <1>8, <1>9, <1>10, <1>11, <1>12, <1>13, <1>14
       DEF JsCall, JsContinue, EventLoop

LEMMA ThreadsAwakeInv ==
    ASSUME TypeOK, ShutdownInv, AwakeInv, Encoder \/ Producer
    PROVE  AwakeInv'
<1> USE DEF queues, jsVars, uvVars, encVars, prodVars, history, AwakeInv,
            WriterNotForgotten
<1>1. encQ \in QueueOf(Messages) /\ prodQ \in QueueOf(Packets)
      BY DEF TypeOK, QueueTypes
<1>2. CASE EncStartProducer \/ EncCreateOpus
      BY <1>2 DEF EncStartProducer, EncCreateOpus, Fault
<1>3. CASE EncRecv
      BY <1>1, <1>3, QueueKeeps DEF EncRecv
<1>4. CASE EncEof
  <2>1. encQ.msgs = <<>> /\ encQ.err_recv
        BY <1>4 DEF EncEof, RecvFails
  <2> QED BY <1>4, <2>1 DEF EncEof
<1>5. CASE EncNotify
      BY <1>5 DEF EncNotify
<1>6. CASE EncFill \/ EncFlush
      BY <1>6 DEF EncFill, EncFlush, AfterInput, Fault
<1>7. CASE EncPost \/ EncFlushPost
  <2>1. prodQ'.err_recv = prodQ.err_recv /\ prodQ'.err_send = prodQ.err_send
        BY <1>1, <1>7, QueueKeeps DEF EncPost, EncFlushPost, SendToProducer
  <2> QED BY <1>7, <2>1 DEF EncPost, EncFlushPost, AfterInput
<1>8. CASE EncControl
  <2>1. prodQ'.err_recv = prodQ.err_recv /\ prodQ'.err_send = prodQ.err_send
        BY <1>1, <1>8, QueueKeeps DEF EncControl
  <2> QED BY <1>8, <2>1 DEF EncControl
<1>9. CASE EncStopSend \/ EncStopRecv \/ EncJoin
      BY <1>1, <1>9, QueueKeeps, EncQFields DEF EncStopSend, EncStopRecv, EncJoin
<1>10. CASE EncFinSend \/ EncFinRecv \/ EncFinish
       BY <1>1, <1>10, QueueKeeps DEF EncFinSend, EncFinRecv, EncFinish
<1>11. CASE Producer
       BY <1>1, <1>11, QueueKeeps
          DEF Producer, ProdOpen, ProdRecv, ProdEof, ProdSend, ProdExitSend, ProdExitRecv,
              Fault
<1> QED
    BY <1>2, <1>3, <1>4, <1>5, <1>6, <1>7, <1>8, <1>9, <1>10, <1>11 DEF Encoder

LEMMA AwakeInvariance == Spec => [](TypeOK /\ ShutdownInv /\ AwakeInv)
<1>1. TypeOK /\ ShutdownInv /\ AbortInv /\ AwakeInv /\ [Next]_vars => AwakeInv'
  <2> SUFFICES ASSUME TypeOK, ShutdownInv, AbortInv, AwakeInv, [Next]_vars
               PROVE  AwakeInv'
      OBVIOUS
  <2>1. CASE UNCHANGED vars
        BY <2>1 DEF vars, queues, jsVars, uvVars, encVars, prodVars, history, AwakeInv,
                    WriterNotForgotten
  <2> QED BY <2>1, JsAwakeInv, ThreadsAwakeInv DEF Next, Terminated
<1> QED
    BY TypeCorrect, ShutdownInvariance, InitAbortInv, NextAbortInv, InitAwakeInv, <1>1, PTL
       DEF Spec

(* The wake-up of a writer is never lost: until the queue is closed, a     *)
(* writer that was refused has a message before him whose removal will be  *)
(* announced, or an announcement that is under way, unless onDrain threw.  *)
THEOREM NoWakeupIsLost == Spec => []WriterNotForgotten
BY AwakeInvariance, PTL DEF AwakeInv

(* The threads of a stream never wait for each other, nor for one that has *)
(* gone; only the caller can be waited for, unless onDrain threw.          *)
THEOREM NobodyIsLeftWaiting == Spec => []OnlyCallerIsAwaited
<1>1. TypeOK /\ ShutdownInv /\ AwakeInv => OnlyCallerIsAwaited
  <2> SUFFICES ASSUME TypeOK, ShutdownInv, AwakeInv, js = "idle", promise = "pending",
                      ~finPending, "throw" \notin faults, EncoderWaits, ProducerWaits
               PROVE  encPc = "recv" /\ ~ended /\ ~aborted
      BY DEF OnlyCallerIsAwaited, NothingPending, LoopIsFree
  <2>1. encPc # "done"
        BY DEF AwakeInv
  <2>2. CASE encPc = "join" /\ prodPc # "done"
    <3>1. prodPc = "recv" /\ prodQ.err_recv
          BY <2>2 DEF AwakeInv, ProducerWaits
    <3> QED BY <3>1 DEF ProducerWaits, CanRecv, RecvFails
  <2>3. CASE /\ encPc \in {"post", "flushPost"}
             /\ ~CanSend(prodQ, PRODUCER_QUEUE_SIZE) /\ ~SendFails(prodQ)
    <3>1. prodQ.msgs # <<>>
          BY <2>3, ProduceRtpAssumption, EmptySeq
             DEF TypeOK, QueueTypes, QueueOf, CanSend, SendFails
    <3>2. ~prodQ.err_send /\ prodPc \notin {"none", "done"}
          BY <2>3 DEF AwakeInv, SendFails
    <3> QED BY <3>1, <3>2 DEF ProducerWaits, CanRecv
  <2>4. CASE encPc = "recv" /\ ~CanRecv(encQ) /\ ~RecvFails(encQ)
        BY <2>4 DEF AwakeInv, CanRecv, RecvFails
  <2> QED BY <2>1, <2>2, <2>3, <2>4 DEF EncoderWaits
<1> QED BY AwakeInvariance, <1>1, PTL

=============================================================================
