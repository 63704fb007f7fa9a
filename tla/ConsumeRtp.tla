----------------------------- MODULE ConsumeRtp -----------------------------
(***************************************************************************)
(* One consumeRtp() stream: the demuxer thread that reads RTP packets      *)
(* (demuxer.cc), the decoder thread that conceals what is missing and      *)
(* decodes the rest (audio_decode_thread.cc inside                         *)
(* thread_with_promise_result.h), and the JavaScript thread that hands the *)
(* audio to onAudioData (buffer_ready_node_callback.cc), raises the abort  *)
(* signal and settles done().  A step is one access to what threads share. *)
(*                                                                         *)
(* Timestamps and durations are in units of 2.5 ms, the granularity of     *)
(* Opus, in which frame_size * pts_scale is exact for every sample rate.   *)
(***************************************************************************)
EXTENDS Integers, FiniteSetsExt, SequencesExt, ThreadMessageQueue

CONSTANTS Stream,               \* the frames that the sender sends: [pts, dur]
          DEFAULT_MESSAGE_QUEUE_SIZE,
          CALLBACK_QUEUE_SIZE,  \* 1024 in init_callback_for_many
          Faults,               \* the kinds of failure that may happen
          MaxReads              \* bound: results of av_read_frame

AV_NOPTS_VALUE == -1000000      \* any number that is no timestamp

FaultKinds == {"start", "open", "opus", "decode", "throw"}
Frames == [pts : Int, dur : Nat \ {0}]

ASSUME ConsumeRtpAssumption ==
    /\ Stream \subseteq Frames
    /\ DEFAULT_MESSAGE_QUEUE_SIZE \in Nat \ {0}
    /\ CALLBACK_QUEUE_SIZE \in Nat \ {0}
    /\ Faults \subseteq FaultKinds
    /\ MaxReads \in Nat

(* The sender's frames do not overlap, and FFmpeg's value for no timestamp *)
(* is not the timestamp of any.                                            *)
ASSUME StreamAssumption ==
    /\ \A f, g \in Stream : f = g \/ f.pts + f.dur <= g.pts \/ g.pts + g.dur <= f.pts
    /\ \A f \in Stream : f.pts # AV_NOPTS_VALUE

VARIABLES
    queue,          \* the decoder's message queue
    cbQ,            \* the queue of decoded buffers
    (* the demuxer thread *)
    demPc, demRet, demPkt, reads, timesSent, prev_pts, pts_correction,
    shutdown,       \* set by stop_rtp_demuxer
    (* the decoder thread *)
    decPc, decMsg, decoder, expected_pts, last_frame_size, out,
    (* the JavaScript thread *)
    js, aborted,
    cbPending,      \* an uv_async_send on the callback's handle, not seen yet
    finPending,     \* the same on thread_finished_async
    cbOpen,         \* the callback's handle is not closed
    callbackRef,    \* the reference to onAudioData is not deleted
    promise,        \* "pending" or "resolved"
    exception,      \* a JavaScript exception is pending in the napi_env
    (* history, read by properties only *)
    decoded,        \* the frames given to send_callback_for_many
    queued,         \* those that the queue took
    delivered,      \* those that onAudioData was called with
    faults          \* the kinds of failure that have happened

demData == <<demRet, demPkt, reads, timesSent, prev_pts, pts_correction>>
decData == <<decMsg, decoder, expected_pts, last_frame_size, out>>
jsData  == <<aborted, cbOpen, callbackRef, promise, exception, delivered>>
signals == <<cbPending, finPending>>
outputs == <<decoded, queued>>
vars == <<queue, cbQ, demPc, demData, shutdown, decPc, decData, js, jsData, signals,
          outputs, faults>>

OPUS_FRAME == 8                 \* 20 ms

Packet(f)  == [type |-> "POST_PACKET", pkt |-> f]
Params     == [type |-> "POST_CODEC_PARAMETERS"]
Tick       == [type |-> "TICK"]
StartTimes == {"POST_START_TIME_LOCALTIME", "POST_START_TIME_REALTIME"}
Messages   == [type : {"POST_PACKET"}, pkt : Frames] \cup {Params, Tick}
              \cup [type : StartTimes]

DemTypes ==
    /\ demPc \in {"none", "open", "params", "read", "tick", "check", "time", "post",
                  "exit", "done"}
    /\ demRet \in {"packet", "unwanted", "AVERROR_EXIT", "error"}
    /\ demPkt \in Frames /\ reads \in 0..MaxReads /\ timesSent \subseteq StartTimes
    /\ prev_pts \in Int /\ pts_correction \in Nat \cup {AV_NOPTS_VALUE}
    /\ shutdown \in BOOLEAN
DecTypes ==
    /\ decPc \in {"start", "recv", "handle", "emit", "notify", "finish", "finishNotify",
                  "close", "stop", "join", "finSend", "finRecv", "finAsync", "done",
                  "crashed"}
    /\ decMsg \in Messages /\ decoder \in BOOLEAN /\ out \in Seq(Frames)
    /\ expected_pts \in Nat \cup {AV_NOPTS_VALUE} /\ last_frame_size \in Nat \ {0}
JsTypes ==
    /\ js \in {"idle", "deliver", "cleanup", "abortRecv"}
    /\ aborted \in BOOLEAN /\ cbPending \in BOOLEAN /\ finPending \in BOOLEAN
    /\ cbOpen \in BOOLEAN /\ callbackRef \in BOOLEAN /\ exception \in BOOLEAN
    /\ promise \in {"pending", "resolved"}
HistoryTypes ==
    /\ decoded \in Seq(Frames) /\ queued \in Seq(Frames) /\ delivered \in Seq(Frames)
    /\ faults \subseteq Faults

(* Types: no correction and no expected timestamp is negative, no frame is *)
(* empty, and neither queue exceeds its size.                              *)
TypeOK ==
    /\ queue \in QueueOf(Messages) /\ Len(queue.msgs) <= DEFAULT_MESSAGE_QUEUE_SIZE
    /\ cbQ \in QueueOf(Frames) /\ Len(cbQ.msgs) <= CALLBACK_QUEUE_SIZE
    /\ DemTypes /\ DecTypes /\ JsTypes /\ HistoryTypes

InitHandles ==
    /\ queue = EmptyQueue /\ cbQ = EmptyQueue
    /\ js = "idle" /\ aborted = FALSE /\ cbPending = FALSE /\ finPending = FALSE
    /\ cbOpen = TRUE /\ callbackRef = TRUE /\ promise = "pending"
    /\ exception = FALSE
InitDecoder ==
    /\ decPc = "start" /\ decMsg = Tick /\ decoder = FALSE
    /\ expected_pts = AV_NOPTS_VALUE /\ last_frame_size = OPUS_FRAME /\ out = <<>>
InitDemuxer ==
    /\ demPc = "none" /\ demRet = "error" /\ demPkt = [pts |-> 0, dur |-> 1]
    /\ reads = 0 /\ timesSent = {} /\ prev_pts = AV_NOPTS_VALUE
    /\ pts_correction = AV_NOPTS_VALUE /\ shutdown = FALSE

Init == /\ InitHandles /\ InitDecoder /\ InitDemuxer
        /\ decoded = <<>> /\ queued = <<>> /\ delivered = <<>> /\ faults = {}

Fault(kind) == kind \in Faults /\ faults' = faults \cup {kind}

-----------------------------------------------------------------------------
(* The demuxer thread.                                                     *)

(* A non-blocking post, whose failure for want of room is only logged. *)
PostToDecoder(m) == queue' = TrySend(queue, m, DEFAULT_MESSAGE_QUEUE_SIZE)

(* initInputFormatContext opens the sockets that the SDP describes, unless *)
(* it fails or is interrupted.                                             *)
DemOpen ==
    /\ demPc = "open"
    /\ \/ demPc' = "params" /\ UNCHANGED faults
       \/ demPc' = "exit" /\ Fault("open")
       \/ demPc' = "exit" /\ shutdown /\ UNCHANGED faults
    /\ UNCHANGED <<queue, demData>>

(* Mutant of DemParams: the send does not wait for its turn. *)
BugDemParams ==
    /\ demPc = "params" /\ demPc' = "read"
    /\ UNCHANGED <<queue, demData, faults>>

(* A blocking send, then the first test of the main loop. *)
DemParams ==
    /\ demPc = "params"
    /\ \/ /\ CanSend(queue, DEFAULT_MESSAGE_QUEUE_SIZE)
          /\ queue' = Send(queue, Params)
          /\ demPc' = IF shutdown THEN "exit" ELSE "read"
       \/ SendFails(queue) /\ demPc' = "exit" /\ UNCHANGED queue
    /\ UNCHANGED <<demData, faults>>

(* av_read_frame returns: a packet of the stream, in whatever order the    *)
(* network has them; one that will be thrown away (empty, malformed or of  *)
(* another stream); nothing, because interrupt_callback found that ten     *)
(* seconds have passed; or the end of the stream or an error.              *)
DemRead ==
    /\ demPc = "read"
    /\ \/ /\ reads < MaxReads /\ reads' = reads + 1
          /\ \/ demPkt' \in Stream /\ demRet' = "packet" /\ demPc' = "check"
             \/ demRet' = "unwanted" /\ demPc' = "check" /\ UNCHANGED demPkt
             \/ demRet' = "AVERROR_EXIT" /\ demPc' = "tick" /\ UNCHANGED demPkt
       \/ demRet' = "error" /\ demPc' = "check" /\ UNCHANGED <<demPkt, reads>>
    /\ UNCHANGED <<queue, timesSent, prev_pts, pts_correction, faults>>

(* interrupt_callback finds the shutdown flag. *)
DemInterrupted ==
    /\ demPc = "read" /\ shutdown
    /\ demRet' = "AVERROR_EXIT" /\ demPc' = "check"
    /\ UNCHANGED <<queue, demPkt, reads, timesSent, prev_pts, pts_correction, faults>>

DemTick ==
    /\ demPc = "tick" /\ PostToDecoder(Tick) /\ demPc' = "check"
    /\ UNCHANGED <<demData, faults>>

(* The local start time goes out with the first packet, the sender's with  *)
(* the first one after an RTCP report.                                     *)
TimeDue == IF timesSent = {} THEN "POST_START_TIME_LOCALTIME"
           ELSE "POST_START_TIME_REALTIME"

DemCheck ==
    /\ demPc = "check"
    /\ demPc' \in IF shutdown \/ demRet = "error" THEN {"exit"}
                  ELSE IF demRet = "AVERROR_EXIT" THEN {"read"}
                  ELSE IF timesSent = {} THEN {"time"}
                  ELSE IF timesSent # StartTimes THEN {"time", "post"}
                  ELSE {"post"}
    /\ UNCHANGED <<queue, demData, faults>>

DemTime ==
    /\ demPc = "time"
    /\ PostToDecoder([type |-> TimeDue]) /\ timesSent' = timesSent \cup {TimeDue}
    /\ demPc' \in IF timesSent = {} THEN {"time", "post"} ELSE {"post"}
    /\ UNCHANGED <<demRet, demPkt, reads, prev_pts, pts_correction, faults>>

(* Mutant of Unwanted: packets that come late are let through. *)
BugUnwanted == demRet = "unwanted"
(* A packet with pts # dts would be dropped too, and would count as the    *)
(* previous one; FFmpeg's RTP demuxer makes none, so there is none here.   *)
Unwanted == \/ demRet = "unwanted"
            \/ prev_pts # AV_NOPTS_VALUE /\ demPkt.pts < prev_pts

(* Mutant of Correction: a negative timestamp is added, not taken away. *)
BugCorrection == IF pts_correction # AV_NOPTS_VALUE THEN pts_correction
                 ELSE IF demPkt.pts < 0 THEN demPkt.pts ELSE 0
(* A negative first timestamp shifts the whole stream. *)
Correction == IF pts_correction # AV_NOPTS_VALUE THEN pts_correction
              ELSE IF demPkt.pts < 0 THEN -demPkt.pts ELSE 0

(* A full queue drops the packet, a closed one ends the thread. *)
DemPost ==
    /\ demPc = "post"
    /\ \/ Unwanted /\ demPc' = "read" /\ UNCHANGED <<queue, prev_pts, pts_correction>>
       \/ /\ ~Unwanted
          /\ prev_pts' = demPkt.pts /\ pts_correction' = Correction
          /\ PostToDecoder(Packet([demPkt EXCEPT !.pts = @ + Correction]))
          /\ demPc' = IF SendFails(queue) THEN "exit" ELSE "read"
    /\ UNCHANGED <<demRet, demPkt, reads, timesSent, faults>>

DemExit ==
    /\ demPc = "exit"
    /\ queue' = SetErrRecv(queue) /\ demPc' = "done"
    /\ UNCHANGED <<demData, faults>>

-----------------------------------------------------------------------------
(* The decoder thread.                                                     *)

(* A failure, of the demuxer's start or of an allocation before it, leaves *)
(* demuxer_thread NULL.                                                    *)
DecStart ==
    /\ decPc = "start"
    /\ \/ decPc' = "recv" /\ demPc' = "open" /\ UNCHANGED faults
       \/ decPc' = "finish" /\ Fault("start") /\ UNCHANGED demPc
    /\ UNCHANGED <<queue, cbQ, shutdown, decData, signals, outputs>>

DecRecv ==
    /\ decPc = "recv"
    /\ \/ /\ CanRecv(queue) /\ decPc' = "handle"
          /\ decMsg' = Head(queue.msgs) /\ queue' = Recv(queue)
       \/ RecvFails(queue) /\ decPc' = "finish" /\ UNCHANGED <<decMsg, queue>>
    /\ UNCHANGED <<cbQ, demPc, shutdown, decoder, expected_pts, last_frame_size, out,
                   signals, outputs, faults>>

(* Codec parameters create the decoder; the other messages have no effect, *)
(* nor has a packet that comes before the parameters.                      *)
DecOther ==
    /\ decPc = "handle" /\ (decMsg.type = "POST_PACKET" => ~decoder)
    /\ \/ /\ decPc' = "recv" /\ decoder' = (decoder \/ decMsg = Params)
          /\ UNCHANGED faults
       \/ /\ decMsg = Params /\ ~decoder /\ Fault("opus")
          /\ decPc' = "finish" /\ UNCHANGED decoder
    /\ UNCHANGED <<queue, cbQ, demPc, shutdown, decMsg, expected_pts, last_frame_size,
                   out, signals, outputs>>

(* What is missing before a packet that starts at pts, in frames of the    *)
(* size of the last one.                                                   *)
MissingFrames(pts) ==
    IF expected_pts # AV_NOPTS_VALUE /\ pts > expected_pts
    THEN (pts - expected_pts) \div last_frame_size ELSE 0
(* Mutant of Concealed: the interpolation starts one frame late. *)
BugConcealed(pts) ==
    [i \in 1..MissingFrames(pts) |->
        [pts |-> expected_pts + i * last_frame_size, dur |-> last_frame_size]]
Concealed(pts) ==
    [i \in 1..MissingFrames(pts) |->
        [pts |-> expected_pts + (i - 1) * last_frame_size, dur |-> last_frame_size]]

(* The ways to choose n of m items in order. *)
Increasing(n, m) ==
    {s \in [1..n -> 1..m] : \A i \in 1..(n - 1) : s[i] < s[i + 1]}

(* Conceal, then decode the packet.  Each call of opus_decode may fail; a  *)
(* packet that fails leaves expected_pts where it was.                     *)
DecPacket ==
    /\ decPc = "handle" /\ decMsg.type = "POST_PACKET" /\ decoder
    /\ LET frames == Append(Concealed(decMsg.pkt.pts), decMsg.pkt)
           last   == Len(frames)
       IN \/ /\ out' = frames /\ decPc' = "emit"
             /\ expected_pts' = decMsg.pkt.pts + decMsg.pkt.dur
             /\ last_frame_size' = decMsg.pkt.dur
             /\ UNCHANGED faults
          \/ /\ Fault("decode")
             /\ \E n \in 0..(last - 1) : \E good \in Increasing(n, last) :
                  /\ out' = [i \in 1..n |-> frames[good[i]]]
                  /\ decPc' = IF n = 0 THEN "recv" ELSE "emit"
                  /\ IF n > 0 /\ good[n] = last
                     THEN /\ expected_pts' = decMsg.pkt.pts + decMsg.pkt.dur
                          /\ last_frame_size' = decMsg.pkt.dur
                     ELSE UNCHANGED <<expected_pts, last_frame_size>>
    /\ UNCHANGED <<queue, cbQ, demPc, shutdown, decMsg, decoder, signals, outputs>>

AfterOutput(rest) == IF rest = <<>> THEN "recv" ELSE "emit"

(* Mutant of DecEmit: one notification for all the frames of a packet. *)
BugDecEmitOnce ==
    /\ decPc = "emit"
    /\ decoded' = Append(decoded, Head(out)) /\ out' = Tail(out)
    /\ cbQ' = TrySend(cbQ, Head(out), CALLBACK_QUEUE_SIZE)
    /\ \/ /\ CanSend(cbQ, CALLBACK_QUEUE_SIZE)
          /\ queued' = Append(queued, Head(out))
          /\ decPc' = IF Tail(out) = <<>> THEN "notify" ELSE "emit"
       \/ /\ ~CanSend(cbQ, CALLBACK_QUEUE_SIZE)
          /\ decPc' = AfterOutput(Tail(out)) /\ UNCHANGED queued
    /\ UNCHANGED <<queue, demPc, shutdown, decMsg, decoder, expected_pts,
                   last_frame_size, signals, faults>>

(* send_callback_for_many: a full queue drops the frame. *)
DecEmit ==
    /\ decPc = "emit"
    /\ decoded' = Append(decoded, Head(out)) /\ out' = Tail(out)
    /\ cbQ' = TrySend(cbQ, Head(out), CALLBACK_QUEUE_SIZE)
    /\ \/ /\ CanSend(cbQ, CALLBACK_QUEUE_SIZE)
          /\ queued' = Append(queued, Head(out)) /\ decPc' = "notify"
       \/ /\ ~CanSend(cbQ, CALLBACK_QUEUE_SIZE)
          /\ decPc' = AfterOutput(Tail(out)) /\ UNCHANGED queued
    /\ UNCHANGED <<queue, demPc, shutdown, decMsg, decoder, expected_pts,
                   last_frame_size, signals, faults>>

DecNotify ==
    /\ decPc = "notify"
    /\ cbPending' = TRUE /\ decPc' = AfterOutput(out)
    /\ UNCHANGED <<queue, cbQ, demPc, shutdown, decData, finPending, outputs, faults>>

(* cleanup_thread: tell the callback that nothing more will come, refuse   *)
(* what the demuxer still posts, stop and join it.                         *)
DecFinish ==
    /\ decPc = "finish"
    /\ cbQ' = SetErrRecv(cbQ) /\ decPc' = "finishNotify"
    /\ UNCHANGED <<queue, demPc, shutdown, decData, signals, outputs, faults>>

DecFinishNotify ==
    /\ decPc = "finishNotify"
    /\ cbPending' = TRUE /\ decPc' = "close"
    /\ UNCHANGED <<queue, cbQ, demPc, shutdown, decData, finPending, outputs, faults>>

DecClose ==
    /\ decPc = "close"
    /\ queue' = SetErrSend(queue) /\ decPc' = "stop"
    /\ UNCHANGED <<cbQ, demPc, shutdown, decData, signals, outputs, faults>>

(* Mutant of DecStop: the flag is not set. *)
BugDecStop ==
    /\ decPc = "stop"
    /\ decPc' = IF demPc = "none" THEN "crashed" ELSE "join"
    /\ UNCHANGED <<queue, cbQ, demPc, shutdown, decData, signals, outputs, faults>>

(* stop_rtp_demuxer writes through demuxer_thread. *)
DecStop ==
    /\ decPc = "stop"
    /\ \/ demPc = "none" /\ decPc' = "crashed" /\ UNCHANGED shutdown
       \/ demPc # "none" /\ decPc' = "join" /\ shutdown' = TRUE
    /\ UNCHANGED <<queue, cbQ, demPc, decData, signals, outputs, faults>>

(* Mutant of DecJoin: the thread is not joined. *)
BugDecJoin ==
    /\ decPc = "join" /\ decPc' = "finSend"
    /\ UNCHANGED <<queue, cbQ, demPc, shutdown, decData, signals, outputs, faults>>

DecJoin ==
    /\ decPc = "join" /\ demPc = "done" /\ decPc' = "finSend"
    /\ UNCHANGED <<queue, cbQ, demPc, shutdown, decData, signals, outputs, faults>>

DecFinSend ==
    /\ decPc = "finSend"
    /\ queue' = SetErrSend(queue) /\ decPc' = "finRecv"
    /\ UNCHANGED <<cbQ, demPc, shutdown, decData, signals, outputs, faults>>

DecFinRecv ==
    /\ decPc = "finRecv"
    /\ queue' = SetErrRecv(queue) /\ decPc' = "finAsync"
    /\ UNCHANGED <<cbQ, demPc, shutdown, decData, signals, outputs, faults>>

DecFinAsync ==
    /\ decPc = "finAsync"
    /\ finPending' = TRUE /\ decPc' = "done"
    /\ UNCHANGED <<queue, cbQ, demPc, shutdown, decData, cbPending, outputs, faults>>

-----------------------------------------------------------------------------
(* The JavaScript thread.                                                  *)

(* abort_signal_handler; an exception left in the napi_env is thrown out   *)
(* of this call and is no longer pending.                                  *)
Abort ==
    /\ js = "idle" /\ ~aborted
    /\ aborted' = TRUE /\ js' = "abortRecv" /\ queue' = SetErrSend(queue)
    /\ UNCHANGED <<cbQ, cbOpen, callbackRef, promise, exception, delivered, signals,
                   faults>>

AbortRecv ==
    /\ js = "abortRecv"
    /\ js' = "idle" /\ queue' = SetErrRecv(queue) /\ exception' = FALSE
    /\ UNCHANGED <<cbQ, aborted, cbOpen, callbackRef, promise, delivered, signals,
                   faults>>

(* async_callback_for_many empties the queue; more may arrive meanwhile.   *)
BufferReady ==
    /\ js = "idle" /\ cbOpen /\ cbPending
    /\ cbPending' = FALSE /\ js' = "deliver"
    /\ UNCHANGED <<queue, cbQ, jsData, finPending, faults>>

(* onAudioData is called, and may throw.  While an exception is pending no *)
(* JavaScript function can be called, and frames are thrown away.          *)
Deliver ==
    /\ js \in {"deliver", "cleanup"} /\ CanRecv(cbQ)
    /\ cbQ' = Recv(cbQ)
    /\ \/ exception /\ UNCHANGED <<delivered, exception, faults>>
       \/ /\ ~exception /\ delivered' = Append(delivered, Head(cbQ.msgs))
          /\ UNCHANGED <<exception, faults>>
       \/ /\ ~exception /\ delivered' = Append(delivered, Head(cbQ.msgs))
          /\ Fault("throw") /\ exception' = TRUE
    /\ UNCHANGED <<queue, js, aborted, cbOpen, callbackRef, promise, signals>>

(* Mutant of DeliverEnd: an empty queue is taken for the end. *)
BugDeliverEnd ==
    /\ js = "deliver" /\ cbQ.msgs = <<>>
    /\ js' = "idle" /\ callbackRef' = FALSE
    /\ UNCHANGED <<queue, cbQ, aborted, cbOpen, promise, exception, delivered, signals,
                   faults>>

(* The queue is empty: EAGAIN, or after finish_callback_for_many the end.  *)
DeliverEnd ==
    /\ js = "deliver" /\ cbQ.msgs = <<>>
    /\ js' = "idle" /\ callbackRef' = (callbackRef /\ ~RecvFails(cbQ))
    /\ UNCHANGED <<queue, cbQ, aborted, cbOpen, promise, exception, delivered, signals,
                   faults>>

(* async_callback: deliver what is left, close the handle, resolve.  With  *)
(* an exception pending napi_resolve_deferred fails.                       *)
ThreadFinished ==
    /\ js = "idle" /\ finPending
    /\ finPending' = FALSE /\ js' = "cleanup"
    /\ UNCHANGED <<queue, cbQ, jsData, cbPending, faults>>

(* Mutant of CleanupEnd: what is left in the queue is not delivered. *)
BugCleanupEnd ==
    /\ js = "cleanup" /\ js' = "idle"
    /\ callbackRef' = FALSE /\ cbOpen' = FALSE
    /\ promise' = IF exception THEN promise ELSE "resolved"
    /\ UNCHANGED <<queue, cbQ, aborted, exception, delivered, signals, faults>>

CleanupEnd ==
    /\ js = "cleanup" /\ cbQ.msgs = <<>>
    /\ js' = "idle" /\ callbackRef' = (callbackRef /\ ~RecvFails(cbQ))
    /\ cbOpen' = FALSE /\ promise' = IF exception THEN promise ELSE "resolved"
    /\ UNCHANGED <<queue, cbQ, aborted, exception, delivered, signals, faults>>

-----------------------------------------------------------------------------

DemStep == /\ \/ DemOpen \/ DemParams \/ DemInterrupted \/ DemTick \/ DemCheck
              \/ DemTime \/ DemPost \/ DemExit
           /\ UNCHANGED <<cbQ, shutdown, decPc, decData, js, jsData, signals, outputs>>
Network == /\ DemRead
           /\ UNCHANGED <<cbQ, shutdown, decPc, decData, js, jsData, signals, outputs>>
Decoder == /\ \/ DecStart \/ DecRecv \/ DecOther \/ DecPacket \/ DecEmit \/ DecNotify
              \/ DecFinish \/ DecFinishNotify \/ DecClose \/ DecStop \/ DecJoin
              \/ DecFinSend \/ DecFinRecv \/ DecFinAsync
           /\ UNCHANGED <<demData, js, jsData>>
EventLoop == /\ \/ AbortRecv \/ BufferReady \/ Deliver \/ DeliverEnd
                \/ ThreadFinished \/ CleanupEnd
             /\ UNCHANGED <<demPc, demData, shutdown, decPc, decData, outputs>>
RaiseSignal == Abort /\ UNCHANGED <<demPc, demData, shutdown, decPc, decData, outputs>>

(* The event loop has nothing to do, now or later. *)
Terminated == /\ decPc \in {"done", "crashed"} /\ js = "idle"
              /\ ~finPending /\ (cbPending => ~cbOpen)
              /\ UNCHANGED vars

Next == DemStep \/ Network \/ Decoder \/ EventLoop \/ RaiseSignal \/ Terminated

(* Threads are scheduled, and the event loop delivers what is pending.  No *)
(* packet has to come, and nobody has to raise the signal.                 *)
Fairness == WF_vars(DemStep) /\ WF_vars(Decoder) /\ WF_vars(EventLoop)
Spec == Init /\ [][Next]_vars
FairSpec == Spec /\ Fairness

-----------------------------------------------------------------------------
(* Properties.                                                             *)

(* The decoder makes one timeline out of what the network delivers, in     *)
(* whatever order, with whatever losses on the way, and however often the  *)
(* demuxer's post found the queue full: no frame overlaps the one before   *)
(* it, unless it repeats it, and no hole is as long as a frame.            *)
TimelineKept ==
    "decode" \notin faults =>
        \A i \in 1..(Len(decoded) - 1) :
            LET a == decoded[i]
                b == decoded[i + 1]
            IN \/ b = a
               \/ a.pts + a.dur <= b.pts /\ b.pts < a.pts + 2 * a.dur

(* A packet never reaches a thread without a decoder: the guard for that   *)
(* case throws nothing away.                                               *)
PacketsFollowParameters ==
    decPc = "handle" /\ decMsg.type = "POST_PACKET" => decoder

(* done() settles after the last call of onAudioData: every frame that the *)
(* callback queue took has been delivered, those that came in after the    *)
(* abort or while the event loop was busy included.                        *)
DoneAfterLastFrame ==
    promise = "resolved" /\ "throw" \notin faults => delivered = queued

(* The reference to onAudioData is deleted only when no frame needs it any *)
(* more.                                                                   *)
CallbackAlive == ~callbackRef => cbQ.msgs = <<>> /\ out = <<>>

(* Neither queue, handle or promise is given up while a thread uses it.    *)
ShutdownOrder ==
    /\ decPc \in {"finSend", "finRecv", "finAsync", "done"} => demPc = "done"
    /\ finPending \/ ~cbOpen \/ promise = "resolved" => decPc = "done"

(* What waits in the callback queue is on its way: the event loop is about *)
(* to take it, or was notified, or will be by the thread that put it in.   *)
FramesAreAnnounced ==
    cbQ.msgs # <<>> =>
        cbOpen /\ (js \in {"deliver", "cleanup"} \/ cbPending \/ decPc = "notify")

(* Nobody waits for somebody who waits, or who is gone: when neither       *)
(* thread can go on and the end was not announced, the demuxer waits for   *)
(* the network, and the signal was not raised.                             *)
DemuxerWaits ==
    \/ demPc = "read" /\ ~shutdown
    \/ /\ demPc = "params"
       /\ ~CanSend(queue, DEFAULT_MESSAGE_QUEUE_SIZE) /\ ~SendFails(queue)
    \/ demPc \in {"none", "done"}
DecoderWaits ==
    \/ decPc = "recv" /\ ~CanRecv(queue) /\ ~RecvFails(queue)
    \/ decPc = "join" /\ demPc # "done"
    \/ decPc = "done"
NothingPending ==
    js = "idle" /\ promise = "pending" /\ ~finPending /\ "throw" \notin faults
OnlyNetworkIsAwaited ==
    NothingPending /\ DemuxerWaits /\ DecoderWaits => demPc = "read" /\ ~aborted

(* The stream as its caller sees it. *)
Phase == IF promise = "resolved" THEN "done" ELSE IF cbQ.err_recv THEN "ended" ELSE "open"

Abstract == INSTANCE AudioSink WITH
    Frame   <- Frames,
    frames  <- queued,
    taken   <- Len(queued) - Len(cbQ.msgs),
    phase   <- Phase,
    excuses <- faults \cap {"decode", "throw"}

(* The threads, queues and callbacks implement AudioSink: whatever both    *)
(* queues drop, onAudioData gets the frames in order, each at most once    *)
(* and none over another, none after done(), and all that were queued      *)
(* before it.                                                              *)
ImplementsAudioSink == Abstract!Spec

(* done() settles after the signal is raised or the demuxer has stopped,   *)
(* unless onAudioData threw an exception, which may be in the way.  It is  *)
(* checked without the failure "start", after which there is no demuxer    *)
(* and DecStop writes through a null pointer: the process is gone.         *)
EventuallyResolved ==
    aborted \/ demPc = "done" ~> promise = "resolved" \/ "throw" \in faults
=============================================================================
