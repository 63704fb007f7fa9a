----------------------------- MODULE ProduceRtp -----------------------------
(***************************************************************************)
(* One produceRtp() stream: the JavaScript thread that calls write(),      *)
(* endSegment(), end() and the setters and runs the abort listeners and    *)
(* the libuv callbacks; the encoder thread (audio_encode_thread.cc inside  *)
(* thread_with_promise_result.h); and the producer thread                  *)
(* (producer_thread.cc).  A step is one access to what threads share: a    *)
(* message queue, a libuv handle, a pthread_join.                          *)
(*                                                                         *)
(* Samples are numbered in the order of acceptance, so that a frame is the *)
(* sequence of the numbers it carries.  Wall-clock pacing in the producer  *)
(* is the subject of ProducerPacing.                                       *)
(***************************************************************************)
EXTENDS OpusFraming, ThreadMessageQueue

CONSTANTS QueueDepth,          \* queueDepth of the encoder's queue
          PRODUCER_QUEUE_SIZE,
          ChunkSizes,          \* lengths of the buffers passed to write()
          SettingValues,       \* values passed to each setter
          Faults,              \* the kinds of failure that may happen
          MaxSamples,          \* bound: samples accepted
          MaxControl           \* bound: control messages accepted

FaultKinds == {"start", "opus", "encode", "open", "write", "throw"}

ASSUME ProduceRtpAssumption ==
    /\ QueueDepth \in Nat \ {0}
    /\ PRODUCER_QUEUE_SIZE \in Nat \ {0}
    /\ ChunkSizes \subseteq Nat \ {0}
    /\ SettingValues \in [Settings -> SUBSET Int]
    /\ Faults \subseteq FaultKinds
    /\ MaxSamples \in Nat
    /\ MaxControl \in Nat

VARIABLES
    encQ,          \* the encoder's message queue
    prodQ,         \* the producer's message queue
    (* the JavaScript thread *)
    js,            \* "idle", or the next call of the API function it is in
    inDrain,       \* onDrain is running
    exception,     \* a JavaScript exception is pending in the napi_env
    client,        \* "waiting": write() returned false, onDrain not seen yet
    ended,         \* end() was called
    aborted,       \* the AbortSignal was raised
    listener,      \* the abort listener of produceRtp is registered
    drainPending,  \* an uv_async_send on drain_async is not delivered yet
    drainOpen,     \* drain_async is not closed
    finPending,    \* an uv_async_send on thread_finished_async
    promise,       \* "pending" or "resolved"
    (* the encoder thread *)
    encPc, encMsg, accum, pts, encPkt, ctl,
    (* the producer thread *)
    prodPc, prodPkt,
    sent,          \* the packets that left through av_write_frame
    (* history, read by properties only *)
    calls,         \* the calls whose message encQ accepted (OpusFraming)
    asked,         \* the positions at which endSegment() was called
    faults         \* the kinds of failure that have happened

queues   == <<encQ, prodQ>>
jsVars   == <<js, inDrain, exception, client, ended, aborted, listener>>
uvVars   == <<drainPending, drainOpen, finPending, promise>>
encVars  == <<encPc, encMsg, accum, pts, encPkt, ctl>>
prodVars == <<prodPc, prodPkt, sent>>
history  == <<calls, asked, faults>>
vars     == <<queues, jsVars, uvVars, encVars, prodVars, history>>

-----------------------------------------------------------------------------
(* Messages and packets. *)

PcmMessages  == [type : {"POST_PCM_BUFFER"}, samples : Seq(Nat)]
FlushMessage == [type |-> "FLUSH_OPUS_ENCODER"]
ClearMessage == [type |-> "CLEAR_PRODUCER_QUEUE"]
SetMessages  == [type : Settings, value : Int]
Messages     == PcmMessages \cup SetMessages \cup {FlushMessage, ClearMessage}

Packets  == [pts : Nat, samples : Seq(Nat), ctl : [Settings -> Int]]
NoPacket == [pts |-> 0, samples |-> <<>>, ctl |-> StartSettings]
NoMessage == FlushMessage

QueueTypes == encQ \in QueueOf(Messages) /\ prodQ \in QueueOf(Packets)
JsTypes ==
    /\ js \in {"idle", "endRecv", "abortRecv", "abortFlush", "abortClear"}
    /\ inDrain \in BOOLEAN /\ exception \in BOOLEAN /\ client \in {"ready", "waiting"}
    /\ ended \in BOOLEAN /\ aborted \in BOOLEAN /\ listener \in BOOLEAN
UvTypes ==
    /\ drainPending \in BOOLEAN /\ drainOpen \in BOOLEAN /\ finPending \in BOOLEAN
    /\ promise \in {"pending", "resolved"}
EncTypes ==
    /\ encPc \in {"start", "opus", "recv", "notify", "handle", "post", "flushPost",
                  "stopSend", "stopRecv", "join", "finSend", "finRecv", "finish",
                  "done"}
    /\ encMsg \in Messages /\ encPkt \in Packets
    /\ accum \in Seq(Nat) /\ Len(accum) <= FrameSize    \* room of mono_accum
    /\ pts \in Nat /\ ctl \in [Settings -> Int]
ProdTypes ==
    /\ prodPc \in {"none", "open", "recv", "send", "exitSend", "exitRecv", "done"}
    /\ prodPkt \in Packets /\ sent \in Seq(Packets)
HistoryTypes ==
    /\ calls \in Seq([msg : Messages, at : Nat])
    /\ asked \subseteq Nat /\ faults \subseteq Faults

TypeOK == QueueTypes /\ JsTypes /\ UvTypes /\ EncTypes /\ ProdTypes /\ HistoryTypes

(* What produceRtp leaves behind when it returns: the call itself, then    *)
(* the handles and promise of start_thread_with_promise_result, then the   *)
(* arguments that startAudioEncodeThread hands to the thread.              *)
InitJs ==
    /\ js = "idle" /\ inDrain = FALSE /\ exception = FALSE /\ client = "ready"
    /\ ended = FALSE /\ aborted = FALSE /\ listener = TRUE
InitHandles ==
    /\ encQ = EmptyQueue /\ prodQ = EmptyQueue
    /\ drainPending = FALSE /\ drainOpen = TRUE /\ finPending = FALSE
    /\ promise = "pending"
InitThreads ==
    /\ encPc = "start" /\ encMsg = NoMessage /\ encPkt = NoPacket
    /\ accum = <<>> /\ pts = 0 /\ ctl = InitialSettings
    /\ prodPc = "none" /\ prodPkt = NoPacket /\ sent = <<>>

Init == /\ InitJs /\ InitHandles /\ InitThreads
        /\ calls = <<>> /\ asked = {} /\ faults = {}

-----------------------------------------------------------------------------
(* The JavaScript thread: one API call, listener or callback at a time.    *)
(* Calls come from the program at large or from within onDrain.  A call    *)
(* into the addon does its work while an exception is pending, and throws  *)
(* it when it returns; then it is no longer pending.                       *)

Fault(kind) == kind \in Faults /\ faults' = faults \cup {kind}

(* A non-blocking post from the API; Log records what the queue accepted.  *)
PostToEncoder(m) == encQ' = TrySend(encQ, m, QueueDepth)
Log(m, n) == calls' = IF CanSend(encQ, QueueDepth)
                      THEN Append(calls, [msg |-> m, at |-> Accepted(calls) + n])
                      ELSE calls

Controls == {k \in DOMAIN calls : calls[k].msg.type # "POST_PCM_BUFFER"}

(* write(): true, or false when the queue is full and the data is dropped, *)
(* or an exception that was pending.  The caller may wait for onDrain or   *)
(* just call again.                                                        *)
Write(n) ==
    /\ js = "idle" /\ ~SendFails(encQ)
    /\ Accepted(calls) + n <= MaxSamples
    /\ LET m == [type    |-> "POST_PCM_BUFFER",
                 samples |-> [i \in 1..n |-> Accepted(calls) + i]]
       IN PostToEncoder(m) /\ Log(m, n)
    /\ client' = IF IsFull(encQ, QueueDepth) /\ ~exception THEN "waiting" ELSE "ready"
    /\ exception' = FALSE
    /\ UNCHANGED <<prodQ, js, inDrain, ended, aborted, listener, uvVars, encVars,
                   prodVars, asked, faults>>

(* endSegment(): the result of the post is ignored. *)
EndSegment ==
    /\ js = "idle" /\ ~SendFails(encQ)
    /\ Cardinality(Controls) < MaxControl
    /\ PostToEncoder(FlushMessage) /\ Log(FlushMessage, 0)
    /\ asked' = asked \cup {Accepted(calls)} /\ exception' = FALSE
    /\ UNCHANGED <<prodQ, js, inDrain, client, ended, aborted, listener, uvVars,
                   encVars, prodVars, faults>>

(* setBitrate(), setEnableFec() and setPacketLossPercent(), likewise. *)
SetEncoder(s, v) ==
    /\ js = "idle" /\ ~SendFails(encQ)
    /\ Cardinality(Controls) < MaxControl
    /\ LET m == [type |-> s, value |-> v] IN PostToEncoder(m) /\ Log(m, 0)
    /\ exception' = FALSE
    /\ UNCHANGED <<prodQ, js, inDrain, client, ended, aborted, listener, uvVars,
                   encVars, prodVars, asked, faults>>

(* When the queue is closed every call is refused: write() throws, the     *)
(* others do nothing, and a pending exception comes out of any of them.    *)
CallAfterClose ==
    /\ js = "idle" /\ SendFails(encQ) /\ exception /\ exception' = FALSE
    /\ UNCHANGED <<queues, js, inDrain, client, ended, aborted, listener, uvVars,
                   encVars, prodVars, history>>

(* end(): postEndOfFile closes the queue for senders, then for receivers.  *)
End ==
    /\ js = "idle" /\ ~ended
    /\ ended' = TRUE /\ js' = "endRecv"
    /\ encQ' = SetErrSend(encQ)
    /\ UNCHANGED <<prodQ, inDrain, exception, client, aborted, listener, uvVars,
                   encVars, prodVars, history>>

(* Mutant of EndRecv: the receiver is not told. *)
BugEndRecv ==
    /\ js = "endRecv" /\ js' = "idle" /\ exception' = FALSE
    /\ UNCHANGED <<queues, inDrain, client, ended, aborted, listener, uvVars, encVars,
                   prodVars, history>>

EndRecv ==
    /\ js = "endRecv"
    /\ encQ' = SetErrRecv(encQ) /\ js' = "idle" /\ exception' = FALSE
    /\ UNCHANGED <<prodQ, inDrain, client, ended, aborted, listener, uvVars, encVars,
                   prodVars, history>>

(* Mutant of Abort: senders are not refused. *)
BugAbort ==
    /\ js = "idle" /\ ~aborted
    /\ aborted' = TRUE /\ js' = "abortRecv"
    /\ UNCHANGED <<queues, inDrain, exception, client, ended, listener, uvVars,
                   encVars, prodVars, history>>

(* The signal is raised.  Listeners run in the order of registration: the  *)
(* native abort_signal_handler first, then, while it is still registered,  *)
(* the listener of produceRtp.                                             *)
Abort ==
    /\ js = "idle" /\ ~aborted
    /\ aborted' = TRUE /\ js' = "abortRecv"
    /\ encQ' = SetErrSend(encQ)
    /\ UNCHANGED <<prodQ, inDrain, exception, client, ended, listener, uvVars,
                   encVars, prodVars, history>>

AbortRecv ==
    /\ js = "abortRecv"
    /\ encQ' = SetErrRecv(encQ) /\ exception' = FALSE
    /\ js' = IF listener THEN "abortFlush" ELSE "idle"
    /\ UNCHANGED <<prodQ, inDrain, client, ended, aborted, listener, uvVars, encVars,
                   prodVars, history>>

AbortFlush ==
    /\ js = "abortFlush"
    /\ encQ' = Flush(encQ) /\ js' = "abortClear"
    /\ UNCHANGED <<prodQ, inDrain, exception, client, ended, aborted, listener, uvVars,
                   encVars, prodVars, history>>

AbortClear ==
    /\ js = "abortClear"
    /\ PostToEncoder(ClearMessage) /\ js' = "idle"
    /\ UNCHANGED <<prodQ, inDrain, exception, client, ended, aborted, listener, uvVars,
                   encVars, prodVars, history>>

(* The event loop: no JavaScript function is running. *)
LoopIsFree == js = "idle" /\ ~inDrain

(* drain_async_callback calls onDrain.  While an exception is pending no   *)
(* JavaScript function can be called, and the notification is lost.        *)
DrainCallback ==
    /\ LoopIsFree /\ drainOpen /\ drainPending
    /\ drainPending' = FALSE
    /\ \/ exception /\ UNCHANGED <<inDrain, client>>
       \/ ~exception /\ inDrain' = TRUE /\ client' = "ready"
    /\ UNCHANGED <<queues, js, exception, ended, aborted, listener, drainOpen,
                   finPending, promise, encVars, prodVars, history>>

(* onDrain returns, or throws an exception that nobody takes out of the    *)
(* napi_env: the status of napi_call_function is ignored.                  *)
DrainReturn ==
    /\ js = "idle" /\ inDrain /\ inDrain' = FALSE
    /\ \/ UNCHANGED <<exception, faults>>
       \/ exception' = TRUE /\ Fault("throw")
    /\ UNCHANGED <<queues, js, client, ended, aborted, listener, uvVars, encVars,
                   prodVars, calls, asked>>

(* async_callback closes drain_async and resolves the promise, whatever    *)
(* the thread returned.  With an exception pending napi_resolve_deferred   *)
(* fails, and nobody tries again.                                          *)
FinishCallback ==
    /\ LoopIsFree /\ finPending
    /\ finPending' = FALSE /\ drainOpen' = FALSE
    /\ promise' = IF exception THEN promise ELSE "resolved"
    /\ UNCHANGED <<queues, jsVars, drainPending, encVars, prodVars, history>>

(* The then() of produceRtp: a later microtask. *)
RemoveListener ==
    /\ LoopIsFree /\ promise = "resolved" /\ listener
    /\ listener' = FALSE
    /\ UNCHANGED <<queues, js, inDrain, exception, client, ended, aborted, uvVars,
                   encVars, prodVars, history>>

-----------------------------------------------------------------------------
(* The encoder thread.                                                     *)

(* start_producer_thread_raw.  On failure there is no producer to stop.    *)
EncStartProducer ==
    /\ encPc = "start"
    /\ \/ encPc' = "opus" /\ prodPc' = "open" /\ UNCHANGED faults
       \/ encPc' = "finSend" /\ Fault("start") /\ UNCHANGED prodPc
    /\ UNCHANGED <<queues, jsVars, uvVars, encMsg, accum, pts, encPkt, ctl,
                   prodPkt, sent, calls, asked>>

EncCreateOpus ==
    /\ encPc = "opus"
    /\ \/ encPc' = "recv" /\ ctl' = StartSettings /\ UNCHANGED faults
       \/ encPc' = "stopSend" /\ Fault("opus") /\ UNCHANGED ctl
    /\ UNCHANGED <<queues, jsVars, uvVars, encMsg, accum, pts, encPkt, prodVars,
                   calls, asked>>

EncRecv ==
    /\ encPc = "recv" /\ CanRecv(encQ)
    /\ encMsg' = Head(encQ.msgs) /\ encQ' = Recv(encQ) /\ encPc' = "notify"
    /\ UNCHANGED <<prodQ, jsVars, uvVars, accum, pts, encPkt, ctl, prodVars, history>>

EncEof ==
    /\ encPc = "recv" /\ RecvFails(encQ)
    /\ encPc' = "stopSend"
    /\ UNCHANGED <<queues, jsVars, uvVars, encMsg, accum, pts, encPkt, ctl,
                   prodVars, history>>

(* Mutant of EncNotify: only a PCM buffer makes room for the writer. *)
BugEncNotify ==
    /\ encPc = "notify"
    /\ drainPending' = (drainPending \/ encMsg.type = "POST_PCM_BUFFER")
    /\ encPc' = "handle"
    /\ UNCHANGED <<queues, jsVars, drainOpen, finPending, promise, encMsg, accum,
                   pts, encPkt, ctl, prodVars, history>>

(* uv_async_send(drain_async): sends that are not delivered yet coalesce.  *)
EncNotify ==
    /\ encPc = "notify"
    /\ drainPending' = TRUE /\ encPc' = "handle"
    /\ UNCHANGED <<queues, jsVars, drainOpen, finPending, promise, encMsg, accum,
                   pts, encPkt, ctl, prodVars, history>>

(* One turn of the loop over a PCM buffer: move samples to the accumulator *)
(* and encode it when it holds a frame.  A frame that cannot be encoded is *)
(* dropped, and pts does not advance.                                      *)
(* Mutant of Rest: the input pointer is one sample behind. *)
BugRest(n) == SubSeq(encMsg.samples, n, Len(encMsg.samples))
Rest(n) == SubSeq(encMsg.samples, n + 1, Len(encMsg.samples))
AfterInput(rest) == IF rest = <<>> THEN "recv" ELSE "handle"
(* Mutant of Packet: the timestamp of the previous frame. *)
BugPacket(samples) == [pts |-> pts - FRAME_SIZE_OUTPUT, samples |-> samples, ctl |-> ctl]
Packet(samples) == [pts |-> pts, samples |-> samples, ctl |-> ctl]

EncFill ==
    /\ encPc = "handle" /\ encMsg.type = "POST_PCM_BUFFER"
    /\ LET n      == Min({Len(encMsg.samples), FrameSize - Len(accum)})
           filled == accum \o SubSeq(encMsg.samples, 1, n)
       IN /\ encMsg' = [encMsg EXCEPT !.samples = Rest(n)]
          /\ \/ /\ Len(filled) < FrameSize
                /\ accum' = filled /\ encPc' = AfterInput(Rest(n))
                /\ UNCHANGED <<encPkt, faults>>
             \/ /\ Len(filled) >= FrameSize
                /\ accum' = filled /\ encPkt' = Packet(filled) /\ encPc' = "post"
                /\ UNCHANGED faults
             \/ /\ Len(filled) >= FrameSize /\ Fault("encode")
                /\ accum' = <<>> /\ encPc' = AfterInput(Rest(n))
                /\ UNCHANGED encPkt
    /\ UNCHANGED <<queues, jsVars, uvVars, pts, ctl, prodVars, calls, asked>>

(* The blocking send to the producer: it waits for room, and its error is  *)
(* only logged.                                                            *)
SendToProducer ==
    \/ CanSend(prodQ, PRODUCER_QUEUE_SIZE) /\ prodQ' = Send(prodQ, encPkt)
    \/ SendFails(prodQ) /\ UNCHANGED prodQ

EncPost ==
    /\ encPc = "post" /\ SendToProducer
    /\ pts' = pts + FRAME_SIZE_OUTPUT /\ accum' = <<>>
    /\ encPc' = AfterInput(encMsg.samples)
    /\ UNCHANGED <<encQ, jsVars, uvVars, encMsg, encPkt, ctl, prodVars, history>>

(* Mutant of EncFlush: the accumulator is kept for the next segment. *)
BugEncFlush ==
    /\ encPc = "handle" /\ encMsg.type = "FLUSH_OPUS_ENCODER"
    /\ pts' = 0 /\ encPc' = "recv"
    /\ UNCHANGED <<queues, jsVars, uvVars, encMsg, accum, encPkt, ctl, prodVars, history>>

(* FLUSH_OPUS_ENCODER: encode what is accumulated, padded with zeros, and  *)
(* start the timestamps again from zero.                                   *)
EncFlush ==
    /\ encPc = "handle" /\ encMsg.type = "FLUSH_OPUS_ENCODER"
    /\ \/ /\ accum = <<>>
          /\ pts' = 0 /\ encPc' = "recv" /\ UNCHANGED <<accum, encPkt, faults>>
       \/ /\ accum # <<>>
          /\ encPkt' = Packet(accum) /\ encPc' = "flushPost"
          /\ UNCHANGED <<accum, pts, faults>>
       \/ /\ accum # <<>> /\ Fault("encode")
          /\ accum' = <<>> /\ pts' = 0 /\ encPc' = "recv" /\ UNCHANGED encPkt
    /\ UNCHANGED <<queues, jsVars, uvVars, encMsg, ctl, prodVars, calls, asked>>

(* Mutant of EncFlushPost: the timestamps run on. *)
BugEncFlushPost ==
    /\ encPc = "flushPost" /\ SendToProducer
    /\ accum' = <<>> /\ pts' = pts + FRAME_SIZE_OUTPUT /\ encPc' = "recv"
    /\ UNCHANGED <<encQ, jsVars, uvVars, encMsg, encPkt, ctl, prodVars, history>>

EncFlushPost ==
    /\ encPc = "flushPost" /\ SendToProducer
    /\ accum' = <<>> /\ pts' = 0 /\ encPc' = "recv"
    /\ UNCHANGED <<encQ, jsVars, uvVars, encMsg, encPkt, ctl, prodVars, history>>

(* CLEAR_PRODUCER_QUEUE and the three SET messages. *)
EncControl ==
    /\ encPc = "handle"
    /\ encMsg.type \in Settings \cup {"CLEAR_PRODUCER_QUEUE"}
    /\ encPc' = "recv"
    /\ prodQ' = IF encMsg = ClearMessage THEN Flush(prodQ) ELSE prodQ
    /\ ctl' = IF encMsg = ClearMessage THEN ctl
              ELSE [ctl EXCEPT ![encMsg.type] = CtlValue(encMsg.type, encMsg.value)]
    /\ UNCHANGED <<encQ, jsVars, uvVars, encMsg, accum, pts, encPkt, prodVars, history>>

(* Mutant of EncStopSend: what the producer has not sent yet is discarded. *)
BugEncStopSend ==
    /\ encPc = "stopSend"
    /\ prodQ' = SetErrSend(Flush(prodQ)) /\ encPc' = "stopRecv"
    /\ UNCHANGED <<encQ, jsVars, uvVars, encMsg, accum, pts, encPkt, ctl, prodVars,
                   history>>

(* cleanup: stop_producer_thread_raw closes the producer's queue and joins *)
(* the thread; then ThreadMain of thread_with_promise_result.h closes the  *)
(* encoder's queue and tells the event loop.                               *)
EncStopSend ==
    /\ encPc = "stopSend"
    /\ prodQ' = SetErrSend(prodQ) /\ encPc' = "stopRecv"
    /\ UNCHANGED <<encQ, jsVars, uvVars, encMsg, accum, pts, encPkt, ctl, prodVars,
                   history>>

EncStopRecv ==
    /\ encPc = "stopRecv"
    /\ prodQ' = SetErrRecv(prodQ) /\ encPc' = "join"
    /\ UNCHANGED <<encQ, jsVars, uvVars, encMsg, accum, pts, encPkt, ctl, prodVars,
                   history>>

(* Mutant of EncJoin: the thread is not joined. *)
BugEncJoin ==
    /\ encPc = "join" /\ encPc' = "finSend"
    /\ UNCHANGED <<queues, jsVars, uvVars, encMsg, accum, pts, encPkt, ctl,
                   prodVars, history>>

EncJoin ==
    /\ encPc = "join" /\ prodPc = "done"
    /\ encPc' = "finSend"
    /\ UNCHANGED <<queues, jsVars, uvVars, encMsg, accum, pts, encPkt, ctl,
                   prodVars, history>>

EncFinSend ==
    /\ encPc = "finSend"
    /\ encQ' = SetErrSend(encQ) /\ encPc' = "finRecv"
    /\ UNCHANGED <<prodQ, jsVars, uvVars, encMsg, accum, pts, encPkt, ctl, prodVars,
                   history>>

EncFinRecv ==
    /\ encPc = "finRecv"
    /\ encQ' = SetErrRecv(encQ) /\ encPc' = "finish"
    /\ UNCHANGED <<prodQ, jsVars, uvVars, encMsg, accum, pts, encPkt, ctl, prodVars,
                   history>>

EncFinish ==
    /\ encPc = "finish"
    /\ finPending' = TRUE /\ encPc' = "done"
    /\ UNCHANGED <<queues, jsVars, drainPending, drainOpen, promise, encMsg, accum,
                   pts, encPkt, ctl, prodVars, history>>

-----------------------------------------------------------------------------
(* The producer thread.                                                    *)

(* Create the muxer and open the socket. *)
ProdOpen ==
    /\ prodPc = "open"
    /\ \/ prodPc' = "recv" /\ UNCHANGED faults
       \/ prodPc' = "exitSend" /\ Fault("open")
    /\ UNCHANGED <<queues, jsVars, uvVars, encVars, prodPkt, sent, calls, asked>>

ProdRecv ==
    /\ prodPc = "recv" /\ CanRecv(prodQ)
    /\ prodPkt' = Head(prodQ.msgs) /\ prodQ' = Recv(prodQ) /\ prodPc' = "send"
    /\ UNCHANGED <<encQ, jsVars, uvVars, encVars, sent, history>>

ProdEof ==
    /\ prodPc = "recv" /\ RecvFails(prodQ)
    /\ prodPc' = "exitSend"
    /\ UNCHANGED <<queues, jsVars, uvVars, encVars, prodPkt, sent, history>>

(* Sleep, then av_write_frame. *)
ProdSend ==
    /\ prodPc = "send"
    /\ \/ sent' = Append(sent, prodPkt) /\ prodPc' = "recv" /\ UNCHANGED faults
       \/ prodPc' = "exitSend" /\ Fault("write") /\ UNCHANGED sent
    /\ UNCHANGED <<queues, jsVars, uvVars, encVars, prodPkt, calls, asked>>

(* ThreadMainRawWrapper closes the queue when ThreadMain has returned. *)
ProdExitSend ==
    /\ prodPc = "exitSend"
    /\ prodQ' = SetErrSend(prodQ) /\ prodPc' = "exitRecv"
    /\ UNCHANGED <<encQ, jsVars, uvVars, encVars, prodPkt, sent, history>>

ProdExitRecv ==
    /\ prodPc = "exitRecv"
    /\ prodQ' = SetErrRecv(prodQ) /\ prodPc' = "done"
    /\ UNCHANGED <<encQ, jsVars, uvVars, encVars, prodPkt, sent, history>>

-----------------------------------------------------------------------------

JsCall == \/ \E n \in ChunkSizes : Write(n)
          \/ EndSegment
          \/ \E s \in Settings : \E v \in SettingValues[s] : SetEncoder(s, v)
          \/ CallAfterClose
          \/ End \/ Abort
JsContinue == EndRecv \/ AbortRecv \/ AbortFlush \/ AbortClear
EventLoop  == DrainCallback \/ DrainReturn \/ FinishCallback \/ RemoveListener

Encoder == \/ EncStartProducer \/ EncCreateOpus
           \/ EncRecv \/ EncEof \/ EncNotify
           \/ EncFill \/ EncPost \/ EncFlush \/ EncFlushPost \/ EncControl
           \/ EncStopSend \/ EncStopRecv \/ EncJoin
           \/ EncFinSend \/ EncFinRecv \/ EncFinish
Producer == \/ ProdOpen \/ ProdRecv \/ ProdEof \/ ProdSend
            \/ ProdExitSend \/ ProdExitRecv

(* The threads have stopped, and the event loop has nothing to do, now or  *)
(* later; only then may the system stop.                                   *)
Terminated == /\ encPc = "done" /\ ~finPending /\ LoopIsFree
              /\ promise = "resolved" => ~listener
              /\ UNCHANGED vars

Next == JsCall \/ JsContinue \/ EventLoop \/ Encoder \/ Producer \/ Terminated

Spec == Init /\ [][Next]_vars

(* Threads are scheduled, a JavaScript function runs to its end, and the   *)
(* event loop delivers what is pending.  Nobody has to call the API.       *)
Fairness == /\ WF_vars(Encoder) /\ WF_vars(Producer)
            /\ WF_vars(JsContinue)
            /\ WF_vars(DrainCallback) /\ WF_vars(DrainReturn)
            /\ WF_vars(FinishCallback) /\ WF_vars(RemoveListener)
FairSpec == Spec /\ Fairness

-----------------------------------------------------------------------------
(* Properties.                                                             *)

(* What leaves is exactly what the accepted calls ask for, in order and    *)
(* with the timestamps and settings of the reference packetization:        *)
(* nothing is lost, repeated or reordered between write() and the socket,  *)
(* whatever the interleaving, the failures of the producer or an abort.  A *)
(* frame that the encoder could not encode is the one excuse.              *)
FramesFollowCalls == "encode" \notin faults => Packetizes(sent, calls)

(* The contract the producer's rebasing rests on, encoder failures         *)
(* included: a timestamp follows its predecessor by exactly one frame, and *)
(* goes back to zero exactly when an accepted endSegment() lies between.   *)
TimestampsFollowSegments ==
    /\ sent # <<>> => sent[1].pts = 0
    /\ \A i \in 1..(Len(sent) - 1) :
          LET p == sent[i]
              q == sent[i + 1]
              cut == \E c \in Cuts(calls) : Last(p.samples) <= c /\ c < Head(q.samples)
          IN q.pts = IF cut THEN 0 ELSE p.pts + FRAME_SIZE_OUTPUT

(* "The thread will shutdown when it's finished sending any queued data":  *)
(* when the promise resolves after end() and nothing failed, every frame   *)
(* that the accepted calls complete has been sent, and every setting that  *)
(* was accepted has reached the encoder.                                   *)
GracefulEnd ==
    promise = "resolved" /\ ~aborted /\ faults = {} =>
        /\ PacketizesAll(sent, calls)
        /\ ctl = SettingsAt(calls, Len(calls) + 1)

(* Once the abort listeners have run, nothing is left in the encoder's     *)
(* queue and nothing gets into it: no audio queued before the abort is     *)
(* taken up after it.                                                      *)
AbortDiscardsQueuedAudio ==
    aborted /\ js = "idle" /\ promise = "pending" => encQ.msgs = <<>>

(* The producer's queue is freed, the drain handle closed and the promise  *)
(* resolved only when the threads that use them have stopped.              *)
ShutdownOrder ==
    /\ encPc \in {"finSend", "finRecv", "finish", "done"} =>
           prodPc \in {"none", "done"}
    /\ finPending \/ ~drainOpen \/ promise = "resolved" => encPc = "done"

(* A writer that got false is not forgotten: until the queue is closed, a  *)
(* message is still in it, or has just been taken, or a notification that  *)
(* the event loop has not seen is on its way.  An onDrain that has thrown  *)
(* is the one excuse: the next notification may fall on its exception.     *)
WriterNotForgotten ==
    client = "waiting" /\ "throw" \notin faults =>
        encQ.msgs # <<>> \/ encPc = "notify" \/ drainPending \/ encQ.err_send

(* Nobody waits for somebody who waits, or who is gone: when no thread can *)
(* go on and the end was not announced, the encoder waits for the caller,  *)
(* who has neither ended nor aborted the stream.  An onDrain that has      *)
(* thrown may leave the promise pending for ever.                          *)
EncoderWaits ==
    \/ encPc = "recv" /\ ~CanRecv(encQ) /\ ~RecvFails(encQ)
    \/ /\ encPc \in {"post", "flushPost"}
       /\ ~CanSend(prodQ, PRODUCER_QUEUE_SIZE) /\ ~SendFails(prodQ)
    \/ encPc = "join" /\ prodPc # "done"
    \/ encPc = "done"
ProducerWaits ==
    \/ prodPc = "recv" /\ ~CanRecv(prodQ) /\ ~RecvFails(prodQ)
    \/ prodPc \in {"none", "done"}
NothingPending ==
    LoopIsFree /\ promise = "pending" /\ ~finPending /\ "throw" \notin faults
OnlyCallerIsAwaited ==
    NothingPending /\ EncoderWaits /\ ProducerWaits =>
        encPc = "recv" /\ ~ended /\ ~aborted

(* The stream as its caller sees it. *)
Phase == CASE promise = "resolved" -> "done"
           [] promise = "pending" /\ encQ.err_send -> "closed"
           [] OTHER -> "open"

Abstract == INSTANCE AudioStream WITH
    accepted <- Accepted(calls),
    cuts     <- Cuts(calls),
    sent     <- [i \in DOMAIN sent |-> sent[i].samples],
    phase    <- Phase

(* The threads, queues and callbacks implement AudioStream: in order, at   *)
(* most once, no frame across a segment's end, nothing accepted after the  *)
(* close, nothing sent after the promise resolved.                         *)
ImplementsAudioStream == Abstract!Spec

(* done() settles after end() or an abort, whatever the producer does,     *)
(* unless onDrain threw an exception, which may be in the way.             *)
EventuallyResolved ==
    ended \/ aborted ~> promise = "resolved" \/ "throw" \in faults

(* A writer that got false is told to try again, or sees done() settle: a  *)
(* message that leaves a full queue is always followed by a notification,  *)
(* which only an exception that onDrain threw can keep from him.           *)
WaitingWriterWoken ==
    client = "waiting" ~>
        client = "ready" \/ promise = "resolved" \/ "throw" \in faults

-----------------------------------------------------------------------------
(* What the documentation says and the code does not do.                   *)

(* index.ts: endSegment() "Flushes any partial frame and resets timing so  *)
(* the next write() starts a fresh segment": no frame has samples of both  *)
(* sides.  A full queue loses the request without a word.                  *)
EndSegmentCutsFrames ==
    \A i \in DOMAIN sent : \A c \in asked :
        ~(Head(sent[i].samples) <= c /\ c < Last(sent[i].samples))

(* index.ts: "If this signal is raised, the sending thread will shutdown   *)
(* immediately": when the listeners have run and the encoder thread waits  *)
(* for the producer, the producer has nothing left to send.                *)
AbortIsImmediate ==
    aborted /\ js = "idle" /\ encPc = "join" => prodQ.msgs = <<>>

(* index.ts: done() settles when "An error is raised": a producer thread   *)
(* that failed ends the stream.                                            *)
ProducerFailureEnds ==
    prodPc = "done" /\ faults \cap {"open", "write"} # {} ~> promise = "resolved"
=============================================================================
