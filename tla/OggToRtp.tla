------------------------------ MODULE OggToRtp ------------------------------
(***************************************************************************)
(* The two jobs of the native addon that send OGG/Opus data as RTP:        *)
(* startDemuxerJob() starts a demuxer thread in file mode (demuxer.cc),    *)
(* which reads pages from its message queue and posts packets to the       *)
(* queue of the producer thread that startProducerJob() has started        *)
(* (producer_thread.cc).  Both run in thread_with_promise_result.h.  The   *)
(* caller posts pages, asks for a reset between two streams, and ends a    *)
(* job by postEndOfFile() or its abort signal.  A step is one access to    *)
(* what threads share.                                                     *)
(*                                                                         *)
(* The queues belong to JavaScript values: a queue is freed when the last  *)
(* reference is gone and the garbage collector comes by.                   *)
(*                                                                         *)
(* A page holds the headers of a stream or one packet of unit duration.    *)
(* The caller posts a buffer per page, posts it again when it was refused, *)
(* and posts nothing else of a stream after the reset that follows it.     *)
(***************************************************************************)
EXTENDS Integers, SequencesExt, ThreadMessageQueue

CONSTANTS FILE_DEMUXER_MESSAGE_QUEUE_SIZE,
          PRODUCER_MESSAGE_QUEUE_SIZE,
          MaxStreams,  \* bound: the streams that a caller can begin
          FirstPts,    \* the timestamp of the first packet of each stream
          MaxPages,    \* bound: pages that are accepted
          Faults       \* the kinds of failure that may happen

Stream == 1..MaxStreams

ASSUME OggAssumption ==
    /\ FILE_DEMUXER_MESSAGE_QUEUE_SIZE \in Nat \ {0}
    /\ PRODUCER_MESSAGE_QUEUE_SIZE \in Nat \ {0}
    /\ MaxStreams \in Nat \ {0}
    /\ FirstPts \in [Stream -> Int]
    /\ MaxPages \in Nat
    /\ Faults \subseteq {"toolarge", "open", "send"}

Job == {"demuxer", "producer"}
QueueName == {"in", "out"}

VARIABLES
    queue,      \* the demuxer's queue "in" and the producer's queue "out"
    holders,    \* who keeps the JavaScript value of each queue alive
    freed,      \* the queues whose value was collected
    (* the caller, in the JavaScript thread *)
    js, stream, pages, posts,
    (* the demuxer thread *)
    demPc, demRet, should_reset,
    container,  \* the streams whose headers the open input has seen
    unread,     \* a packet that opening the input has read
    stream_idx, demPkt, timeSent, pts_correction, next_expected_pts, pts_offset,
    (* the producer thread *)
    prodPc, prodRet, prodMsg,
    (* the event loop *)
    finPending, closing, promise,
    (* history, read by properties only *)
    owed,       \* the packets that were accepted and not cleared
    sent,       \* those that left, with their timestamps
    events      \* failures and other reasons for a packet not to leave

callerVars == <<js, stream, pages, posts, owed>>
demVars    == <<demPc, demRet, should_reset, container, unread, stream_idx, demPkt,
                timeSent, pts_correction, next_expected_pts, pts_offset>>
prodVars   == <<prodPc, prodRet, prodMsg, sent>>
loopVars   == <<finPending, closing, promise, freed>>
vars == <<queue, holders, callerVars, demVars, prodVars, loopVars, events>>

AV_NOPTS_VALUE == -1000000      \* any number that is no timestamp

Page     == [stream : Stream, n : 0..MaxPages]
NoPage   == [stream |-> 1, n |-> 0]
Packet   == [page : Page, pts : Int]
NoPacket == [page |-> NoPage, pts |-> 0]

OggBuffer(p) == [type |-> "OGG_BUFFER", buf |-> p]
Reset        == [type |-> "OGG_RESET_DEMUXER"]
PostPacket(p) == [type |-> "POST_PACKET", pkt |-> p]
Params       == [type |-> "POST_CODEC_PARAMETERS"]
StartTime    == [type |-> "POST_START_TIME_LOCALTIME"]
InMessages   == [type : {"OGG_BUFFER"}, buf : Page] \cup {Reset}
OutMessages  == [type : {"POST_PACKET"}, pkt : Packet] \cup {Params, StartTime}

Size == [in |-> FILE_DEMUXER_MESSAGE_QUEUE_SIZE, out |-> PRODUCER_MESSAGE_QUEUE_SIZE]
InputOf == [demuxer |-> "in", producer |-> "out"]

CallerTypes ==
    /\ js \in {"idle", "reset", "closeIn", "closeOut"} /\ stream \in Stream
    /\ pages \in 0..MaxPages /\ posts \in 0..MaxPages
DemTypes ==
    /\ demPc \in {"open", "params", "read", "time", "post", "reopen",
                  "finSend", "finRecv", "fin", "done"}
    /\ demRet \in {"ok", "error"} /\ should_reset \in BOOLEAN
    /\ container \in Seq(Stream) /\ unread \subseteq Page /\ stream_idx \in Stream
    /\ demPkt \in Page /\ timeSent \in BOOLEAN
    /\ pts_correction \in Nat \cup {AV_NOPTS_VALUE}
    /\ next_expected_pts \in Nat \cup {AV_NOPTS_VALUE} /\ pts_offset \in Nat
ProdTypes ==
    /\ prodPc \in {"open", "recv", "send", "finSend", "finRecv", "fin", "done"}
    /\ prodRet \in {"ok", "error"} /\ prodMsg \in Packet
(* Types: no correction, offset or expected timestamp is negative, and     *)
(* neither queue exceeds its size.                                         *)
TypeOK ==
    /\ queue["in"] \in QueueOf(InMessages) /\ queue["out"] \in QueueOf(OutMessages)
    /\ \A q \in QueueName : Len(queue[q].msgs) <= Size[q]
    /\ holders \in [QueueName -> SUBSET ({"app", "listener"} \cup Job)]
    /\ freed \subseteq QueueName /\ finPending \subseteq Job /\ closing \subseteq Job
    /\ promise \in [Job -> {"pending", "ok", "error"}]
    /\ CallerTypes /\ DemTypes /\ ProdTypes
    /\ owed \subseteq Page /\ sent \in Seq(Packet)
    /\ events \subseteq Faults \cup {"cut", "refused"}

(* Mutant of InitHolders: the demuxer's job takes no reference to the      *)
(* queue that it posts to.                                                 *)
BugInitHolders == [in |-> {"app", "listener", "demuxer"},
                   out |-> {"app", "listener", "producer"}]
(* Each job refers to its own queue, and the demuxer's to its output too.  *)
InitHolders == [in |-> {"app", "listener", "demuxer"},
                out |-> {"app", "listener", "producer", "demuxer"}]

InitDemuxer ==
    /\ demPc = "open" /\ demRet = "ok" /\ should_reset = TRUE
    /\ container = <<>> /\ unread = {} /\ stream_idx = 1 /\ demPkt = NoPage
    /\ timeSent = FALSE /\ pts_correction = AV_NOPTS_VALUE
    /\ next_expected_pts = AV_NOPTS_VALUE /\ pts_offset = 0
InitProducer == prodPc = "open" /\ prodRet = "ok" /\ prodMsg = NoPacket
Init ==
    /\ queue = [q \in QueueName |-> EmptyQueue]
    /\ holders = InitHolders /\ freed = {}
    /\ js = "idle" /\ stream = 1 /\ pages = 0 /\ posts = 0
    /\ InitDemuxer /\ InitProducer
    /\ finPending = {} /\ closing = {} /\ promise = [j \in Job |-> "pending"]
    /\ owed = {} /\ sent = <<>> /\ events = {}

Fault(kind) == kind \in Faults /\ events' = events \cup {kind}
SendTo(q, m) == queue' = [queue EXCEPT ![q] = Send(@, m)]
RecvFrom(q)  == queue' = [queue EXCEPT ![q] = Recv(@)]
SendOrDrop(q, m) == queue' = [queue EXCEPT ![q] = TrySend(@, m, Size[q])]

-----------------------------------------------------------------------------
(* The caller.                                                             *)

IsPacket(p) == p.n > 0

(* postOggBuffer(): a page that is refused, because the queue is full or   *)
(* closed, is the next one to be posted.                                   *)
PostOggBuffer ==
    /\ js = "idle" /\ "app" \in holders["in"]
    /\ posts < MaxPages /\ CanSend(queue["in"], Size["in"])
    /\ LET p == [stream |-> stream, n |-> pages]
       IN /\ SendTo("in", OggBuffer(p))
          /\ owed' = IF IsPacket(p) THEN owed \cup {p} ELSE owed
    /\ pages' = pages + 1 /\ posts' = posts + 1
    /\ UNCHANGED <<holders, js, stream, events>>

(* What the queue "in" has to say of the next stream. *)
BeginStream == stream' = stream + 1 /\ pages' = 0

(* postDemuxerReset() between two streams, which throws when it is refused. *)
PostDemuxerReset ==
    /\ js = "idle" /\ "app" \in holders["in"]
    /\ stream + 1 \in Stream /\ CanSend(queue["in"], Size["in"])
    /\ SendTo("in", Reset) /\ BeginStream
    /\ UNCHANGED <<holders, js, posts, owed, events>>

Waiting(q) == {m.buf : m \in {x \in ToSet(queue[q].msgs) : x.type = "OGG_BUFFER"}}

(* The caller interrupts a stream: clearMessageQueue() and then            *)
(* postDemuxerReset().  What the demuxer has read already goes out.        *)
ClearMessageQueue ==
    /\ js = "idle" /\ "app" \in holders["in"] /\ stream + 1 \in Stream
    /\ queue' = [queue EXCEPT !["in"] = Flush(@)] /\ js' = "reset"
    /\ owed' = owed \ Waiting("in")
    /\ BeginStream
    /\ UNCHANGED <<holders, posts, events>>

ResetAfterClear ==
    /\ js = "reset"
    /\ SendOrDrop("in", Reset) /\ js' = "idle"
    /\ UNCHANGED <<holders, stream, pages, posts, owed, events>>

(* postEndOfFile() and abort_signal_handler do the same: senders are       *)
(* refused first, and then receivers once the queue is empty.  The first   *)
(* needs the caller's handle, the second is kept alive by the signal.      *)
(* Closing a closed queue changes nothing.                                 *)
CloseSend(q) ==
    /\ js = "idle" /\ holders[q] \cap {"app", "listener"} # {}
    /\ ~(queue[q].err_send /\ queue[q].err_recv)
    /\ queue' = [queue EXCEPT ![q] = SetErrSend(@)]
    /\ js' = IF q = "in" THEN "closeIn" ELSE "closeOut"
    /\ UNCHANGED <<holders, stream, pages, posts, owed, events>>

CloseRecv ==
    /\ js \in {"closeIn", "closeOut"}
    /\ queue' = [queue EXCEPT ![IF js = "closeIn" THEN "in" ELSE "out"] = SetErrRecv(@)]
    /\ js' = "idle"
    /\ UNCHANGED <<holders, stream, pages, posts, owed, events>>

(* The caller drops its handles, or the signals with their listeners. *)
Forget(h) ==
    /\ js = "idle" /\ \E q \in QueueName : h \in holders[q]
    /\ holders' = [q \in QueueName |-> holders[q] \ {h}]
    /\ UNCHANGED <<queue, callerVars, events>>

-----------------------------------------------------------------------------
(* The demuxer thread.                                                     *)

DemExit(ret) == demPc' = "finSend" /\ demRet' = ret

(* read_packet finds a buffer that is larger than FFmpeg's, or finds the   *)
(* queue closed and empty, which ends the thread without an error.         *)
DemReadFails ==
    /\ demPc \in {"open", "reopen", "read"} /\ unread = {}
    /\ \/ /\ CanRecv(queue["in"]) /\ Head(queue["in"].msgs) # Reset
          /\ RecvFrom("in") /\ Fault("toolarge") /\ DemExit("error")
       \/ RecvFails(queue["in"]) /\ DemExit("ok") /\ UNCHANGED <<queue, events>>
    /\ UNCHANGED <<should_reset, container, unread, stream_idx, demPkt, timeSent,
                   pts_correction, next_expected_pts, pts_offset>>

(* Mutant of DemSkipReset: the empty buffer ends the opening of the input. *)
BugDemSkipReset ==
    /\ demPc \in {"open", "reopen"} /\ should_reset
    /\ CanRecv(queue["in"]) /\ Head(queue["in"].msgs) = Reset
    /\ RecvFrom("in") /\ DemExit("ok")
    /\ UNCHANGED <<should_reset, container, unread, stream_idx, demPkt,
                   timeSent, pts_correction, next_expected_pts, pts_offset, events>>

(* Resets are skipped while the input is being opened.  When the headers   *)
(* of a stream have been read already, those of the next come on top.      *)
DemSkipReset ==
    /\ demPc \in {"open", "reopen"} /\ should_reset
    /\ CanRecv(queue["in"]) /\ Head(queue["in"].msgs) = Reset
    /\ RecvFrom("in")
    /\ events' = IF container = <<>> THEN events ELSE events \cup {"cut"}
    /\ UNCHANGED <<demPc, demRet, should_reset, container, unread, stream_idx, demPkt,
                   timeSent, pts_correction, next_expected_pts, pts_offset>>

(* avformat_open_input reads headers, and the first packet, which it keeps *)
(* for av_read_frame.  av_find_best_stream then picks one of the streams.  *)
(* The locals of readAndWritePacket start anew.                            *)
DemOpenRead ==
    /\ demPc \in {"open", "reopen"}
    /\ CanRecv(queue["in"]) /\ Head(queue["in"].msgs) # Reset
    /\ RecvFrom("in")
    /\ LET p == Head(queue["in"].msgs).buf
       IN \/ /\ ~IsPacket(p) /\ container' = Append(container, p.stream)
             /\ UNCHANGED <<demPc, should_reset, unread, stream_idx, timeSent,
                            pts_correction, next_expected_pts>>
          \/ /\ IsPacket(p) /\ unread' = {p}
             /\ stream_idx' \in ToSet(container)
             /\ should_reset' = FALSE /\ timeSent' = FALSE
             /\ pts_correction' = AV_NOPTS_VALUE /\ next_expected_pts' = AV_NOPTS_VALUE
             /\ demPc' = IF demPc = "open" THEN "params" ELSE "read"
             /\ UNCHANGED container
    /\ UNCHANGED <<demRet, demPkt, pts_offset, events>>

(* A blocking send, once. *)
DemParams ==
    /\ demPc = "params"
    /\ \/ /\ CanSend(queue["out"], Size["out"]) /\ SendTo("out", Params)
          /\ demPc' = "read" /\ UNCHANGED <<demRet, events>>
       \/ /\ SendFails(queue["out"]) /\ DemExit("ok")
          /\ events' = events \cup {"refused"} /\ UNCHANGED queue
    /\ UNCHANGED <<should_reset, container, unread, stream_idx, demPkt, timeSent,
                   pts_correction, next_expected_pts, pts_offset>>

(* av_read_frame returns a packet.  The time of the first goes out first.  *)
DemRead ==
    /\ demPc = "read"
    /\ \/ unread # {} /\ demPkt' \in unread /\ unread' = {} /\ UNCHANGED queue
       \/ /\ unread = {} /\ CanRecv(queue["in"]) /\ Head(queue["in"].msgs) # Reset
          /\ RecvFrom("in") /\ demPkt' = Head(queue["in"].msgs).buf /\ UNCHANGED unread
    /\ demPc' = IF timeSent THEN "post" ELSE "time"
    /\ UNCHANGED <<demRet, should_reset, container, stream_idx, timeSent,
                   pts_correction, next_expected_pts, pts_offset, events>>

(* Mutant of OffsetAfter: the offset is not advanced. *)
BugOffsetAfter == pts_offset
OffsetAfter == IF next_expected_pts = AV_NOPTS_VALUE THEN pts_offset
                                                     ELSE next_expected_pts

(* A reset ends the stream: the next one continues its timeline. *)
DemReset ==
    /\ demPc = "read" /\ unread = {}
    /\ CanRecv(queue["in"]) /\ Head(queue["in"].msgs) = Reset
    /\ RecvFrom("in") /\ should_reset' = TRUE /\ demPc' = "reopen"
    /\ container' = <<>> /\ pts_offset' = OffsetAfter
    /\ UNCHANGED <<demRet, unread, stream_idx, demPkt, timeSent, pts_correction,
                   next_expected_pts, events>>

DemTime ==
    /\ demPc = "time"
    /\ SendOrDrop("out", StartTime) /\ timeSent' = TRUE /\ demPc' = "post"
    /\ UNCHANGED <<demRet, should_reset, container, unread, stream_idx, demPkt,
                   pts_correction, next_expected_pts, pts_offset, events>>

StreamPts(p) == FirstPts[p.stream] + p.n - 1
(* Mutant of Correction: a negative timestamp is added, not taken away. *)
BugCorrection == IF pts_correction # AV_NOPTS_VALUE THEN pts_correction
                 ELSE IF StreamPts(demPkt) < 0 THEN StreamPts(demPkt) ELSE 0
(* The first packet that is posted of an input decides: a timestamp before *)
(* zero is moved to zero, one after zero stays where it is.                *)
Correction == IF pts_correction # AV_NOPTS_VALUE THEN pts_correction
              ELSE IF StreamPts(demPkt) < 0 THEN -StreamPts(demPkt) ELSE 0
DemPts == StreamPts(demPkt) + Correction + pts_offset

(* Mutant of DemPost: without room the packet is dropped, as in RTP mode. *)
BugDemPost ==
    /\ demPc = "post" /\ demPc' = "read"
    /\ SendOrDrop("out", PostPacket([page |-> demPkt, pts |-> DemPts]))
    /\ pts_correction' = Correction /\ next_expected_pts' = DemPts + 1
    /\ UNCHANGED <<demRet, should_reset, container, unread, stream_idx, demPkt, timeSent,
                   pts_offset, events>>

(* A packet of another stream is dropped; that of the stream is posted as  *)
(* soon as there is room.  Pages come in order, so no packet goes back.    *)
DemPost ==
    /\ demPc = "post"
    /\ \/ /\ demPkt.stream # stream_idx /\ demPc' = "read"
          /\ UNCHANGED <<queue, demRet, pts_correction, next_expected_pts, events>>
       \/ /\ demPkt.stream = stream_idx /\ CanSend(queue["out"], Size["out"])
          /\ SendTo("out", PostPacket([page |-> demPkt, pts |-> DemPts]))
          /\ pts_correction' = Correction /\ next_expected_pts' = DemPts + 1
          /\ demPc' = "read" /\ UNCHANGED <<demRet, events>>
       \/ /\ demPkt.stream = stream_idx /\ SendFails(queue["out"]) /\ DemExit("ok")
          /\ events' = events \cup {"refused"}
          /\ UNCHANGED <<queue, pts_correction, next_expected_pts>>
    /\ UNCHANGED <<should_reset, container, unread, stream_idx, demPkt, timeSent,
                   pts_offset>>

-----------------------------------------------------------------------------
(* The producer thread, and the end of both threads.                       *)

ProdOpen ==
    /\ prodPc = "open"
    /\ \/ prodPc' = "recv" /\ UNCHANGED <<prodRet, events>>
       \/ Fault("open") /\ prodPc' = "finSend" /\ prodRet' = "error"
    /\ UNCHANGED <<queue, prodMsg, sent>>

(* Messages other than packets are freed. *)
ProdRecv ==
    /\ prodPc = "recv"
    /\ \/ /\ CanRecv(queue["out"]) /\ RecvFrom("out")
          /\ LET m == Head(queue["out"].msgs)
             IN IF m.type = "POST_PACKET" THEN prodPc' = "send" /\ prodMsg' = m.pkt
                                          ELSE UNCHANGED <<prodPc, prodMsg>>
       \/ /\ RecvFails(queue["out"]) /\ prodPc' = "finSend"
          /\ UNCHANGED <<queue, prodMsg>>
    /\ UNCHANGED <<prodRet, sent, events>>

ProdSend ==
    /\ prodPc = "send"
    /\ \/ /\ sent' = Append(sent, prodMsg) /\ prodPc' = "recv"
          /\ UNCHANGED <<prodRet, events>>
       \/ /\ Fault("send") /\ prodPc' = "finSend" /\ prodRet' = "error"
          /\ UNCHANGED sent
    /\ UNCHANGED <<queue, prodMsg>>

(* The wrapper closes the job's queue and tells the event loop. *)
FinSend(pc, q) == /\ pc = "finSend" /\ queue' = [queue EXCEPT ![q] = SetErrSend(@)]
FinRecv(pc, q) == /\ pc = "finRecv" /\ queue' = [queue EXCEPT ![q] = SetErrRecv(@)]
DemFinish ==
    /\ \/ FinSend(demPc, "in") /\ demPc' = "finRecv" /\ UNCHANGED finPending
       \/ FinRecv(demPc, "in") /\ demPc' = "fin" /\ UNCHANGED finPending
       \/ /\ demPc = "fin" /\ demPc' = "done"
          /\ finPending' = finPending \cup {"demuxer"} /\ UNCHANGED queue
    /\ UNCHANGED <<demRet, should_reset, container, unread, stream_idx, demPkt, timeSent,
                   pts_correction, next_expected_pts, pts_offset, events>>
(* Mutant of ProdFinish: the queue is not closed. *)
BugProdFinish ==
    /\ prodPc = "finSend" /\ prodPc' = "done"
    /\ finPending' = finPending \cup {"producer"}
    /\ UNCHANGED <<queue, prodRet, prodMsg, sent, events>>
ProdFinish ==
    /\ \/ FinSend(prodPc, "out") /\ prodPc' = "finRecv" /\ UNCHANGED finPending
       \/ FinRecv(prodPc, "out") /\ prodPc' = "fin" /\ UNCHANGED finPending
       \/ /\ prodPc = "fin" /\ prodPc' = "done"
          /\ finPending' = finPending \cup {"producer"} /\ UNCHANGED queue
    /\ UNCHANGED <<prodRet, prodMsg, sent, events>>

-----------------------------------------------------------------------------
(* The event loop.                                                         *)

(* async_callback: settle the promise, give up the reference to the output *)
(* queue, and close the handle.                                            *)
AsyncCallback(j) ==
    /\ js = "idle" /\ j \in finPending
    /\ finPending' = finPending \ {j} /\ closing' = closing \cup {j}
    /\ promise' = [promise EXCEPT ![j] = IF j = "demuxer" THEN demRet ELSE prodRet]
    /\ holders' = [holders EXCEPT !["out"] = IF j = "demuxer" THEN @ \ {j} ELSE @]
    /\ UNCHANGED freed

(* Mutant of CloseCallback: the reference to the queue stays. *)
BugCloseCallback(j) ==
    /\ js = "idle" /\ j \in closing /\ closing' = closing \ {j}
    /\ UNCHANGED <<holders, finPending, promise, freed>>

(* close_callback deletes the job's data with its reference to the queue.  *)
CloseCallback(j) ==
    /\ js = "idle" /\ j \in closing /\ closing' = closing \ {j}
    /\ holders' = [holders EXCEPT ![InputOf[j]] = @ \ {j}]
    /\ UNCHANGED <<finPending, promise, freed>>

(* The garbage collector runs finalize() for a queue without references. *)
Collect(q) ==
    /\ q \notin freed /\ holders[q] = {} /\ freed' = freed \cup {q}
    /\ UNCHANGED <<holders, finPending, closing, promise>>

-----------------------------------------------------------------------------

Call == /\ \/ PostOggBuffer \/ PostDemuxerReset \/ ClearMessageQueue
           \/ \E q \in QueueName : CloseSend(q)
           \/ \E h \in {"app", "listener"} : Forget(h)
        /\ UNCHANGED <<demVars, prodVars, loopVars>>
RestOfCall == /\ ResetAfterClear \/ CloseRecv
              /\ UNCHANGED <<demVars, prodVars, loopVars>>
Demuxer == /\ \/ /\ \/ DemReadFails \/ DemSkipReset \/ DemOpenRead \/ DemParams
                    \/ DemRead \/ DemReset \/ DemTime \/ DemPost
                 /\ UNCHANGED finPending
              \/ DemFinish
           /\ UNCHANGED <<holders, callerVars, prodVars, closing, promise, freed>>
Producer == /\ \/ (ProdOpen \/ ProdRecv \/ ProdSend) /\ UNCHANGED finPending
               \/ ProdFinish
            /\ UNCHANGED <<holders, callerVars, demVars, closing, promise, freed>>
Callback == /\ \E j \in Job : AsyncCallback(j) \/ CloseCallback(j)
            /\ UNCHANGED <<queue, callerVars, demVars, prodVars, events>>
Collector == /\ \E q \in QueueName : Collect(q)
             /\ UNCHANGED <<queue, callerVars, demVars, prodVars, events>>

Next == Call \/ RestOfCall \/ Demuxer \/ Producer \/ Callback \/ Collector

(* Threads are scheduled, a call that has begun goes on, and the event     *)
(* loop delivers what is pending.  No call has to come, and no collection. *)
Fairness == WF_vars(Demuxer) /\ WF_vars(Producer) /\ WF_vars(RestOfCall)
            /\ WF_vars(Callback)
Spec == Init /\ [][Next]_vars
FairSpec == Spec /\ Fairness

-----------------------------------------------------------------------------
(* Properties.                                                             *)

(* The streams make one timeline, wherever a reset or an interruption cuts *)
(* them: a packet follows its predecessor at once, and the first at zero.  *)
(* The one exception is a stream whose first timestamp is positive, which  *)
(* is not corrected: a gap of that length precedes it.  The drop check and *)
(* the rebasing of the producer rely on timestamps that only increase.     *)
Gap(p) == IF p.n = 1 /\ FirstPts[p.stream] > 0 THEN FirstPts[p.stream] ELSE 0
TimelineContinues ==
    \A i \in DOMAIN sent :
        sent[i].pts = (IF i = 1 THEN 0 ELSE sent[i - 1].pts + 1) + Gap(sent[i].page)

(* The packets among the first n that left. *)
SentPages(n) == {sent[i].page : i \in 1..n}
Of(s, P) == {p \in P : p.stream = s}

(* When both jobs end without an error and no post was refused, every      *)
(* packet that was accepted and not cleared has been sent.  The exception  *)
(* is a reset that arrives between the headers and the first packet of a   *)
(* stream: the stream that follows may be lost, but only as a whole.       *)
EverythingSent ==
    (\A j \in Job : promise[j] = "ok") /\ events \subseteq {"cut"} =>
        \A s \in Stream :
            LET done == Of(s, SentPages(Len(sent)))
            IN done = Of(s, owed) \/ ("cut" \in events /\ done = {})

(* At no time is a packet sent twice, out of order, or that was cleared:   *)
(* what has left of a stream before a packet is all that was accepted of   *)
(* it before that packet and not cleared, and nothing else.                *)
SentInOrder ==
    \A i \in DOMAIN sent :
        LET p == sent[i].page
        IN /\ p \in owed
           /\ Of(p.stream, SentPages(i - 1)) = {q \in Of(p.stream, owed) : q.n < p.n}

(* A queue is freed only when no thread uses it any more, whatever the     *)
(* caller drops, and in whatever order the two jobs end.                   *)
QueueAlive ==
    /\ "in" \in freed => demPc = "done"
    /\ "out" \in freed => /\ prodPc = "done"
                          /\ demPc \notin {"params", "time", "post"}

(* The threads never wait for each other, nor for one that is gone: when   *)
(* neither can go on and the end of neither was announced, each job that   *)
(* is not settled waits for its caller, at a queue that is empty and open. *)
DemuxerWaits ==
    \/ /\ demPc \in {"open", "reopen"} /\ ~RecvFails(queue["in"])
       /\ CanRecv(queue["in"]) =>
             LET m == Head(queue["in"].msgs)
             IN IF m = Reset THEN ~should_reset ELSE IsPacket(m.buf) /\ container = <<>>
    \/ /\ demPc = "read" /\ unread = {}
       /\ ~CanRecv(queue["in"]) /\ ~RecvFails(queue["in"])
    \/ /\ demPc = "params" \/ (demPc = "post" /\ demPkt.stream = stream_idx)
       /\ ~CanSend(queue["out"], Size["out"]) /\ ~SendFails(queue["out"])
    \/ demPc = "done"
ProducerWaits ==
    \/ prodPc = "recv" /\ ~CanRecv(queue["out"]) /\ ~RecvFails(queue["out"])
    \/ prodPc = "done"
OnlyCallerIsAwaited ==
    js = "idle" /\ finPending = {} /\ DemuxerWaits /\ ProducerWaits =>
        /\ demPc \notin {"params", "post"}
        /\ \A j \in Job : promise[j] = "pending" => queue[InputOf[j]] = EmptyQueue

(* A job whose queue is closed ends and settles its promise; the demuxer,  *)
(* which may be waiting for room in the producer's queue, also when the    *)
(* producer has failed.                                                    *)
EventuallySettled ==
    \A j \in Job : queue[InputOf[j]].err_recv ~> promise[j] # "pending"

(* A job that is over has no reference to a queue any more, so that the    *)
(* caller's are the last.                                                  *)
NoReferenceLeaks ==
    \A j \in Job : promise[j] # "pending" /\ j \notin closing =>
        \A q \in QueueName : j \notin holders[q]
=============================================================================
