# A TLA+ model of audio-rtp-tools

audio-rtp-tools is a Node.js addon. `produceRtp()` takes 16-bit mono PCM,
encodes it with Opus and sends it as RTP at the speed at which it is to be
played; `consumeRtp()` receives RTP, conceals what the network lost, and gives
decoded audio to a callback. Behind each of the two is a small concurrent
system: the JavaScript thread, two native threads, one or two bounded message
queues, a few libuv handles and a promise. The addon also exports two jobs that
send OGG/Opus data as RTP, and `network.ts` keeps a pool of port pairs. This
directory models these systems, checks them with TLC and proves their main safety
properties with TLAPS.

## The system

| Component | Source | State | Operations | Hard part |
|---|---|---|---|---|
| produceRtp API | `index.ts`, `worker.cc` | whether the signal was raised, which listener is registered | `write`, `endSegment`, the setters, `end`, abort listener, `done` | order of two abort listeners; posts whose failure nobody sees |
| consumeRtp API | `index.ts`, `worker.cc` | the same | start, abort, `onAudioData`, `done` | frames that are still queued when the threads are gone |
| thread wrapper | `thread_with_promise_result.h` | message queue, `thread_finished_async`, `drain_async`, promise | start, abort handler, thread end, libuv callbacks | order of closing, freeing and resolving |
| encoder thread | `audio_encode_thread.cc` | accumulator, `pts`, encoder settings | one message at a time; start and stop of the producer | frames across buffers and segments; a blocking post to a thread that may die |
| producer thread | `producer_thread.cc` | `rebase_pts`, `last_pts`, `next_expected_pts`, its queue | receive, rebase, sleep, send | wall clock against stream time; draining at the end |
| demuxer thread | `demuxer.cc` | `prev_pts`, `pts_correction`, `shutdown`, start-time flags | open, post parameters, read, check, post | a packet stream that is lossy and out of order; interruption |
| decoder thread | `audio_decode_thread.cc` | decoder, `expected_pts`, `last_frame_size` | one message at a time; conceal, decode, emit; stop of the demuxer | gaps measured with a frame size that changes |
| decoded-audio callback | `buffer_ready_node_callback.cc` | queue of buffers, reference to `onAudioData`, libuv handle | send, notify, deliver, finish, clean up | coalesced notifications, end of the stream, exceptions |
| message queue | FFmpeg's `AVThreadMessageQueue` (external) | messages, error for senders, error for receivers | send, receive, set errors, flush | an error is seen by receivers only when the queue is empty |
| file demuxer | `demuxer.cc`, `worker.cc` | `should_reset`, `pts_offset`, `pts_correction` | read a page, reset, reopen, post with back-pressure | a flag shared by two functions and a queue; the next stream continues the timeline |
| OGG jobs | `worker.cc`, `thread_with_promise_result.h` | two queues owned by JavaScript values, two promises | `postOggBuffer`, `postDemuxerReset`, `clearMessageQueue`, `postEndOfFile`, abort, garbage collection | one job posts to the queue of the other, which may end or be dropped first |
| port pool | `network.ts` | the free offsets | `choosePorts`, `releasePorts` | two awaits between taking an offset and keeping it |
| packet durations | `demuxer.cc` | none | `opus_duration` | a table in shifts, on bytes from the network |

What makes each correct is in the properties below. The native components interact
through the message queues only, except for `pthread_join`, the `shutdown` flag
of the demuxer (with SIGUSR2 to interrupt its `poll()`), and `uv_async_send`
from the native threads to the event loop, which coalesces.

## Modules

    ThreadMessageQueue        the queue: operators, no state
      |
      +-- QueueTheorems       what its operators do to messages, flags and length
      +-- ProduceRtp -------- extends OpusFraming (reference packetization)
      |      |                refines AudioStream  (what the caller sees)
      |      +-- MCProduceRtp
      |      +-- ProduceRtpProofs ------ shutdown, abort, waiting
      |             +-- ProduceRtpFrameProofs - frames, end, refinement
      +-- ConsumeRtp -------- refines AudioSink  (what the caller hears)
      |      +-- MCConsumeRtp
      |      +-- ConsumeRtpProofs
      +-- OggToRtp            the two OGG jobs together
             +-- MCOggToRtp - extends OpusDuration (the packet durations)
             +-- OggToRtpProofs
    OpusDuration
      +-- OpusDurationProofs
    PortPool                  refines PairAllocator (what a caller is promised)
      +-- MCPortPool
      +-- PortPoolProofs
    ProducerPacing            the clock arithmetic of the producer
      +-- MCProducerPacing
      +-- ProducerPacingProofs

**ThreadMessageQueue** is the library queue as this code uses it: a bounded
FIFO and two error flags. A send looks at its flag first; a receive looks at the
messages first. Every flag only takes the value `AVERROR_EOF`, so it is Boolean.

**ProduceRtp** is one stream from `produceRtp()` to the socket. A step is one
access to shared state, so a function that locks a queue twice (`postEndOfFile`,
`abort_signal_handler`, `stop_producer_thread_raw`) is two steps, with the
other threads free to run between them. The JavaScript thread runs a function
to its end: `js` holds the rest of the call, and nothing else of that thread
happens while it is not idle. `onDrain` is such a function too (`inDrain`): it may
write and close, and it returns or throws. Nobody looks at what it threw
(`thread_with_promise_result.h:26`), so `exception` stays set until some call into the
addon returns it; as long as it is set, a drain notification calls nothing, and the
promise cannot be resolved (`:215`). Samples are numbered as they are accepted, so
that a frame is the sequence of the numbers in it and a loss, repetition or
mixture shows. Encoding keeps the samples, the settings and the timestamp, or
fails. `calls`, `asked` and `faults` are history and are read by no action
except through the bounds and, for `calls`, to number the next sample.

**OpusFraming** says, from the accepted calls alone, which frames with which
timestamps and settings should leave. It does not follow the encoder's loop: a
frame is described by where it lies in the stream of samples. `Packetizes` says that
each frame starts where the one before it ends and is complete, so that no later call
can change it; `PacketizesAll`, that the calls complete no further frame.

**AudioStream** is the caller's view: samples accepted, segment ends, frames
sent, and the phases open, closed and done. `Abstract` in ProduceRtp is the
refinement mapping.

**ProducerPacing** is the loop of the producer thread with its clock: the two
`av_rescale` roundings, rebasing, sleeping and the drop check. Its packets obey
what `TimestampsFollowSegments` establishes in ProduceRtp: a timestamp is zero or
follows its predecessor by one frame. That property is the contract between the
two modules.

**ConsumeRtp** is one stream from the network to `onAudioData`: demuxer, decoder
and JavaScript thread, both queues, both libuv handles and the promise. The
network is `DemRead`: any packet of the stream in any order, any number of times;
a packet that will be thrown away; the ten-second tick; an error. A packet whose `pts` is not its `dts` is left out: it would be dropped after
`prev_pts` has moved on, but FFmpeg's RTP demuxer makes none. Time is counted
in units of 2.5 ms, in which the conversions between sample rates are exact.
UNCHANGED for what another thread owns stands once per thread, at the end.

**AudioSink** is the caller's view of it: a growing sequence of frames, each of which
begins after the end of the one before or repeats it, how many of them have been dealt
with, what `onAudioData` got, and the phases open, ended and done. It has no packets,
parameters, notifications or limits: what either queue drops never becomes part of the
sequence. Two failures are excused by name, a packet that cannot be decoded and an
`onAudioData` that throws. `Abstract` in ConsumeRtp is the refinement mapping.

**OggToRtp** composes three threads and two queues: the JavaScript thread posts
pages to the demuxer job, whose thread (file mode) posts packets with a blocking send
to the queue of the producer job. Resets and interruptions (`clearMessageQueue`, then
`postDemuxerReset`) cut the data into streams, and `pts_offset` joins them again. The
model also has who keeps each queue alive: the caller's handles, the abort listeners,
the job that owns the queue, and the demuxer's job for its output (`js_input_ref`);
the garbage collector may free a queue as soon as nobody does. The OGG format is
abstracted: a buffer is a page, and a page is the headers of a stream or one packet of
unit duration. The first timestamp of a stream is any integer: if it is negative the demuxer
shifts the stream to zero, if it is positive it leaves it (`demuxer.cc:225`). The caller obeys
the protocol: it resets between two streams and posts a refused page again. Which of
several streams `av_find_best_stream` prefers is left open. How the clock paces the
packets is the subject of ProducerPacing. `TimelineContinues` says of the packets
of these jobs that each follows its predecessor at once, as ProducerPacing assumes, except
that before a stream whose first timestamp is positive there is a gap of exactly that
length.

**PortPool** is `choosePorts()` as a state machine with one step for what runs
between two awaits, and one for what the socket of a probe does. A bind may fail at
any time, because other processes use the ports too, and surely fails on a port
that another probe of ours has. **PairAllocator** is what a caller may rely on.

**OpusDuration** is `opus_duration()` and, beside it, the table of RFC 6716.

Definitions keep the names of the source where they can; the file and lines for
each are in `PROJECT.json`. Definitions named `Bug...` are the plausible mistakes
that each property was tested against and are used by no specification.

## Runs

| Run | Bounds | What it shows |
|---|---|---|
| `produce` | frame of 2 samples, 4 samples in buffers of 1 and 3, encoder queue of 2, producer queue of 1, 2 control messages, failures of the start, of the Opus encoder, of encoding and of sending, an `onDrain` that throws | every sent frame is the one of the reference packetization; timestamps are contiguous within a segment even when a frame cannot be encoded; after `end()` everything complete was sent; an abort leaves nothing behind in the encoder's queue; nothing is given up while in use; unless `onDrain` threw, a writer that was refused is never forgotten and the threads never wait for each other; ProduceRtp implements AudioStream |
| `produce_live` | both queues of 1, buffers of 3, 6 samples, setters, failures of the start, of the socket and of sending, an `onDrain` that throws, fairness | unless `onDrain` threw, the stream settles after `end()` or an abort, and a writer that was refused is woken |
| `pacing` | 8 packets; waits of 1 us (a burst), 20 ms, 31 ms and 130 ms (a pause beyond MAX_FUTURE), oversleeps of 0 and 750 us | the drop check drops nothing; timestamps do not go back; audio is at most 100 ms and a tick ahead |
| `consume` | 3 reads, both queues of 2, frames of several sizes, failures of the start, the socket, the decoder's creation and `onAudioData` | one timeline without overlaps or avoidable holes; parameters before packets; all frames delivered before `done()`; the callback outlives its frames; no frame lies in the queue unannounced, and the threads never wait for each other; ConsumeRtp implements AudioSink |
| `consume_live` | 2 reads, queues of 1, failures of the socket, of the decoder, of decoding and of `onAudioData`, fairness; no failure of the demuxer's start, after which the decoder thread crashes on a null pointer (`audio_decode_thread.cc:242`) | unless `onAudioData` threw, `done()` settles |
| `ports` | 2 callers, 3 pairs (ports 10000 to 10007, so that the last port belongs to no pair), 3 attempts, every order of the pool, fairness | each pair is in one place; probes of ours do not meet ports of ours; a call does not spend its attempts on one bad pair; every call is answered; PortPool implements PairAllocator |
| `ogg` | demuxer queue of 2, producer queue of 1, 3 streams of which two start below zero and one above, 4 pages, failures of reading, of the socket and of sending, fairness | the streams make one timeline, with a gap only before the stream that starts above zero; after an orderly end everything accepted was sent, in order; no queue is freed in use and none is kept; the threads never wait for each other; both promises settle. Before the run, `opus_duration` is compared with the RFC for every two bytes |

The bounds are small but every interesting case happens in them: a buffer
shorter and one longer than a frame, a frame made of two buffers, an accumulator
that is partly full at a flush, at the end and at an abort; both queues full;
each failure at each place; gaps shorter than a frame and of two and three frames,
with the frame size changing at them. In `ports` more callers or pairs
add no kind of step: two calls and a held pair already share three pairs, and a call
can exhaust its attempts. In `ogg` four pages are enough for headers and a packet of
two streams, for two packets of one, and for a third stream that never
begins; with five pages the run takes twice as long and finds nothing else.
`produce` has no setters, which
would multiply its states; they are called in `produce_live`, and that every frame has the
settings of the calls before it is part of `FramesAreExact`, which is proved for all settings.
`MaxSamples`, `MaxControl`, `MaxPackets`, `MaxReads`, `MaxPages` and `MaxStreams` are
the only limits on behaviour, and each stands in the guard of the action it
limits. `MaxSamples`, `MaxControl` and `MaxPages` count only what was accepted: refused calls
are unlimited. Deadlock is checked except in `ogg`: a caller may drop its
handles and signals without closing anything, and then both threads wait for ever.

Four more runs each check one statement of the documentation that the code does
not keep, and TLC finds the counterexample:

| Run | Statement | What happens |
|---|---|---|
| `endsegment_dropped` | "resets timing so the next write() starts a fresh segment" (`index.ts:53`) | with a full queue the request is lost in silence |
| `abort_drains` | "the sending thread will shutdown immediately" (`index.ts:37`) | the native listener closes the queue first, so CLEAR_PRODUCER_QUEUE is never accepted, and the producer sends all it has |
| `producer_failure` | `done()` settles when "An error is raised" (`index.ts:64`) | the failure of the producer is logged and the stream goes on |
| `pacing_speed` | "sends RTP packets at real-time speed" (`README.md:243`) | the first packet of a segment is never delayed |

Some observations are no runs of their own, because no document says otherwise. The samples of an incomplete last frame
are not sent after `end()` (`audio_encode_thread.cc:120`); `GracefulEnd` says exactly
what is. And a reset that reaches the demuxer between the headers and the first packet
of a stream is skipped (`demuxer.cc:293`), so that the input then holds the headers of two
streams; if FFmpeg prefers the old one, the next stream is dropped as a
whole. `EverythingSent` excuses that loss and no other. When a packet after a gap cannot be
decoded, the gap has been concealed already and is concealed again before the next packet
(`audio_decode_thread.cc:182`), so that time steps back for `onAudioData`; `TimelineKept`
and AudioSink excuse a failure to decode. And an `onDrain` or `onAudioData` that throws may
cost later notifications and leave `done()` pending, which the properties about them excuse
by name.

Three pieces of code turn out never to act: the CLEAR_PRODUCER_QUEUE branch of
the encoder (its only sender runs after the queue was closed), the drop check of
the producer (`NothingDropped`), and the decoder's guard for a packet before the
parameters (`PacketsFollowParameters`).

## Fairness

Weak fairness of each native thread, since the operating system schedules it
and every blocking call it makes is a guard; of the rest of a JavaScript function
that has begun, which includes the return from `onDrain`; and of the libuv callbacks and microtasks that are pending.
In ProduceRtp the callbacks have a condition each, in ConsumeRtp the event loop
has one. There is no fairness for what is not owed: no API call, no abort and no
packet has to come, and `DemRead`, which waits for the network, is not fair,
so that only the interruption can be relied upon to end it. In OggToRtp the two threads,
the rest of a call and the event loop are fair, and no call and no collection has to
come. In PortPool probes end (a socket is bound or fails, and is closed) and promises are
continued; nobody has to ask for or to give back a pair. The blocking
`av_write_frame` and `av_usleep` are taken to return.

## Proofs

Every invariant and action property that a run checks, and the safety of every refinement,
is proved for every value of the constants: any frame and queue sizes, buffer lengths, settings, streams, pages, ranges of
ports and timings, and every set of failures. QueueTheorems has the lemmas on the queue
that all of them share: a send appends, a receive takes the head, closing and flushing
leave the rest alone, and the length never exceeds the size.

**ProduceRtpProofs**

* `TypeCorrect`: the type invariant is inductive as it stands; it includes that the
  accumulator does not exceed one frame.
* `ShutdownIsOrdered`. `ShutdownOrder` is not inductive: a start that fails
  goes straight to the end of the encoder thread, which is right only because
  there is no producer yet. `ShutdownInv` adds that before the start there is none
  (`encPc = "start" => prodPc = "none"`), and that from the last steps of the
  encoder thread on its queue refuses what is posted. The second addition gives
  `ResolvedIsFinal`: once the promise has resolved, no packet leaves and no
  call is accepted.
* `AbortedQueueIsEmpty`. `AbortInv` adds that senders are refused from the
  moment of the abort on, that the steps of the abort listeners belong to an
  abort, that the second listener is registered as long as the promise is
  pending, and that the queue is empty as soon as that listener has flushed it.
* `NoWakeupIsLost` and `NobodyIsLeftWaiting`: see below.

**ProduceRtpFrameProofs**: `FramesAreExact`, `TimestampsAreRegular`, `EndIsGraceful` and
`StreamImplements`. What is sent is compared with a packetization of the whole history
of calls, so the invariant has to say where every sample is. `FrameInv` does so
with two numbers: the encoder has received the first `n` calls, and the first `f`
samples are in frames. Then the queue holds the calls after `n` (`QueueInv`), the
accumulator the samples after `f` (`AccumInv`), and the message in hand the samples after
those (`MessageInv`); no segment ends in the accumulator, and `pts` is the number of
frames since the last one that ended (`SegmentInv`); the settings are those of the calls
handled (`SettingsInv`). `Line` is what was sent, what the producer has in hand and its
queue, one after another: every packet in it is a frame of the packetization, complete,
and follows the one before (`LineInv`), and the next frame will follow the last (`TipInv`).
When the producer fails, `Line` is what was sent until then. `StopInv` and `EndInv` say
who closes what, and that without an abort or a failure the encoder stops only when it has
received every call. The lemmas `WholeStays`, `FollowsStays` and `ExactStays` say that a
further call does not change what was said of a frame that is complete.
After a failure to encode, which drops a frame in the middle, the samples of a packet need not
follow those of its predecessor any more, but its timestamp still does, by exactly one frame;
`TimestampsAreRegular` needs no more. `StreamImplements` is the step
simulation of AudioStream: most steps stutter, `write()` accepts, `endSegment()` cuts, the
first refusal of senders closes, the promise finishes, and `ProdSend` delivers, with the
frame's place taken from `LineInv`.

**ProducerPacingProofs**: `TypeCorrect`, `NoPacketIsDropped`, `TimestampsNeverGoBack`,
`PacingIsBounded`, `SleepIsOneFrame` and `SegmentsStartOnTime`. The invariant relates
`next_expected_pts` to `last_pts` and `rebase_pts` (so that a packet that continues a
segment is exactly the expected one), the last timestamp sent to the base, and the
packet to the clock after the sleep. The lemmas on `Ticks` and `Micros` bound the
rounding in both directions. The assumption is that two readings of the clock with a
packet sent between them differ by at least a microsecond.

**ConsumeRtpProofs**

* `ShutdownIsOrdered` from `ThreadsInv`: the threads end one after another.
* `ParametersComeFirst` from `ParamsInv`: until there is a decoder, the parameters are
  in the decoder's hand, or at the head of its queue, or the demuxer has not posted yet.
* `CallbackStaysAlive` from `CallbackInv`: the callback queue is closed only when the
  decoder has nothing left to give, and the reference is deleted only then.
* `NothingLostBeforeDone` from `DeliveryInv`: what was queued is what was delivered
  followed by what is in the queue.
* `TimelineIsKept`. The frames the decoder gave out (`GivenInv`) end with the last packet
  it decoded; what waits for it, or is in its hand, is not older and in order (`LastInv`,
  `OrderInv`); and all of it are frames of the sender, moved by `pts_correction`
  (`ReadInv`). The sender's frames do not overlap and none has the timestamp that FFmpeg
  reserves (`StreamAssumption`), so the next packet repeats the last one or begins after
  its end; the number of concealed frames is then the floor of a quotient.
* `SinkImplements`, the step simulation of AudioSink. TimelineKept is about what was decoded,
  AudioSink about what fitted into the callback queue, and between two frames that fitted
  there may be many that did not. `SinkInv` closes the distance: the last decoded frame is
  not before the end of the last queued one (durations are positive, so "comes after" is
  transitive along the timeline), the callback queue holds the end of what was queued, and
  from `finish_callback_for_many` on the end is announced. A frame that is queued extends the audio, the
  announcement ends it, a delivery delivers, and the resolution of the promise finishes.
* `NoFrameIsForgotten` and `NobodyIsLeftWaiting`: see below.

**OggToRtpProofs**

* `QueuesOutliveThreads` and `JobsLetGo`, from an invariant (`HoldersInv`) that ties the
  references of a job to its thread, its pending notification and its promise, and says
  that a freed queue has no references.
* `OneTimeline`, `SentOnceInOrder` and `EverythingArrives`, from `IInv`. Its parts follow a
  page on its way. `OrderInv`: pages are read in the order in which they were posted.
  `ChainInv`: in the queue each page comes after the one before it in its stream or after
  a reset, and the first page is the one that the demuxer's state expects. `PtsInv`: the
  packets sent, in the producer's hand and in its queue (`Line`) each take a stretch of the
  timeline, and the stretches cover it from zero to `OffsetAfter`, where the next packet will
  be, without an overlap; a stretch is longer than its packet only when the first timestamp
  of a stream is positive, and then by that much. `LineInv` and
  `CurrentInv`: of each stream, and of the stream that is being read, they are the
  first pages, as far apart as in the stream. `KeptInv`: what is owed is in the input, in the
  demuxer's hand or in the line, or belongs to a stream that is lost as a whole.
* `NobodyIsLeftWaiting`: see below.

**PortPoolProofs**

* `NoPairLostOrDoubled`, `ProbesMeetNoneOfOurs`. `PoolInv` says that the pool has no
  repetitions, that pool, probed and held offsets are disjoint in every
  combination, and that every offset is somewhere. The lemmas `TakeHead` and `PutLast` say
  what `shift` and `push` do to the set of elements.
* `NoEarlyRepeat`. `FifoInv`: what is untouched since a call began is a prefix of the
  pool, the call has had none of it, and as long as there is any, the attempts of the
  call were all different.
* `PoolIsAllocator`: step simulation of PairAllocator's safety part, from `PoolInv`.

**OpusDurationProofs**, for every packet: `DurationIsRight` (for a packet that obeys
the RFC, the RFC's duration) and `DurationIsBounded` (for any bytes).

**Waiting.** The liveness properties say that every stream settles and every writer is
woken. Their safety core is proved: `NobodyIsLeftWaiting`, one theorem for each of the
three systems, says that when no thread can go on and nothing is pending, somebody outside
is to act, the caller or the network. "Cannot go on" is written out with the guards
of the blocking calls (`EncoderWaits`, `DemuxerWaits`, ...), and the invariants
(`AwakeInv`) say that whoever has stopped has closed the queue that he served, that a queue
that was closed to senders is closed to its receiver by someone who is about to do
it, and that the end of a thread was announced. `NoWakeupIsLost` and `NoFrameIsForgotten`
say of the two coalescing libuv handles that whoever depends on a notification has one
coming. What they say of ProduceRtp holds unless an `onDrain` threw: its exception may swallow
the next notification, and the resolution. That nothing goes on for ever without reaching such a state is left to TLC.

The proofs rest on the named assumptions of the modules and on nothing else:

* `FrameSizeAssumption`, `SettingsAssumption`, `ProduceRtpAssumption`: the frame, both queues
  and every buffer are not empty, settings are integers, bounds are natural numbers;
* `ConsumeRtpAssumption`, `StreamAssumption`: both queues are not empty; every frame lasts some
  time, no two of the sender's frames overlap, and none has FFmpeg's value for "no timestamp";
* `OggAssumption`: both queues are not empty, there is a stream, and every stream has an integer,
  of any sign, as its first timestamp;
* `PacingAssumption`: two readings of the clock with a packet sent between them differ by at least
  a microsecond, and a sleep is not shorter than asked for;
* `PoolAssumption`: the first port is even and less than the last, and a call makes at least one
  attempt.

Only model-checked: what depends on fairness, that is `EventuallyResolved`,
`WaitingWriterWoken`, `EventuallySettled` and the liveness half of `Implements`. They need
reasoning about fairness and ENABLED that the provers used here do not do.

## Not modelled

The start of a thread is one step that succeeds or not, its failures inside
`start_thread_with_promise_result` are not modelled; nor is the ownership of
memory behind messages. The contents of the audio, SRTP, RTCP, SDP and the
formatting of RTP parameters are data. `time_util.cc` and
`thread_finished_node_callback.cc` have no caller, nor has `post_file_buffer`; the first
computes with 64 bits, which TLC does not have. An exception that a callback of another stream left in the same
`napi_env` is not modelled: each stream is a model of its own. An empty buffer passed to
`write()` or `postOggBuffer()` changes nothing and is left out. The conversion
of arguments in `worker.cc`, the environment variables and the choice of an
address in `network.ts`, and `util.cc` have no state. A caller of the OGG jobs that
posts pages of two streams without a reset, or half a page, is not modelled, because
what happens then is decided inside FFmpeg. A pair of ports that is released twice,
or taken by another process after its probe, is outside what `network.ts` can see; a
probe that fails does not close its socket, which then is unbound and holds no port.

## Plan

The safety properties of all runs are proved. What is left:

1. ThreadLifecycle: the steps of `start_thread_with_promise_result` with a failure
   at each, and a signal that is raised already.
2. An abstract specification of the two OGG jobs, as AudioStream and AudioSink are for
   the streams, with the step simulation from the invariants that are proved already.
3. A contract between ProduceRtp and ProducerPacing as a refinement: the packets of
   `Line` are inputs that ProducerPacing accepts.
