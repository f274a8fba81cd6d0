# Formal model of ax-video-sdk

TLA+ models of ax-video-sdk, its concurrent core and the components around it, the TLC
configurations that check them on small instances, and theorems that TLAPS proves for every size.
Paths are relative to the repository (`src/src/...` is its library source, `src/include/...` its
headers).

| file | what it is |
|---|---|
| `FrameFifo.tla` | what a bounded frame queue promises to its two sides (abstract specification) |
| `VideoEncoder.tla` | `AxVideoEncoderBase` and its backends |
| `VideoDecoder.tla` | `AxVideoDecoderBase` and its backends |
| `Pipeline.tla` | `AxPipeline`, over abstract encoders and an abstract decoder |
| `Demuxer.tla` | `AxDemuxer` over `AxMp4Demuxer` and an RTSP client |
| `Muxer.tla` | `AxMuxer`, its sinks, the RTSP servers they share, the MP4 writer |
| `PipelineManager.tla` | `AxPipelineManager` over pipelines that start and stop |
| `AxSystem.tla` | `InitializeSystem`, `ShutdownSystem`, AXCL contexts of threads |
| `ImageGeometry.tla` | descriptors, strides, crops, letterboxes (pure operators) |
| `Images.tla` | images and their memory, the image processors of three chips, the JPEG codec |
| `Drawer.tla` | overlays: `AxDrawer` on three platforms, CPU cache and memory |
| `VideoEncoderProofs.tla` | the encoder's types, wakeups, queue, order of packets, staging memory, quiescence |
| `VideoDecoderProofs.tla` | the decoder's types, wakeups, queue, end of stream, frames offered to the callback, quiescence |
| `PipelineProofs.tla` | the pipeline's types, outputs and muxers, overlays and pictures, frame callback, quiescence |
| `DemuxerProofs.tla` | passes over a looped file stay apart, parameter sets come first, silence |
| `MuxerProofs.tla` | rising time stamps, spaced attempts to connect, the MP4 clock, paths |
| `LifecycleProofs.tla` | manager and system tell the truth, whatever failed |
| `ImagesProofs.tla` | memory is returned, requests are processed right; letterboxes, crops and strides stay inside |
| `DrawerProofs.tla` | overlays are drawn on this frame's picture; clamped rectangles fit |
| `MCVideoEncoder.tla`, `MCVideoDecoder.tla`, `MCPipeline.tla`, `MCSupport.tla`, `*.cfg` | the instances TLC checks |
| `PROJECT.json` | components, runs, mutants, the source lines of every definition, findings, hazards, theorems |

Run `tlc -config EncoderQueue.cfg MCVideoEncoder` (and so on, see [Runs](#runs)) and
`tlapm VideoEncoderProofs.tla` (and so on).

## Inventory

The SDK pulls or reads video, decodes it in hardware, draws on frames, hands them to the
application and encodes them again to files and RTSP. Data flows

    Demuxer -> Decoder -> (fan-out: OSD, encoders, frame callback)
                            encoder -> Muxer -> MP4 file / RTSP publisher

and every arrow except demuxer -> decoder (a call in the demux thread) crosses threads through a
bounded queue or a callback.

| component | state | operations | threads | what makes it correct | status |
|---|---|---|---|---|---|
| Encoder core, `codec/ax_video_encoder.cpp` | `open_`, `running_`, `stop_requested_`, `pending_frames_`, statistics, staging pool, two inflight windows, `latest_packet_` | Open, Close, Start, Stop, SubmitFrame (3 overflow policies), SetPacketCallback, SendLoop, StreamLoop | producers, send, stream, application | no lost wakeup, Stop returns and frees blocked producers, statistics add up, packets in order, no input buffer reused while the hardware reads it, bounded staging memory, nothing survives Stop | modelled, proved but for liveness |
| Encoder backends, `ax_video_encoder_{ax650,ax620e,axcl}.cpp` | channel | send, receive, start, stop | - | time-outs and failures lose frames, never buffers | in `VideoEncoder` |
| Decoder core, `codec/ax_video_decoder.cpp` | flags, `pending_packets_`, `input_eos_requested_`, `send_finished_`, `pending_callback_frame_`, `callback_queue_`, `latest_frame_` | Open, Close, Start, Stop, SubmitPacket, SubmitEndOfStream, SetFrameCallback, SendLoop, ReceiveLoop, PublishFrame, CallbackLoop | producers, send, receive, callback, application | as the encoder; end of stream after the last packet, frames in order, slow callback drops only the oldest, hardware never starved of blocks | modelled, proved but for liveness |
| Decoder backends, `ax_video_decoder_{ax650,ax620e,axcl}.cpp` | channel, frame pool, packet and frame counters (AX620E) | send with retries, end of stream, receive | - | the sender finds the room or the frame it waits for | in `VideoDecoder` |
| AX620E group slots, `ax_vdec_group_620e.cpp` | 16 slots under a mutex | allocate, free | - | no slot given twice | not modelled |
| Pipeline, `pipeline/ax_pipeline.cpp` | `open_`, `running_`, branches under `branches_mutex_`, OSD under `osd_mutex_`, callback slot | Open, Close, Start, Stop, AddOutput, RemoveOutput, SetOsd, GetLatestFrame, GetStats, DemuxLoop, FanoutFrame, FrameCallbackLoop | demux, frame callback, decoder's callback, encoders' stream threads, application | no deadlock over `branches_mutex_`, running branches in a running pipeline only, nothing used after it was closed, overlays drawn as often as asked and never over a picture in use | modelled, proved but for liveness |
| Drawer and pipeline OSD, `common/ax_drawer.cpp`, `pipeline/ax_pipeline_osd_*.cpp` | prepared commands; a frame in memory and in the CPU's cache | Prepare, Apply (Draw) | caller's, decoder's callback | what the encoder reads is this frame with everything asked for, in order; nothing the driver must refuse | in `Drawer`, proved |
| Pipeline manager, `pipeline/ax_pipeline_manager.cpp` | map of entries with `running` | Add, Remove, Start, Stop, StartAll, StopAll, Clear | application threads | flag agrees with the pipeline; failed StartAll rolls back; no pipeline outlives its entry | modelled, proved |
| Demuxer, `pipeline/ax_demuxer.cpp` | source, `interrupted_`, offset of the pass, session, backoff, ages | Open, ReadPacket, Reset, Interrupt, Close | demux, owner | passes do not overlap, parameter sets come first, a session is given up only when silent, a read ends | modelled, proved but for liveness |
| Muxer, `pipeline/ax_muxer.cpp`, `ax_rtsp_internal.h` | sinks, time stamp unwrapper, publisher's retry time; process-wide servers | Open, SubmitPacket, Close | stream threads, application | time stamps rise, attempts after a failure are spaced, paths are given back | modelled, proved |
| System, `common/ax_system.cpp` | initialisation state, devices, AXCL contexts of threads | InitializeSystem, ShutdownSystem, EnsureAxclThreadContext | any | rollback undoes exactly what the call did | modelled, proved |
| MP4 reader and writer, `codec/ax_mp4_demuxer.cpp` | reader position, length prefix, tracks | read, reset, write | caller's | clock arithmetic, length prefix | in `Demuxer` and `Muxer` |
| Images, `common/ax_image.cpp` | memory, pool, lifetime holder | Create, WrapExternal, AttachLifetime | caller's | a pool outlives its blocks; layouts are valid | in `Images`, proved |
| Image processing, `common/ax_image_processor_*.cpp` | pools, intermediate image | both Process calls | caller's | engines are first asked for what they can do, the destination shows this call's picture | in `Images`, proved |
| JPEG codec, `codec/ax_jpeg_codec.cpp` | stream buffer, staging images | encode, decode | caller's | everything is freed on every path | in `Images`, proved |
| Image copy, `common/ax_image_copy.cpp` | - | copy | caller's | - | one operation of `Images` |
| Version check | no state | - | caller's | - | not modelled |
| Tools, samples, vendored code | - | - | - | - | not modelled |

How they interact: the demux thread calls `SubmitPacket`; the decoder's callback thread calls the
pipeline's `FanoutFrame`, which calls `SubmitFrame` of every branch's encoder and fills the slot
of the pipeline's own callback thread; each encoder's stream thread calls the packet callback,
which calls the muxer of its branch. Frames are shared by reference, and a decoded frame keeps a
block of the decoder's pool until the last reference is gone.

What is hard here, and hard to test: condition variables shared by threads that wait for
different things, with `notify_one`; flags set outside the mutex they are tested under; Stop
racing producers, callbacks and hardware time-outs; state that outlives a session; pools and
windows at their limit; half-done opens, retries against a clock, loops over files that lack what
they should have. `PROJECT.json` lists every such hazard at its line with the properties
that cover it.

## Plan

1. `VideoEncoder` and `FrameFifo`: model, runs, type invariant and wakeups proved. *Done.*
2. `VideoDecoder`: model, runs, findings. *Done.*
3. Proofs about the encoder: types, wakeups, statistics, the refinement to `FrameFifo`, order of
   packets, staging memory, inputs of the hardware, quiescence. *Done.*
4. `Pipeline`: branches, `branches_mutex_`, overlay, frame callback, lifecycle, over an encoder and a
   decoder that `VideoEncoder` and `VideoDecoder` justify; its proofs. *Done.*
5. Proofs about the decoder: types, wakeups, the refinement to `FrameFifo`, end of stream, offered
   frames, quiescence. *Done.*
6. `AxSystem` and `PipelineManager`: initialisation, rollback, flags; runs and proofs. *Done.*
7. `Demuxer` and `Muxer`: reconnect and backoff, loops, time stamps, paths; runs and proofs. *Done.*
8. `Images` and `ImageGeometry`: memory, plans of three chips, JPEG, model and proofs. *Done.*
9. `Drawer`: overlays over cached images, model and proofs. *Done.*

## VideoEncoder

**State and code.** `open`, `running`, `stop`, `policy`, `pending`, `submitted`, `dropped`,
`reusable`, `inflight`, `hold` and `latest` are the members of those names. `pc[p]` is where a
producer is inside `SubmitFrame`, `pc[Sender]` where the send thread is in `SendLoop`, `strm` and
`idle` where the stream thread is in `StreamLoop`, `ctl` and `goal` where the application thread
is in Open, Start, Stop or Close. `removed` and `taken` are history. `hw` is the hardware's queue,
modelled from how the backends use it.

**Grain.** One step per critical section or hardware call. Waiting takes three steps so that
lost wakeups can happen: a thread that found its predicate false still holds the mutex
(`"sleep"`), then is blocked (`"wait"`), then notified (`"woken"`). `running_` is read before
the mutex is taken, so a producer may enter `SubmitFrame` before a Stop and continue after it.
Stop is eight steps: set the flag, clear under the mutex, notify, join, stop the hardware, join,
clear the staging lists and notify, return.

**Data.** A frame is the number of its acceptance. Frames differ in what `PrepareInputFrame` must
do to them (`Kinds`: sent as it is, staged from device memory, staged from host memory) and every
hardware step may fail. A staging image has an identity and one of two descriptors: `target`
(the encoder's input format) and `source` (the geometry of a host frame).

**Bounds.** `MaxFrames` bounds the calls between Open and Close. Everything else (depths,
buffers, polls) is a constant of the code made small.

**Assumed of callers.** One application thread makes the lifecycle calls (the header promises
nothing more) and no `SubmitFrame` is in progress when Close clears the configuration, which
destroying the object requires anyway. The packet callback does not call Stop (it would join its
own thread).

**Left out.** `ResolveConfig`, the counters of encoded packets and key frames, the readers
(`GetStats`, `GetLatestPacket`, under a mutex of their own), the private pool of AX620E, host
copies that AXCL may fail.

## VideoDecoder

Same conventions. In addition: notifications the code issues after releasing the mutex
(`SubmitNotify`, `SendLoopNotify`) or without ever taking it (`StopNotify`, `NotifyCallback`) are
steps of their own. `slot`, `queue`, `latest`, `callback` and `mode` are the callback's state,
guarded by `callback_mutex_`; `overlooked` is history: the threads that were between their predicate
and their wait when Stop notified, and that nobody has notified since. `hwIn` and `hwOut` count
packets and frames inside the hardware; a frame needs a block of the pool (`FrameBuffers`), and is
held by the hardware, the receive thread or any reference (`Retained`). `ahead` and `back` are the
AX620E counters behind `Backpressure`.

Two facts about this code that the assumptions and properties show:

- `2 * Cardinality(Producers) <= QueueDepth + 1` (`DecoderAssumption`): with more producers
  the `notify_one` calls of a full queue can all go to producers and none to the send thread. The
  pipeline has one producer; the depth is a constant of the code.
- A producer that Stop overlooked stays blocked into the next session and may take the wakeup
  meant for the send thread. It then finds room, submits and notifies in its turn
  (`BoundToNotify`), so nothing is lost.

**Left out.** Packets without data (rejected at once), pacing and buffers of the AX620E sender,
the crop fields of frames, the creation of the channel, `GetLatestFrame` (a read).

## Pipeline

**State and code.** `open`, `running`, `demuxStop`, `branches`, `latest`, `slot`, `callback`,
`callbackStop`, `pendingOsd`, `activeOsd`, `left` and `pool` are the members `open_`, `running_`,
`demux_stop_`, `branches_`, `latest_source_frame_`, `pending_callback_source_frame_`, `frame_callback_`,
`callback_stop_`, `pending_osd_`, `active_osd_`, `active_osd_remaining_frames_` and `osd_pool_`. `lock`
names the owner of `branches_mutex_`, the only mutex held over calls that wait. `demux`, `fan`,
`caller`, `strm[b]` and `ctl` say where `DemuxLoop`, `FanoutFrame`, `FrameCallbackLoop`, an encoder's
thread and the application are.

**Encoder and decoder.** An encoder is its queue (`inq`, bounded, with its overflow policy), the
picture being encoded (`coding`) and a thread that ends in the packet callback. That the queue
behaves so is `InputQueueSpec` of `VideoEncoder` (proved), that nothing is left after its Stop
`QuietWhenStopped` (proved), that Stop returns `StopTerminates`. The decoder's Stop hands over what is
in its callback queue and then returns, which is *assumed*: finding 1 below is the case in
which it does not, and the pipeline's Stop hangs with it.

**Pictures.** A picture is a frame and the image it is in: 0 for the frame as decoded, else a
position in `pool`. `pool[i]` is the frame last drawn into image `i`, so that reuse of an image in
use shows as a picture of the wrong frame (`PicturesKept`).

**Steps merged.** Start and a failed Start are one step each: until the demux thread runs every other
thread waits. After Stop has joined a thread, what Stop does alone is one step per mutex.

**Assumed** (`PipelineAssumption`): finitely many outputs. Open makes any sequence of distinct ones.

**Left out.** Outputs without URIs (no muxer), the private copy AX650 makes before the overlay, the
conversion of frames for the application, `decoded_frames_` and `branch_submit_failures_`, several
frame sizes (`osd_pool_` keeps the images of every size for good), the read-only calls. Packet
callbacks are assumed not to call the pipeline: `GetStats` there waits for `branches_mutex_`, which
Stop and a blocked fan-out hold. Lifecycle calls come from one thread.

`docs/drawer.md:14` says an overlay with `hold_frames` 0 stays until replaced or `ClearOsd`; Stop clears
it as well (`StopClears`).

## Demuxer

**State and code.** `type`, `interrupted`, `sample_index`, `decoder_config_sent`, `nal_length_size`,
`packet_pts_offset`, `current_loop_span`, `emitted_pts_cursor`, `prefix` and `config_sent` are members of
`AxDemuxer` and of its reader. `pc` says where `ReadPacket` is, and `packet` what the latest one
returned. A file is its samples: duration, composition offset, whether it holds a key frame, and the
sizes of length field it parses with. Decode times are summed as minimp4 sums them.

**Time.** The code keeps time points; the model keeps *ages* and the time left to wait, counted in
Ticks, with ages capped where no comparison tells them apart any more. `now` is read once in each turn
of the loop and used after calls that block: `nowAge` is how old it is by then, and `CallTime` bounds
that. `Tick` may come between any two steps.

**Grain.** One step per blocking call of the RTSP branch (connect, prime, keepalive, receive), so that
`Interrupt`, a lost connection and the clock come in between; one step per sample or per pass of the
file branch, which calls nothing that blocks.

**Ghosts.** `passEnd` and `passMax` (time stamps so far), `known` (the session whose parameter sets have
been learnt), `first` (nothing read since the latest start), `silence`, and `resumed`: after Reset the
ages stay as they were when reading stopped, so a live session may be given up at once.
`GivenUpWhenSilent` names this exception.

**Files that loop well.** `PassesApart` is claimed of files for which `WellTimed` holds. Its proof failed
for a weaker precondition, and TLC found a file for each reason: passes do overlap, by a few
microseconds or by a reordering, when a sample is shown before the first one, when composition offsets
are no whole numbers of microseconds, or when a sample becomes unreadable once the length prefix has
been learnt from another one. Durations that are missing, B-frames and unreadable samples without
offsets are covered. Where a frame is no whole number of microseconds (30 in a second on a 90 kHz clock)
nothing is claimed; there the code rounds each time stamp by itself.

**Assumed of callers.** All calls but `Interrupt` come while no `ReadPacket` is under way, as `AxPipeline`
does it.

**Left out.** Parsing of parameter sets for picture size and frame rate, the pauses of realtime
playback, `GetVideoStreamInfo` (a read), the bytes of NAL units. The RTSP client library is external:
what it may answer is a choice.

## Muxer

**State and code.** `sinks[m]` is `sinks_` of muxer `m`, each with its unwrapper (`last`, `offset`) and
publisher state (`connected`, `recording`, `wait`); `paths`, `running` and `onvif` are the process-wide
server registry. `opening[m]` is an Open under way: one step for each address, because a second muxer
may take or free a path in between. `SubmitPacket` and `Close` hold the muxer's mutex and are one step.

`SubmitToSink` gives the *set* of outcomes of a packet; an action chooses one for every sink. `drift`
counts ticks of an MP4 track times microseconds, so that the rounding is exact in integers.

**Assumed** (`MuxerAssumption`): at most 1000 frames in a second (`StepUs >= UsPerMs`). With
more, two time stamps could round to the same millisecond.

**Left out.** The contents of parameter sets, files as bytes, the protocols inside the RTSP library
(of which the model has what the sinks see: a path that is taken, a connection, a handshake, a push
that fails).

## PipelineManager

Every call holds the manager's mutex for its whole length and is one step, except StartAll, during which
the application may call pipelines directly (`DirectStart`, `DirectStop`: it got them from `GetPipeline`).
A flag is stale for a pipeline touched in this way: StartPipeline then reports success without
starting it. `touched` marks those pipelines, and `FlagsAgree` speaks of the others; that no pipeline
outlives its entry and that a failed StartAll leaves running what ran before it is claimed of all.

## AxSystem

Both calls hold a mutex and are one step, with one disjunct for each step of InitializeSystem that can
fail. `hardware` is what the driver has been told, `devices` what the library remembers, `granted` what
successful calls asked for. Binding of a context happens in any thread. A failed InitializeSystem on
AXCL resets the device whoever else uses it (`disturbed`; hazard at `ax_system.cpp:298`).

**Assumed of callers.** Threads use devices they have initialised, and have ended when the last
ShutdownSystem is called: a context that outlives it would be bound again as if it were still good.

## Images and ImageGeometry

`ImageGeometry` has the arithmetic without state. `Images` has the places an image can be in (the
application's, a call's own, a processor's intermediate image, the last result), the pools, who refers
to each pool (`Referenced`), and one call at a time: a *plan*, the sequence of operations that the
processor of this chip chooses for source, request and destination, executed one by one, each of
which may fail, on one engine or on both it is tried on: `Retry` is the step from the engine that failed to the
next (`Fallback`: VPP for a resize that AX650 dispatched or that TDP of AX620E refused, TDP for a
dispatched conversion, the other ways to copy after VPP). JPEG decoding and encoding are calls around
Process with a stream buffer. A picture is the number of the call that brought it, and an image *shows* a region of a picture and what lies around it.

**One call at a time** is an assumption: `intermediate_` of the AX650 processor has no guard, unlike the
pools beside it. The pipeline holds `frame_processor_mutex_`, the encoder and the codec have processors
of their own.

**What an engine is asked for** is not what the request says but what fits the driver's fields. A frame is
cropped to four `AX_S16` (`FrameCrop`, `S16`), set by Process for a crop and by `AxImage` for a whole image;
AX620E's letterbox is an `AX_IVPS_RECT_T` (`Rect`), whose corner is taken to be two `AX_S16` and whose sides two
`AX_U16`, as the overlay code has them. `Read` is the part an engine is told to read, `Placed` where it is to put it,
and `Result` shows what comes of exactly these. AX620E's VPP takes NV12 only and the code never asks it first for
anything else, but after TDP has failed on packed RGB it asks VPP for that
(`ax_image_processor_ax620e.cpp:482`), expecting a refusal: `EnginesFed` claims the rule for the engine asked first.

**Assumed of the driver.** An engine that reports a failure has written nothing. Which engine AX650
dispatches to is left open (`"any"`): environment variables choose it.

**Left out.** Pixels and the padding colour, the ways to move bytes that `CopyImage` tries after VPP and those to
fill (each within one operation), the optional lock of the IVPS engine (with it a thread can wait for
itself: hazard at `ax_image_copy.cpp:193`), mapping, base64 and files; caches are in `Drawer`.

## Drawer

**State and code.** `surfaces` are the images drawn on, the frame itself and the copy `ApplyOsdIfNeeded`
takes from `osd_pool_`; each has what memory holds, what the CPU's cache holds of it (`lines`) and whether
those lines are newer (`dirty`). `prepared` is what `Prepare` returned last, `drawing` the `Apply` that runs
or ran last: where it is, on which image, with which commands. A picture has a number, and a list
of *marks* that were drawn on it: 1 for the mosaics, 2 for the bitmaps, 2 + i for stroke i of lines,
polygons and rectangles. The hardware marks memory, the CPU the cache of a cached image.

**Grain.** One step per call of the driver or of `FlushCache` and `InvalidateCache`, because in between the
cache may write a line back (`WriteBack`). A step that can return false may (`ApplyFails`). The
platforms differ in what Prepare takes (AXCL: rectangles only), in the height of the canvas, in the
invalidation before bitmaps and the flush without strokes (AX620E).

**Assumed of callers.** Between frames the application may read through the cache, but it flushes what it
writes and hands no buffer with unflushed lines to the hardware (`docs/image.md:33` and `:86`); a frame
the pipeline copies comes from the decoder and is not cached. One thread draws on an image at a time.

**Left out.** Colours, alpha, fill, corners and block sizes; whether cache lines are read one by one; the
optional IVPS lock and the AXCL drawing mutex, which only serialise. After an Apply that failed the
frame keeps what was drawn so far, possibly unflushed; `OverlaysDrawn` says nothing of it.

## Runs

Every property of a passing run has a mutant in `PROJECT.json`: a plausible error in one
definition (its text stands before the definition, introduced as such) that the property notices.

| run | configuration | question | result |
|---|---|---|---|
| `encoder_queue` | `EncoderQueue.cfg`: 2 producers, depth 2, all policies, spurious wakeups | is any wakeup lost (`NoLostWakeup`), do the statistics add up (`FramesAccountedFor`), do packets keep their order over restarts (`PacketsInOrder`), is the queue a `FrameFifo` (`InputQueueSpec`) | holds |
| `encoder_staging` | `EncoderStaging.cfg`: 1 producer, all kinds of frames, 4 buffers, windows of 1, hardware of 2 | is a buffer reused while the hardware reads it (`HardwareInputsKept`), is memory bounded (`StagingBounded`), is anything left after Stop (`QuietWhenStopped`) | holds |
| `encoder_live` | `EncoderLive.cfg`: 2 producers, depth 1, fair | does Stop return (`StopTerminates`) and free blocked producers (`StopReleasesProducers`), do queued frames leave (`QueuedFramesLeave`) | holds |
| `decoder_queue` | `DecoderQueue.cfg`: 2 producers, depth 3, spurious wakeups, end of stream, restarts | are wakeups lost otherwise than by Stop (`NoOtherLostWakeup`), does the end of the stream overtake a packet (`EndOfStreamComesLast`), is the queue a `FrameFifo` that displaces nothing (`PacketQueueSpec`) | holds |
| `decoder_frames` | `DecoderFrames.cfg`: both modes, faults, backpressure, restarts | may the callback thread spin (`OfferedInMode`), which frames does a slow callback miss (`NewestFramesOffered`), is any callback owed after Stop (`QuietWhenStopped`), are frames in order (`FramesInOrder`) | holds |
| `decoder_live` | `DecoderLive.cfg`: fair, backpressure, pool of queue + 2 | does decoding go on with a callback that never returns (`SendingGoesOn`), does Stop return (`StopTerminatesUnlessOverlooked`), do offered frames reach the callback thread (`OfferedFramesLeave`) | holds |
| `pipeline` | `Pipeline.cfg`: 2 outputs, `kBlock` and `kDropOldest`, all depths 1, 2 frames, fair | does every call return (`CallsReturn`), do encoders run exactly with the pipeline (`OutputsFollowPipeline`), is a closed muxer used (`MuxerOpenWhileUsed`) or a picture overwritten (`PicturesKept`), is an overlay applied to more or fewer frames than it was set for (`OverlayHolds`), is the frame callback told (`CallbackThreadTold`) and given each frame once (`FramesShownOnce`), is anything left after Stop (`QuietWhenStopped`) | holds |
| `support` | `Support.cfg`: each of demuxer, muxers, manager, system, images, drawer | are passes over a looped file apart (`PassesApart`), do parameter sets come first (`ConfiguredFirst`), is a session given up only when silent (`GivenUpWhenSilent`), does a read end (`ReadReturns`); do time stamps rise (`StampsRise`), are paths given back (`PathsOwned`), attempts spaced after a failure (`AttemptsSpaced`); does the manager tell the truth (`ManagerTruthful`), and the system (`SystemTruthful`); is memory returned (`MemoryReturned`) and each request done, by engines first asked for what they can do (`ProcessedRight`); is everything drawn, on this frame's picture (`OverlaysDrawn`) | holds |
| `decoder_stop` | `DecoderStop.cfg` | does Stop always return (`StopTerminates`) | **violated** |
| `decoder_pool` | `DecoderPool.cfg`: pool = callback queue | `SendingGoesOn` with the H.265 pool | **violated** |
| `decoder_restart` | `DecoderRestart.cfg`: AX620E counters, restarts | `SendingGoesOn` over restarts | **violated** |
| `demuxer_loop` | `DemuxerLoop.cfg`: a looped file without a readable sample | does Interrupt end a read (`InterruptedReadReturns`) | **violated** |

**Why these bounds suffice for the cases of interest.** Two producers are the fewest for a
`notify_one` to reach the wrong thread; a queue of two is the fewest for front and back to differ,
three the fewest that `DecoderAssumption` allows two producers. Four frames fill the queue and
displace while the send thread holds one. In `encoder_staging` a hardware queue of two with windows
of one makes a frame leave its window while the hardware still holds it, and four buffers are one
more than `StagingBounded` needs for a frame in preparation. The liveness runs have the smallest
queues, at which blocking is most frequent. In `pipeline` two frames are the fewest for an overlay
image to be wanted again while the first is encoded, and with depths of one a `kBlock` output
holds the fan-out, and `branches_mutex_`, on the second frame. `Client` in `MCPipeline` keeps overlays
and frame callbacks apart, which share nothing but the frame, and places changes of the overlay
just before they are read.

`support` checks six components that share no state. `part` in `MCSupport` picks one of them for a
behaviour, so that their states add up instead of multiplying. The constants are chosen for each:
- *Demuxer*: five files (reordered samples; a missing duration and an unreadable end; odd length
  fields; no time scale; nothing readable), `MaxOffset` 6 lets two or three passes begin, two
  sessions are the fewest for a reconnect, and a no-frame time out of two Ticks with calls of one
  makes `now` old enough to matter. Files come before cameras (`DemuxerClient`): a session leaves
  nothing that a file reads.
- *Muxers*: two muxers that want the same path, up to two sinks for an Open, three packets (first,
  reordered, of a wrong codec), a backoff of two Ticks and attempts of up to one. Only the first
  muxer gets packets, and the second opens one address at a time (`MuxerClients`): what packets do
  does not depend on the other muxer. `Second`, `UsPerSecond`, `ClockRate` are small but still
  have remainders when divided.
- *Manager*: three names, so that a StartAll can fail with one started, one running and one left.
- *System*: two threads, two devices, two sets of modules, two calls outstanding (`MaxRefs`).
- *Images*: two calls one after the other (`MaxCalls`) are the fewest for a stale intermediate image
  or pool; four sources, four destinations and thirteen requests with crops, letterboxes, changes of
  format and of size, some of them invalid. `WordSize` is 64, more than any crop here reaches: a crop
  whose corner overflows passes `ValidateCrop`, as `CropInside` says. `ShortSize` is 10, so that the largest
  side, 4, is the largest an `AX_S16` of that width holds; with 8 it would be read as negative, and
  `ProcessedRight` fails.
- *Drawer*: two pictures are the fewest for a cache to be stale; a picture of 8 by 6 with 8 rows makes the
  platforms' canvases differ. The lists of commands have each kind alone or together, rectangles of
  the whole frame, across an edge, outside and empty, and bitmaps, mosaics and points that must be
  refused. Commands change between two Apply calls only (`DrawerClient`), since
  Apply works on its own, and the driver refuses nothing, the first stroke, or the second and fifth.

**Deadlock** is checked in `encoder_queue` and `encoder_staging`, though their environment can
nearly always act; the liveness properties say more. In `pipeline` SetOsd can always act, and
`CallsReturn` takes its place. In `support` and
`demuxer_loop` the client stops at its bounds. The decoder's configurations switch it off, and say
why: the modelled code can stop for good (the first and the third finding below, and the `kBlock`
producer that meets a failed Start, hazard at `ax_video_encoder.cpp:220`).

**Fairness.** `Fairness` is weak fairness for each SDK thread as a whole: an enabled thread
eventually runs, which any preemptive scheduler gives. It does not make mutexes fair (a thread
whose turn comes and goes may lose every race for it), does not oblige anyone to call anything,
and puts nothing on the frame callback, which may never return (`CallbackReturns` is not in
`Fairness`). In the encoder the packet callback is assumed to return, because `StreamLoop` calls it
directly and Stop joins that thread. The hardware answers sends and polls because the code gives
every such call a time-out. Spurious wakeups are off in the liveness runs: they could only help.

`Pipeline` gets by with less: `CallsReturn` needs only that *some* thread among those that can run
does, not counting the decoder nor, before Stop, the demux thread, which may be busy for ever.

`DemuxerFairness` says that the demux thread runs when it can, and that time passes; a call of the RTSP
client takes at most `CallTime`, because the code gives each a time-out. Nothing obliges the owner to
call, the camera to answer or the connection to break.

**Client of the decoder's liveness runs.** `OneSession` in `MCVideoDecoder` restricts what the
client *calls* (one Open, one Start that succeeds, at most one Stop, no end of stream), to keep
the run small; it disables no action of `Fairness` for good. `decoder_restart` uses the
unrestricted client.

## Findings

1. **`Stop` of the decoder can miss a thread** (`decoder_stop`; `ax_video_decoder.cpp:148`). It sets
   `stop_requested_` and notifies without `input_mutex_`; a send thread that has just tested its
   predicate blocks after the notification and Stop joins it for ever. Line 161 does the same with the
   callback thread. The encoder takes the mutex in between (`StopClear`), and there the theorem
   `WakeupsKept` shows that this is enough.
2. **A slow callback can stall H.265 decoding** (`decoder_pool`; `ax_video_decoder_ax650.cpp:21`). The
   callback queue holds up to 8 frames, the H.265 pool has 8 blocks, so all blocks can be in the queue.
   The documentation says that a slow callback does not block decoding. With two blocks more than
   the queue holds, `decoder_live` shows that it does not.
3. **AX620E backpressure counters outlive a session** (`decoder_restart`;
   `ax_video_decoder_ax620e.cpp:449`). Packets that Stop discards are counted as submitted and never
   as received, and the next session waits for their frames.
4. **Interrupt does not end a read of a looped file that yields nothing** (`demuxer_loop`;
   `ax_demuxer.cpp:517`). The file branch of `ReadPacket` resets its reader at the end and goes on, and
   never looks at `interrupted_`. `docs/demuxer.md:39` says that Interrupt ends a blocking read. For every
   other file `ReadReturns` holds.

## Proofs

Every safety property and action property of a passing run is a theorem. Each component has one proof
module, which states its inductive invariant in named parts first, shows each part preserved by one
lemma per group of actions, and derives the properties last.

### The encoder

`VideoEncoderProofs` holds for any set of producers, any depths, buffers, kinds and policies
that satisfy `EncoderAssumption` (a send thread that is no producer, positive depths).

- `TypeCorrect == Spec => []TypeOK`. One lemma per thread (`TypeSession`, `TypeProducer`,
  `TypeSender`, `TypeStream`, `TypeWait`), on lemmas about what sequences, `Acquire` and
  `ReleaseOldInflightFrame` return.
- `WakeupsKept == Spec => []NoLostWakeup`. `NoLostWakeup` is not inductive: that `notify_one`
  may be spent on any blocked thread is sound only because send thread and producers are never
  blocked together, and that a Stop wakes everybody needs to know where Stop is when a thread
  goes to sleep. `WakeupInv` adds: what flags hold and which threads exist in each phase of the
  application thread (`SessionInv`), that nobody starts to wait after Stop has had the mutex and
  nobody is still waiting after its `notify_all` (`StopInv`), that one thread at most holds the mutex
  (`MutexInv`), where each kind of thread can be (`ThreadInv`), and that a closed encoder is empty
  (`ClosedInv`). `WakeupInvariant` proves it inductive, one lemma per thread and one for Start and
  Stop each; `PushWakesSender` is the heart: pushing a frame finds the send thread awake, or the only
  one blocked.
- `QueueBounded`: the queue never exceeds its depth. `StatisticsAddUp == Spec => []FramesAccountedFor`.
  Both follow from a case split stated once: `EveryStepQueue` says that each step leaves the queue
  alone, pushes one frame at most displacing one, takes the head, or discards everything.
- `QueueImplementsFifo == Spec => InputQueueSpec`: the same cases are the actions of `FrameFifo`.
- `OrderInvariant` and `PacketsStayInOrder == Spec => PacketsInOrder`: along queue, send thread, hardware
  and latest packet the frames get older, each place in itself in order (`PendingOrder`, `HwOrder`);
  that the latest packet only gets newer is then one step of the stream thread.
- `QuietAfterStop == Spec => []QuietWhenStopped`: `WorkInv` says that the send thread holds a staging image
  only between preparing and sending it, `QuietInv` that the staging lists are empty whenever no
  session runs; where the threads are then is part of `WakeupInv`.
- `StagingStaysBounded == Spec => []StagingBounded`: no two images in the pool, the window and the send
  thread's hand are cut from one buffer, and they are counted by size (`Fits`): an image of the target
  size leaves one place when it enters another; of a host frame's size there is one, in the pool
  between any two steps.
- `HardwareInputsStayKept == Spec => []HardwareInputsKept`: seen from the newest, the k-th staged frame in
  the hardware is the k-th entry of its window from the end, as long as k is below the window's depth
  (`KeptIn`, by the *rank* of an entry: how many of its kind came after it).

### The decoder

`VideoDecoderProofs`, from `DecoderAssumption`:

- `SessionInvariant`: types; what the place of the application thread says of the flags (`ControlInv`); where
  each thread is, where every block of the pool is and what each phase of Stop has emptied
  (`PlaceInv`). `QuietAfterStop` and `EndOfStreamIsLast` (`EndInv`: a send thread that comes to the end without
  being stopped or failing has seen an empty queue that takes nothing more) follow.
- `OfferInvariant`: slot and queue follow the mode, the queue is an unbroken run that ends with the last
  frame `PublishFrame` has finished with, and all of it is newer than what was delivered. It yields
  `OffersFollowMode`, `OffersAreNewest` and, with each delivery, `FramesStayInOrder`.
- `QueueImplementsFifo == Spec => PacketQueueSpec`: the refinement, as in the encoder.
- `WakeupsKept == Spec => []NoOtherLostWakeup`. Here producers and send thread share a condition variable
  and both may be blocked at once, so the encoder's argument does not carry over; this one counts.
  While the send thread is blocked, each packet pushed leaves its producer owing a `notify_one`, which
  ends the wait of the send thread or of one more producer (`RoomInv`: what is queued and the
  producers blocked are fewer than those that owe a notification and all producers together).
  Producers are blocked beside an empty queue only if an earlier Stop overlooked them
  (`OverlookedInv`), and before the next session runs they submit one packet each at most (`FewInv`).
  With `2 * Cardinality(Producers) <= QueueDepth + 1` the queue then never fills up before the send
  thread is told. With more producers the property is false, as TLC shows on two producers and a depth
  of two.

### The pipeline

`PipelineProofs`, from `PipelineAssumption` (any finite set of outputs, positive depths). `PipelineInv` starts
from the place of the application thread: which parts Stop has already dealt with (`ControlInv`,
`InputInv`), so in which state the encoder of the i-th branch and that of a branch outside `branches_`
is (`OutputInv`: `EncoderAt`, `EncoderApart`), hence what stream threads may be doing and which muxers are
open (`StreamInv`); what the frame callback thread has seen when it sleeps (`CallbackInv`); that the
counter is what is left of the overlay (`OverlayInv`); that every picture, in the hands of the fan-out,
queued or being encoded, still shows its frame (`PictureInv`); and that each place on the way to the
frame callback has an older frame than the place before (`OrderInv`). The theorems about single
properties (`MuxersStayOpen`, `OutputsAlwaysFollow`, `OverlaysHold`, `PicturesStayKept`,
`CallbackThreadAlwaysTold`, `FramesAlwaysShownOnce`, `QuietAfterStop`) read them off; the work is in
`OutputInv`, where AddOutput, RemoveOutput and Stop move branches and the fan-out goes through them.

### The components around the core

Each for any value of its constants:

- `LifecycleProofs`: `ManagerSaysTruth`. `ManagerTruthful` speaks of a StartAll that has ended, so the
  invariant adds what is so while one is under way (`UnderWay`): unless the application interfered,
  what runs is what ran before and what this call has started, which are disjoint.
  `SystemStaysTruthful`, from `SystemAssumption`: the invariant adds that `hardware` and
  `devices` agree module by module (`EntriesTrue`), that nothing is in use before the first call and after
  the last (`Unused`), and that a context is only on a device a successful call has initialised (`ContextsHeld`).
- `DemuxerProofs`, from `DemuxerAssumption`. `PassesStayApart`: the offset of a pass and what it has accounted for are
  at least what has elapsed in it, and all that was read so far lies before what the next pass can
  begin with (`EndsBefore`, one disjunct for files without composition offsets and one for files with).
  `ConfiguredAlwaysFirst`: a reader at its beginning has sent no parameter sets, and what it would put before
  a frame is what it has learnt (`ConfigInv`). `GivenUpOnlyWhenSilent`: the age the code compares is the time
  without a frame up to one call (`SilenceInv`). The rest is arithmetic: sums of durations and their
  rounding to microseconds. The sums are a recursive function whose defining equation is proved
  (`SumsContinue`, `SumsExist`: there is no least length without such a function, `Least`), and the
  same argument shows that sums of whole microseconds are whole (`WholeSums`).
- `MuxerProofs`, from `MuxerAssumption`: `MuxerInvariant` gives types, and for each sink that the time left
  to wait and the time since the failure add up to the backoff at least (`Spaced`), from which
  `AttemptsStaySpaced` follows, and that its MP4 clock is within its bound (`ClockStaysKept`, which
  no run checks: half a tick for each sample behind, one tick for each ahead). `StampsAlwaysRise` needs that a new stamp is `StepUs`
  later at least, and the rounding lemma `RoundRises`. The arithmetic lemmas (`Quotient` and those
  that follow it) state what integer division bounds. `PathsStayOwned`: the server sinks of all muxers,
  those of an Open under way included, have one path each and no two the same (`Owned`).
- `ImagesProofs`, from `ImagesAssumption` (the chips are the three known ones, sources have descriptors
  `AxImage::Create` accepts, requests and JPEG sizes the types of the code). `MemoryAlwaysReturned`: the
  invariant says that an image in a pool holds that very pool and that the entries of a processor exist
  (`PoolsHeld`), when the stream buffer is allocated (`StreamInv`), and what may be left when no call runs
  (`IdleInv`); `SettleInv` is its heart: the pools that go are those nobody refers to. Of the
  arithmetic, for all sizes: `LetterboxInside` (a letterbox lies in its destination, on even sides),
  `CropInside` (an accepted crop lies in its source, unless its corner overflows the word) and
  `AlignedIsValid` (what `MakeAlignedDescriptor` makes, `Create` accepts).
  `RequestsProcessedRight == ASSUME CropsFit, SidesFit PROVE ImagesSpec => []ProcessedRight`. The invariant
  `CallInv` says what a call has when it comes to Process (`FromReady`: its source shows this call's
  picture) and, past the tests, what shape the operations left to do have and what the images on the way
  show by then (`Left`): the image on the way is still to be made (`Making`), or is fit and
  waits for the picture (`Staging`), or the destination is to be filled from it or from the source
  (`Filling`), or all is done. `PlanLeft` shows that every plan of every chip begins in one of these,
  `MakeIntermediateNext` and `OperateNext` that each operation leads to the next, `LeftFed` that the operation
  at hand is one the engine can do, `LeftDelivers` that the end is what was asked for. A reused
  intermediate image is covered: nothing is assumed of what it showed before. `Retry` changes none of it
  (`RetryNext`); `ReadIs` and `ResultIs` say that within the hypotheses the driver's narrow fields hold what was
  asked for. Two hypotheses name what the code does not guard. `CropsFit`: no far corner of a crop overflows
  the word, or `ValidateCrop` accepts what lies outside. `SidesFit`: no side of a source, of an output asked
  for or of a JPEG picture is longer than an `AX_S16` holds (32767), because the code casts them without a
  test; and on AX620E nothing is a single pixel wide or high, because `MakeKeepAspectRatioManual` never makes
  a side shorter than two, so that a one-pixel destination would get a letterbox wider than itself.
- `DrawerProofs`: `OverlaysAlwaysDrawn`, from `DrawerAssumption` (known platforms, commands of the API's types,
  sizes within a signed word). `OverlaysDrawn` speaks of an Apply that has ended; the invariant adds
  what is drawn so far (`Done`), where the latest contents are (`Settled`: the cache if dirty, else memory),
  that nothing is dirty before the first stroke and that from then on the cache is not behind memory
  (`GoodSurface`): the invalidation between hardware and CPU is what establishes the last part.
  `ClampedRectsFit` is the arithmetic: the driver can take what the clamping leaves, and only rectangles
  without a visible part are skipped.

Only model-checked:

- Liveness (`StopTerminates`, `StopReleasesProducers`, `QueuedFramesLeave`, `SendingGoesOn`,
  `StopTerminatesUnlessOverlooked`, `OfferedFramesLeave`, `CallsReturn`, `ReadReturns`): fairness speaks of `ENABLED`, which the
  provers do not reason about.
- The findings, which are counterexamples.

## Not modelled

- `AX620E` decoder group slots: one critical section for each operation on a table of numbers.
- Version check: a comparison of strings at start-up.
- Bytes: NAL units and parameter sets (`BitReader`, size and frame rate of a stream), JPEG markers, MP4
  boxes, base64. The models keep what the control depends on: whether they are known, parse, or fail.
- Realtime pauses of a file reader, pixels and colours, mapping of images.
- The alternatives of `CopyImage` after VPP: inside one operation, which may fail as a whole.
- Command line tools, samples, vendored libraries.
