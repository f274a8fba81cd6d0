------------------------------- MODULE Demuxer -------------------------------
(***************************************************************************)
(* AxDemuxer (src/src/pipeline/ax_demuxer.cpp) over the sample reader      *)
(* AxMp4Demuxer (src/src/codec/ax_mp4_demuxer.cpp) and the RTSP client     *)
(* library, of which only what the demuxer sees of it is here.             *)
(*                                                                         *)
(* One thread reads: ReadPacket starts a call, which ends when pc is "idle"*)
(* again, with a packet or with NoPacket (the call returned false).  The   *)
(* other calls come from the thread that owns the demuxer, and all but     *)
(* Interrupt only while no ReadPacket is under way: AxPipeline joins its   *)
(* demux thread before it calls Reset or Close.                            *)
(*                                                                         *)
(* Time is counted in Ticks.  A steady_clock time point the code keeps is  *)
(* an age, the Ticks that have passed since; it stops growing where it     *)
(* makes no difference any more.  nowAge is the age of the local variable  *)
(* now, read once in each turn of the loop and used after blocking calls.  *)
(***************************************************************************)
EXTENDS Integers, Sequences, FiniteSetsExt

CONSTANTS
  Uris,             \* what may be opened: [blank, scheme, mp4]
  Mp4Files,         \* files: [samples, timescale, nalLength]; see Sample
  Second,           \* time stamps in a second (1000000 in the code)
  DefaultDuration,  \* of a frame at 30 frames in a second
  KeepaliveInterval, NoFrameTimeout, BackoffMin, BackoffMax,
  CallTime,         \* bound: Ticks one turn of the RTSP loop may take
  MaxOffset,        \* bound: nothing is read any more beyond this offset
  MaxSessions       \* bound: RTSP sessions the server accepts

(***************************************************************************)
(* A sample of a file has a duration and a composition offset in units of  *)
(* the file's timescale, may hold a key frame, and parses as NAL units with*)
(* length fields of some sizes: none for one that cannot be read.          *)
(***************************************************************************)
Sample == [dur : Nat, cts : Nat, key : BOOLEAN, sizes : SUBSET (1..4)]

ASSUME DemuxerAssumption ==
  /\ \A f \in Mp4Files : f.samples \in Seq(Sample) /\ f.timescale \in Nat /\ f.nalLength \in 1..4
  /\ {Second, DefaultDuration, NoFrameTimeout, BackoffMin} \subseteq Nat \ {0}
  /\ BackoffMax \in Nat /\ BackoffMax >= BackoffMin
  /\ KeepaliveInterval \in Nat /\ KeepaliveInterval >= NoFrameTimeout
  /\ {CallTime, MaxOffset, MaxSessions} \subseteq Nat

VARIABLES
  type,                 \* kind of input, "kUnknown" when closed
  interrupted,          \* interrupted_
  pc,                   \* where ReadPacket is
  packet,               \* what the latest ReadPacket returned
  file, loop_playback,  \* the open file, config_.loop_playback
  sample_index, decoder_config_sent, nal_length_size,
  packet_pts_offset, current_loop_span, emitted_pts_cursor,
  passEnd, passMax,     \* ghosts: largest time stamp of earlier passes, of all
  playing,              \* rtsp_client_.isPlaying()
  session,              \* number of the latest RTSP session
  prefix,               \* session whose parameter sets rtsp_decoder_prefix_ holds
  config_sent,          \* rtsp_decoder_config_sent_
  nowAge, frameAge, keepaliveAge, reconnectWait, backoff,
  known,                \* ghost: the parameter sets the demuxer has learnt
  first,                \* ghost: nothing read since the latest (re)start
  silence,              \* ghost: Ticks without a frame
  resumed               \* ghost: Reset was called and no frame has come since

mp4Vars == <<file, loop_playback, sample_index, decoder_config_sent, nal_length_size,
             packet_pts_offset, current_loop_span, emitted_pts_cursor, passEnd, passMax>>
timeVars == <<nowAge, frameAge, keepaliveAge, reconnectWait, backoff, silence, resumed>>
rtspVars == <<playing, session, prefix, config_sent, known, timeVars>>
demuxerVars == <<type, interrupted, pc, packet, first, mp4Vars, rtspVars>>

NoFile == [samples |-> <<>>, timescale |-> 0, nalLength |-> 4]
NoPacket == [pts |-> -1, key |-> FALSE, config |-> 0, known |-> 0, first |-> FALSE]
AgeLimit == KeepaliveInterval + CallTime

-----------------------------------------------------------------------------
(* What an address is taken for.                                           *)

DetectDemuxerInputType(uri) ==
  CASE uri.blank -> "kUnknown"
    [] ~uri.blank /\ uri.scheme \in {"rtsp", "rtsps"} -> "kRtspPull"
    [] ~uri.blank /\ uri.scheme \notin {"rtsp", "rtsps"} ->
         IF uri.mp4 THEN "kMp4File" ELSE "kUnknown"

(* AxMp4Demuxer::Open is given the address as it is: a path, no scheme.    *)
Openable(uri) == uri.scheme = "none"

-----------------------------------------------------------------------------
(* The arithmetic of time stamps.                                          *)

SumsOfDurations(samples) ==
  LET sum[i \in 0 .. Len(samples)] == IF i = 0 THEN 0 ELSE sum[i - 1] + samples[i].dur
  IN  sum

(* minimp4 adds the durations up to the decode time of a sample.           *)
DecodeTime(f, i) == SumsOfDurations(f.samples)[i - 1]
ToMicroseconds(f, t) == (t * Second) \div f.timescale

(* Duration of a frame at EstimateFrameRate's frame rate.                  *)
ResolveFallbackFrameDuration(f) ==
  LET window == Min({Len(f.samples), 30})
      sum == SumsOfDurations(f.samples)[window]
  IN  IF f.timescale = 0 \/ sum = 0 THEN DefaultDuration
      ELSE Max({1, (Second * sum) \div (f.timescale * window)})

(* The size of the NAL length fields the sample is read with, 0 for none.  *)
ParseLengthPrefixedNalUnitsAuto(sample, preferred) ==
  LET candidates == <<preferred, 4, 2, 1>>
      fitting == {i \in 1..4 : candidates[i] \in sample.sizes}
  IN  IF fitting = {} THEN 0 ELSE candidates[Min(fitting)]

-----------------------------------------------------------------------------
(* A turn of ReadPacket's loop on a file.                                  *)

ResetReaderKeepsConfig == sample_index' = 1 /\ UNCHANGED decoder_config_sent  \* A plausible error.

ResetReader == sample_index' = 1 /\ decoder_config_sent' = FALSE

ResetPlaybackState ==
  /\ packet_pts_offset' = 0
  /\ current_loop_span' = 0
  /\ emitted_pts_cursor' = 0
  /\ passEnd' = -1
  /\ passMax' = -1

AdvanceLoopPlaybackState ==
  /\ packet_pts_offset' =
       IF packet_pts_offset > MaxOffset THEN packet_pts_offset  \* Only a loop that yields nothing.
       ELSE packet_pts_offset + (IF current_loop_span = 0
                                 THEN ResolveFallbackFrameDuration(file)
                                 ELSE current_loop_span)
  /\ current_loop_span' = 0
  /\ emitted_pts_cursor' = 0
  /\ passEnd' = passMax
  /\ UNCHANGED passMax

(* The sample ReadNextPacket would return, if it can.                      *)
AtSample == sample_index <= Len(file.samples)
Readable ==
  /\ AtSample
  /\ ParseLengthPrefixedNalUnitsAuto(file.samples[sample_index], nal_length_size) # 0
  /\ file.timescale # 0

(* A packet is accounted for by its duration, an unknown one by the        *)
(* fallback, and leaves with the time stamp of the file plus the offset.   *)
EffectiveDurationUnchecked(s) == ToMicroseconds(file, s.dur)  \* A plausible error.

EffectiveDuration(s) ==
  LET d == ToMicroseconds(file, s.dur)
  IN  IF d = 0 THEN ResolveFallbackFrameDuration(file) ELSE d

ReadSample ==
  /\ pc = "mp4"
  /\ Readable
  /\ LET s == file.samples[sample_index]
         pts == packet_pts_offset + ToMicroseconds(file, DecodeTime(file, sample_index) + s.cts)
         inject == ~decoder_config_sent \/ s.key
     IN  /\ packet' = [pts |-> pts, key |-> s.key, config |-> IF inject THEN 1 ELSE 0,
                       known |-> 1, first |-> first]
         /\ nal_length_size' = ParseLengthPrefixedNalUnitsAuto(s, nal_length_size)
         /\ decoder_config_sent' = (decoder_config_sent \/ inject)
         /\ current_loop_span' = emitted_pts_cursor + EffectiveDuration(s)
         /\ emitted_pts_cursor' = emitted_pts_cursor + EffectiveDuration(s)
         /\ passMax' = Max({passMax, pts})
  /\ sample_index' = sample_index + 1
  /\ first' = FALSE
  /\ pc' = "idle"
  /\ UNCHANGED <<type, interrupted, file, loop_playback, packet_pts_offset, passEnd, rtspVars>>

(* No further sample: the end of the file, or one that cannot be read.  A  *)
(* sample with a timescale of zero has been parsed by then.                *)
LearnNalLength ==
  nal_length_size' =
    LET n == IF AtSample
             THEN ParseLengthPrefixedNalUnitsAuto(file.samples[sample_index], nal_length_size) ELSE 0
    IN  IF n = 0 THEN nal_length_size ELSE n

ReadEnds ==
  /\ pc = "mp4"
  /\ ~Readable
  /\ ~loop_playback
  /\ LearnNalLength
  /\ pc' = "idle"
  /\ UNCHANGED <<type, interrupted, packet, first, file, loop_playback, sample_index, decoder_config_sent,
                 packet_pts_offset, current_loop_span, emitted_pts_cursor, passEnd, passMax, rtspVars>>

ReadLoops ==
  /\ pc = "mp4"
  /\ ~Readable
  /\ loop_playback
  /\ LearnNalLength
  /\ ResetReader
  /\ AdvanceLoopPlaybackState
  /\ first' = TRUE
  /\ UNCHANGED <<type, interrupted, pc, packet, file, loop_playback, rtspVars>>

-----------------------------------------------------------------------------
(* The RTSP session.                                                       *)

CloseRtspSession ==
  /\ playing' = FALSE
  /\ prefix' = 0
  /\ config_sent' = FALSE
  /\ known' = 0

(* StartRtspPlayback succeeds: the session description may have told the   *)
(* parameter sets.                                                         *)
StartRtspPlayback ==
  /\ session < MaxSessions
  /\ playing' = TRUE
  /\ session' = session + 1
  /\ prefix' \in {0, session + 1}
  /\ known' = prefix'
  /\ config_sent' = FALSE
  /\ first' = TRUE
  /\ silence' = 0

MarkRtspActivity ==
  /\ frameAge' = 0
  /\ keepaliveAge' = 0
  /\ reconnectWait' = 0
  /\ backoff' = BackoffMin

ScheduleRtspReconnect ==
  /\ CloseRtspSession
  /\ reconnectWait' = 0
  /\ backoff' = BackoffMin
  /\ frameAge' = nowAge
  /\ keepaliveAge' = nowAge

(* PrimeRtspStreamInfo learns the parameter sets from the stream, or not;  *)
(* the frames it reads are lost.                                           *)
PrimeRtspStreamInfo(startedSession, startedPrefix) ==
  \/ /\ prefix' = startedSession
     /\ known' = startedSession
     /\ config_sent' = FALSE
  \/ /\ prefix' = startedPrefix
     /\ UNCHANGED <<known, config_sent>>

-----------------------------------------------------------------------------
(* A turn of ReadPacket's loop on an RTSP session.                         *)

LoopNeverEnds == FALSE  \* A plausible error: while (true).

LoopEnds == interrupted

(* Before its time to reconnect the loop sleeps: it waits for Tick.        *)
RtspTurn ==
  /\ pc = "rtsp"
  /\ \/ LoopEnds /\ pc' = "idle"
     \/ ~LoopEnds /\ playing /\ pc' = "keepalive"
     \/ ~LoopEnds /\ ~playing /\ reconnectWait = 0 /\ pc' = "connect"
  /\ nowAge' = 0
  /\ UNCHANGED <<type, interrupted, packet, first, mp4Vars, playing, session, prefix, config_sent, known,
                 frameAge, keepaliveAge, reconnectWait, backoff, silence, resumed>>

(* EnsureRtspPlaying: the time to wait after a failure counts from now.    *)
ConnectFails ==
  /\ pc = "connect"
  /\ CloseRtspSession
  /\ reconnectWait' = Max({0, backoff - nowAge})
  /\ backoff' = Min({2 * backoff, BackoffMax})
  /\ pc' = "rtsp"
  /\ UNCHANGED <<type, interrupted, packet, first, mp4Vars, session, nowAge, frameAge, keepaliveAge,
                 silence, resumed>>

Connect ==
  /\ pc = "connect"
  /\ StartRtspPlayback
  /\ MarkRtspActivity
  /\ resumed' = FALSE
  /\ pc' = "prime"
  /\ UNCHANGED <<type, interrupted, packet, mp4Vars, nowAge>>

Prime ==
  /\ pc = "prime"
  /\ \/ playing /\ PrimeRtspStreamInfo(session, prefix)
     \/ UNCHANGED <<prefix, known, config_sent>>
  /\ pc' = "keepalive"
  /\ UNCHANGED <<type, interrupted, packet, first, mp4Vars, playing, session, timeVars>>

KeepaliveDue == keepaliveAge - nowAge >= KeepaliveInterval

Keepalive ==
  /\ pc = "keepalive"
  /\ pc' = "receive"
  /\ keepaliveAge' = IF KeepaliveDue THEN nowAge ELSE keepaliveAge
  /\ UNCHANGED <<type, interrupted, packet, first, mp4Vars, playing, session, prefix, config_sent, known,
                 nowAge, frameAge, reconnectWait, backoff, silence, resumed>>

KeepaliveFails ==
  /\ pc = "keepalive"
  /\ KeepaliveDue
  /\ ScheduleRtspReconnect
  /\ pc' = "rtsp"
  /\ UNCHANGED <<type, interrupted, packet, first, mp4Vars, session, nowAge, silence, resumed>>

FrameUnmarked == UNCHANGED frameAge  \* A plausible error.

MarkFrame == frameAge' = nowAge

(* A frame without data makes the call return false unless parameter sets  *)
(* are put in front of it.                                                 *)
ReceiveFrame(key, empty) ==
  /\ pc = "receive"
  /\ playing
  /\ MarkFrame
  /\ LET inject == ~config_sent \/ key
         config == IF inject THEN prefix ELSE 0
     IN  /\ config_sent' = (config_sent \/ inject)
         /\ packet' = IF empty /\ config = 0 THEN NoPacket
                      ELSE [pts |-> 0, key |-> key, config |-> config, known |-> known, first |-> first]
  /\ first' = FALSE
  /\ silence' = 0
  /\ resumed' = FALSE
  /\ pc' = "idle"
  /\ UNCHANGED <<type, interrupted, mp4Vars, playing, session, prefix, known, nowAge, keepaliveAge,
                 reconnectWait, backoff>>

NoFrameTooLong == frameAge - nowAge >= NoFrameTimeout

ReceiveNothing ==
  /\ pc = "receive"
  /\ interrupted \/ ~NoFrameTooLong
  /\ pc' = IF interrupted THEN "idle" ELSE "rtsp"
  /\ UNCHANGED <<type, interrupted, packet, first, mp4Vars, rtspVars>>

(* The session is given up because no frame has come in time.              *)
ReceiveGivesUp ==
  /\ pc = "receive"
  /\ ~interrupted
  /\ NoFrameTooLong
  /\ ScheduleRtspReconnect
  /\ pc' = "rtsp"
  /\ UNCHANGED <<type, interrupted, packet, first, mp4Vars, session, nowAge, silence, resumed>>

-----------------------------------------------------------------------------
(* The calls of the demuxer's owner.                                       *)

(* What Close leaves, and every Open that fails.                           *)
CloseState ==
  /\ type' = "kUnknown"
  /\ interrupted' = TRUE
  /\ packet' = NoPacket
  /\ first' = TRUE
  /\ file' = NoFile /\ loop_playback' = FALSE
  /\ sample_index' = 1 /\ decoder_config_sent' = FALSE /\ nal_length_size' = 4
  /\ ResetPlaybackState
  /\ CloseRtspSession
  /\ UNCHANGED <<pc, session, timeVars>>

CloseDemuxer == pc = "idle" /\ type # "kUnknown" /\ CloseState

(* Open closes first, so that an Open that fails leaves what Close leaves. *)
OpenFails(uri) ==
  /\ pc = "idle"
  /\ \/ DetectDemuxerInputType(uri) # "kMp4File"
     \/ ~Openable(uri)
  /\ CloseState

OpenMp4(uri, f, loop) ==
  /\ pc = "idle"
  /\ DetectDemuxerInputType(uri) = "kMp4File"
  /\ Openable(uri)
  /\ type' = "kMp4File"
  /\ interrupted' = FALSE
  /\ packet' = NoPacket
  /\ first' = TRUE
  /\ file' = f /\ loop_playback' = loop
  /\ ResetReader
  /\ nal_length_size' = f.nalLength
  /\ ResetPlaybackState
  /\ CloseRtspSession
  /\ UNCHANGED <<pc, session, timeVars>>

(* Starting the session, MarkRtspActivity and PrimeRtspStreamInfo are one  *)
(* step here: nobody else calls the demuxer before Open has returned.      *)
OpenRtsp(uri) ==
  /\ pc = "idle"
  /\ DetectDemuxerInputType(uri) = "kRtspPull"
  /\ session < MaxSessions
  /\ type' = "kRtspPull"
  /\ interrupted' = FALSE
  /\ packet' = NoPacket
  /\ first' = TRUE
  /\ file' = NoFile /\ loop_playback' = FALSE
  /\ sample_index' = 1 /\ decoder_config_sent' = FALSE /\ nal_length_size' = 4
  /\ ResetPlaybackState
  /\ playing' = TRUE
  /\ session' = session + 1
  /\ prefix' \in {0, session'} /\ known' = prefix'
  /\ config_sent' = FALSE
  /\ MarkRtspActivity
  /\ nowAge' = 0 /\ silence' = 0 /\ resumed' = FALSE
  /\ UNCHANGED pc

Interrupt ==
  /\ type # "kUnknown"
  /\ interrupted' = TRUE
  /\ UNCHANGED <<type, pc, packet, first, mp4Vars, rtspVars>>

ResetMp4 ==
  /\ pc = "idle"
  /\ type = "kMp4File"
  /\ interrupted' = FALSE
  /\ ResetReader
  /\ ResetPlaybackState
  /\ packet' = NoPacket
  /\ first' = TRUE
  /\ UNCHANGED <<type, pc, file, loop_playback, nal_length_size, rtspVars>>

(* A session that still plays goes on; StartRtspPlayback is not followed   *)
(* by MarkRtspActivity here.                                               *)
ResetRtsp ==
  /\ pc = "idle"
  /\ type = "kRtspPull"
  /\ interrupted' = FALSE
  /\ packet' = NoPacket
  /\ resumed' = TRUE
  /\ \/ /\ playing
        /\ silence' = 0
        /\ UNCHANGED <<playing, session, prefix, config_sent, known, first>>
     \/ ~playing /\ StartRtspPlayback
     \/ /\ ~playing
        /\ CloseRtspSession
        /\ UNCHANGED <<session, first, silence>>
  /\ UNCHANGED <<type, pc, mp4Vars, nowAge, frameAge, keepaliveAge, reconnectWait, backoff>>

ReadPacket ==
  /\ pc = "idle"
  /\ type # "kUnknown"
  /\ packet_pts_offset <= MaxOffset
  /\ packet' = NoPacket
  /\ pc' = IF type = "kMp4File" THEN "mp4" ELSE "rtsp"
  /\ UNCHANGED <<type, interrupted, first, mp4Vars, rtspVars>>

-----------------------------------------------------------------------------
(* The environment: the connection breaks, time passes.                    *)

ConnectionLost ==
  /\ playing
  /\ playing' = FALSE
  /\ UNCHANGED <<type, interrupted, pc, packet, first, mp4Vars, session, prefix, config_sent, known, timeVars>>

Older(age) == Min({age + 1, AgeLimit})

Tick ==
  /\ type = "kRtspPull"
  /\ pc \in {"idle", "rtsp"} \/ nowAge < CallTime
  /\ nowAge' = IF pc \in {"idle", "rtsp"} THEN nowAge ELSE nowAge + 1
  /\ frameAge' = Older(frameAge)
  /\ keepaliveAge' = Older(keepaliveAge)
  /\ reconnectWait' = Max({0, reconnectWait - 1})
  /\ silence' = Older(silence)
  /\ UNCHANGED <<type, interrupted, pc, packet, first, mp4Vars, playing, session, prefix, config_sent, known,
                 backoff, resumed>>

-----------------------------------------------------------------------------
DemuxerInit ==
  /\ type = "kUnknown" /\ interrupted = FALSE /\ pc = "idle" /\ packet = NoPacket /\ first = TRUE
  /\ file = NoFile /\ loop_playback = FALSE
  /\ sample_index = 1 /\ decoder_config_sent = FALSE /\ nal_length_size = 4
  /\ packet_pts_offset = 0 /\ current_loop_span = 0 /\ emitted_pts_cursor = 0
  /\ passEnd = -1 /\ passMax = -1
  /\ playing = FALSE /\ session = 0 /\ prefix = 0 /\ config_sent = FALSE /\ known = 0
  /\ nowAge = 0 /\ frameAge = 0 /\ keepaliveAge = 0 /\ reconnectWait = 0 /\ backoff = BackoffMin
  /\ silence = 0 /\ resumed = FALSE

(* The thread that reads.                                                  *)
DemuxThread ==
  \/ ReadSample \/ ReadEnds \/ ReadLoops
  \/ RtspTurn \/ ConnectFails \/ Connect \/ Prime \/ Keepalive \/ KeepaliveFails
  \/ \E key, empty \in BOOLEAN : ReceiveFrame(key, empty)
  \/ ReceiveNothing \/ ReceiveGivesUp

DemuxerOwner ==
  \/ \E uri \in Uris : OpenFails(uri) \/ OpenRtsp(uri)
  \/ \E uri \in Uris, f \in Mp4Files, loop \in BOOLEAN : OpenMp4(uri, f, loop)
  \/ CloseDemuxer \/ Interrupt \/ ResetMp4 \/ ResetRtsp \/ ReadPacket

DemuxerNext == DemuxThread \/ DemuxerOwner \/ ConnectionLost \/ Tick

DemuxerSpec == DemuxerInit /\ [][DemuxerNext]_demuxerVars

(* The reading thread goes on and time passes.                             *)
DemuxerFairness == WF_demuxerVars(DemuxThread) /\ WF_demuxerVars(Tick)

-----------------------------------------------------------------------------
(* Properties.                                                             *)

(* A file as encoders write it, as far as durations and composition offsets*)
(* go: every duration is a whole number of microseconds, and either there  *)
(* are no offsets, or they are whole numbers of microseconds too, every    *)
(* sample can be read, whatever was read before it, and all are shown      *)
(* within the time that their durations add up to, the first one first.    *)
WellTimed(f) ==
  LET whole(t) == (t * Second) % f.timescale = 0
      start == f.samples[1].cts
      length == SumsOfDurations(f.samples)[Len(f.samples)]
  IN  /\ f.timescale # 0
      /\ \A i \in DOMAIN f.samples : whole(f.samples[i].dur)
      /\ \/ \A i \in DOMAIN f.samples : f.samples[i].cts = 0
         \/ \A i \in DOMAIN f.samples :
              /\ f.samples[i].sizes \intersect {1, 2, 4} # {}
              /\ whole(f.samples[i].cts)
              /\ DecodeTime(f, i) + f.samples[i].cts \in start .. start + length - 1

(* "each loop appended in time": what is read in one pass over a looped    *)
(* file is later than all that was read in the passes before, whatever     *)
(* durations are missing, B-frames reordered and samples unreadable.       *)
PassesApart ==
  type = "kMp4File" /\ packet # NoPacket /\ WellTimed(file) => packet.pts > passEnd

(* The first packet after opening, after a Reset of the file, in each pass *)
(* over it and in each RTSP session carries the parameter sets, as far as  *)
(* they are known, as does every key frame, and they are never those of an *)
(* earlier session: a decoder can start on it.                             *)
ConfiguredFirst ==
  packet # NoPacket /\ (packet.first \/ packet.key) => packet.config = packet.known

(* An RTSP session is given up only when no frame has come for as long as  *)
(* NoFrameTimeout says, up to the length of one call.  Not so after Reset: *)
(* it leaves the ages as they were when reading stopped.                   *)
GivenUpWhenSilent ==
  [][ReceiveGivesUp => silence + CallTime >= NoFrameTimeout \/ resumed]_demuxerVars

(* A looped file that yields nothing: it is empty, its first sample cannot *)
(* be read, or its timescale is zero.                                      *)
Barren ==
  /\ loop_playback
  /\ \/ file.samples = <<>>
     \/ file.timescale = 0
     \/ ParseLengthPrefixedNalUnitsAuto(file.samples[1], nal_length_size) = 0

(* ReadPacket returns on any other file, and on a camera that is silent,   *)
(* out of reach or gone once Interrupt was called.                         *)
ReadReturns ==
  (pc # "idle" /\ (interrupted \/ type = "kMp4File") /\ ~Barren) ~> (pc = "idle")

(* What docs/demuxer.md says of Interrupt: it ends a blocking read.        *)
InterruptedReadReturns == (pc # "idle" /\ interrupted) ~> (pc = "idle")
=============================================================================
