-------------------------------- MODULE Muxer --------------------------------
(***************************************************************************)
(* The muxers of a process, AxMuxer and its sinks                          *)
(* (src/src/pipeline/ax_muxer.cpp, ax_rtsp_internal.h), with the MP4 writer*)
(* Mp4FileMuxer (src/src/codec/ax_mp4_demuxer.cpp).  All muxers share the  *)
(* RTSP servers of the process, one for each port.                         *)
(*                                                                         *)
(* SubmitPacket and Close of a muxer exclude each other by its mutex, and  *)
(* each is one step; how the library calls inside end is a choice.  Open   *)
(* is one step for each sink, because another muxer may open or close      *)
(* sinks on the same server in between.                                    *)
(***************************************************************************)
EXTENDS Integers, Sequences, FiniteSets

CONSTANTS
  Muxers,
  SinkUris,        \* [kind, target]: "file", "mp4" or "rtsp" (with port and path)
  Packets,         \* [pts, dur, key, config, sample, codec]
  UsPerSecond, UsPerMs,  \* 1000000 and 1000 in the code
  StepUs,          \* duration of a frame at the stream's frame rate
  ClockRate,       \* ticks of an MP4 track in a second (90000)
  ReconnectBackoff, \* in Ticks of this model, as are the next two
  ConnectTime,     \* bound: Ticks a failing connection may take
  MaxPackets       \* bound: packets submitted between Open and Close

ASSUME MuxerAssumption ==
  /\ {UsPerSecond, UsPerMs, ClockRate, ReconnectBackoff} \subseteq Nat \ {0}
  /\ StepUs \in Nat /\ StepUs >= UsPerMs       \* At most 1000 frames in a second.
  /\ ConnectTime \in Nat /\ MaxPackets \in Nat
  /\ \A p \in Packets : p.pts \in Nat /\ p.dur \in Nat /\ {p.key, p.config, p.sample} \subseteq BOOLEAN
  /\ \A u \in SinkUris : u.kind \in {"file", "mp4", "rtsp"}

VARIABLES
  sinks,       \* sinks_ of each muxer
  opening,     \* the sinks an Open under way has opened and the addresses it has left
  paths,       \* targets added to the servers
  running,     \* ports whose server runs
  onvif        \* HTTP port of the ONVIF daemon of each port, 0 for none

muxerVars == <<sinks, opening, paths, running, onvif>>

Ports == {u.target.port : u \in {v \in SinkUris : v.kind = "rtsp"}}
NotOpening == [active |-> FALSE, left |-> <<>>, done |-> <<>>]

-----------------------------------------------------------------------------
(* RtspPtsUnwrapper: time stamps that only rise.  last is -1 at first.     *)

Max2(a, b) == IF a > b THEN a ELSE b

(* A plausible error: stamps one microsecond apart, the same millisecond. *)
UnwrapByOne(s, pts) ==
  IF s.last = -1 THEN [last |-> pts, offset |-> s.offset]
  ELSE [last |-> Max2(pts + s.offset, s.last + 1), offset |-> Max2(s.offset, s.last + 1 - pts)]

ToMonotonicPts(s, pts) ==
  LET minNext == s.last + StepUs
      offset == IF pts + s.offset >= minNext THEN s.offset ELSE Max2(minNext - pts, 0)
  IN  IF s.last = -1 THEN [last |-> pts, offset |-> s.offset]
      ELSE [last |-> pts + offset, offset |-> offset]

RoundToMs(t) == (t + UsPerMs \div 2) \div UsPerMs

-----------------------------------------------------------------------------
(* What a packet does to a sink: the set of the possible outcomes.  Of its *)
(* fields seen, drift, samples, since and early are ghosts: packets the    *)
(* sink was offered, samples in the MP4 track and how far their ticks are  *)
(* ahead of their durations, Ticks since the latest failed attempt to      *)
(* connect, and whether an attempt came too early after one.               *)

NewSink(kind, target) ==
  [kind |-> kind, target |-> target, seen |-> 0, last |-> -1, offset |-> 0, drift |-> 0, samples |-> 0,
   config |-> FALSE, connected |-> FALSE, recording |-> FALSE, wait |-> 0,
   since |-> ReconnectBackoff, early |-> FALSE]

Outcome(s, ok) == [sink |-> s, ok |-> ok]

SubmitToFile(s, p) == {Outcome(s, ok) : ok \in BOOLEAN}

(* Rounded, and at least one tick.                                         *)
DurationTo90kHz(d) == Max2(1, (d * ClockRate + UsPerSecond \div 2) \div UsPerSecond)

(* Parameter sets go to the track; what is left, if anything, is a sample. *)
SubmitToMp4(s, p) ==
  LET d == IF p.dur = 0 THEN StepUs ELSE p.dur
      configured == [s EXCEPT !.config = @ \/ p.config]
  IN  IF p.codec = "kJpeg" THEN {Outcome(s, FALSE)}
      ELSE IF ~p.sample THEN {Outcome(configured, TRUE)}
      ELSE {Outcome(configured, FALSE),
            Outcome([configured EXCEPT !.samples = @ + 1,
                                       !.drift = @ + DurationTo90kHz(d) * UsPerSecond - d * ClockRate], TRUE)}

(* A packet of another codec has taken a time stamp all the same.          *)
SubmitToServer(s, p) ==
  LET u == ToMonotonicPts(s, p.pts)
      stamped == [s EXCEPT !.last = u.last, !.offset = u.offset]
  IN  IF p.codec = "kJpeg" THEN {Outcome(stamped, FALSE)}
      ELSE {Outcome(stamped, ok) : ok \in BOOLEAN}

(* A failed attempt: the time to wait counts from before the attempt.      *)
NoBackoff(s, d) == [s EXCEPT !.since = d]  \* A plausible error.

BackoffAfter(s, d) == [s EXCEPT !.wait = Max2(0, ReconnectBackoff - d), !.since = d]

Push(s, p) ==
  LET u == ToMonotonicPts(s, p.pts)
      stamped == [s EXCEPT !.last = u.last, !.offset = u.offset]
  IN  {Outcome(stamped, ok) : ok \in BOOLEAN}
      \cup {Outcome([stamped EXCEPT !.recording = FALSE, !.connected = FALSE,
                                !.wait = ReconnectBackoff, !.since = 0], FALSE)}

(* While it is not recording the publisher drops packets and reports them  *)
(* as submitted, until a key frame comes, the parameter sets are known and *)
(* the time to wait is over.  A connection that is left from an earlier    *)
(* attempt is not opened again.                                            *)
SubmitToPublisher(s, p) ==
  LET configured == [s EXCEPT !.config = @ \/ p.config]
      attempted == [configured EXCEPT !.early = @ \/ s.since < ReconnectBackoff]
      recording == [attempted EXCEPT !.connected = TRUE, !.recording = TRUE]
      openFails == IF s.connected THEN {} ELSE {BackoffAfter(attempted, d) : d \in 0..ConnectTime}
      handshakeFails == {BackoffAfter([attempted EXCEPT !.connected = FALSE], d) : d \in 0..ConnectTime}
  IN  IF p.codec = "kJpeg" THEN {Outcome(s, FALSE)}
      ELSE IF s.recording THEN Push(configured, p)
      ELSE IF s.wait > 0 \/ ~p.key \/ ~configured.config THEN {Outcome(configured, TRUE)}
      ELSE {Outcome(t, FALSE) : t \in openFails \cup handshakeFails} \cup Push(recording, p)

SubmitToSink(s, p) ==
  LET counted == [s EXCEPT !.seen = @ + 1]
  IN  CASE s.kind = "file" -> SubmitToFile(counted, p)
        [] s.kind = "mp4" -> SubmitToMp4(counted, p)
        [] s.kind = "server" -> SubmitToServer(counted, p)
        [] s.kind = "publisher" -> SubmitToPublisher(counted, p)

-----------------------------------------------------------------------------
(* Opening a sink.                                                         *)

BuildOnvifHttpPortCandidates(port) ==
  {h \in {port + 1, 8080, port + 100} : h <= 65535} \ {0}

(* The first candidate no other daemon listens on, unless starting fails.  *)
EnsureOnvifDaemonRunning(port) ==
  \/ onvif[port] # 0 /\ UNCHANGED onvif
  \/ /\ onvif[port] = 0
     /\ \E h \in {0} \cup (BuildOnvifHttpPortCandidates(port) \ {onvif[q] : q \in Ports}) :
          onvif' = [onvif EXCEPT ![port] = h]

Opened(m, s) ==
  opening' = [opening EXCEPT ![m] = [active |-> TRUE, left |-> Tail(@.left), done |-> Append(@.done, s)]]

(* The code names server and publisher by what the server says of the path.*)
OpenServerSink(m, u) ==
  /\ u.target \notin paths
  /\ paths' = paths \cup {u.target}
  /\ running' = running \cup {u.target.port}
  /\ EnsureOnvifDaemonRunning(u.target.port)
  /\ Opened(m, NewSink("server", u.target))

(* The path is taken, or the server does not start and the path is removed.*)
OpenPublisherSink(m, u) ==
  /\ u.target \in paths \/ u.target.port \notin running
  /\ Opened(m, NewSink("publisher", u.target))
  /\ UNCHANGED <<paths, running, onvif>>

OpenSink(m) ==
  /\ opening[m].active
  /\ opening[m].left # <<>>
  /\ LET u == Head(opening[m].left)
     IN  \/ /\ u.kind # "rtsp"
            /\ Opened(m, NewSink(u.kind, u.target))
            /\ UNCHANGED <<paths, running, onvif>>
         \/ u.kind = "rtsp" /\ (OpenServerSink(m, u) \/ OpenPublisherSink(m, u))
  /\ UNCHANGED sinks

Targets(ss) == {ss[i].target : i \in {j \in DOMAIN ss : ss[j].kind = "server"}}

(* Close of a server sink removes its path.                                *)
CloseNothing(ss) == UNCHANGED paths  \* A plausible error.

CloseSinks(ss) == paths' = paths \ Targets(ss)

OpenSinkFails(m) ==
  /\ opening[m].active
  /\ opening[m].left # <<>>
  /\ Head(opening[m].left).kind # "rtsp"
  /\ CloseSinks(opening[m].done)
  /\ opening' = [opening EXCEPT ![m] = NotOpening]
  /\ UNCHANGED <<sinks, running, onvif>>

OpenDone(m) ==
  /\ opening[m].active
  /\ opening[m].left = <<>>
  /\ sinks' = [sinks EXCEPT ![m] = opening[m].done]
  /\ opening' = [opening EXCEPT ![m] = NotOpening]
  /\ UNCHANGED <<paths, running, onvif>>

-----------------------------------------------------------------------------
(* The calls of a muxer.                                                   *)

CloseMuxer(m) ==
  /\ ~opening[m].active
  /\ CloseSinks(sinks[m])
  /\ sinks' = [sinks EXCEPT ![m] = <<>>]
  /\ UNCHANGED <<opening, running, onvif>>

(* Open closes first, and fails at once without an address.                *)
OpenMuxer(m, uris) ==
  /\ ~opening[m].active
  /\ CloseSinks(sinks[m])
  /\ sinks' = [sinks EXCEPT ![m] = <<>>]
  /\ opening' = [opening EXCEPT ![m] = [active |-> uris # <<>>, left |-> uris, done |-> <<>>]]
  /\ UNCHANGED <<running, onvif>>

(* Every sink is given the packet, whatever the others made of it.         *)
SubmitPacket(m, p) ==
  /\ sinks[m] # <<>>
  /\ \A i \in DOMAIN sinks[m] : sinks[m][i].seen < MaxPackets
  /\ \E r \in [DOMAIN sinks[m] -> UNION {SubmitToSink(sinks[m][i], p) : i \in DOMAIN sinks[m]}] :
       /\ \A i \in DOMAIN sinks[m] : r[i] \in SubmitToSink(sinks[m][i], p)
       /\ sinks' = [sinks EXCEPT ![m] = [i \in DOMAIN sinks[m] |-> r[i].sink]]
  /\ UNCHANGED <<opening, paths, running, onvif>>

-----------------------------------------------------------------------------
(* The environment: a publisher's connection breaks, time passes.          *)

PublisherLost(m, i) ==
  /\ sinks[m][i].connected
  /\ sinks' = [sinks EXCEPT ![m][i].connected = FALSE, ![m][i].recording = FALSE]
  /\ UNCHANGED <<opening, paths, running, onvif>>

TimePasses(m) ==
  /\ \E i \in DOMAIN sinks[m] : sinks[m][i].kind = "publisher"
  /\ sinks' = [sinks EXCEPT ![m] = [i \in DOMAIN sinks[m] |->
       [sinks[m][i] EXCEPT !.wait = Max2(0, @ - 1),
                           !.since = IF @ < ReconnectBackoff THEN @ + 1 ELSE @]]]
  /\ UNCHANGED <<opening, paths, running, onvif>>

-----------------------------------------------------------------------------
MuxerInit ==
  /\ sinks = [m \in Muxers |-> <<>>]
  /\ opening = [m \in Muxers |-> NotOpening]
  /\ paths = {}
  /\ running = {}
  /\ onvif = [port \in Ports |-> 0]

MuxerNext ==
  \E m \in Muxers :
    \/ \E n \in 0..2 : \E uris \in [1..n -> SinkUris] : OpenMuxer(m, uris)  \* Bound: two sinks.
    \/ OpenSink(m) \/ OpenSinkFails(m) \/ OpenDone(m) \/ CloseMuxer(m)
    \/ \E p \in Packets : SubmitPacket(m, p)
    \/ \E i \in DOMAIN sinks[m] : PublisherLost(m, i)
    \/ TimePasses(m)

MuxerSpec == MuxerInit /\ [][MuxerNext]_muxerVars

-----------------------------------------------------------------------------
(* Properties.                                                             *)

(* The time stamps an RTSP sink hands on rise from packet to packet, in    *)
(* milliseconds too, as clients demand: over loops, repeats and resets of  *)
(* the input, reordered frames, lost connections and failed pushes, for as *)
(* long as the muxer stays open.                                           *)
StampsRise ==
  [][\A m \in Muxers : \A i \in DOMAIN sinks[m] \cap DOMAIN sinks'[m] :
       LET s == sinks[m][i]
           t == sinks'[m][i]
       IN  s.last # -1 /\ t.last # -1 /\ t.last # s.last => RoundToMs(t.last) > RoundToMs(s.last)]_muxerVars

(* The paths on the servers are those of the server sinks, one sink each:  *)
(* none is left behind by an Open that fails half way or by Close, and no  *)
(* muxer removes the path another one serves.                              *)
ServerSinks ==
  UNION {{<<m, "open", i>> : i \in {j \in DOMAIN sinks[m] : sinks[m][j].kind = "server"}}
         \cup {<<m, "opening", i>> : i \in {j \in DOMAIN opening[m].done : opening[m].done[j].kind = "server"}}
         : m \in Muxers}
PathsOwned ==
  /\ paths = UNION {Targets(sinks[m]) \cup Targets(opening[m].done) : m \in Muxers}
  /\ Cardinality(ServerSinks) = Cardinality(paths)

(* A publisher that failed to connect, or lost its server while sending,   *)
(* leaves it alone for ReconnectBackoff, counted from the attempt's start, *)
(* and takes no other sink's packets away meanwhile.                       *)
AttemptsSpaced ==
  \A m \in Muxers : \A i \in DOMAIN sinks[m] :
    ~sinks[m][i].early /\ \A j \in DOMAIN sinks[m] : sinks[m][i].seen = sinks[m][j].seen

(* The clock of an MP4 track stays with the time of the stream: for each   *)
(* sample half a tick behind at most, and one tick ahead at most, whatever *)
(* the durations.                                                          *)
Mp4ClockKept ==
  \A m \in Muxers : \A i \in DOMAIN sinks[m] :
    LET s == sinks[m][i]
        ticks == s.samples * UsPerSecond
    IN  -ticks <= 2 * s.drift /\ s.drift <= ticks
=============================================================================
