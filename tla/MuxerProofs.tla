----------------------------- MODULE MuxerProofs -----------------------------
(***************************************************************************)
(* What a sink may rely on of the muxer: time stamps that rise, attempts to*)
(* connect that keep their distance, an MP4 clock of bounded error, and a  *)
(* path of its own on the server it uses, for any muxers, packets, sinks   *)
(* and rates that satisfy MuxerAssumption.                                 *)
(***************************************************************************)
EXTENDS Muxer, FunctionTheorems, FiniteSetTheorems, TLAPS

(***************************************************************************)
(* The inductive invariant, sink by sink.                                  *)
(***************************************************************************)
Sinks == [kind : {"file", "mp4", "server", "publisher"}, target : {u.target : u \in SinkUris},
          seen : Nat, last : Nat \cup {-1}, offset : Nat, drift : Int, samples : Nat, config : BOOLEAN,
          connected : BOOLEAN, recording : BOOLEAN, wait : Nat, since : Nat, early : BOOLEAN]

ClockOf(s) == -(s.samples * UsPerSecond) <= 2 * s.drift /\ s.drift <= s.samples * UsPerSecond

(* Before the wait is over the latest failure is not ReconnectBackoff old. *)
Spaced(s) == ~s.early /\ s.wait + s.since >= ReconnectBackoff

SinkInv(s) == ClockOf(s) /\ Spaced(s)

MuxerTypes ==
  /\ sinks \in [Muxers -> Seq(Sinks)]
  /\ opening \in [Muxers -> [active : BOOLEAN, left : Seq(SinkUris), done : Seq(Sinks)]]

SinksInv ==
  \A m \in Muxers :
    /\ \A i \in DOMAIN sinks[m] : SinkInv(sinks[m][i])
    /\ \A i, j \in DOMAIN sinks[m] : sinks[m][i].seen = sinks[m][j].seen

OpeningInv ==
  \A m \in Muxers :
    /\ opening[m].active => sinks[m] = <<>>
    /\ \A i \in DOMAIN opening[m].done : SinkInv(opening[m].done[i]) /\ opening[m].done[i].seen = 0

MuxerInv == MuxerTypes /\ SinksInv /\ OpeningInv

(* How the time stamp of a sink may change.                                *)
Rises(s, t) == s.last # -1 => t.last = s.last \/ t.last >= s.last + StepUs

-----------------------------------------------------------------------------
(* Arithmetic.                                                             *)

LEMMA Quotient ==
  ASSUME NEW x \in Nat, NEW n \in Nat \ {0}
  PROVE  x \div n \in Nat /\ n * (x \div n) <= x /\ x < n * (x \div n) + n
OBVIOUS

(* Time stamps a millisecond apart are different in milliseconds.          *)
LEMMA RoundRises ==
  ASSUME NEW a \in Nat, NEW b \in Nat, b >= a + UsPerMs
  PROVE  RoundToMs(b) > RoundToMs(a)
<1>1. UsPerMs \in Nat \ {0}
  BY MuxerAssumption DEF MuxerAssumption
<1>2. UsPerMs \div 2 \in Nat
  BY <1>1
<1> DEFINE h == UsPerMs \div 2
<1> HIDE DEF h
<1>3. ASSUME NEW n \in Nat \ {0}, NEW x \in Nat, NEW y \in Nat, y >= x + n
      PROVE  y \div n > x \div n
  <2>1. /\ x \div n \in Nat /\ n * (x \div n) <= x
        /\ y \div n \in Nat /\ y < n * (y \div n) + n
    BY Quotient
  <2> DEFINE q == x \div n
             r == y \div n
  <2> HIDE DEF q, r
  <2>2. q \in Nat /\ r \in Nat /\ n * q + n < n * r + n
    BY <1>3, <2>1 DEF q, r
  <2>3. ASSUME r <= q
        PROVE  n * r <= n * q
    BY <2>2, <2>3
  <2>4. r > q
    BY <2>2, <2>3
  <2> QED
    BY <2>4 DEF q, r
<1>4. a + h \in Nat /\ b + h \in Nat /\ b + h >= (a + h) + UsPerMs
  BY <1>1, <1>2 DEF h
<1>5. (b + h) \div UsPerMs > (a + h) \div UsPerMs
  BY <1>1, <1>3, <1>4
<1> QED
  BY <1>5 DEF RoundToMs, h

(* A tick count is wrong by half a tick, or short samples get one tick.    *)
LEMMA RoundedDuration ==
  ASSUME NEW d \in Nat
  PROVE  /\ DurationTo90kHz(d) \in Nat
         /\ -UsPerSecond <= 2 * (DurationTo90kHz(d) * UsPerSecond - d * ClockRate)
         /\ DurationTo90kHz(d) * UsPerSecond - d * ClockRate <= UsPerSecond
<1>1. UsPerSecond \in Nat \ {0} /\ d * ClockRate \in Nat
  BY MuxerAssumption DEF MuxerAssumption
<1>2. ASSUME NEW x \in Nat, NEW n \in Nat \ {0},
             NEW q \in Nat, q = (x + n \div 2) \div n
      PROVE  /\ -n <= 2 * (Max2(1, q) * n - x)
             /\ Max2(1, q) * n - x <= n
  <2>1. n \div 2 \in Nat /\ 2 * (n \div 2) <= n /\ n < 2 * (n \div 2) + 2
    OBVIOUS
  <2>2. n * q <= x + n \div 2 /\ x + n \div 2 < n * q + n
    BY <1>2, <2>1, Quotient
  <2>3. n * q \in Nat /\ n * q = q * n
    OBVIOUS
  <2>4. CASE q >= 1
    <3>1. Max2(1, q) = q
      BY <2>4 DEF Max2
    <3> QED
      BY <2>1, <2>2, <2>3, <3>1
  <2>5. CASE q = 0
    <3>1. Max2(1, q) = 1
      BY <2>5 DEF Max2
    <3>2. n * q = 0
      BY <2>5
    <3> QED
      BY <2>1, <2>2, <3>1, <3>2
  <2> QED
    BY <2>4, <2>5
<1> DEFINE q == (d * ClockRate + UsPerSecond \div 2) \div UsPerSecond
<1>3. q \in Nat
  BY <1>1, Quotient
<1>4. Max2(1, q) \in Nat
  BY <1>3 DEF Max2
<1> QED
  BY <1>1, <1>2, <1>3, <1>4 DEF DurationTo90kHz

-----------------------------------------------------------------------------
(* What a packet does to one sink.                                         *)

(* A packet changes neither what a sink is nor where it leads.             *)
Same(s, t) == t.kind = s.kind /\ t.target = s.target /\ t.seen = s.seen

Accepted(s, t) ==
  t \in Sinks /\ SinkInv(t) /\ Rises(s, t) /\ Same(s, t)

LEMMA Constants ==
  /\ UsPerSecond \in Nat \ {0} /\ UsPerMs \in Nat \ {0} /\ ClockRate \in Nat \ {0}
  /\ ReconnectBackoff \in Nat \ {0} /\ StepUs \in Nat /\ StepUs >= UsPerMs /\ ConnectTime \in Nat
  /\ \A p \in Packets : p.pts \in Nat /\ p.dur \in Nat /\ p.config \in BOOLEAN
BY MuxerAssumption DEF MuxerAssumption

(* The next time stamp is at least a frame after the last one.             *)
LEMMA MonotonicPts ==
  ASSUME NEW s \in Sinks, NEW pts \in Nat
  PROVE  /\ ToMonotonicPts(s, pts).last \in Nat
         /\ ToMonotonicPts(s, pts).offset \in Nat
         /\ s.last # -1 => ToMonotonicPts(s, pts).last >= s.last + StepUs
BY Constants DEF ToMonotonicPts, Max2, Sinks

LEMMA StampedAccepted ==
  ASSUME NEW s \in Sinks, SinkInv(s), NEW pts \in Nat
  PROVE  LET u == ToMonotonicPts(s, pts)
         IN  Accepted(s, [s EXCEPT !.last = u.last, !.offset = u.offset])
<1> DEFINE u == ToMonotonicPts(s, pts)
           t == [s EXCEPT !.last = u.last, !.offset = u.offset]
<1>1. u.last \in Nat /\ u.offset \in Nat /\ (s.last # -1 => u.last >= s.last + StepUs)
  BY MonotonicPts
<1> HIDE DEF u
<1>2. t \in Sinks /\ t.last = u.last /\ Same(s, t)
  BY <1>1 DEF Sinks, Same
<1>3. SinkInv(t)
  BY DEF SinkInv, ClockOf, Spaced, Sinks
<1> QED
  BY <1>1, <1>2, <1>3 DEF Accepted, Same, Rises, u

LEMMA Mp4Accepted ==
  ASSUME NEW s \in Sinks, SinkInv(s), NEW p \in Packets, NEW o \in SubmitToMp4(s, p)
  PROVE  Accepted(s, o.sink)
<1> DEFINE d == IF p.dur = 0 THEN StepUs ELSE p.dur
           configured == [s EXCEPT !.config = @ \/ p.config]
           extra == DurationTo90kHz(d) * UsPerSecond - d * ClockRate
           counted == [configured EXCEPT !.samples = @ + 1, !.drift = @ + extra]
<1>1. d \in Nat
  BY Constants
<1>2. extra \in Int /\ -UsPerSecond <= 2 * extra /\ extra <= UsPerSecond
  <2>1. DurationTo90kHz(d) \in Nat /\ UsPerSecond \in Nat /\ ClockRate \in Nat
    BY <1>1, RoundedDuration, Constants
  <2>2. DurationTo90kHz(d) * UsPerSecond \in Int /\ d * ClockRate \in Int
    BY <1>1, <2>1
  <2> QED
    BY <1>1, <2>2, RoundedDuration
<1>3. (s.config \/ p.config) \in BOOLEAN
  OBVIOUS
<1>4. /\ configured \in Sinks /\ configured.samples = s.samples /\ configured.drift = s.drift
      /\ configured.wait = s.wait /\ configured.since = s.since /\ configured.early = s.early
      /\ configured.last = s.last /\ Same(s, configured)
  BY <1>3 DEF Sinks, Same
<1> HIDE DEF configured, extra, d
<1>5. Accepted(s, configured)
  BY <1>4 DEF Accepted, Same, SinkInv, ClockOf, Spaced, Rises
<1>6. Accepted(s, counted)
  <2>1. /\ counted \in Sinks /\ counted.samples = s.samples + 1 /\ counted.drift = s.drift + extra
        /\ counted.wait = s.wait /\ counted.since = s.since /\ counted.early = s.early
        /\ counted.last = s.last /\ Same(s, counted)
    <3>1. configured.samples + 1 \in Nat /\ configured.drift + extra \in Int
      BY <1>2, <1>4 DEF Sinks
    <3>2. /\ counted \in Sinks /\ counted.samples = configured.samples + 1
          /\ counted.drift = configured.drift + extra
      BY <1>4, <3>1 DEF Sinks
    <3>3. /\ counted.wait = configured.wait /\ counted.since = configured.since
          /\ counted.early = configured.early /\ counted.last = configured.last /\ Same(configured, counted)
      BY <1>4 DEF Sinks, Same
    <3> HIDE DEF counted
    <3> QED
      BY <1>4, <3>2, <3>3 DEF Same
  <2>2. ClockOf(counted)
    <3>1. s.samples \in Nat /\ s.drift \in Int /\ UsPerSecond \in Nat
      BY Constants DEF Sinks
    <3>2. (s.samples + 1) * UsPerSecond = s.samples * UsPerSecond + UsPerSecond
      BY <3>1
    <3>3. s.samples * UsPerSecond \in Nat
      BY <3>1
    <3>4. -(s.samples * UsPerSecond) <= 2 * s.drift /\ s.drift <= s.samples * UsPerSecond
      BY DEF SinkInv, ClockOf
    <3> HIDE DEF counted
    <3> QED
      BY <1>2, <2>1, <3>1, <3>2, <3>3, <3>4 DEF ClockOf
  <2> QED
    BY <2>1, <2>2 DEF Accepted, Same, SinkInv, Spaced, Rises
<1>7. s \in Sinks /\ Accepted(s, s)
  BY DEF Accepted, Same, Rises
<1>8. o.sink \in {s, configured, counted}
  BY DEF SubmitToMp4, Outcome, configured, extra, d
<1> QED
  BY <1>5, <1>6, <1>7, <1>8

LEMMA ServerAccepted ==
  ASSUME NEW s \in Sinks, SinkInv(s), NEW p \in Packets, NEW o \in SubmitToServer(s, p)
  PROVE  Accepted(s, o.sink)
<1>1. p.pts \in Nat
  BY Constants
<1> DEFINE u == ToMonotonicPts(s, p.pts)
<1>2. Accepted(s, [s EXCEPT !.last = u.last, !.offset = u.offset])
  BY <1>1, StampedAccepted
<1>3. o.sink = [s EXCEPT !.last = u.last, !.offset = u.offset]
  BY DEF SubmitToServer, Outcome
<1> QED
  BY <1>2, <1>3

(* Pushing to a server that goes away starts a new wait.                   *)
LEMMA PushAccepted ==
  ASSUME NEW s \in Sinks, SinkInv(s), NEW p \in Packets, NEW o \in Push(s, p)
  PROVE  Accepted(s, o.sink)
<1> DEFINE u == ToMonotonicPts(s, p.pts)
           stamped == [s EXCEPT !.last = u.last, !.offset = u.offset]
           lost == [stamped EXCEPT !.recording = FALSE, !.connected = FALSE,
                                   !.wait = ReconnectBackoff, !.since = 0]
<1>1. Accepted(s, stamped)
  <2>1. p.pts \in Nat
    BY Constants
  <2> QED
    BY <2>1, StampedAccepted
<1> HIDE DEF stamped
<1>2. Accepted(s, lost)
  <2>1. stamped \in Sinks
    BY <1>1 DEF Accepted, Same
  <2>2. lost \in Sinks /\ lost.wait = ReconnectBackoff /\ lost.since = 0
    BY <2>1, Constants DEF Sinks, Same
  <2>3. /\ lost.samples = stamped.samples /\ lost.drift = stamped.drift /\ lost.early = stamped.early
        /\ lost.last = stamped.last /\ Same(stamped, lost)
    BY <2>1 DEF Sinks, Same
  <2> HIDE DEF lost
  <2> QED
    BY <1>1, <2>2, <2>3, Constants DEF Accepted, Same, SinkInv, ClockOf, Spaced, Rises
<1>3. o.sink \in {stamped, lost}
  BY DEF Push, Outcome, stamped
<1> QED
  BY <1>1, <1>2, <1>3

(* An attempt is made only after the wait, so it is not early.             *)
LEMMA PublisherAccepted ==
  ASSUME NEW s \in Sinks, SinkInv(s), NEW p \in Packets, NEW o \in SubmitToPublisher(s, p)
  PROVE  Accepted(s, o.sink)
<1> DEFINE configured == [s EXCEPT !.config = @ \/ p.config]
           attempted == [configured EXCEPT !.early = @ \/ s.since < ReconnectBackoff]
           recording == [attempted EXCEPT !.connected = TRUE, !.recording = TRUE]
           gone == [attempted EXCEPT !.connected = FALSE]
<1>1. Accepted(s, s)
  BY DEF Accepted, Same, Rises
<1>2. Accepted(s, configured) /\ configured.last = s.last /\ Same(s, configured)
  <2>1. (s.config \/ p.config) \in BOOLEAN
    OBVIOUS
  <2>2. /\ configured \in Sinks /\ configured.samples = s.samples /\ configured.drift = s.drift
        /\ configured.wait = s.wait /\ configured.since = s.since /\ configured.early = s.early
        /\ configured.last = s.last /\ Same(s, configured)
    BY <2>1 DEF Sinks, Same
  <2> HIDE DEF configured
  <2> QED
    BY <2>2 DEF Accepted, Same, SinkInv, ClockOf, Spaced, Rises
<1>3. CASE s.recording
  <2>1. p.codec # "kJpeg" => o \in Push(configured, p)
    BY <1>3 DEF SubmitToPublisher
  <2>2. p.codec = "kJpeg" => o.sink = s
    BY DEF SubmitToPublisher, Outcome
  <2> HIDE DEF configured
  <2>3. o \in Push(configured, p) => Accepted(configured, o.sink)
    BY <1>2, PushAccepted DEF Accepted, Same
  <2> QED
    BY <1>1, <1>2, <2>1, <2>2, <2>3 DEF Accepted, Same, Rises
<1>4. CASE ~s.recording /\ s.wait > 0
  BY <1>1, <1>2, <1>4 DEF SubmitToPublisher, Outcome
<1>5. CASE ~s.recording /\ ~(s.wait > 0)
  <2>1. s.wait = 0 /\ s.since >= ReconnectBackoff /\ ~s.early
    BY <1>5, Constants DEF SinkInv, Spaced, Sinks
  <2>2. (s.early \/ s.since < ReconnectBackoff) = FALSE
    BY <2>1, Constants DEF Sinks, Same
  <2>3. attempted = [configured EXCEPT !.early = FALSE]
    <3>1. configured.early = s.early
      BY DEF Sinks, Same
    <3> QED
      BY <2>2, <3>1
  <2> HIDE DEF attempted, configured
  <2>4. Accepted(s, attempted)
    BY <1>2, <2>3 DEF Accepted, Same, Sinks, SinkInv, ClockOf, Spaced, Rises
  <2>5. Accepted(s, gone)
    BY <2>4 DEF Accepted, Same, Sinks, SinkInv, ClockOf, Spaced, Rises
  <2>6. Accepted(s, recording)
    BY <2>4 DEF Accepted, Same, Sinks, SinkInv, ClockOf, Spaced, Rises
  <2> HIDE DEF gone, recording
  <2>7. ASSUME NEW t, Accepted(s, t), NEW e \in 0..ConnectTime
        PROVE  Accepted(s, BackoffAfter(t, e))
    <3>1. Max2(0, ReconnectBackoff - e) \in Nat /\ Max2(0, ReconnectBackoff - e) + e >= ReconnectBackoff
      BY Constants DEF Max2
    <3>2. e \in Nat
      BY Constants
    <3> DEFINE w == Max2(0, ReconnectBackoff - e)
    <3> HIDE DEF w
    <3> QED
      BY <2>7, <3>1, <3>2 DEF BackoffAfter, Accepted, Same, Sinks, SinkInv, ClockOf, Spaced, Rises, w
  <2>8. ASSUME NEW q \in Push(recording, p)
        PROVE  Accepted(s, q.sink)
    <3>1. Accepted(recording, q.sink)
      BY <2>6, <2>8, PushAccepted DEF Accepted, Same
    <3>2. recording.last = s.last /\ Same(s, recording)
      BY <1>2, <2>3 DEF recording, Accepted, Same, Sinks
    <3> QED
      BY <3>1, <3>2 DEF Accepted, Same, Rises
  <2>9. \/ o.sink \in {s, configured} \/ o \in Push(recording, p)
        \/ \E e \in 0..ConnectTime : o.sink \in {BackoffAfter(attempted, e), BackoffAfter(gone, e)}
    BY <1>5 DEF SubmitToPublisher, Outcome, configured, attempted, recording, gone
  <2> QED
    BY <1>1, <1>2, <2>4, <2>5, <2>7, <2>8, <2>9
<1>6. s.wait \in Nat
  BY DEF Sinks, Same
<1> QED
  BY <1>3, <1>4, <1>5, <1>6

LEMMA SinkAccepts ==
  ASSUME NEW s \in Sinks, SinkInv(s), NEW p \in Packets, NEW o \in SubmitToSink(s, p)
  PROVE  /\ o.sink \in Sinks /\ SinkInv(o.sink) /\ Rises(s, o.sink) /\ o.sink.seen = s.seen + 1
         /\ o.sink.kind = s.kind /\ o.sink.target = s.target
<1> DEFINE counted == [s EXCEPT !.seen = @ + 1]
<1>1. counted \in Sinks /\ SinkInv(counted) /\ counted.seen = s.seen + 1 /\ counted.last = s.last
      /\ counted.kind = s.kind /\ counted.target = s.target
  BY DEF Sinks, SinkInv, ClockOf, Spaced
<1> HIDE DEF counted
<1>2. \/ o \in SubmitToFile(counted, p) \/ o \in SubmitToMp4(counted, p)
      \/ o \in SubmitToServer(counted, p) \/ o \in SubmitToPublisher(counted, p)
  BY <1>1 DEF SubmitToSink, Sinks, counted
<1>3. ASSUME o \in SubmitToFile(counted, p)
      PROVE  Accepted(counted, o.sink)
  BY <1>1, <1>3 DEF SubmitToFile, Outcome, Accepted, Rises, Same
<1>4. Accepted(counted, o.sink)
  BY <1>1, <1>2, <1>3, Mp4Accepted, ServerAccepted, PublisherAccepted
<1> QED
  BY <1>1, <1>4 DEF Accepted, Rises, Same

-----------------------------------------------------------------------------
(* The steps.                                                              *)

LEMMA NewSinkInv ==
  ASSUME NEW u \in SinkUris, NEW kind \in {"file", "mp4", "server", "publisher"}
  PROVE  NewSink(kind, u.target) \in Sinks /\ SinkInv(NewSink(kind, u.target)) /\ NewSink(kind, u.target).seen = 0
BY Constants DEF NewSink, Sinks, SinkInv, ClockOf, Spaced

(* The sinks of a muxer change without receiving a packet.                *)
Quiet(m) ==
  \E new \in Seq(Sinks) :
    /\ sinks' = [sinks EXCEPT ![m] = new]
    /\ DOMAIN new = DOMAIN sinks[m]
    /\ \A i \in DOMAIN new : /\ SinkInv(new[i]) /\ new[i].last = sinks[m][i].last
                             /\ Same(sinks[m][i], new[i])

LEMMA FunctionIsSeq ==
  ASSUME NEW S, NEW n \in Nat, NEW f \in [1..n -> S]
  PROVE  f \in Seq(S)
OBVIOUS

(* What a step does to the sinks' time stamps.                             *)
StepRises ==
  \A m \in Muxers : \A i \in DOMAIN sinks[m] \cap DOMAIN sinks'[m] :
    /\ sinks[m][i] \in Sinks /\ sinks'[m][i] \in Sinks
    /\ Rises(sinks[m][i], sinks'[m][i])

(* A step that neither adds sinks nor takes any away.                      *)
SameSinks ==
  /\ opening' = opening /\ paths' = paths
  /\ \A m \in Muxers : /\ DOMAIN sinks'[m] = DOMAIN sinks[m]
                       /\ \A i \in DOMAIN sinks[m] : /\ sinks'[m][i].kind = sinks[m][i].kind
                                                      /\ sinks'[m][i].target = sinks[m][i].target

LEMMA SubmitPacketInv ==
  ASSUME MuxerInv, NEW m \in Muxers, NEW p \in Packets, SubmitPacket(m, p)
  PROVE  MuxerInv' /\ StepRises /\ SameSinks
<1> USE DEF MuxerInv, MuxerTypes
<1>1. PICK r \in [DOMAIN sinks[m] -> UNION {SubmitToSink(sinks[m][i], p) : i \in DOMAIN sinks[m]}] :
        /\ \A i \in DOMAIN sinks[m] : r[i] \in SubmitToSink(sinks[m][i], p)
        /\ sinks' = [sinks EXCEPT ![m] = [i \in DOMAIN sinks[m] |-> r[i].sink]]
  BY DEF SubmitPacket
<1>2. sinks[m] \in Seq(Sinks) /\ opening' = opening /\ sinks[m] # <<>>
  BY DEF SubmitPacket
<1>3. ASSUME NEW i \in DOMAIN sinks[m]
      PROVE  /\ r[i].sink \in Sinks /\ SinkInv(r[i].sink) /\ Rises(sinks[m][i], r[i].sink)
             /\ r[i].sink.seen = sinks[m][i].seen + 1
             /\ r[i].sink.kind = sinks[m][i].kind /\ r[i].sink.target = sinks[m][i].target
  <2>1. sinks[m][i] \in Sinks /\ SinkInv(sinks[m][i])
    BY <1>2 DEF SinksInv
  <2> QED
    BY <1>1, <2>1, SinkAccepts
<1> DEFINE new == [i \in DOMAIN sinks[m] |-> r[i].sink]
<1>4. new \in Seq(Sinks) /\ DOMAIN new = DOMAIN sinks[m]
  <2>1. DOMAIN sinks[m] = 1..Len(sinks[m]) /\ Len(sinks[m]) \in Nat
    BY <1>2
  <2>2. new \in [1..Len(sinks[m]) -> Sinks]
    BY <1>3, <2>1
  <2> QED
    BY <2>1, <2>2
<1>5. \A i \in DOMAIN new : new[i] = r[i].sink
  OBVIOUS
<1> HIDE DEF new
<1>6. sinks'[m] = new /\ \A k \in Muxers \ {m} : sinks'[k] = sinks[k]
  BY <1>1 DEF new
<1>7. sinks' \in [Muxers -> Seq(Sinks)]
  BY <1>1, <1>4 DEF new
<1>8. SinksInv'
  <2>1. ASSUME NEW i \in DOMAIN new, NEW j \in DOMAIN new
        PROVE  SinkInv(new[i]) /\ new[i].seen = new[j].seen
    <3>1. i \in DOMAIN sinks[m] /\ j \in DOMAIN sinks[m]
      BY <1>4
    <3>2. sinks[m][i].seen = sinks[m][j].seen
      BY <3>1 DEF SinksInv
    <3>3. SinkInv(r[i].sink) /\ r[i].sink.seen = r[j].sink.seen
      BY <1>3, <3>1, <3>2
    <3> QED
      BY <1>5, <3>3
  <2>2. ASSUME NEW k \in Muxers, NEW i \in DOMAIN sinks'[k], NEW j \in DOMAIN sinks'[k]
        PROVE  SinkInv(sinks'[k][i]) /\ sinks'[k][i].seen = sinks'[k][j].seen
    <3>1. CASE k = m
      BY <1>6, <2>1, <2>2, <3>1
    <3>2. CASE k # m
      <4>1. sinks'[k] = sinks[k]
        BY <1>6, <3>2
      <4> QED
        BY <2>2, <4>1 DEF SinksInv
    <3> QED
      BY <3>1, <3>2
  <2> QED
    BY <2>2 DEF SinksInv, SinkInv, ClockOf, Spaced
<1>9. OpeningInv'
  BY <1>2, <1>6 DEF OpeningInv
<1>10. StepRises
  <2>1. ASSUME NEW k \in Muxers \ {m}, NEW i \in DOMAIN sinks[k] \cap DOMAIN sinks'[k]
        PROVE  sinks[k][i] \in Sinks /\ sinks'[k][i] \in Sinks /\ Rises(sinks[k][i], sinks'[k][i])
    BY <1>6, <2>1 DEF Rises
  <2>2. ASSUME NEW i \in DOMAIN sinks[m] \cap DOMAIN sinks'[m]
        PROVE  sinks[m][i] \in Sinks /\ sinks'[m][i] \in Sinks /\ Rises(sinks[m][i], sinks'[m][i])
    <3>1. i \in DOMAIN sinks[m] /\ sinks'[m][i] = r[i].sink
      BY <1>4, <1>5, <1>6
    <3>2. sinks[m][i] \in Sinks
      BY <1>2, <3>1
    <3> QED
      BY <1>3, <3>1, <3>2
  <2> QED
    BY <2>1, <2>2 DEF StepRises
<1>11. SameSinks
  <2>1. opening' = opening /\ paths' = paths
    BY DEF SubmitPacket
  <2>2. ASSUME NEW k \in Muxers
        PROVE  /\ DOMAIN sinks'[k] = DOMAIN sinks[k]
               /\ \A i \in DOMAIN sinks[k] : /\ sinks'[k][i].kind = sinks[k][i].kind
                                             /\ sinks'[k][i].target = sinks[k][i].target
    <3>1. CASE k = m
      BY <1>3, <1>4, <1>5, <1>6, <3>1
    <3>2. CASE k # m
      BY <1>6, <3>2
    <3> QED
      BY <3>1, <3>2
  <2> QED
    BY <2>1, <2>2 DEF SameSinks
<1> QED
  BY <1>2, <1>7, <1>8, <1>9, <1>10, <1>11

(* Nothing rises where all sinks of a muxer are replaced.                  *)
LEMMA OpenInv ==
  ASSUME MuxerInv, NEW m \in Muxers,
         \/ CloseMuxer(m)
         \/ \E n \in 0..2 : \E uris \in [1..n -> SinkUris] : OpenMuxer(m, uris)
  PROVE  MuxerInv' /\ StepRises
<1> USE DEF MuxerInv, MuxerTypes
<1>1. sinks' = [sinks EXCEPT ![m] = <<>>]
  BY DEF CloseMuxer, OpenMuxer
<1>2. sinks' \in [Muxers -> Seq(Sinks)]
  BY <1>1
<1> DEFINE Opens ==
             /\ opening' \in [Muxers -> [active : BOOLEAN, left : Seq(SinkUris), done : Seq(Sinks)]]
             /\ \A k \in Muxers : opening'[k].done = opening[k].done \/ opening'[k].done = <<>>
             /\ \A k \in Muxers : opening'[k].active => k = m \/ opening[k].active
<1>3. Opens
  <2>1. CASE CloseMuxer(m)
    BY <2>1 DEF CloseMuxer
  <2>2. ASSUME NEW n \in 0..2, NEW uris \in [1..n -> SinkUris], OpenMuxer(m, uris)
        PROVE  Opens
    <3>1. uris \in Seq(SinkUris) /\ <<>> \in Seq(Sinks)
      OBVIOUS
    <3>2. (uris # <<>>) \in BOOLEAN
      OBVIOUS
    <3> DEFINE new == [active |-> uris # <<>>, left |-> uris, done |-> <<>>]
    <3>3. new \in [active : BOOLEAN, left : Seq(SinkUris), done : Seq(Sinks)] /\ new.done = <<>>
      BY <3>1, <3>2
    <3>4. opening' = [opening EXCEPT ![m] = new]
      BY <2>2 DEF OpenMuxer
    <3> HIDE DEF new
    <3> QED
      BY <3>3, <3>4
  <2> QED
    BY <2>1, <2>2
<1>4. SinksInv'
  BY <1>1 DEF SinksInv
<1>5. OpeningInv'
  <2>1. ASSUME NEW k \in Muxers, opening'[k].active
        PROVE  sinks'[k] = <<>>
    BY <1>1, <1>3, <2>1 DEF OpeningInv
  <2>2. ASSUME NEW k \in Muxers, NEW i \in DOMAIN opening'[k].done
        PROVE  SinkInv(opening'[k].done[i]) /\ opening'[k].done[i].seen = 0
    BY <1>3, <2>2 DEF OpeningInv
  <2> QED
    BY <2>1, <2>2 DEF OpeningInv, SinkInv, ClockOf, Spaced
<1>6. StepRises
  BY <1>1 DEF StepRises, Rises
<1> QED
  BY <1>2, <1>3, <1>4, <1>5, <1>6

LEMMA OpenSinkInv ==
  ASSUME MuxerInv, NEW m \in Muxers, OpenSink(m) \/ OpenSinkFails(m)
  PROVE  MuxerInv' /\ StepRises
<1> USE DEF MuxerInv, MuxerTypes
<1>1. sinks' = sinks /\ opening[m].active
  BY DEF OpenSink, OpenSinkFails
<1>2. SinksInv' /\ StepRises
  BY <1>1 DEF SinksInv, StepRises, Rises
<1>3. CASE OpenSinkFails(m)
  BY <1>1, <1>2, <1>3 DEF OpenSinkFails, NotOpening, OpeningInv
<1>4. CASE OpenSink(m)
  <2>1. opening[m].left \in Seq(SinkUris) /\ opening[m].left # <<>>
    BY <1>4 DEF OpenSink
  <2>2. PICK u \in SinkUris, kind \in {"file", "mp4", "server", "publisher"} : Opened(m, NewSink(kind, u.target))
    <3>1. Head(opening[m].left) \in SinkUris
      BY <2>1
    <3> QED
      BY <1>4, <3>1, MuxerAssumption
         DEF OpenSink, OpenServerSink, OpenPublisherSink, MuxerAssumption
  <2> DEFINE s == NewSink(kind, u.target)
  <2>3. s \in Sinks /\ SinkInv(s) /\ s.seen = 0
    BY NewSinkInv
  <2> HIDE DEF s
  <2> DEFINE old == opening[m].done
             done == Append(old, s)
  <2>4. /\ old \in Seq(Sinks) /\ done \in Seq(Sinks) /\ Tail(opening[m].left) \in Seq(SinkUris)
        /\ DOMAIN done = 1..(Len(old) + 1) /\ DOMAIN old = 1..Len(old)
        /\ \A i \in 1..Len(old) : done[i] = old[i]
        /\ done[Len(old) + 1] = s
    BY <2>1, <2>3
  <2>5. opening' = [opening EXCEPT ![m] = [active |-> TRUE, left |-> Tail(@.left), done |-> Append(@.done, s)]]
    BY <2>2 DEF Opened, s
  <2>6. /\ opening' \in [Muxers -> [active : BOOLEAN, left : Seq(SinkUris), done : Seq(Sinks)]]
        /\ opening'[m].done = done /\ opening'[m].active = opening[m].active
        /\ \A k \in Muxers \ {m} : opening'[k] = opening[k]
    <3> DEFINE new == [active |-> TRUE, left |-> Tail(opening[m].left), done |-> done]
    <3>1. /\ new \in [active : BOOLEAN, left : Seq(SinkUris), done : Seq(Sinks)]
          /\ new.done = done /\ new.active = opening[m].active
      BY <1>1, <2>4
    <3>2. opening' = [opening EXCEPT ![m] = new]
      BY <2>5
    <3> HIDE DEF new, done
    <3> QED
      BY <3>1, <3>2
  <2>7. \A i \in DOMAIN done : SinkInv(done[i]) /\ done[i].seen = 0
    <3>1. \A i \in DOMAIN old : SinkInv(old[i]) /\ old[i].seen = 0
      BY DEF OpeningInv
    <3>2. ASSUME NEW i \in DOMAIN done
          PROVE  i \in DOMAIN old \/ i = Len(old) + 1
      BY <2>4
    <3> QED
      BY <2>3, <2>4, <3>1, <3>2
  <2> HIDE DEF done
  <2>8. OpeningInv'
    <3>1. ASSUME NEW k \in Muxers, opening'[k].active
          PROVE  sinks'[k] = <<>>
      BY <1>1, <2>6, <3>1 DEF OpeningInv
    <3>2. ASSUME NEW k \in Muxers, NEW i \in DOMAIN opening'[k].done
          PROVE  SinkInv(opening'[k].done[i]) /\ opening'[k].done[i].seen = 0
      BY <2>6, <2>7, <3>2, ZenonT(60) DEF OpeningInv
    <3> QED
      BY <3>1, <3>2 DEF OpeningInv, SinkInv, ClockOf, Spaced
  <2> QED
    BY <1>1, <1>2, <2>6, <2>8
<1> QED
  BY <1>3, <1>4

LEMMA OpenDoneInv ==
  ASSUME MuxerInv, NEW m \in Muxers, OpenDone(m)
  PROVE  MuxerInv' /\ StepRises
<1> USE DEF MuxerInv, MuxerTypes
<1>1. /\ sinks' = [sinks EXCEPT ![m] = opening[m].done]
      /\ opening' = [opening EXCEPT ![m] = NotOpening]
      /\ sinks[m] = <<>>
  BY DEF OpenDone, OpeningInv
<1>2. MuxerTypes'
  BY <1>1 DEF NotOpening
<1>3. SinksInv'
  BY <1>1 DEF SinksInv, OpeningInv
<1>4. OpeningInv'
  BY <1>1 DEF OpeningInv, NotOpening
<1>5. StepRises
  BY <1>1 DEF StepRises, Rises
<1> QED
  BY <1>2, <1>3, <1>4, <1>5

(* A connection that breaks and a moment that passes change no time stamp. *)
LEMMA EnvironmentInv ==
  ASSUME MuxerInv, NEW m \in Muxers,
         TimePasses(m) \/ \E n \in DOMAIN sinks[m] : PublisherLost(m, n)
  PROVE  MuxerInv' /\ StepRises /\ SameSinks
<1> USE DEF MuxerInv, MuxerTypes
<1>1. opening' = opening
  BY DEF TimePasses, PublisherLost
<1>2. Quiet(m)
  <2>1. sinks[m] \in Seq(Sinks) /\ DOMAIN sinks[m] = 1..Len(sinks[m]) /\ Len(sinks[m]) \in Nat
    OBVIOUS
  <2>2. \A i \in DOMAIN sinks[m] : sinks[m][i] \in Sinks /\ SinkInv(sinks[m][i])
    BY <2>1 DEF SinksInv
  <2>3. CASE TimePasses(m)
    <3> DEFINE Later(s) == [s EXCEPT !.wait = Max2(0, @ - 1),
                                     !.since = IF @ < ReconnectBackoff THEN @ + 1 ELSE @]
               new == [i \in DOMAIN sinks[m] |-> Later(sinks[m][i])]
    <3>1. ASSUME NEW s \in Sinks, SinkInv(s)
          PROVE  Later(s) \in Sinks /\ SinkInv(Later(s)) /\ Later(s).last = s.last /\ Same(s, Later(s))
      <4> DEFINE wait == Max2(0, s.wait - 1)
                 since == IF s.since < ReconnectBackoff THEN s.since + 1 ELSE s.since
      <4>1. wait \in Nat /\ since \in Nat /\ wait + since >= ReconnectBackoff
        BY <3>1, Constants DEF Max2, Sinks, SinkInv, Spaced
      <4>2. Later(s) = [s EXCEPT !.wait = wait, !.since = since]
        BY DEF Sinks
      <4> HIDE DEF wait, since, Later
      <4>3. /\ Later(s) \in Sinks /\ Later(s).wait = wait /\ Later(s).since = since /\ Later(s).early = s.early
            /\ Later(s).samples = s.samples /\ Later(s).drift = s.drift
            /\ Later(s).last = s.last /\ Same(s, Later(s))
        BY <4>1, <4>2 DEF Sinks, Same
      <4> QED
        BY <3>1, <4>1, <4>3 DEF SinkInv, ClockOf, Spaced
    <3>2. \A i \in DOMAIN sinks[m] : /\ new[i] \in Sinks /\ SinkInv(new[i])
                                     /\ new[i].last = sinks[m][i].last /\ Same(sinks[m][i], new[i])
      <4> HIDE DEF Later
      <4> QED
        BY <2>2, <3>1
    <3>3. sinks' = [sinks EXCEPT ![m] = new]
      BY <2>3 DEF TimePasses
    <3>4. new \in Seq(Sinks) /\ DOMAIN new = DOMAIN sinks[m]
      <4>1. new \in [1..Len(sinks[m]) -> Sinks]
        BY <2>1, <3>2
      <4>2. DOMAIN new = DOMAIN sinks[m]
        OBVIOUS
      <4> HIDE DEF new
      <4> QED
        BY <2>1, <4>1, <4>2, FunctionIsSeq
    <3> HIDE DEF new
    <3> QED
      BY <3>2, <3>3, <3>4 DEF Quiet
  <2>4. ASSUME NEW n \in DOMAIN sinks[m], PublisherLost(m, n)
        PROVE  Quiet(m)
    <3> DEFINE s == sinks[m][n]
               gone == [s EXCEPT !.connected = FALSE, !.recording = FALSE]
               new == [sinks[m] EXCEPT ![n] = gone]
    <3>1. gone \in Sinks /\ SinkInv(gone) /\ gone.last = s.last /\ Same(s, gone)
      BY <2>2 DEF Sinks, SinkInv, ClockOf, Spaced, Same
    <3>2. sinks' = [sinks EXCEPT ![m] = new]
      BY <2>1, <2>2, <2>4, ZenonT(60) DEF PublisherLost, Sinks
    <3> HIDE DEF gone
    <3>3. new \in Seq(Sinks) /\ DOMAIN new = DOMAIN sinks[m]
      BY <2>1, <3>1
    <3>4. \A i \in DOMAIN sinks[m] : new[i] = IF i = n THEN gone ELSE sinks[m][i]
      BY <2>1
    <3> HIDE DEF new
    <3> QED
      <4>1. \A i \in DOMAIN new : /\ SinkInv(new[i]) /\ new[i].last = sinks[m][i].last
                                 /\ Same(sinks[m][i], new[i])
        BY <2>2, <3>1, <3>3, <3>4 DEF Same
      <4> QED
        BY <3>2, <3>3, <4>1 DEF Quiet
  <2> QED
    BY <2>3, <2>4
<1> DEFINE new == sinks'[m]
<1>3. /\ new \in Seq(Sinks) /\ sinks' = [sinks EXCEPT ![m] = new] /\ DOMAIN new = DOMAIN sinks[m]
      /\ \A i \in DOMAIN new : /\ SinkInv(new[i]) /\ new[i].last = sinks[m][i].last
                               /\ Same(sinks[m][i], new[i])
  BY <1>2 DEF Quiet
<1> HIDE DEF new
<1>4. MuxerTypes'
  BY <1>1, <1>3
<1>5. SinksInv'
  <2>1. ASSUME NEW k \in Muxers, NEW i \in DOMAIN sinks'[k], NEW j \in DOMAIN sinks'[k]
        PROVE  SinkInv(sinks'[k][i]) /\ sinks'[k][i].seen = sinks'[k][j].seen
    BY <1>3, <2>1 DEF SinksInv, Same
  <2> QED
    BY <2>1 DEF SinksInv, SinkInv, ClockOf, Spaced
<1>6. OpeningInv'
  BY <1>1, <1>3 DEF OpeningInv
<1>7. StepRises
  <2>1. ASSUME NEW k \in Muxers, NEW i \in DOMAIN sinks[k] \cap DOMAIN sinks'[k]
        PROVE  sinks[k][i] \in Sinks /\ sinks'[k][i] \in Sinks /\ sinks'[k][i].last = sinks[k][i].last
    BY <1>3, <1>4, <2>1
  <2> QED
    BY <2>1 DEF StepRises, Rises
<1>8. SameSinks
  <2>1. opening' = opening /\ paths' = paths
    BY DEF TimePasses, PublisherLost
  <2> QED
    BY <1>3, <2>1 DEF SameSinks, Same
<1> QED
  BY <1>4, <1>5, <1>6, <1>7, <1>8

-----------------------------------------------------------------------------
(* The theorems.                                                           *)

LEMMA MuxerInitInv == MuxerInit => MuxerInv
<1> SUFFICES ASSUME MuxerInit
             PROVE  MuxerInv
  OBVIOUS
<1>1. MuxerTypes
  BY DEF MuxerInit, MuxerTypes, NotOpening
<1>2. SinksInv /\ OpeningInv
  BY DEF MuxerInit, SinksInv, OpeningInv, NotOpening
<1> QED
  BY <1>1, <1>2 DEF MuxerInv

LEMMA MuxerStepInv ==
  ASSUME MuxerInv, [MuxerNext]_muxerVars
  PROVE  MuxerInv' /\ StepRises
<1>1. ASSUME NEW m \in Muxers,
             \/ \E n \in 0..2 : \E uris \in [1..n -> SinkUris] : OpenMuxer(m, uris)
             \/ OpenSink(m) \/ OpenSinkFails(m) \/ OpenDone(m) \/ CloseMuxer(m)
             \/ \E p \in Packets : SubmitPacket(m, p)
             \/ \E i \in DOMAIN sinks[m] : PublisherLost(m, i)
             \/ TimePasses(m)
      PROVE  MuxerInv' /\ StepRises
  BY <1>1, OpenInv, OpenSinkInv, OpenDoneInv, SubmitPacketInv, EnvironmentInv
<1>2. CASE UNCHANGED muxerVars
  <2>1. MuxerInv'
    BY <1>2 DEF muxerVars, MuxerInv, MuxerTypes, SinksInv, OpeningInv
  <2>2. StepRises
    BY <1>2 DEF muxerVars, MuxerInv, MuxerTypes, StepRises, Rises
  <2> QED
    BY <2>1, <2>2
<1> QED
  BY <1>1, <1>2 DEF MuxerNext

(* Types, clocks and distances hold in every reachable state.              *)
THEOREM MuxerInvariant == MuxerSpec => []MuxerInv
BY MuxerInitInv, MuxerStepInv, PTL DEF MuxerSpec

(* The time stamps of an RTSP sink rise, also in milliseconds, from packet *)
(* to packet for as long as it is open.                                    *)
THEOREM StampsAlwaysRise == MuxerSpec => StampsRise
<1>1. ASSUME MuxerInv, [MuxerNext]_muxerVars
      PROVE  [\A m \in Muxers : \A i \in DOMAIN sinks[m] \cap DOMAIN sinks'[m] :
                LET s == sinks[m][i]
                    t == sinks'[m][i]
                IN  s.last # -1 /\ t.last # -1 /\ t.last # s.last => RoundToMs(t.last) > RoundToMs(s.last)]_muxerVars
  <2>1. ASSUME NEW m \in Muxers, NEW i \in DOMAIN sinks[m] \cap DOMAIN sinks'[m],
               sinks[m][i].last # -1, sinks'[m][i].last # -1, sinks'[m][i].last # sinks[m][i].last
        PROVE  RoundToMs(sinks'[m][i].last) > RoundToMs(sinks[m][i].last)
    <3> DEFINE s == sinks[m][i]
               t == sinks'[m][i]
    <3>1. s \in Sinks /\ t \in Sinks /\ Rises(s, t)
      BY <1>1, MuxerStepInv DEF StepRises
    <3>2. s.last \in Nat /\ t.last \in Nat
      BY <2>1, <3>1 DEF Sinks
    <3>3. t.last >= s.last + StepUs
      BY <2>1, <3>1 DEF Rises
    <3>4. t.last >= s.last + UsPerMs
      BY <3>2, <3>3, Constants
    <3> QED
      BY <3>2, <3>4, RoundRises
  <2> QED
    BY <2>1
<1> QED
  BY <1>1, MuxerInvariant, PTL DEF MuxerSpec, StampsRise

(* A publisher that failed waits its time, and every sink of a muxer is    *)
(* offered every packet.                                                   *)
THEOREM AttemptsStaySpaced == MuxerSpec => []AttemptsSpaced
<1>1. MuxerInv => AttemptsSpaced
  BY DEF MuxerInv, SinksInv, SinkInv, Spaced, AttemptsSpaced
<1> QED
  BY <1>1, MuxerInvariant, PTL

(* An MP4 track's clock is at most half a tick for each sample behind the  *)
(* stream and one tick for each ahead of it.                               *)
THEOREM ClockStaysKept == MuxerSpec => []Mp4ClockKept
<1>1. MuxerInv => Mp4ClockKept
  BY DEF MuxerInv, SinksInv, SinkInv, ClockOf, Mp4ClockKept
<1> QED
  BY <1>1, MuxerInvariant, PTL

-----------------------------------------------------------------------------
(* The paths on the servers.  The sinks a muxer has are those its Open     *)
(* has opened so far, or those of sinks_.                                  *)

Own == [m \in Muxers |-> IF opening[m].active THEN opening[m].done ELSE sinks[m]]

Serves(own, m, i) == m \in Muxers /\ i \in DOMAIN own[m] /\ own[m][i].kind = "server"

(* Every server sink has a path, every path a sink, and no two share one.  *)
Owned(own, P) ==
  /\ \A m \in Muxers : \A i \in DOMAIN own[m] : Serves(own, m, i) => own[m][i].target \in P
  /\ \A t \in P : \E m \in Muxers : \E i \in DOMAIN own[m] : Serves(own, m, i) /\ own[m][i].target = t
  /\ \A k, m \in Muxers : \A i \in DOMAIN own[k] : \A j \in DOMAIN own[m] :
       Serves(own, k, i) /\ Serves(own, m, j) /\ own[k][i].target = own[m][j].target => k = m /\ i = j

PathsInv ==
  /\ IsFiniteSet(paths)
  /\ \A m \in Muxers : ~opening[m].active => opening[m].done = <<>>
  /\ Owned(Own, paths)

LEMMA OwnTypes ==
  ASSUME MuxerTypes
  PROVE  Own \in [Muxers -> Seq(Sinks)]
BY DEF MuxerTypes, Own

LEMMA OwnedSame ==
  ASSUME NEW own \in [Muxers -> Seq(Sinks)], NEW new \in [Muxers -> Seq(Sinks)], NEW P, Owned(own, P),
         \A m \in Muxers : /\ DOMAIN new[m] = DOMAIN own[m]
                           /\ \A i \in DOMAIN own[m] : /\ new[m][i].kind = own[m][i].kind
                                                       /\ new[m][i].target = own[m][i].target
  PROVE  Owned(new, P)
<1>1. \A m, i : Serves(new, m, i) <=> Serves(own, m, i)
  BY DEF Serves
<1>2. ASSUME NEW m \in Muxers, NEW i \in DOMAIN new[m], Serves(new, m, i)
      PROVE  new[m][i].target \in P
  BY <1>1, <1>2 DEF Owned
<1>3. ASSUME NEW t \in P
      PROVE  \E m \in Muxers : \E i \in DOMAIN new[m] : Serves(new, m, i) /\ new[m][i].target = t
  <2>1. PICK m, i : Serves(own, m, i) /\ own[m][i].target = t
    BY DEF Owned
  <2> QED
    BY <1>1, <2>1 DEF Serves
<1>4. ASSUME NEW k \in Muxers, NEW m \in Muxers, NEW i \in DOMAIN new[k], NEW j \in DOMAIN new[m],
             Serves(new, k, i), Serves(new, m, j), new[k][i].target = new[m][j].target
      PROVE  k = m /\ i = j
  BY <1>1, <1>4 DEF Owned
<1> QED
  BY <1>2, <1>3, <1>4 DEF Owned

(* Closing a muxer's sinks takes away its paths and nobody else's.         *)
LEMMA OwnedCleared ==
  ASSUME NEW own \in [Muxers -> Seq(Sinks)], NEW new \in [Muxers -> Seq(Sinks)], NEW P, Owned(own, P),
         NEW m \in Muxers, new[m] = <<>>, \A k \in Muxers \ {m} : new[k] = own[k]
  PROVE  Owned(new, P \ Targets(own[m]))
<1>1. \A k, i : Serves(new, k, i) <=> k # m /\ Serves(own, k, i)
  BY DEF Serves
<1>2. \A t : t \in Targets(own[m]) <=> \E i \in DOMAIN own[m] : Serves(own, m, i) /\ own[m][i].target = t
  BY DEF Targets, Serves
<1>3. ASSUME NEW k \in Muxers, NEW i \in DOMAIN new[k], Serves(new, k, i)
      PROVE  new[k][i].target \in P \ Targets(own[m])
  <2>1. k # m /\ Serves(own, k, i) /\ new[k][i] = own[k][i] /\ i \in DOMAIN own[k]
    BY <1>1, <1>3 DEF Serves
  <2>2. ASSUME NEW j \in DOMAIN own[m], Serves(own, m, j), own[m][j].target = own[k][i].target
        PROVE  FALSE
    BY <2>1, <2>2 DEF Owned
  <2>3. own[k][i].target \notin Targets(own[m])
    BY <1>2, <2>2
  <2> QED
    BY <2>1, <2>3 DEF Owned
<1>4. ASSUME NEW t \in P \ Targets(own[m])
      PROVE  \E k \in Muxers : \E i \in DOMAIN new[k] : Serves(new, k, i) /\ new[k][i].target = t
  <2>1. PICK k, i : Serves(own, k, i) /\ own[k][i].target = t
    BY DEF Owned
  <2>2. k # m
    BY <1>2, <2>1 DEF Serves
  <2> QED
    BY <1>1, <2>1, <2>2 DEF Serves
<1>5. ASSUME NEW k \in Muxers, NEW l \in Muxers, NEW i \in DOMAIN new[k], NEW j \in DOMAIN new[l],
             Serves(new, k, i), Serves(new, l, j), new[k][i].target = new[l][j].target
      PROVE  k = l /\ i = j
  BY <1>1, <1>5, SMTT(60) DEF Owned
<1> QED
  BY <1>3, <1>4, <1>5 DEF Owned

(* A sink that is opened is no server, or takes a path nobody has.         *)
LEMMA OwnedAppended ==
  ASSUME NEW own \in [Muxers -> Seq(Sinks)], NEW new \in [Muxers -> Seq(Sinks)], NEW P, Owned(own, P),
         NEW m \in Muxers, NEW s \in Sinks, new[m] = Append(own[m], s),
         \A k \in Muxers \ {m} : new[k] = own[k],
         s.kind = "server" => s.target \notin P
  PROVE  Owned(new, IF s.kind = "server" THEN P \cup {s.target} ELSE P)
<1> DEFINE last == Len(own[m]) + 1
           Q == IF s.kind = "server" THEN P \cup {s.target} ELSE P
<1>1. /\ Len(own[m]) \in Nat /\ DOMAIN own[m] = 1..Len(own[m])
      /\ DOMAIN new[m] = 1..last /\ new[m][last] = s
      /\ \A i \in DOMAIN own[m] : new[m][i] = own[m][i]
  OBVIOUS
<1>2. last \notin DOMAIN own[m] /\ DOMAIN new[m] = DOMAIN own[m] \cup {last}
  BY <1>1
<1> HIDE DEF last
<1>3. \A k, i : Serves(own, k, i) => Serves(new, k, i) /\ new[k][i] = own[k][i]
  BY <1>1, <1>2 DEF Serves
<1>4. ASSUME NEW k, NEW i, Serves(new, k, i)
      PROVE  Serves(own, k, i) \/ (k = m /\ i = last /\ s.kind = "server")
  <2>1. CASE k = m
    <3>1. i \in DOMAIN own[m] \cup {last} /\ new[m][i].kind = "server"
      BY <1>2, <1>4, <2>1 DEF Serves
    <3>2. CASE i \in DOMAIN own[m]
      BY <1>1, <2>1, <3>1, <3>2 DEF Serves
    <3>3. CASE i = last
      BY <1>1, <2>1, <3>1, <3>3
    <3> QED
      BY <3>1, <3>2, <3>3
  <2>2. CASE k # m
    <3>1. k \in Muxers /\ i \in DOMAIN new[k] /\ new[k][i].kind = "server"
      BY <1>4 DEF Serves
    <3>2. new[k] = own[k]
      BY <2>2, <3>1
    <3>3. i \in DOMAIN own[k] /\ own[k][i].kind = "server"
      BY <3>1, <3>2
    <3> QED
      BY <3>1, <3>3 DEF Serves
  <2> QED
    BY <2>1, <2>2
<1>5. s.kind = "server" => Serves(new, m, last)
  BY <1>1, <1>2 DEF Serves
<1>6. \A k, i : Serves(own, k, i) => own[k][i].target \in P
  BY DEF Owned, Serves
<1>7. ASSUME NEW k \in Muxers, NEW i \in DOMAIN new[k], Serves(new, k, i)
      PROVE  new[k][i].target \in Q
  BY <1>1, <1>3, <1>4, <1>6, <1>7
<1>8. ASSUME NEW t \in Q
      PROVE  \E k \in Muxers : \E i \in DOMAIN new[k] : Serves(new, k, i) /\ new[k][i].target = t
  <2>1. CASE t \in P
    <3>1. PICK k, i : Serves(own, k, i) /\ own[k][i].target = t
      BY <2>1 DEF Owned
    <3>2. Serves(new, k, i) /\ new[k][i].target = t
      BY <1>3, <3>1
    <3> QED
      BY <3>2 DEF Serves
  <2>2. CASE t \notin P
    BY <1>1, <1>2, <1>5, <2>2
  <2> QED
    BY <2>1, <2>2
<1>9. ASSUME NEW k \in Muxers, NEW l \in Muxers, NEW i \in DOMAIN new[k], NEW j \in DOMAIN new[l],
             Serves(new, k, i), Serves(new, l, j), new[k][i].target = new[l][j].target
      PROVE  k = l /\ i = j
  <2>1. CASE Serves(own, k, i) /\ Serves(own, l, j)
    <3>1. own[k][i].target = own[l][j].target
      BY <1>3, <1>9, <2>1
    <3>2. i \in DOMAIN own[k] /\ j \in DOMAIN own[l]
      BY <2>1 DEF Serves
    <3> QED
      BY <2>1, <3>1, <3>2 DEF Owned
  <2>2. CASE Serves(own, k, i) /\ ~Serves(own, l, j)
    <3>1. new[k][i].target \in P /\ new[l][j].target \notin P
      BY <1>1, <1>3, <1>4, <1>6, <1>9, <2>2
    <3> QED
      BY <1>9, <3>1
  <2>3. CASE ~Serves(own, k, i) /\ Serves(own, l, j)
    <3>1. new[l][j].target \in P /\ new[k][i].target \notin P
      BY <1>1, <1>3, <1>4, <1>6, <1>9, <2>3
    <3> QED
      BY <1>9, <3>1
  <2>4. CASE ~Serves(own, k, i) /\ ~Serves(own, l, j)
    BY <1>4, <1>9, <2>4
  <2> QED
    BY <2>1, <2>2, <2>3, <2>4
<1> HIDE DEF Q
<1>10. Owned(new, Q)
  BY <1>7, <1>8, <1>9 DEF Owned
<1> QED
  BY <1>10 DEF Q

(* Close, Open and an Open that fails: what a muxer had goes.              *)
LEMMA ClosingKeepsPaths ==
  ASSUME MuxerInv, MuxerInv', PathsInv, NEW m \in Muxers,
         \/ CloseMuxer(m) \/ OpenSinkFails(m)
         \/ \E n \in 0..2 : \E uris \in [1..n -> SinkUris] : OpenMuxer(m, uris)
  PROVE  PathsInv'
<1> DEFINE new == Own'
<1>1. /\ MuxerTypes /\ MuxerTypes'
      /\ Own \in [Muxers -> Seq(Sinks)] /\ new \in [Muxers -> Seq(Sinks)]
  BY OwnTypes DEF MuxerInv, MuxerTypes, Own
<1> DEFINE Closes == /\ paths' = paths \ Targets(Own[m])
                     /\ sinks'[m] = <<>> /\ opening'[m].done = <<>>
                     /\ \A k \in Muxers \ {m} : sinks'[k] = sinks[k] /\ opening'[k] = opening[k]
<1>2. Closes
  <2>1. CASE CloseMuxer(m)
    BY <1>1, <2>1 DEF CloseMuxer, CloseSinks, Own, PathsInv, MuxerTypes
  <2>2. CASE OpenSinkFails(m)
    BY <1>1, <2>2 DEF OpenSinkFails, CloseSinks, Own, MuxerInv, OpeningInv, MuxerTypes, NotOpening
  <2>3. ASSUME NEW n \in 0..2, NEW uris \in [1..n -> SinkUris], OpenMuxer(m, uris)
        PROVE  Closes
    <3> DEFINE fresh == [active |-> uris # <<>>, left |-> uris, done |-> <<>>]
    <3>1. fresh.done = <<>>
      OBVIOUS
    <3>2. opening' = [opening EXCEPT ![m] = fresh] /\ sinks' = [sinks EXCEPT ![m] = <<>>]
          /\ paths' = paths \ Targets(Own[m])
      BY <2>3 DEF OpenMuxer, CloseSinks, Own
    <3> HIDE DEF fresh
    <3> QED
      BY <1>1, <3>1, <3>2 DEF MuxerTypes
  <2> QED
    BY <2>1, <2>2, <2>3
<1>3. new[m] = <<>> /\ \A k \in Muxers \ {m} : new[k] = Own[k]
  BY <1>2 DEF Own
<1>4. Owned(Own, paths)
  BY DEF PathsInv
<1> HIDE DEF new
<1>5. Owned(new, paths')
  BY <1>1, <1>2, <1>3, <1>4, OwnedCleared
<1>6. IsFiniteSet(paths')
  BY <1>2, FS_Subset DEF PathsInv
<1>7. \A k \in Muxers : ~opening'[k].active => opening'[k].done = <<>>
  BY <1>2 DEF PathsInv
<1> QED
  BY <1>5, <1>6, <1>7 DEF PathsInv, new

(* OpenSink: a path taken is this sink's, a publisher takes none.          *)
LEMMA OpeningKeepsPaths ==
  ASSUME MuxerInv, MuxerInv', PathsInv, NEW m \in Muxers, OpenSink(m)
  PROVE  PathsInv'
<1> DEFINE new == Own'
<1>1. /\ MuxerTypes /\ MuxerTypes' /\ opening[m].active /\ sinks' = sinks
      /\ Own \in [Muxers -> Seq(Sinks)] /\ new \in [Muxers -> Seq(Sinks)]
  BY OwnTypes DEF MuxerInv, MuxerTypes, Own, OpenSink
<1>2. opening[m].left \in Seq(SinkUris) /\ opening[m].left # <<>> /\ Head(opening[m].left) \in SinkUris
  BY <1>1 DEF OpenSink, MuxerTypes
<1>3. PICK u \in SinkUris, kind \in {"file", "mp4", "server", "publisher"} :
        /\ Opened(m, NewSink(kind, u.target))
        /\ kind = "server" => u.target \notin paths
        /\ paths' = IF kind = "server" THEN paths \cup {u.target} ELSE paths
  BY <1>2, MuxerAssumption DEF OpenSink, OpenServerSink, OpenPublisherSink, MuxerAssumption
<1> DEFINE s == NewSink(kind, u.target)
<1>4. s \in Sinks /\ s.kind = kind /\ s.target = u.target
  BY NewSinkInv DEF NewSink
<1> DEFINE fresh == [active |-> TRUE, left |-> Tail(opening[m].left), done |-> Append(opening[m].done, s)]
<1>5. opening' = [opening EXCEPT ![m] = fresh]
  BY <1>3 DEF Opened
<1>6. fresh.active /\ fresh.done = Append(opening[m].done, s)
  OBVIOUS
<1> HIDE DEF fresh, s
<1>7. /\ opening'[m].active /\ opening'[m].done = Append(opening[m].done, s)
      /\ \A k \in Muxers \ {m} : opening'[k] = opening[k]
  BY <1>1, <1>5, <1>6 DEF MuxerTypes
<1>8. new[m] = Append(Own[m], s) /\ \A k \in Muxers \ {m} : new[k] = Own[k]
  BY <1>1, <1>7 DEF Own
<1>9. Owned(Own, paths)
  BY DEF PathsInv
<1> HIDE DEF new
<1>10. Owned(new, paths')
  BY <1>1, <1>3, <1>4, <1>8, <1>9, OwnedAppended
<1>11. IsFiniteSet(paths')
  BY <1>3, FS_AddElement DEF PathsInv
<1>12. \A k \in Muxers : ~opening'[k].active => opening'[k].done = <<>>
  BY <1>7 DEF PathsInv
<1> QED
  BY <1>10, <1>11, <1>12 DEF PathsInv, new

(* OpenDone hands the sinks over; packets, time and lost connections leave *)
(* every sink and every path where it was.                                 *)
LEMMA OthersKeepPaths ==
  ASSUME MuxerInv, MuxerInv', PathsInv,
         (\E m \in Muxers : OpenDone(m)) \/ SameSinks
  PROVE  PathsInv'
<1> DEFINE new == Own'
<1>1. /\ MuxerTypes /\ MuxerTypes'
      /\ Own \in [Muxers -> Seq(Sinks)] /\ new \in [Muxers -> Seq(Sinks)]
  BY OwnTypes DEF MuxerInv, MuxerTypes, Own
<1>2. Owned(Own, paths)
  BY DEF PathsInv
<1>3. ASSUME NEW m \in Muxers, OpenDone(m)
      PROVE  PathsInv'
  <2>1. /\ opening[m].active /\ opening'[m] = NotOpening /\ sinks'[m] = opening[m].done /\ paths' = paths
        /\ \A k \in Muxers \ {m} : sinks'[k] = sinks[k] /\ opening'[k] = opening[k]
    BY <1>1, <1>3 DEF OpenDone, MuxerTypes
  <2>2. Own' = Own
    BY <2>1 DEF Own, NotOpening
  <2> QED
    BY <1>2, <2>1, <2>2 DEF PathsInv, NotOpening
<1>4. CASE SameSinks
  <2>1. \A k \in Muxers : /\ DOMAIN new[k] = DOMAIN Own[k]
                          /\ \A i \in DOMAIN Own[k] : /\ new[k][i].kind = Own[k][i].kind
                                                      /\ new[k][i].target = Own[k][i].target
    BY <1>4 DEF SameSinks, Own
  <2> HIDE DEF new
  <2>2. Owned(new, paths)
    BY <1>1, <1>2, <2>1, OwnedSame
  <2> QED
    BY <1>4, <2>2 DEF SameSinks, PathsInv, new
<1> QED
  BY <1>3, <1>4

LEMMA PathsStep ==
  ASSUME MuxerInv, PathsInv, [MuxerNext]_muxerVars
  PROVE  PathsInv'
<1>1. MuxerInv'
  BY MuxerStepInv
<1>2. CASE UNCHANGED muxerVars
  <2>1. SameSinks
    BY <1>2 DEF muxerVars, SameSinks
  <2> QED
    BY <1>1, <2>1, OthersKeepPaths
<1>3. ASSUME NEW m \in Muxers, (\E p \in Packets : SubmitPacket(m, p)) \/ TimePasses(m)
                               \/ \E i \in DOMAIN sinks[m] : PublisherLost(m, i)
      PROVE  PathsInv'
  <2>1. SameSinks
    BY <1>3, SubmitPacketInv, EnvironmentInv
  <2> QED
    BY <1>1, <2>1, OthersKeepPaths
<1>4. ASSUME NEW m \in Muxers,
             \/ \E n \in 0..2 : \E uris \in [1..n -> SinkUris] : OpenMuxer(m, uris)
             \/ OpenSink(m) \/ OpenSinkFails(m) \/ OpenDone(m) \/ CloseMuxer(m)
      PROVE  PathsInv'
  BY <1>1, <1>4, ClosingKeepsPaths, OpeningKeepsPaths, OthersKeepPaths
<1> QED
  BY <1>2, <1>3, <1>4 DEF MuxerNext

(* No two server sinks have one path, so there are as many sinks as paths. *)
LEMMA OwnedCounts ==
  ASSUME MuxerInv, PathsInv
  PROVE  PathsOwned
<1>1. \A m \in Muxers : IF opening[m].active THEN sinks[m] = <<>> ELSE opening[m].done = <<>>
  BY DEF MuxerInv, OpeningInv, PathsInv
<1>2. \A t : t \in paths <=> \E m, i : Serves(Own, m, i) /\ Own[m][i].target = t
  BY DEF PathsInv, Owned, Serves
<1>3. \A m \in Muxers : \A t : t \in Targets(sinks[m]) \cup Targets(opening[m].done)
                          <=> \E i : Serves(Own, m, i) /\ Own[m][i].target = t
  BY <1>1 DEF Targets, Serves, Own
<1>4. paths = UNION {Targets(sinks[m]) \cup Targets(opening[m].done) : m \in Muxers}
  <2>1. ASSUME NEW t
        PROVE  t \in paths <=> \E m \in Muxers : t \in Targets(sinks[m]) \cup Targets(opening[m].done)
    <3>1. CASE t \in paths
      <4>1. PICK m, i : Serves(Own, m, i) /\ Own[m][i].target = t
        BY <1>2, <3>1
      <4>2. m \in Muxers
        BY <4>1 DEF Serves
      <4> QED
        BY <1>3, <3>1, <4>1, <4>2
    <3>2. CASE t \notin paths
      BY <1>2, <1>3, <3>2
    <3> QED
      BY <3>1, <3>2
  <2> QED
    BY <2>1
<1> DEFINE Side(m) == IF opening[m].active THEN "opening" ELSE "open"
           target == [x \in ServerSinks |-> Own[x[1]][x[3]].target]
<1>5. ASSUME NEW x
      PROVE  x \in ServerSinks <=> \E m, i : Serves(Own, m, i) /\ x = <<m, Side(m), i>>
  <2> DEFINE open(m) == {<<m, "open", i>> : i \in {j \in DOMAIN sinks[m] : sinks[m][j].kind = "server"}}
             done(m) == {<<m, "opening", i>> :
                           i \in {j \in DOMAIN opening[m].done : opening[m].done[j].kind = "server"}}
  <2>1. ASSUME NEW m \in Muxers
        PROVE  x \in open(m) \cup done(m) <=> \E i : Serves(Own, m, i) /\ x = <<m, Side(m), i>>
    <3>1. CASE opening[m].active
      <4>1. open(m) = {} /\ Own[m] = opening[m].done /\ Side(m) = "opening"
        BY <1>1, <3>1 DEF Own
      <4> HIDE DEF open, Side
      <4> QED
        BY <4>1 DEF Serves
    <3>2. CASE ~opening[m].active
      <4>1. done(m) = {} /\ Own[m] = sinks[m] /\ Side(m) = "open"
        BY <1>1, <3>2 DEF Own
      <4> HIDE DEF done, Side
      <4> QED
        BY <4>1 DEF Serves
    <3> QED
      BY <3>1, <3>2
  <2>2. x \in ServerSinks <=> \E m \in Muxers : x \in open(m) \cup done(m)
    BY DEF ServerSinks
  <2> HIDE DEF open, done, Side
  <2> QED
    BY <2>1, <2>2 DEF Serves
<1>6. target \in Bijection(ServerSinks, paths)
  <2>1. ASSUME NEW x \in ServerSinks
        PROVE  target[x] \in paths
    BY <1>2, <1>5
  <2>2. ASSUME NEW x \in ServerSinks, NEW y \in ServerSinks, target[x] = target[y]
        PROVE  x = y
    <3>1. PICK k, i : Serves(Own, k, i) /\ x = <<k, Side(k), i>>
      BY <1>5
    <3>2. PICK m, j : Serves(Own, m, j) /\ y = <<m, Side(m), j>>
      BY <1>5
    <3>3. Own[k][i].target = Own[m][j].target
      BY <2>2, <3>1, <3>2
    <3>4. k = m /\ i = j
      BY <3>1, <3>2, <3>3 DEF PathsInv, Owned, Serves
    <3> QED
      BY <3>1, <3>2, <3>4
  <2>3. ASSUME NEW t \in paths
        PROVE  \E x \in ServerSinks : target[x] = t
    <3>1. PICK m, i : Serves(Own, m, i) /\ Own[m][i].target = t
      BY <1>2
    <3>2. <<m, Side(m), i>> \in ServerSinks
      BY <1>5, <3>1
    <3>3. target[<<m, Side(m), i>>] = t
      BY <3>1, <3>2
    <3> QED
      BY <3>2, <3>3
  <2> HIDE DEF target
  <2>4. target \in [ServerSinks -> paths]
    BY <2>1 DEF target
  <2> QED
    BY <2>2, <2>3, <2>4, Fun_IsBij
<1>7. ExistsBijection(paths, ServerSinks)
  BY <1>6, Fun_ExistsBijSymmetric DEF ExistsBijection
<1>8. Cardinality(ServerSinks) = Cardinality(paths)
  BY <1>7, FS_Bijection DEF PathsInv
<1> QED
  BY <1>4, <1>8 DEF PathsOwned

LEMMA PathsInitInv == MuxerInit => PathsInv
<1> SUFFICES ASSUME MuxerInit
             PROVE  PathsInv
  OBVIOUS
<1>1. \A m, i : ~Serves(Own, m, i)
  BY DEF MuxerInit, Own, Serves, NotOpening
<1> QED
  BY <1>1, FS_EmptySet DEF MuxerInit, PathsInv, Owned, NotOpening

(***************************************************************************)
(* The paths on the servers are those of the server sinks, one for each:   *)
(* no Open that fails half way and no Close leaves one behind, and no      *)
(* muxer removes a path another one serves, however many there are.        *)
(***************************************************************************)
THEOREM PathsStayOwned == MuxerSpec => []PathsOwned
BY PathsInitInv, PathsStep, OwnedCounts, MuxerInvariant, PTL DEF MuxerSpec
=============================================================================
