---------------------------- MODULE DemuxerProofs ----------------------------
(***************************************************************************)
(* What a reader of the demuxer may rely on: passes over a looped file that*)
(* do not overlap, parameter sets where a decoder needs them, and sessions *)
(* given up only in silence, for any files, addresses, intervals and bounds*)
(* that satisfy DemuxerAssumption.                                         *)
(***************************************************************************)
EXTENDS Demuxer, NaturalsInduction, WellFoundedInduction, TLAPS

-----------------------------------------------------------------------------
(* Numbers.                                                                *)

(* Every set of numbers that is not empty has a least element.             *)
LEMMA Least ==
  ASSUME NEW S \in SUBSET Nat, S # {}
  PROVE  \E m \in S : \A k \in S : m <= k
<1> DEFINE Less == {p \in Nat \X Nat : p[1] < p[2]}
<1>1. IsWellFoundedOn(Less, Nat)
  BY NatLessThanWellFounded DEF OpToRel
<1> HIDE DEF Less
<1>2. PICK m \in S : \A k \in S : <<k, m>> \notin Less
  BY <1>1, WFMin
<1>3. ASSUME NEW k \in S
      PROVE  m <= k
  <2>1. k \in Nat /\ m \in Nat /\ ~(k < m)
    BY <1>2 DEF Less
  <2>2. QED
    BY <2>1
<1>4. QED
  BY <1>3

LEMMA Quotient ==
  ASSUME NEW x \in Nat, NEW n \in Nat \ {0}
  PROVE  x \div n \in Nat /\ n * (x \div n) <= x /\ x < n * (x \div n) + n
OBVIOUS

(* The quotient is the only number that bounds so.                         *)
LEMMA QuotientIs ==
  ASSUME NEW x \in Nat, NEW n \in Nat \ {0}, NEW q \in Nat, n * q <= x, x < n * q + n
  PROVE  x \div n = q
<1> DEFINE r == x \div n
<1>1. r \in Nat /\ n * r <= x /\ x < n * r + n
  BY Quotient
<1> HIDE DEF r
<1>2. ASSUME r < q PROVE FALSE
  <2>1. r + 1 <= q
    BY <1>1, <1>2
  <2>2. n * (r + 1) <= n * q
    BY <1>1, <2>1
  <2>3. n * (r + 1) = n * r + n
    BY <1>1
  <2> QED
    BY <1>1, <2>2, <2>3
<1>3. ASSUME q < r PROVE FALSE
  <2>1. q + 1 <= r
    BY <1>1, <1>3
  <2>2. n * (q + 1) <= n * r
    BY <1>1, <2>1
  <2>3. n * (q + 1) = n * q + n
    OBVIOUS
  <2> QED
    BY <1>1, <2>2, <2>3
<1>4. r = q
  BY <1>1, <1>2, <1>3
<1> QED
  BY <1>4 DEF r

(* A larger number has no smaller quotient.                                *)
LEMMA QuotientRises ==
  ASSUME NEW x \in Nat, NEW y \in Nat, NEW n \in Nat \ {0}, x <= y
  PROVE  x \div n <= y \div n
<1> DEFINE q == x \div n
           r == y \div n
<1>1. q \in Nat /\ n * q <= x /\ r \in Nat /\ y < n * r + n
  BY Quotient
<1> HIDE DEF q, r
<1>2. ASSUME r < q PROVE FALSE
  <2>1. r + 1 <= q
    BY <1>1, <1>2
  <2>2. n * (r + 1) <= n * q
    BY <1>1, <2>1
  <2>3. n * (r + 1) = n * r + n
    BY <1>1
  <2> QED
    BY <1>1, <2>2, <2>3
<1>3. q <= r
  BY <1>1, <1>2
<1> QED
  BY <1>3 DEF q, r

(* What divides is n times the quotient, and a product divides.            *)
LEMMA Divides ==
  ASSUME NEW x \in Nat, NEW n \in Nat \ {0}, x % n = 0
  PROVE  x \div n \in Nat /\ x = n * (x \div n)
OBVIOUS

LEMMA Product ==
  ASSUME NEW n \in Nat \ {0}, NEW k \in Nat
  PROVE  (n * k) % n = 0
OBVIOUS

(* A number that divides is added to the quotient exactly.                 *)
LEMMA QuotientAdds ==
  ASSUME NEW x \in Nat, NEW y \in Nat, NEW n \in Nat \ {0}, x % n = 0
  PROVE  (x + y) \div n = x \div n + y \div n
<1> DEFINE q == x \div n
           r == y \div n
<1>1. q \in Nat /\ x = n * q
  BY Divides
<1>2. r \in Nat /\ n * r <= y /\ y < n * r + n
  BY Quotient
<1> HIDE DEF q, r
<1>3. n * (q + r) = n * q + n * r
  BY <1>1, <1>2
<1>4. q + r \in Nat /\ x + y \in Nat /\ n * (q + r) <= x + y /\ x + y < n * (q + r) + n
  BY <1>1, <1>2, <1>3
<1>5. (x + y) \div n = q + r
  BY <1>4, QuotientIs
<1> QED
  BY <1>5 DEF q, r

LEMMA DividesSum ==
  ASSUME NEW x \in Nat, NEW y \in Nat, NEW n \in Nat \ {0}, x % n = 0, y % n = 0
  PROVE  (x + y) % n = 0
<1> DEFINE q == x \div n
           r == y \div n
<1>1. q \in Nat /\ x = n * q /\ r \in Nat /\ y = n * r
  BY Divides
<1> HIDE DEF q, r
<1>2. q + r \in Nat /\ n * (q + r) = x + y
  BY <1>1
<1>3. (n * (q + r)) % n = 0
  BY <1>2, Product
<1> QED
  BY <1>2, <1>3

(* What FiniteSetsExt's Max and Min choose from two numbers.               *)
LEMMA Larger ==
  ASSUME NEW x \in Int, NEW y \in Int
  PROVE  Max({x, y}) = IF x >= y THEN x ELSE y
<1>1. \E z \in {x, y} : \A w \in {x, y} : z >= w
  OBVIOUS
<1>2. Max({x, y}) \in {x, y} /\ \A w \in {x, y} : Max({x, y}) >= w
  BY <1>1 DEF Max
<1> QED
  BY <1>2

LEMMA Smaller ==
  ASSUME NEW x \in Int, NEW y \in Int
  PROVE  Min({x, y}) = IF x <= y THEN x ELSE y
<1>1. \E z \in {x, y} : \A w \in {x, y} : z =< w
  OBVIOUS
<1>2. Min({x, y}) \in {x, y} /\ \A w \in {x, y} : Min({x, y}) =< w
  BY <1>1 DEF Min
<1> QED
  BY <1>2

-----------------------------------------------------------------------------
(* Sums of durations.                                                      *)

(* SumsOfDurations is what its recursive definition says, for every list:  *)
(* otherwise there is a shortest beginning of the list without such sums,  *)
(* and those of the beginning before it can be continued.                  *)
Adds(samples, m, g) ==
  g = [i \in 0 .. m |-> IF i = 0 THEN 0 ELSE g[i - 1] + samples[i].dur]

LEMMA SumsContinue ==
  ASSUME NEW samples \in Seq(Sample), NEW m \in Nat, m + 1 <= Len(samples),
         NEW g \in [0 .. m -> Nat], Adds(samples, m, g)
  PROVE  \E h \in [0 .. m + 1 -> Nat] : Adds(samples, m + 1, h)
<1> DEFINE h == [i \in 0 .. m + 1 |-> IF i = m + 1 THEN g[m] + samples[m + 1].dur ELSE g[i]]
<1>1. samples[m + 1].dur \in Nat
  <2>1. m + 1 \in 1 .. Len(samples)
    OBVIOUS
  <2>2. samples[m + 1] \in Sample
    BY <2>1
  <2> QED
    BY <2>2 DEF Sample
<1>2. h \in [0 .. m + 1 -> Nat]
  BY <1>1
<1>3. ASSUME NEW i \in 0 .. m + 1
      PROVE  h[i] = IF i = 0 THEN 0 ELSE h[i - 1] + samples[i].dur
  <2>1. CASE i = 0
    <3>1. g[0] = 0 /\ 0 # m + 1 /\ 0 \in 0 .. m
      BY DEF Adds
    <3> QED
      BY <2>1, <3>1
  <2>2. CASE i \in 1 .. m
    <3>1. g[i] = g[i - 1] + samples[i].dur
      BY <2>2 DEF Adds
    <3>2. h[i] = g[i] /\ h[i - 1] = g[i - 1]
      BY <2>2
    <3> QED
      BY <2>2, <3>1, <3>2
  <2>3. CASE i = m + 1
    <3>1. h[i] = g[m] + samples[m + 1].dur /\ h[m] = g[m] /\ i - 1 = m /\ i # 0
      BY <2>3
    <3> QED
      BY <2>3, <3>1
  <2> QED
    BY <2>1, <2>2, <2>3
<1>4. h = [i \in 0 .. m + 1 |-> IF i = 0 THEN 0 ELSE h[i - 1] + samples[i].dur]
  BY <1>3
<1> QED
  BY <1>2, <1>4 DEF Adds

LEMMA SumsExist ==
  ASSUME NEW samples \in Seq(Sample)
  PROVE  \E g \in [0 .. Len(samples) -> Nat] : Adds(samples, Len(samples), g)
<1> DEFINE bad == {m \in 0 .. Len(samples) : \A g \in [0 .. m -> Nat] : ~Adds(samples, m, g)}
<1>1. Len(samples) \in Nat
  OBVIOUS
<1>2. SUFFICES ASSUME bad # {} PROVE FALSE
  BY <1>1
<1>3. bad \in SUBSET Nat
  BY <1>1
<1>4. PICK m \in bad : \A k \in bad : m <= k
  BY <1>2, <1>3, Least
<1>5. m \in 0 .. Len(samples) /\ \A g \in [0 .. m -> Nat] : ~Adds(samples, m, g)
  BY <1>4
<1>6. m # 0
  <2>1. SUFFICES ASSUME m = 0 PROVE FALSE
    OBVIOUS
  <2> DEFINE g == [i \in 0 .. 0 |-> 0]
  <2>2. g \in [0 .. 0 -> Nat]
    OBVIOUS
  <2>3. Adds(samples, 0, g)
    <3>1. ASSUME NEW i \in 0 .. 0
          PROVE  g[i] = IF i = 0 THEN 0 ELSE g[i - 1] + samples[i].dur
      OBVIOUS
    <3>2. g = [i \in 0 .. 0 |-> IF i = 0 THEN 0 ELSE g[i - 1] + samples[i].dur]
      BY <3>1
    <3> QED
      BY <3>2 DEF Adds
  <2> QED
    BY <1>5, <2>1, <2>2, <2>3
<1>7. m - 1 \in Nat /\ m - 1 \in 0 .. Len(samples) /\ (m - 1) + 1 = m /\ m <= Len(samples) /\ ~(m <= m - 1)
  BY <1>1, <1>5, <1>6
<1>8. m - 1 \notin bad
  BY <1>4, <1>7
<1>9. PICK g \in [0 .. m - 1 -> Nat] : Adds(samples, m - 1, g)
  BY <1>7, <1>8
<1>10. \E h \in [0 .. m -> Nat] : Adds(samples, m, h)
  BY <1>7, <1>9, SumsContinue
<1> QED
  BY <1>5, <1>10

LEMMA Sums ==
  ASSUME NEW samples \in Seq(Sample)
  PROVE  /\ SumsOfDurations(samples) \in [0 .. Len(samples) -> Nat]
         /\ SumsOfDurations(samples)[0] = 0
         /\ \A i \in 1 .. Len(samples) :
              SumsOfDurations(samples)[i] = SumsOfDurations(samples)[i - 1] + samples[i].dur
<1>1. PICK g \in [0 .. Len(samples) -> Nat] : Adds(samples, Len(samples), g)
  BY SumsExist
<1>2. \E sum : sum = [i \in 0 .. Len(samples) |-> IF i = 0 THEN 0 ELSE sum[i - 1] + samples[i].dur]
  BY <1>1 DEF Adds
<1> DEFINE sum == SumsOfDurations(samples)
<1>3. sum = [i \in 0 .. Len(samples) |-> IF i = 0 THEN 0 ELSE sum[i - 1] + samples[i].dur]
  BY <1>2 DEF SumsOfDurations
<1> HIDE DEF sum
<1>4. Len(samples) \in Nat
  OBVIOUS
<1>5. sum[0] = 0
  BY <1>3, <1>4
<1>6. ASSUME NEW i \in 1 .. Len(samples)
      PROVE  sum[i] = sum[i - 1] + samples[i].dur
  BY <1>3, <1>4
<1>7. ASSUME NEW i \in 0 .. Len(samples)
      PROVE  sum[i] \in Nat
  <2> DEFINE bad == {k \in 0 .. Len(samples) : sum[k] \notin Nat}
  <2>1. SUFFICES ASSUME bad # {} PROVE FALSE
    OBVIOUS
  <2>2. bad \in SUBSET Nat
    BY <1>4
  <2>3. PICK m \in bad : \A k \in bad : m <= k
    BY <2>1, <2>2, Least
  <2>4. m \in 1 .. Len(samples) /\ sum[m] \notin Nat
    BY <1>4, <1>5, <2>3
  <2>5. m - 1 \in 0 .. Len(samples) /\ ~(m <= m - 1)
    BY <1>4, <2>4
  <2>6. sum[m - 1] \in Nat
    BY <2>3, <2>5
  <2>7. samples[m] \in Sample
    BY <2>4
  <2>8. samples[m].dur \in Nat
    BY <2>7 DEF Sample
  <2> QED
    BY <1>6, <2>4, <2>6, <2>8
<1>8. sum \in [0 .. Len(samples) -> Nat]
  BY <1>3, <1>7
<1> QED
  BY <1>5, <1>6, <1>8 DEF sum

(***************************************************************************)
(* Files: what a file the demuxer has opened, or none, is.                 *)
(***************************************************************************)
Files == [samples : Seq(Sample), timescale : Nat, nalLength : 1..4]

LEMMA FilesFit ==
  ASSUME NEW f \in Mp4Files \cup {NoFile}
  PROVE  f.samples \in Seq(Sample) /\ f.timescale \in Nat /\ f.nalLength \in 1..4 /\ Len(f.samples) \in Nat
<1>1. CASE f \in Mp4Files
  BY <1>1, DemuxerAssumption DEF DemuxerAssumption
<1>2. CASE f = NoFile
  BY <1>2 DEF NoFile
<1> QED
  BY <1>1, <1>2

LEMMA Numbers ==
  /\ Second \in Nat \ {0} /\ DefaultDuration \in Nat \ {0}
  /\ NoFrameTimeout \in Nat \ {0} /\ BackoffMin \in Nat \ {0} /\ BackoffMax \in Nat
  /\ KeepaliveInterval \in Nat /\ CallTime \in Nat /\ MaxOffset \in Nat /\ MaxSessions \in Nat
  /\ AgeLimit \in Nat /\ AgeLimit >= CallTime
<1>1. /\ Second \in Nat \ {0} /\ DefaultDuration \in Nat \ {0}
      /\ NoFrameTimeout \in Nat \ {0} /\ BackoffMin \in Nat \ {0} /\ BackoffMax \in Nat
      /\ KeepaliveInterval \in Nat /\ CallTime \in Nat /\ MaxOffset \in Nat /\ MaxSessions \in Nat
  BY DemuxerAssumption DEF DemuxerAssumption
<1> QED
  BY <1>1 DEF AgeLimit

(* In what follows a number of units is whole if it is a whole number of   *)
(* microseconds.                                                           *)
Whole(f, t) == (t * Second) % f.timescale = 0

LEMMA Micros ==
  ASSUME NEW f, f.timescale \in Nat \ {0}, NEW x \in Nat, NEW y \in Nat
  PROVE  /\ ToMicroseconds(f, x) \in Nat
         /\ x <= y => ToMicroseconds(f, x) <= ToMicroseconds(f, y)
         /\ Whole(f, x) => ToMicroseconds(f, x + y) = ToMicroseconds(f, x) + ToMicroseconds(f, y)
         /\ Whole(f, x) /\ Whole(f, y) => Whole(f, x + y)
         /\ Whole(f, y) /\ x < y => ToMicroseconds(f, x) < ToMicroseconds(f, y)
<1> DEFINE n == f.timescale
           u == x * Second
           v == y * Second
<1>1. n \in Nat \ {0} /\ u \in Nat /\ v \in Nat /\ (x + y) * Second = u + v
  BY Numbers
<1>2. x <= y => u <= v
  <2>1. SUFFICES ASSUME x <= y PROVE u <= v
    OBVIOUS
  <2>2. Second \in Nat
    BY Numbers
  <2> QED
    BY <2>1, <2>2
<1>3. x < y => u < v
  <2>1. SUFFICES ASSUME x < y PROVE u < v
    OBVIOUS
  <2>2. Second \in Nat \ {0} /\ x + 1 <= y
    BY <2>1, Numbers
  <2>3. (x + 1) * Second <= y * Second
    BY <2>2
  <2>4. (x + 1) * Second = u + Second
    BY <2>2
  <2> QED
    BY <1>1, <2>2, <2>3, <2>4
<1> HIDE DEF n, u, v
<1>4. u \div n \in Nat
  BY <1>1, Quotient
<1>5. u <= v => u \div n <= v \div n
  BY <1>1, QuotientRises
<1>6. u % n = 0 => (u + v) \div n = u \div n + v \div n
  BY <1>1, QuotientAdds, ZenonT(60)
<1>7. u % n = 0 /\ v % n = 0 => (u + v) % n = 0
  BY <1>1, DividesSum
<1>8. ASSUME v % n = 0, u < v PROVE u \div n < v \div n
  <2> DEFINE q == u \div n
             r == v \div n
  <2>1. q \in Nat /\ n * q <= u /\ r \in Nat /\ v = n * r
    BY <1>1, <1>8, Quotient, Divides
  <2> HIDE DEF q, r
  <2>2. ASSUME r <= q PROVE FALSE
    <3>1. n * r <= n * q
      BY <1>1, <2>1, <2>2
    <3>2. n * q \in Nat /\ n * r \in Nat
      BY <1>1, <2>1
    <3> QED
      BY <1>1, <1>8, <2>1, <3>1, <3>2
  <2>3. q < r
    BY <2>1, <2>2
  <2> QED
    BY <2>3 DEF q, r
<1>9. /\ ToMicroseconds(f, x) = u \div n /\ ToMicroseconds(f, y) = v \div n
      /\ ToMicroseconds(f, x + y) = (u + v) \div n
      /\ Whole(f, x) = (u % n = 0) /\ Whole(f, y) = (v % n = 0) /\ Whole(f, x + y) = ((u + v) % n = 0)
  BY <1>1 DEF ToMicroseconds, Whole, n, u, v
<1>10. Whole(f, x) => ToMicroseconds(f, x + y) = ToMicroseconds(f, x) + ToMicroseconds(f, y)
  BY <1>6, <1>9
<1>11. Whole(f, x) /\ Whole(f, y) => Whole(f, x + y)
  BY <1>7, <1>9
<1>12. Whole(f, y) /\ x < y => ToMicroseconds(f, x) < ToMicroseconds(f, y)
  BY <1>3, <1>8, <1>9
<1> QED
  BY <1>2, <1>4, <1>5, <1>9, <1>10, <1>11, <1>12

(* The frame duration assumed where the file names none is positive, and   *)
(* what a sample is accounted for is positive and not less than it lasts.  *)
LEMMA FallbackFits ==
  ASSUME NEW f \in Mp4Files \cup {NoFile}
  PROVE  ResolveFallbackFrameDuration(f) \in Nat \ {0}
<1> DEFINE window == Min({Len(f.samples), 30})
           sum == SumsOfDurations(f.samples)[window]
<1>1. f.samples \in Seq(Sample) /\ f.timescale \in Nat /\ Len(f.samples) \in Nat
  BY FilesFit
<1>2. window \in 0 .. Len(f.samples)
  BY <1>1, Smaller
<1>3. sum \in Nat /\ (window = 0 => sum = 0)
  BY <1>1, <1>2, Sums
<1>4. CASE f.timescale = 0 \/ sum = 0
  BY <1>4, Numbers DEF ResolveFallbackFrameDuration
<1>5. CASE f.timescale # 0 /\ sum # 0
  <2> DEFINE q == (Second * sum) \div (f.timescale * window)
  <2>1. f.timescale * window \in Nat \ {0}
    <3>1. window \in Nat \ {0} /\ f.timescale \in Nat \ {0}
      BY <1>1, <1>2, <1>3, <1>5
    <3> HIDE DEF window
    <3> QED
      BY <3>1
  <2>2. Second * sum \in Nat
    <3> HIDE DEF sum
    <3> QED
      BY <1>3, Numbers
  <2>3. q \in Nat
    BY <2>1, <2>2, Quotient
  <2>4. ResolveFallbackFrameDuration(f) = Max({1, q})
    BY <1>5 DEF ResolveFallbackFrameDuration
  <2> HIDE DEF q
  <2>5. Max({1, q}) \in Nat \ {0}
    BY <2>3, Larger
  <2> QED
    BY <2>4, <2>5
<1> QED
  BY <1>4, <1>5

-----------------------------------------------------------------------------
(* Well-timed files.                                                       *)

(* The microseconds that have passed after i samples, and the time stamp of*)
(* a sample within a pass.                                                 *)
Elapsed(f, i) == ToMicroseconds(f, SumsOfDurations(f.samples)[i])
Shown(f, i) == ToMicroseconds(f, DecodeTime(f, i) + f.samples[i].cts)
Start(f) == ToMicroseconds(f, f.samples[1].cts)
Total(f) == Elapsed(f, Len(f.samples))

(* The two kinds of well-timed files.                                      *)
Unshifted(f) == \A i \in DOMAIN f.samples : f.samples[i].cts = 0
Shifted(f) ==
  \A i \in DOMAIN f.samples :
    /\ f.samples[i].sizes \intersect {1, 2, 4} # {}
    /\ Whole(f, f.samples[i].cts)
    /\ DecodeTime(f, i) + f.samples[i].cts
         \in f.samples[1].cts .. f.samples[1].cts + SumsOfDurations(f.samples)[Len(f.samples)] - 1

LEMMA WellTimedIs ==
  ASSUME NEW f, WellTimed(f)
  PROVE  /\ f.timescale # 0
         /\ \A i \in DOMAIN f.samples : Whole(f, f.samples[i].dur)
         /\ Unshifted(f) \/ Shifted(f)
BY Zenon DEF WellTimed, Whole, Unshifted, Shifted

(* Sums of whole durations are whole.                                      *)
LEMMA WholeSums ==
  ASSUME NEW f, f.samples \in Seq(Sample), f.timescale \in Nat \ {0},
         \A i \in DOMAIN f.samples : Whole(f, f.samples[i].dur),
         NEW i \in 0 .. Len(f.samples)
  PROVE  Whole(f, SumsOfDurations(f.samples)[i])
<1> DEFINE sum == SumsOfDurations(f.samples)
           n == Len(f.samples)
           bad == {k \in 0 .. n : ~Whole(f, sum[k])}
<1>1. /\ n \in Nat
      /\ \A k \in 0 .. n : sum[k] \in Nat
      /\ sum[0] = 0
      /\ \A k \in 1 .. n : sum[k] = sum[k - 1] + f.samples[k].dur
  <2>1. sum \in [0 .. n -> Nat]
    BY Sums
  <2> QED
    BY <2>1, Sums
<1>2. ASSUME NEW k \in 1 .. n
      PROVE  f.samples[k].dur \in Nat /\ Whole(f, f.samples[k].dur)
  <2>1. k \in DOMAIN f.samples /\ f.samples[k] \in Sample
    OBVIOUS
  <2> QED
    BY <2>1 DEF Sample
<1>3. i \in 0 .. n
  OBVIOUS
<1> HIDE DEF sum, n
<1>4. SUFFICES ASSUME bad # {} PROVE FALSE
  BY <1>3 DEF sum
<1>5. bad \in SUBSET Nat
  BY <1>1
<1>6. PICK m \in bad : \A k \in bad : m <= k
  BY <1>4, <1>5, Least
<1>7. m \in 0 .. n /\ ~Whole(f, sum[m])
  BY <1>6
<1>8. m # 0
  <2>1. (0 * Second) % f.timescale = 0
    BY Numbers
  <2> QED
    BY <1>1, <1>7, <2>1 DEF Whole
<1>9. m - 1 \in 0 .. n /\ m \in 1 .. n /\ ~(m <= m - 1)
  BY <1>1, <1>7, <1>8
<1>10. Whole(f, sum[m - 1])
  BY <1>6, <1>9
<1>11. sum[m] = sum[m - 1] + f.samples[m].dur /\ sum[m - 1] \in Nat
  BY <1>1, <1>9
<1>12. f.samples[m].dur \in Nat /\ Whole(f, f.samples[m].dur)
  BY <1>2, <1>9
<1>13. Whole(f, sum[m - 1] + f.samples[m].dur)
  BY <1>10, <1>11, <1>12, Micros
<1> QED
  BY <1>7, <1>11, <1>13

(* Within a pass the time that has passed grows by what the sample lasts.  *)
LEMMA ElapsedGrows ==
  ASSUME NEW f \in Mp4Files \cup {NoFile}, WellTimed(f)
  PROVE  /\ \A i \in 0 .. Len(f.samples) : Elapsed(f, i) \in Nat
         /\ Elapsed(f, 0) = 0
         /\ \A i \in 1 .. Len(f.samples) :
              /\ ToMicroseconds(f, f.samples[i].dur) \in Nat
              /\ Elapsed(f, i) = Elapsed(f, i - 1) + ToMicroseconds(f, f.samples[i].dur)
<1> DEFINE sum == SumsOfDurations(f.samples)
           n == Len(f.samples)
<1>1. f.samples \in Seq(Sample) /\ f.timescale \in Nat \ {0} /\ n \in Nat
  BY FilesFit, WellTimedIs
<1>2. /\ \A k \in 0 .. n : sum[k] \in Nat
      /\ sum[0] = 0
      /\ \A k \in 1 .. n : sum[k] = sum[k - 1] + f.samples[k].dur
  <2>1. sum \in [0 .. n -> Nat]
    BY <1>1, Sums
  <2> QED
    BY <1>1, <2>1, Sums
<1>3. \A k \in 0 .. n : Whole(f, sum[k])
  BY <1>1, WellTimedIs, WholeSums
<1>4. ASSUME NEW k \in 1 .. n
      PROVE  f.samples[k].dur \in Nat
  <2>1. f.samples[k] \in Sample
    BY <1>1
  <2> QED
    BY <2>1 DEF Sample
<1> HIDE DEF sum
<1>5. \A k \in 0 .. n : ToMicroseconds(f, sum[k]) \in Nat
  BY <1>1, <1>2, Micros
<1>6. ToMicroseconds(f, 0) = 0
  <2>1. 0 * Second = 0 /\ 0 \div f.timescale = 0
    BY <1>1, Numbers
  <2> QED
    BY <2>1 DEF ToMicroseconds
<1>7. ASSUME NEW k \in 1 .. n
      PROVE  /\ ToMicroseconds(f, f.samples[k].dur) \in Nat
             /\ ToMicroseconds(f, sum[k]) = ToMicroseconds(f, sum[k - 1]) + ToMicroseconds(f, f.samples[k].dur)
  <2>1. k - 1 \in 0 .. n
    BY <1>1
  <2>2. sum[k - 1] \in Nat /\ Whole(f, sum[k - 1]) /\ f.samples[k].dur \in Nat
        /\ sum[k] = sum[k - 1] + f.samples[k].dur
    BY <1>2, <1>3, <1>4, <2>1
  <2>3. ToMicroseconds(f, sum[k - 1] + f.samples[k].dur)
          = ToMicroseconds(f, sum[k - 1]) + ToMicroseconds(f, f.samples[k].dur)
    BY <1>1, <2>2, Micros
  <2>4. ToMicroseconds(f, f.samples[k].dur) \in Nat
    BY <1>1, <2>2, Micros
  <2> QED
    BY <2>2, <2>3, <2>4
<1> QED
  BY <1>2, <1>5, <1>6, <1>7 DEF Elapsed, sum

(* Without offsets a sample is shown when those before it have passed.     *)
LEMMA ShownUnshifted ==
  ASSUME NEW f \in Mp4Files \cup {NoFile}, Unshifted(f), NEW i \in 1 .. Len(f.samples)
  PROVE  Shown(f, i) = Elapsed(f, i - 1)
<1>1. f.samples \in Seq(Sample) /\ Len(f.samples) \in Nat
  BY FilesFit
<1>2. i - 1 \in 0 .. Len(f.samples)
  BY <1>1
<1>3. SumsOfDurations(f.samples)[i - 1] \in Nat
  BY <1>1, <1>2, Sums
<1>4. f.samples[i].cts = 0
  BY <1>1 DEF Unshifted
<1>5. DecodeTime(f, i) + f.samples[i].cts = SumsOfDurations(f.samples)[i - 1]
  BY <1>3, <1>4 DEF DecodeTime
<1> QED
  BY <1>5 DEF Shown, Elapsed

(* With offsets all samples are shown in a pass of positive length.        *)
LEMMA ShownShifted ==
  ASSUME NEW f \in Mp4Files \cup {NoFile}, WellTimed(f), Shifted(f), NEW i \in 1 .. Len(f.samples)
  PROVE  /\ Start(f) \in Nat /\ Shown(f, i) \in Nat /\ Total(f) \in Nat \ {0}
         /\ Start(f) <= Shown(f, i)
         /\ Shown(f, i) < Start(f) + Total(f)
<1> DEFINE sum == SumsOfDurations(f.samples)
           n == Len(f.samples)
           start == f.samples[1].cts
           shown == DecodeTime(f, i) + f.samples[i].cts
<1>1. f.samples \in Seq(Sample) /\ f.timescale \in Nat \ {0} /\ n \in Nat \ {0}
  BY FilesFit, WellTimedIs
<1>2. 1 \in DOMAIN f.samples /\ i \in DOMAIN f.samples /\ n \in 0 .. n
  BY <1>1
<1>3. sum[n] \in Nat /\ Whole(f, sum[n])
  <2>1. sum \in [0 .. n -> Nat]
    BY <1>1, Sums
  <2>2. \A k \in DOMAIN f.samples : Whole(f, f.samples[k].dur)
    BY WellTimedIs
  <2> QED
    BY <1>1, <1>2, <2>1, <2>2, WholeSums
<1>4. start \in Nat /\ Whole(f, start) /\ shown \in start .. start + sum[n] - 1
  <2>1. start \in Nat
    <3>1. f.samples[1] \in Sample
      BY <1>1, <1>2
    <3> QED
      BY <3>1 DEF Sample
  <2> QED
    BY <1>2, <2>1 DEF Shifted
<1> HIDE DEF sum, n, start, shown
<1>5. shown \in Nat /\ start <= shown /\ shown < start + sum[n] /\ start + sum[n] \in Nat /\ 0 < sum[n]
  BY <1>3, <1>4
<1>6. Whole(f, start + sum[n])
  BY <1>1, <1>3, <1>4, Micros
<1>7. ToMicroseconds(f, start + sum[n]) = ToMicroseconds(f, start) + ToMicroseconds(f, sum[n])
  BY <1>1, <1>3, <1>4, Micros
<1>8. ToMicroseconds(f, shown) < ToMicroseconds(f, start + sum[n])
  BY <1>1, <1>5, <1>6, Micros
<1>9. ToMicroseconds(f, start) <= ToMicroseconds(f, shown)
  BY <1>1, <1>4, <1>5, Micros
<1>10. /\ ToMicroseconds(f, start) \in Nat /\ ToMicroseconds(f, shown) \in Nat
       /\ ToMicroseconds(f, sum[n]) \in Nat /\ ToMicroseconds(f, 0) \in Nat
  BY <1>1, <1>3, <1>4, <1>5, Micros
<1>11. ToMicroseconds(f, 0) < ToMicroseconds(f, sum[n])
  BY <1>1, <1>3, <1>5, Micros
<1>12. Start(f) = ToMicroseconds(f, start) /\ Shown(f, i) = ToMicroseconds(f, shown)
       /\ Total(f) = ToMicroseconds(f, sum[n])
  BY DEF Start, Shown, Total, Elapsed, start, shown, sum, n
<1> QED
  BY <1>7, <1>8, <1>9, <1>10, <1>11, <1>12

(* The size of the length fields a sample is read with.                    *)
LEMMA Parsed ==
  ASSUME NEW s \in Sample, NEW preferred \in 1..4
  PROVE  /\ ParseLengthPrefixedNalUnitsAuto(s, preferred) \in 0..4
         /\ s.sizes \intersect {1, 2, 4} # {} => ParseLengthPrefixedNalUnitsAuto(s, preferred) # 0
<1> DEFINE candidates == <<preferred, 4, 2, 1>>
           fitting == {i \in 1..4 : candidates[i] \in s.sizes}
           parsed == ParseLengthPrefixedNalUnitsAuto(s, preferred)
<1>1. parsed = IF fitting = {} THEN 0 ELSE candidates[Min(fitting)]
  BY DEF ParseLengthPrefixedNalUnitsAuto
<1>2. \A i \in 1..4 : candidates[i] \in 1..4
  OBVIOUS
<1>3. ASSUME fitting # {} PROVE Min(fitting) \in 1..4
  <2>1. fitting \in SUBSET Nat
    OBVIOUS
  <2>2. \E m \in fitting : \A k \in fitting : m =< k
    BY <1>3, <2>1, Least
  <2>3. Min(fitting) \in fitting
    BY <2>2 DEF Min
  <2> QED
    BY <2>3
<1>4. ASSUME s.sizes \intersect {1, 2, 4} # {} PROVE fitting # {}
  <2>1. PICK k \in {1, 2, 4} : k \in s.sizes
    BY <1>4
  <2>2. candidates[2] = 4 /\ candidates[3] = 2 /\ candidates[4] = 1
    OBVIOUS
  <2> QED
    BY <2>1, <2>2
<1> HIDE DEF candidates, fitting, parsed
<1>5. parsed \in 0..4 /\ (fitting # {} => parsed # 0)
  BY <1>1, <1>2, <1>3
<1> QED
  BY <1>4, <1>5 DEF parsed

-----------------------------------------------------------------------------
(***************************************************************************)
(* The inductive invariant.  Types and places:                             *)
(***************************************************************************)
Packets == [pts : Int, key : BOOLEAN, config : Nat, known : Nat, first : BOOLEAN]

CallTypes ==
  /\ type \in {"kUnknown", "kMp4File", "kRtspPull"}
  /\ interrupted \in BOOLEAN
  /\ pc \in {"idle", "mp4", "rtsp", "connect", "prime", "keepalive", "receive"}
  /\ packet \in Packets
  /\ first \in BOOLEAN

FileTypes ==
  /\ file \in Mp4Files \cup {NoFile}
  /\ loop_playback \in BOOLEAN
  /\ sample_index \in 1 .. Len(file.samples) + 1
  /\ decoder_config_sent \in BOOLEAN
  /\ nal_length_size \in 1..4
  /\ packet_pts_offset \in Nat /\ current_loop_span \in Nat /\ emitted_pts_cursor \in Nat
  /\ passEnd \in Int /\ passMax \in Int

SessionTypes ==
  /\ playing \in BOOLEAN
  /\ session \in Nat /\ prefix \in Nat /\ known \in Nat
  /\ config_sent \in BOOLEAN

AgeTypes ==
  /\ nowAge \in 0 .. CallTime
  /\ frameAge \in Nat /\ keepaliveAge \in Nat /\ silence \in Nat
  /\ reconnectWait \in Nat /\ backoff \in Nat
  /\ resumed \in BOOLEAN

(* A call is where the kind of input sends it.                             *)
Places ==
  /\ pc = "mp4" => type = "kMp4File" /\ packet = NoPacket
  /\ pc \in {"rtsp", "connect", "prime", "keepalive", "receive"} => type = "kRtspPull"

Types == CallTypes /\ FileTypes /\ SessionTypes /\ AgeTypes /\ Places

(***************************************************************************)
(* What a pass has accounted for is not less than what has elapsed in it,  *)
(* the earlier passes end before the present one begins, and all that was  *)
(* read lies before what the next pass can begin with.  An offset beyond   *)
(* the bound is met only by a pass that has yielded nothing.               *)
(***************************************************************************)
EndsBefore ==
  \/ /\ Unshifted(file)
     /\ passEnd < packet_pts_offset
     /\ passMax < packet_pts_offset + emitted_pts_cursor
  \/ /\ Shifted(file) /\ Len(file.samples) # 0
     /\ passEnd < packet_pts_offset + Start(file)
     /\ passMax < packet_pts_offset + Start(file) + (IF sample_index = 1 THEN 0 ELSE Total(file))

Passes ==
  /\ emitted_pts_cursor >= Elapsed(file, sample_index - 1)
  /\ pc = "mp4" /\ packet_pts_offset > MaxOffset => emitted_pts_cursor = 0
  /\ EndsBefore
  /\ type = "kMp4File" /\ packet # NoPacket => packet.pts > passEnd

PassInv ==
  /\ current_loop_span = emitted_pts_cursor
  /\ WellTimed(file) => Passes

(***************************************************************************)
(* A reader at its beginning has not sent the parameter sets, and what it  *)
(* would put in front of a frame is what it has learnt.                    *)
(***************************************************************************)
ConfigInv ==
  /\ type = "kMp4File" /\ first => ~decoder_config_sent
  /\ type = "kRtspPull" /\ first => ~config_sent
  /\ prefix = known
  /\ ConfiguredFirst

(* What the demuxer takes for the time without a frame is that time, up to *)
(* the length of one call.                                                 *)
SilenceInv == resumed \/ frameAge <= silence + CallTime

DemuxerInv == Types /\ PassInv /\ ConfigInv /\ SilenceInv

(***************************************************************************)
(* The steps of the demuxer, one by one.                                   *)
(***************************************************************************)
LEMMA Cases ==
  ASSUME DemuxerNext
  PROVE  \/ ReadSample \/ ReadEnds \/ ReadLoops
         \/ RtspTurn \/ ConnectFails \/ Connect \/ Prime \/ Keepalive \/ KeepaliveFails
         \/ \E key, empty \in BOOLEAN : ReceiveFrame(key, empty)
         \/ ReceiveNothing \/ ReceiveGivesUp
         \/ \E uri \in Uris : OpenFails(uri)
         \/ \E uri \in Uris : OpenRtsp(uri)
         \/ \E uri \in Uris, f \in Mp4Files, loop \in BOOLEAN : OpenMp4(uri, f, loop)
         \/ CloseDemuxer \/ Interrupt \/ ResetMp4 \/ ResetRtsp \/ ReadPacket
         \/ ConnectionLost \/ Tick
BY DEF DemuxerNext, DemuxThread, DemuxerOwner

LEMMA NoneFit == NoPacket \in Packets /\ NoFile \in Mp4Files \cup {NoFile} /\ Len(NoFile.samples) = 0
BY DEF NoPacket, Packets, NoFile

(* The types of what a file's sample yields.                               *)
LEMMA SampleFits ==
  ASSUME Types, Readable
  PROVE  /\ file.timescale \in Nat \ {0}
         /\ sample_index \in 1 .. Len(file.samples)
         /\ file.samples[sample_index] \in Sample
         /\ DecodeTime(file, sample_index) + file.samples[sample_index].cts \in Nat
         /\ Shown(file, sample_index) \in Nat
         /\ ToMicroseconds(file, file.samples[sample_index].dur) \in Nat
         /\ EffectiveDuration(file.samples[sample_index]) \in Nat \ {0}
         /\ EffectiveDuration(file.samples[sample_index]) >= ToMicroseconds(file, file.samples[sample_index].dur)
<1> DEFINE s == file.samples[sample_index]
<1>1. /\ file \in Mp4Files \cup {NoFile} /\ sample_index \in 1 .. Len(file.samples) + 1
      /\ file.samples \in Seq(Sample) /\ file.timescale \in Nat /\ Len(file.samples) \in Nat
  BY FilesFit DEF Types, FileTypes
<1>2. file.timescale \in Nat \ {0} /\ sample_index \in 1 .. Len(file.samples)
  BY <1>1 DEF Readable, AtSample
<1>3. s \in Sample /\ s.dur \in Nat /\ s.cts \in Nat
  <2>1. s \in Sample
    BY <1>1, <1>2
  <2> QED
    BY <2>1 DEF Sample
<1>4. DecodeTime(file, sample_index) \in Nat
  <2>1. SumsOfDurations(file.samples) \in [0 .. Len(file.samples) -> Nat]
    BY <1>1, Sums
  <2>2. sample_index - 1 \in 0 .. Len(file.samples)
    BY <1>1, <1>2
  <2> QED
    BY <2>1, <2>2 DEF DecodeTime
<1> DEFINE t == DecodeTime(file, sample_index) + s.cts
<1>5. t \in Nat
  BY <1>3, <1>4
<1>6. ToMicroseconds(file, t) \in Nat /\ ToMicroseconds(file, s.dur) \in Nat
  <2> HIDE DEF t, s
  <2> QED
    BY <1>2, <1>3, <1>5, Micros
<1>7. ResolveFallbackFrameDuration(file) \in Nat \ {0}
  BY <1>1, FallbackFits
<1>8. EffectiveDuration(s) \in Nat \ {0} /\ EffectiveDuration(s) >= ToMicroseconds(file, s.dur)
  <2> HIDE DEF s
  <2> QED
    BY <1>6, <1>7 DEF EffectiveDuration
<1> QED
  BY <1>2, <1>3, <1>5, <1>6, <1>8 DEF Shown

(* What ReadSample does, in the terms used here.                           *)
Present == file.samples[sample_index]
Stamp == packet_pts_offset + Shown(file, sample_index)
Injected == ~decoder_config_sent \/ Present.key

LEMMA SampleSteps ==
  ASSUME Types, ReadSample
  PROVE  /\ packet' = [pts |-> Stamp, key |-> Present.key, config |-> IF Injected THEN 1 ELSE 0,
                       known |-> 1, first |-> first]
         /\ decoder_config_sent' = (decoder_config_sent \/ Injected)
         /\ nal_length_size' \in 1..4
         /\ emitted_pts_cursor' = emitted_pts_cursor + EffectiveDuration(Present)
         /\ current_loop_span' = emitted_pts_cursor'
         /\ passMax' = IF passMax >= Stamp THEN passMax ELSE Stamp
         /\ Stamp \in Nat /\ Present.key \in BOOLEAN
<1>1. Readable
  BY DEF ReadSample
<1>2. Present \in Sample /\ Shown(file, sample_index) \in Nat /\ Present.key \in BOOLEAN
  <2>1. Present \in Sample
    BY <1>1, SampleFits DEF Present
  <2> QED
    BY <1>1, <2>1, SampleFits DEF Sample
<1>3. nal_length_size \in 1..4 /\ packet_pts_offset \in Nat /\ passMax \in Int
  BY DEF Types, FileTypes
<1>4. /\ ParseLengthPrefixedNalUnitsAuto(Present, nal_length_size) \in 0..4
      /\ ParseLengthPrefixedNalUnitsAuto(Present, nal_length_size) # 0
  BY <1>1, <1>2, <1>3, Parsed DEF Readable, Present
<1>5. Stamp \in Nat
  BY <1>2, <1>3 DEF Stamp
<1>6. Max({passMax, Stamp}) = IF passMax >= Stamp THEN passMax ELSE Stamp
  BY <1>3, <1>5, Larger
<1>7. /\ packet' = [pts |-> Stamp, key |-> Present.key, config |-> IF Injected THEN 1 ELSE 0,
                    known |-> 1, first |-> first]
      /\ nal_length_size' = ParseLengthPrefixedNalUnitsAuto(Present, nal_length_size)
      /\ decoder_config_sent' = (decoder_config_sent \/ Injected)
      /\ current_loop_span' = emitted_pts_cursor + EffectiveDuration(Present)
      /\ emitted_pts_cursor' = emitted_pts_cursor + EffectiveDuration(Present)
      /\ passMax' = Max({passMax, Stamp})
  BY Zenon DEF ReadSample, Present, Stamp, Injected, Shown
<1>8. nal_length_size' \in 1..4
  BY <1>4, <1>7
<1> QED
  BY <1>2, <1>5, <1>6, <1>7, <1>8

-----------------------------------------------------------------------------
(* Type correctness.                                                       *)

(* What Close and every Open leave of a file.                              *)
Opened(f) ==
  /\ packet' = NoPacket /\ first' = TRUE
  /\ file' = f
  /\ sample_index' = 1 /\ decoder_config_sent' = FALSE
  /\ packet_pts_offset' = 0 /\ current_loop_span' = 0 /\ emitted_pts_cursor' = 0
  /\ passEnd' = -1 /\ passMax' = -1
  /\ pc = "idle" /\ pc' = "idle"

(* The steps, by what they do to the file that is open.                    *)
Opening ==
  \/ /\ Opened(NoFile) /\ nal_length_size' = 4 /\ loop_playback' = FALSE
     /\ type' \in {"kUnknown", "kRtspPull"}
  \/ \E f \in Mp4Files : /\ Opened(f) /\ nal_length_size' = f.nalLength /\ loop_playback' \in BOOLEAN
                         /\ type' = "kMp4File"
  \/ /\ Opened(file) /\ UNCHANGED <<type, nal_length_size, loop_playback>> /\ type = "kMp4File"

SessionStep ==
  \/ RtspTurn \/ ConnectFails \/ Connect \/ Prime \/ Keepalive \/ KeepaliveFails
  \/ \E key, empty \in BOOLEAN : ReceiveFrame(key, empty)
  \/ ReceiveNothing \/ ReceiveGivesUp

FileAside ==
  \/ SessionStep \/ Interrupt \/ ResetRtsp \/ ReadPacket \/ ConnectionLost \/ Tick

LEMMA FileCases ==
  ASSUME DemuxerNext
  PROVE  ReadSample \/ ReadEnds \/ ReadLoops \/ Opening \/ (FileAside /\ UNCHANGED mp4Vars)
<1>1. CASE \E uri \in Uris : OpenFails(uri)
  BY <1>1 DEF OpenFails, CloseState, ResetPlaybackState, Opening, Opened
<1>2. CASE \E uri \in Uris : OpenRtsp(uri)
  BY <1>2 DEF OpenRtsp, ResetPlaybackState, Opening, Opened
<1>3. CASE \E uri \in Uris, f \in Mp4Files, loop \in BOOLEAN : OpenMp4(uri, f, loop)
  <2>1. PICK uri \in Uris, f \in Mp4Files, loop \in BOOLEAN : OpenMp4(uri, f, loop)
    BY <1>3
  <2> QED
    BY <2>1 DEF OpenMp4, ResetReader, ResetPlaybackState, Opening, Opened
<1>4. CASE CloseDemuxer
  BY <1>4 DEF CloseDemuxer, CloseState, ResetPlaybackState, Opening, Opened
<1>5. CASE ResetMp4
  BY <1>5 DEF ResetMp4, ResetReader, ResetPlaybackState, Opening, Opened
<1>6. CASE SessionStep
  <2>1. UNCHANGED mp4Vars
    BY <1>6 DEF SessionStep, RtspTurn, ConnectFails, Connect, Prime, Keepalive, KeepaliveFails,
                ReceiveFrame, ReceiveNothing, ReceiveGivesUp
  <2> QED
    BY <1>6, <2>1 DEF FileAside
<1>7. CASE Interrupt \/ ResetRtsp \/ ReadPacket \/ ConnectionLost \/ Tick
  <2>1. UNCHANGED mp4Vars
    BY <1>7 DEF Interrupt, ResetRtsp, ReadPacket, ConnectionLost, Tick
  <2> QED
    BY <1>7, <2>1 DEF FileAside
<1> QED
  BY <1>1, <1>2, <1>3, <1>4, <1>5, <1>6, <1>7, Cases DEF SessionStep

(* What a loop leaves.                                                     *)
LEMMA LoopSteps ==
  ASSUME Types, ReadLoops
  PROVE  /\ packet_pts_offset' \in Nat
         /\ packet_pts_offset > MaxOffset => packet_pts_offset' = packet_pts_offset
         /\ packet_pts_offset <= MaxOffset =>
              /\ packet_pts_offset' > packet_pts_offset
              /\ packet_pts_offset' >= packet_pts_offset + current_loop_span
         /\ current_loop_span' = 0 /\ emitted_pts_cursor' = 0
         /\ passEnd' = passMax /\ passMax' = passMax
         /\ sample_index' = 1 /\ decoder_config_sent' = FALSE /\ first' = TRUE
         /\ UNCHANGED <<type, pc, packet, file, loop_playback, rtspVars>>
<1>1. /\ file \in Mp4Files \cup {NoFile} /\ packet_pts_offset \in Nat /\ current_loop_span \in Nat
  BY DEF Types, FileTypes
<1>2. ResolveFallbackFrameDuration(file) \in Nat \ {0}
  BY <1>1, FallbackFits
<1>3. MaxOffset \in Nat
  BY Numbers
<1> QED
  BY <1>1, <1>2, <1>3 DEF ReadLoops, ResetReader, AdvanceLoopPlaybackState

LEMMA LearntFits ==
  ASSUME Types, LearnNalLength
  PROVE  nal_length_size' \in 1..4
<1>1. nal_length_size \in 1..4 /\ file \in Mp4Files \cup {NoFile} /\ sample_index \in 1 .. Len(file.samples) + 1
  BY DEF Types, FileTypes
<1>2. file.samples \in Seq(Sample) /\ Len(file.samples) \in Nat
  BY <1>1, FilesFit
<1>3. CASE AtSample
  <2>1. sample_index \in 1 .. Len(file.samples)
    BY <1>1, <1>2, <1>3 DEF AtSample
  <2>2. file.samples[sample_index] \in Sample
    BY <1>2, <2>1
  <2>3. ParseLengthPrefixedNalUnitsAuto(file.samples[sample_index], nal_length_size) \in 0..4
    BY <1>1, <2>2, Parsed
  <2> QED
    BY <1>1, <1>3, <2>3 DEF LearnNalLength
<1>4. CASE ~AtSample
  BY <1>1, <1>4 DEF LearnNalLength
<1> QED
  BY <1>3, <1>4

LEMMA FileTypesStep ==
  ASSUME Types, [DemuxerNext]_demuxerVars
  PROVE  FileTypes'
<1>1. /\ file \in Mp4Files \cup {NoFile} /\ loop_playback \in BOOLEAN
      /\ sample_index \in 1 .. Len(file.samples) + 1
      /\ decoder_config_sent \in BOOLEAN /\ nal_length_size \in 1..4
      /\ packet_pts_offset \in Nat /\ current_loop_span \in Nat /\ emitted_pts_cursor \in Nat
      /\ passEnd \in Int /\ passMax \in Int
  BY DEF Types, FileTypes
<1>2. Len(file.samples) \in Nat
  BY <1>1, FilesFit
<1>3. CASE UNCHANGED mp4Vars
  BY <1>1, <1>3 DEF FileTypes, mp4Vars
<1>4. CASE ReadSample
  <2>1. Readable
    BY <1>4 DEF ReadSample
  <2>2. sample_index \in 1 .. Len(file.samples) /\ EffectiveDuration(Present) \in Nat
    BY <2>1, SampleFits DEF Present
  <2>3. /\ decoder_config_sent' = (decoder_config_sent \/ Injected)
        /\ nal_length_size' \in 1..4
        /\ emitted_pts_cursor' = emitted_pts_cursor + EffectiveDuration(Present)
        /\ current_loop_span' = emitted_pts_cursor'
        /\ passMax' = IF passMax >= Stamp THEN passMax ELSE Stamp
        /\ Stamp \in Nat
    BY <1>4, SampleSteps
  <2>4. sample_index' = sample_index + 1 /\ UNCHANGED <<file, loop_playback, packet_pts_offset, passEnd>>
    BY <1>4 DEF ReadSample
  <2>5. decoder_config_sent' \in BOOLEAN
    BY <2>3, Zenon
  <2>6. sample_index' \in 1 .. Len(file'.samples) + 1
    BY <1>2, <2>2, <2>4
  <2>7. emitted_pts_cursor' \in Nat /\ current_loop_span' \in Nat /\ passMax' \in Int
    BY <1>1, <2>2, <2>3
  <2> QED
    BY <1>1, <2>3, <2>4, <2>5, <2>6, <2>7 DEF FileTypes
<1>5. CASE ReadEnds
  <2>1. nal_length_size' \in 1..4
    BY <1>5, LearntFits DEF ReadEnds
  <2> QED
    BY <1>1, <1>5, <2>1 DEF ReadEnds, FileTypes
<1>6. CASE ReadLoops
  <2>1. nal_length_size' \in 1..4
    BY <1>6, LearntFits DEF ReadLoops
  <2>2. 1 \in 1 .. Len(file.samples) + 1
    BY <1>2
  <2> QED
    BY <1>1, <1>6, <2>1, <2>2, LoopSteps DEF FileTypes
<1>7. CASE Opening
  <2>1. ASSUME NEW f \in Mp4Files \cup {NoFile}, Opened(f)
        PROVE  /\ file' \in Mp4Files \cup {NoFile} /\ sample_index' \in 1 .. Len(file'.samples) + 1
               /\ decoder_config_sent' \in BOOLEAN
               /\ packet_pts_offset' \in Nat /\ current_loop_span' \in Nat /\ emitted_pts_cursor' \in Nat
               /\ passEnd' \in Int /\ passMax' \in Int
    <3>1. Len(f.samples) \in Nat
      BY FilesFit
    <3>2. 1 \in 1 .. Len(f.samples) + 1
      BY <3>1
    <3>3. /\ file' = f /\ sample_index' = 1 /\ decoder_config_sent' = FALSE
          /\ packet_pts_offset' = 0 /\ current_loop_span' = 0 /\ emitted_pts_cursor' = 0
          /\ passEnd' = -1 /\ passMax' = -1
      BY <2>1 DEF Opened
    <3>4. 0 \in Nat /\ -1 \in Int
      OBVIOUS
    <3> QED
      BY <3>2, <3>3, <3>4
  <2>2. CASE Opened(NoFile) /\ nal_length_size' = 4 /\ loop_playback' = FALSE
    <3>1. NoFile \in Mp4Files \cup {NoFile} /\ Opened(NoFile)
      BY <2>2
    <3>2. nal_length_size' \in 1..4
      BY <2>2
    <3>3. loop_playback' \in BOOLEAN
      BY <2>2, Zenon
    <3> QED
      BY <2>1, <3>1, <3>2, <3>3 DEF FileTypes
  <2>3. CASE \E f \in Mp4Files : Opened(f) /\ nal_length_size' = f.nalLength /\ loop_playback' \in BOOLEAN
    <3>1. PICK f \in Mp4Files : Opened(f) /\ nal_length_size' = f.nalLength /\ loop_playback' \in BOOLEAN
      BY <2>3
    <3>2. f.nalLength \in 1..4
      BY FilesFit
    <3> QED
      BY <2>1, <3>1, <3>2 DEF FileTypes
  <2>4. CASE Opened(file) /\ UNCHANGED <<nal_length_size, loop_playback>>
    BY <1>1, <2>1, <2>4 DEF FileTypes
  <2> QED
    BY <1>7, <2>2, <2>3, <2>4 DEF Opening
<1>8. CASE UNCHANGED demuxerVars
  BY <1>3, <1>8 DEF demuxerVars
<1> QED
  BY <1>3, <1>4, <1>5, <1>6, <1>7, <1>8, FileCases

LEMMA SessionTypesStep ==
  ASSUME Types, [DemuxerNext]_demuxerVars
  PROVE  SessionTypes'
<1>1. playing \in BOOLEAN /\ session \in Nat /\ prefix \in Nat /\ known \in Nat /\ config_sent \in BOOLEAN
  BY DEF Types, SessionTypes
<1>2. CASE UNCHANGED <<playing, session, prefix, config_sent, known>>
  BY <1>1, <1>2 DEF SessionTypes
<1>3. CASE ReadSample \/ ReadEnds \/ ReadLoops \/ RtspTurn \/ Keepalive \/ ReceiveNothing \/ Interrupt
           \/ ResetMp4 \/ ReadPacket \/ Tick
  BY <1>2, <1>3 DEF ReadSample, ReadEnds, ReadLoops, RtspTurn, Keepalive, ReceiveNothing, Interrupt,
                    ResetMp4, ReadPacket, Tick, rtspVars
<1>4. CASE CloseRtspSession /\ session' = session
  BY <1>1, <1>4 DEF CloseRtspSession, SessionTypes
<1>5. CASE \/ ConnectFails \/ KeepaliveFails \/ ReceiveGivesUp \/ CloseDemuxer
           \/ \E uri \in Uris : OpenFails(uri)
           \/ \E uri \in Uris, f \in Mp4Files, loop \in BOOLEAN : OpenMp4(uri, f, loop)
  BY <1>4, <1>5 DEF ConnectFails, KeepaliveFails, ReceiveGivesUp, ScheduleRtspReconnect, CloseDemuxer,
                    OpenFails, CloseState, OpenMp4
<1>6. CASE StartRtspPlayback
  <2>1. /\ playing' = TRUE /\ session' = session + 1 /\ prefix' \in {0, session + 1} /\ known' = prefix'
        /\ config_sent' = FALSE
    BY <1>6 DEF StartRtspPlayback
  <2>2. session + 1 \in Nat /\ 0 \in Nat
    BY <1>1
  <2> QED
    BY <2>1, <2>2 DEF SessionTypes
<1>7. CASE Connect
  BY <1>6, <1>7 DEF Connect
<1>8. CASE ResetRtsp
  BY <1>2, <1>4, <1>6, <1>8 DEF ResetRtsp
<1>9. CASE \E uri \in Uris : OpenRtsp(uri)
  <2>1. /\ playing' = TRUE /\ session' = session + 1 /\ prefix' \in {0, session'} /\ known' = prefix'
        /\ config_sent' = FALSE
    BY <1>9 DEF OpenRtsp
  <2>2. session + 1 \in Nat /\ 0 \in Nat
    BY <1>1
  <2> QED
    BY <2>1, <2>2 DEF SessionTypes
<1>10. CASE Prime
  BY <1>1, <1>10 DEF Prime, PrimeRtspStreamInfo, SessionTypes
<1>11. CASE \E key, empty \in BOOLEAN : ReceiveFrame(key, empty)
  <2>1. PICK key \in BOOLEAN, empty \in BOOLEAN : ReceiveFrame(key, empty)
    BY <1>11
  <2>2. config_sent' \in BOOLEAN /\ UNCHANGED <<playing, session, prefix, known>>
    BY <2>1, Zenon DEF ReceiveFrame
  <2> QED
    BY <1>1, <2>2 DEF SessionTypes
<1>12. CASE ConnectionLost
  BY <1>1, <1>12 DEF ConnectionLost, SessionTypes
<1>13. CASE UNCHANGED demuxerVars
  BY <1>2, <1>13 DEF demuxerVars, rtspVars
<1> QED
  BY <1>3, <1>5, <1>7, <1>8, <1>9, <1>10, <1>11, <1>12, <1>13, Cases

LEMMA OlderFits ==
  ASSUME NEW age \in Nat
  PROVE  /\ Older(age) \in Nat
         /\ Older(age) = IF age + 1 <= AgeLimit THEN age + 1 ELSE AgeLimit
<1>1. age + 1 \in Int /\ AgeLimit \in Nat
  BY Numbers
<1> QED
  BY <1>1, Smaller DEF Older

LEMMA AgeTypesStep ==
  ASSUME Types, [DemuxerNext]_demuxerVars
  PROVE  AgeTypes'
<1>1. /\ nowAge \in 0 .. CallTime /\ frameAge \in Nat /\ keepaliveAge \in Nat /\ silence \in Nat
      /\ reconnectWait \in Nat /\ backoff \in Nat /\ resumed \in BOOLEAN
  BY DEF Types, AgeTypes
<1>2. /\ CallTime \in Nat /\ BackoffMin \in Nat /\ BackoffMax \in Nat /\ 0 \in 0 .. CallTime
  BY Numbers
<1>3. CASE UNCHANGED timeVars
  BY <1>1, <1>3 DEF timeVars, AgeTypes
<1>4. CASE \/ ReadSample \/ ReadEnds \/ ReadLoops \/ Prime \/ ReceiveNothing
           \/ \E uri \in Uris : OpenFails(uri)
           \/ \E uri \in Uris, f \in Mp4Files, loop \in BOOLEAN : OpenMp4(uri, f, loop)
           \/ CloseDemuxer \/ Interrupt \/ ResetMp4 \/ ReadPacket \/ ConnectionLost
  BY <1>3, <1>4 DEF ReadSample, ReadEnds, ReadLoops, Prime, ReceiveNothing, OpenFails, CloseState, OpenMp4,
                    CloseDemuxer, Interrupt, ResetMp4, ReadPacket, ConnectionLost, rtspVars
<1>5. CASE RtspTurn
  BY <1>1, <1>2, <1>5 DEF RtspTurn, AgeTypes
<1>6. CASE ConnectFails
  <2>1. Max({0, backoff - nowAge}) \in Nat
    BY <1>1, Larger
  <2>2. Min({2 * backoff, BackoffMax}) \in Nat
    BY <1>1, <1>2, Smaller
  <2> QED
    BY <1>1, <1>6, <2>1, <2>2 DEF ConnectFails, AgeTypes
<1>7. CASE Connect \/ \E uri \in Uris : OpenRtsp(uri)
  <2>1. /\ frameAge' = 0 /\ keepaliveAge' = 0 /\ reconnectWait' = 0 /\ backoff' = BackoffMin
        /\ silence' = 0 /\ resumed' = FALSE /\ nowAge' \in {0, nowAge}
    BY <1>7 DEF Connect, OpenRtsp, StartRtspPlayback, MarkRtspActivity
  <2> QED
    BY <1>1, <1>2, <2>1 DEF AgeTypes
<1>8. CASE Keepalive
  BY <1>1, <1>8 DEF Keepalive, AgeTypes
<1>9. CASE KeepaliveFails \/ ReceiveGivesUp
  BY <1>1, <1>2, <1>9 DEF KeepaliveFails, ReceiveGivesUp, ScheduleRtspReconnect, AgeTypes
<1>10. CASE \E key, empty \in BOOLEAN : ReceiveFrame(key, empty)
  <2>1. frameAge' = nowAge /\ silence' = 0 /\ resumed' = FALSE
    BY <1>10 DEF ReceiveFrame, MarkFrame
  <2>2. UNCHANGED <<nowAge, keepaliveAge, reconnectWait, backoff>>
    BY <1>10 DEF ReceiveFrame
  <2>3. nowAge \in Nat
    BY <1>1, <1>2
  <2> QED
    BY <1>1, <2>1, <2>2, <2>3 DEF AgeTypes
<1>11. CASE ResetRtsp
  BY <1>1, <1>11 DEF ResetRtsp, StartRtspPlayback, AgeTypes
<1>12. CASE Tick
  <2>1. nowAge' \in 0 .. CallTime
    BY <1>1, <1>2, <1>12 DEF Tick
  <2>2. frameAge' \in Nat /\ keepaliveAge' \in Nat /\ silence' \in Nat
    BY <1>1, <1>12, OlderFits DEF Tick
  <2>3. reconnectWait' \in Nat
    BY <1>1, <1>12, Larger DEF Tick
  <2> QED
    BY <1>1, <1>12, <2>1, <2>2, <2>3 DEF Tick, AgeTypes
<1>13. CASE UNCHANGED demuxerVars
  BY <1>3, <1>13 DEF demuxerVars, rtspVars
<1> QED
  BY <1>4, <1>5, <1>6, <1>7, <1>8, <1>9, <1>10, <1>11, <1>12, <1>13, Cases

LEMMA PlacesStep ==
  ASSUME Types, [DemuxerNext]_demuxerVars
  PROVE  Places'
<1>1. /\ pc = "mp4" => type = "kMp4File" /\ packet = NoPacket
      /\ pc \in {"rtsp", "connect", "prime", "keepalive", "receive"} => type = "kRtspPull"
      /\ type \in {"kUnknown", "kMp4File", "kRtspPull"}
  BY DEF Types, Places, CallTypes
<1>2. CASE pc' = "idle"
  BY <1>2 DEF Places
<1>3. CASE UNCHANGED <<type, pc, packet>>
  BY <1>1, <1>3 DEF Places
<1>4. CASE pc' \in {"rtsp", "connect", "prime", "keepalive", "receive"} /\ type' = "kRtspPull"
  BY <1>4 DEF Places
<1>5. CASE SessionStep
  <2>1. pc \in {"rtsp", "connect", "prime", "keepalive", "receive"} /\ type' = type
    BY <1>5 DEF SessionStep, RtspTurn, ConnectFails, Connect, Prime, Keepalive, KeepaliveFails,
                ReceiveFrame, ReceiveNothing, ReceiveGivesUp
  <2>2. pc' \in {"idle", "rtsp", "connect", "prime", "keepalive", "receive"}
    BY <1>5 DEF SessionStep, RtspTurn, ConnectFails, Connect, Prime, Keepalive, KeepaliveFails,
                ReceiveFrame, ReceiveNothing, ReceiveGivesUp
  <2> QED
    BY <1>1, <1>2, <1>4, <2>1, <2>2
<1>6. CASE ReadSample \/ ReadEnds
  BY <1>2, <1>6 DEF ReadSample, ReadEnds
<1>7. CASE ReadLoops
  BY <1>3, <1>7 DEF ReadLoops
<1>8. CASE Opening
  BY <1>2, <1>8 DEF Opening, Opened
<1>9. CASE ReadPacket
  BY <1>1, <1>9 DEF ReadPacket, Places
<1>10. CASE Interrupt \/ ConnectionLost \/ Tick
  BY <1>3, <1>10 DEF Interrupt, ConnectionLost, Tick
<1>11. CASE ResetRtsp
  BY <1>2, <1>11 DEF ResetRtsp
<1>12. CASE UNCHANGED demuxerVars
  BY <1>3, <1>12 DEF demuxerVars
<1> QED
  BY <1>5, <1>6, <1>7, <1>8, <1>9, <1>10, <1>11, <1>12, FileCases DEF FileAside

LEMMA CallTypesStep ==
  ASSUME Types, [DemuxerNext]_demuxerVars
  PROVE  CallTypes'
<1>1. /\ type \in {"kUnknown", "kMp4File", "kRtspPull"} /\ interrupted \in BOOLEAN
      /\ pc \in {"idle", "mp4", "rtsp", "connect", "prime", "keepalive", "receive"}
      /\ packet \in Packets /\ first \in BOOLEAN
  BY DEF Types, CallTypes
<1>2. config_sent \in BOOLEAN /\ known \in Nat /\ prefix \in Nat
  BY DEF Types, SessionTypes
<1>3. type' \in {"kUnknown", "kMp4File", "kRtspPull"}
      /\ pc' \in {"idle", "mp4", "rtsp", "connect", "prime", "keepalive", "receive"}
  <2>1. CASE ReadSample \/ ReadEnds \/ ReadLoops
    BY <1>1, <2>1 DEF ReadSample, ReadEnds, ReadLoops
  <2>2. CASE Opening
    BY <1>1, <2>2 DEF Opening, Opened
  <2>3. CASE SessionStep
    BY <1>1, <2>3 DEF SessionStep, RtspTurn, ConnectFails, Connect, Prime, Keepalive, KeepaliveFails,
                      ReceiveFrame, ReceiveNothing, ReceiveGivesUp
  <2>4. CASE Interrupt \/ ResetRtsp \/ ReadPacket \/ ConnectionLost \/ Tick
    BY <1>1, <2>4 DEF Interrupt, ResetRtsp, ReadPacket, ConnectionLost, Tick
  <2>5. CASE UNCHANGED demuxerVars
    BY <1>1, <2>5 DEF demuxerVars
  <2> QED
    BY <2>1, <2>2, <2>3, <2>4, <2>5, FileCases DEF FileAside
<1>4. interrupted' \in BOOLEAN
  <2>1. CASE \/ \E uri \in Uris : OpenFails(uri) \/ OpenRtsp(uri)
             \/ \E uri \in Uris, f \in Mp4Files, loop \in BOOLEAN : OpenMp4(uri, f, loop)
             \/ CloseDemuxer \/ Interrupt \/ ResetMp4 \/ ResetRtsp
    BY <2>1 DEF OpenFails, OpenRtsp, OpenMp4, CloseDemuxer, CloseState, Interrupt, ResetMp4, ResetRtsp
  <2>2. CASE ReadSample \/ ReadEnds \/ ReadLoops \/ SessionStep
    BY <1>1, <2>2 DEF ReadSample, ReadEnds, ReadLoops, SessionStep, RtspTurn, ConnectFails, Connect, Prime,
                      Keepalive, KeepaliveFails, ReceiveFrame, ReceiveNothing, ReceiveGivesUp
  <2>3. CASE ReadPacket \/ ConnectionLost \/ Tick \/ UNCHANGED demuxerVars
    BY <1>1, <2>3 DEF ReadPacket, ConnectionLost, Tick, demuxerVars
  <2> QED
    BY <2>1, <2>2, <2>3, Cases DEF SessionStep
<1>5. packet' \in Packets
  <2>1. CASE ReadSample
    <3>1. packet' = [pts |-> Stamp, key |-> Present.key, config |-> IF Injected THEN 1 ELSE 0,
                     known |-> 1, first |-> first]
      BY <2>1, SampleSteps
    <3>2. Stamp \in Int /\ Present.key \in BOOLEAN /\ (IF Injected THEN 1 ELSE 0) \in Nat
      BY <2>1, SampleSteps
    <3> QED
      BY <1>1, <3>1, <3>2 DEF Packets
  <2>2. CASE \E key, empty \in BOOLEAN : ReceiveFrame(key, empty)
    <3>1. PICK key \in BOOLEAN, empty \in BOOLEAN : ReceiveFrame(key, empty)
      BY <2>2
    <3>2. \/ packet' = NoPacket
          \/ \E c \in {0, prefix} :
               packet' = [pts |-> 0, key |-> key, config |-> c, known |-> known, first |-> first]
      BY <3>1 DEF ReceiveFrame
    <3> QED
      BY <1>1, <1>2, <3>2, NoneFit DEF Packets
  <2>3. CASE Opening \/ ResetRtsp \/ ReadPacket
    <3>1. packet' = NoPacket
      BY <2>3 DEF Opening, Opened, ResetRtsp, ReadPacket
    <3> QED
      BY <3>1, NoneFit
  <2>4. CASE \/ ReadEnds \/ ReadLoops
             \/ RtspTurn \/ ConnectFails \/ Connect \/ Prime \/ Keepalive \/ KeepaliveFails
             \/ ReceiveNothing \/ ReceiveGivesUp \/ Interrupt \/ ConnectionLost \/ Tick
    <3>1. packet' = packet
      BY <2>4 DEF ReadEnds, ReadLoops, RtspTurn, ConnectFails, Connect, Prime, Keepalive, KeepaliveFails,
                  ReceiveNothing, ReceiveGivesUp, Interrupt, ConnectionLost, Tick
    <3> QED
      BY <1>1, <3>1
  <2>5. CASE UNCHANGED demuxerVars
    BY <1>1, <2>5 DEF demuxerVars
  <2> QED
    BY <2>1, <2>2, <2>3, <2>4, <2>5, FileCases DEF FileAside, SessionStep
<1>6. first' \in BOOLEAN
  <2>1. CASE ReadSample \/ Opening \/ ReadLoops \/ \E key, empty \in BOOLEAN : ReceiveFrame(key, empty)
    BY <2>1 DEF ReadSample, Opening, Opened, ReadLoops, ReceiveFrame
  <2>2. CASE Connect \/ ResetRtsp
    BY <1>1, <2>2 DEF Connect, ResetRtsp, StartRtspPlayback
  <2>3. CASE \/ ReadEnds
             \/ RtspTurn \/ ConnectFails \/ Prime \/ Keepalive \/ KeepaliveFails
             \/ ReceiveNothing \/ ReceiveGivesUp \/ Interrupt \/ ReadPacket \/ ConnectionLost \/ Tick
             \/ UNCHANGED demuxerVars
    BY <1>1, <2>3 DEF ReadEnds, RtspTurn, ConnectFails, Prime, Keepalive, KeepaliveFails,
                      ReceiveNothing, ReceiveGivesUp, Interrupt, ReadPacket, ConnectionLost, Tick, demuxerVars
  <2> QED
    BY <2>1, <2>2, <2>3, FileCases DEF FileAside, SessionStep
<1> QED
  BY <1>3, <1>4, <1>5, <1>6 DEF CallTypes

LEMMA TypesInit ==
  ASSUME DemuxerInit
  PROVE  Types
<1>1. CallTypes
  BY NoneFit DEF DemuxerInit, CallTypes
<1>2. FileTypes
  <2>1. 1 \in 1 .. Len(NoFile.samples) + 1
    BY NoneFit
  <2>2. file \in Mp4Files \cup {NoFile} /\ sample_index \in 1 .. Len(file.samples) + 1
    BY <2>1, NoneFit DEF DemuxerInit
  <2>3. loop_playback \in BOOLEAN /\ decoder_config_sent \in BOOLEAN
    BY Zenon DEF DemuxerInit
  <2>4. /\ nal_length_size \in 1..4
        /\ packet_pts_offset \in Nat /\ current_loop_span \in Nat /\ emitted_pts_cursor \in Nat
        /\ passEnd \in Int /\ passMax \in Int
    BY DEF DemuxerInit
  <2> QED
    BY <2>2, <2>3, <2>4 DEF FileTypes
<1>3. SessionTypes
  BY DEF DemuxerInit, SessionTypes
<1>4. AgeTypes
  <2>1. 0 \in 0 .. CallTime /\ BackoffMin \in Nat
    BY Numbers
  <2> QED
    BY <2>1 DEF DemuxerInit, AgeTypes
<1>5. Places
  BY DEF DemuxerInit, Places
<1> QED
  BY <1>1, <1>2, <1>3, <1>4, <1>5 DEF Types

(* Every variable of the demuxer keeps its type, and a call is in the phase*)
(* that belongs to the kind of input.                                      *)
THEOREM TypeCorrect == DemuxerSpec => []Types
<1>1. ASSUME Types, [DemuxerNext]_demuxerVars
      PROVE  Types'
  BY <1>1, CallTypesStep, FileTypesStep, SessionTypesStep, AgeTypesStep, PlacesStep DEF Types
<1> QED
  BY <1>1, TypesInit, PTL DEF DemuxerSpec

-----------------------------------------------------------------------------
(* Passes over a file.                                                     *)

(* What an opened file begins with: nothing has been read.                 *)
LEMMA PassesOpened ==
  ASSUME NEW f \in Mp4Files \cup {NoFile}, Opened(f)
  PROVE  PassInv'
<1>1. /\ packet' = NoPacket /\ file' = f /\ sample_index' = 1 /\ pc' = "idle"
      /\ packet_pts_offset' = 0 /\ current_loop_span' = 0 /\ emitted_pts_cursor' = 0
      /\ passEnd' = -1 /\ passMax' = -1
  BY DEF Opened
<1>2. ASSUME WellTimed(f)
      PROVE  Passes'
  <2>1. f.samples \in Seq(Sample) /\ Len(f.samples) \in Nat /\ Elapsed(f, 0) = 0
    BY <1>2, FilesFit, ElapsedGrows
  <2>2. (sample_index - 1)' = 0
    BY <1>1
  <2>3. (emitted_pts_cursor >= Elapsed(file, sample_index - 1))'
    BY <1>1, <2>1, <2>2
  <2>4. CASE Unshifted(f)
    <3>1. EndsBefore'
      BY <1>1, <2>4 DEF EndsBefore
    <3> QED
      BY <1>1, <2>3, <3>1 DEF Passes
  <2>5. CASE ~Unshifted(f)
    <3>1. Shifted(f)
      BY <1>2, <2>5, WellTimedIs
    <3>2. Len(f.samples) # 0
      BY <2>1, <2>5 DEF Unshifted
    <3>3. 1 \in 1 .. Len(f.samples)
      BY <2>1, <3>2
    <3>4. Start(f) \in Nat
      BY <1>2, <3>1, <3>3, ShownShifted
    <3>5. EndsBefore'
      BY <1>1, <3>1, <3>2, <3>4 DEF EndsBefore
    <3> QED
      BY <1>1, <2>3, <3>5 DEF Passes
  <2> QED
    BY <2>4, <2>5
<1> QED
  BY <1>1, <1>2 DEF PassInv

(* A sample read: its time stamp lies after the earlier passes, and what   *)
(* has been accounted for covers it.                                       *)
LEMMA PassesSample ==
  ASSUME Types, PassInv, ReadSample
  PROVE  PassInv'
<1> DEFINE i == sample_index
           d == ToMicroseconds(file, Present.dur)
           e == EffectiveDuration(Present)
<1>1. Readable /\ pc = "mp4" /\ pc' = "idle" /\ sample_index' = i + 1 /\ UNCHANGED <<type, file, packet_pts_offset, passEnd>>
  BY DEF ReadSample
<1>2. /\ i \in 1 .. Len(file.samples) /\ Shown(file, i) \in Nat /\ d \in Nat /\ e \in Nat \ {0} /\ e >= d
  BY <1>1, SampleFits DEF Present
<1>3. /\ packet'.pts = Stamp
      /\ emitted_pts_cursor' = emitted_pts_cursor + e
      /\ current_loop_span' = emitted_pts_cursor'
      /\ passMax' = IF passMax >= Stamp THEN passMax ELSE Stamp
      /\ Stamp = packet_pts_offset + Shown(file, i)
  BY SampleSteps DEF Stamp
<1>4. /\ file \in Mp4Files \cup {NoFile} /\ packet_pts_offset \in Nat /\ emitted_pts_cursor \in Nat
      /\ passEnd \in Int /\ passMax \in Int
  BY DEF Types, FileTypes
<1>5. Len(file.samples) \in Nat
  BY <1>4, FilesFit
<1> HIDE DEF d, e
<1>6. ASSUME WellTimed(file)
      PROVE  Passes'
  <2>1. /\ emitted_pts_cursor >= Elapsed(file, i - 1)
        /\ EndsBefore
    BY <1>6 DEF PassInv, Passes
  <2>2. Elapsed(file, i) = Elapsed(file, i - 1) + d /\ Elapsed(file, i - 1) \in Nat /\ Elapsed(file, i) \in Nat
    <3>1. i - 1 \in 0 .. Len(file.samples) /\ i \in 0 .. Len(file.samples)
      BY <1>2, <1>5
    <3> QED
      BY <1>2, <1>4, <1>6, <3>1, ElapsedGrows DEF d, Present
  <2>3. (i + 1) - 1 = i
    BY <1>2
  <2>4. emitted_pts_cursor' >= Elapsed(file', sample_index' - 1)
    <3>1. emitted_pts_cursor + e >= Elapsed(file, i)
      BY <1>2, <1>4, <2>1, <2>2
    <3> QED
      BY <1>1, <1>3, <2>3, <3>1
  <2>5. EndsBefore' /\ packet'.pts > passEnd'
    <3>1. CASE Unshifted(file) /\ passEnd < packet_pts_offset /\ passMax < packet_pts_offset + emitted_pts_cursor
      <4>1. Shown(file, i) = Elapsed(file, i - 1)
        BY <1>2, <1>4, <3>1, ShownUnshifted
      <4>2. Stamp > passEnd /\ Stamp < packet_pts_offset + (emitted_pts_cursor + e)
        BY <1>2, <1>3, <1>4, <2>1, <3>1, <4>1
      <4>3. passMax < packet_pts_offset + (emitted_pts_cursor + e)
        BY <1>2, <1>4, <3>1
      <4>4. passMax' < packet_pts_offset' + emitted_pts_cursor'
        BY <1>1, <1>3, <4>2, <4>3
      <4> QED
        BY <1>1, <1>3, <3>1, <4>2, <4>4 DEF EndsBefore
    <3>2. CASE /\ Shifted(file) /\ Len(file.samples) # 0
               /\ passEnd < packet_pts_offset + Start(file)
               /\ passMax < packet_pts_offset + Start(file) + (IF sample_index = 1 THEN 0 ELSE Total(file))
      <4>1. /\ Start(file) \in Nat /\ Total(file) \in Nat \ {0}
            /\ Start(file) <= Shown(file, i) /\ Shown(file, i) < Start(file) + Total(file)
        BY <1>2, <1>4, <1>6, <3>2, ShownShifted
      <4>2. Stamp > passEnd /\ Stamp < packet_pts_offset + Start(file) + Total(file)
        BY <1>2, <1>3, <1>4, <3>2, <4>1
      <4>3. passMax < packet_pts_offset + Start(file) + Total(file)
        BY <1>4, <3>2, <4>1
      <4>4. passMax' < packet_pts_offset' + Start(file') + Total(file') /\ sample_index' # 1
        BY <1>1, <1>2, <1>3, <4>2, <4>3
      <4> QED
        BY <1>1, <1>3, <3>2, <4>2, <4>4 DEF EndsBefore
    <3> QED
      BY <2>1, <3>1, <3>2 DEF EndsBefore
  <2> QED
    BY <1>1, <2>4, <2>5 DEF Passes
<1> QED
  BY <1>1, <1>3, <1>6 DEF PassInv

(* A loop: a file all of whose samples can be read has been read to its    *)
(* end, so the next pass begins where this one ends.                       *)
LEMMA PassesLoop ==
  ASSUME Types, PassInv, ReadLoops
  PROVE  PassInv'
<1>1. pc = "mp4" /\ ~Readable
  BY DEF ReadLoops
<1>2. /\ packet_pts_offset' \in Nat
      /\ packet_pts_offset > MaxOffset => packet_pts_offset' = packet_pts_offset
      /\ packet_pts_offset <= MaxOffset =>
           /\ packet_pts_offset' > packet_pts_offset
           /\ packet_pts_offset' >= packet_pts_offset + current_loop_span
      /\ current_loop_span' = 0 /\ emitted_pts_cursor' = 0
      /\ passEnd' = passMax /\ passMax' = passMax /\ sample_index' = 1
      /\ UNCHANGED <<type, pc, packet, file>>
  BY LoopSteps
<1>3. /\ file \in Mp4Files \cup {NoFile} /\ packet_pts_offset \in Nat /\ emitted_pts_cursor \in Nat
      /\ passEnd \in Int /\ passMax \in Int /\ sample_index \in 1 .. Len(file.samples) + 1
      /\ nal_length_size \in 1..4 /\ packet = NoPacket
  BY <1>1 DEF Types, FileTypes, Places
<1>4. MaxOffset \in Nat /\ file.samples \in Seq(Sample) /\ Len(file.samples) \in Nat
  BY <1>3, Numbers, FilesFit
<1>5. ASSUME WellTimed(file)
      PROVE  Passes'
  <2>1. /\ emitted_pts_cursor >= Elapsed(file, sample_index - 1)
        /\ packet_pts_offset > MaxOffset => emitted_pts_cursor = 0
        /\ EndsBefore /\ current_loop_span = emitted_pts_cursor
    BY <1>1, <1>5 DEF PassInv, Passes
  <2>2. (emitted_pts_cursor >= Elapsed(file, sample_index - 1))'
    <3>1. Elapsed(file, 0) = 0 /\ (sample_index - 1)' = 0
      BY <1>2, <1>3, <1>5, ElapsedGrows
    <3> QED
      BY <1>2, <3>1
  <2>3. packet_pts_offset' >= packet_pts_offset + emitted_pts_cursor
    BY <1>2, <1>3, <1>4, <2>1
  <2>4. EndsBefore'
    <3>1. CASE Unshifted(file) /\ passEnd < packet_pts_offset /\ passMax < packet_pts_offset + emitted_pts_cursor
      <4>1. passMax < packet_pts_offset'
        BY <1>2, <1>3, <2>3, <3>1
      <4> QED
        BY <1>2, <3>1, <4>1 DEF EndsBefore
    <3>2. CASE /\ Shifted(file) /\ Len(file.samples) # 0
               /\ passEnd < packet_pts_offset + Start(file)
               /\ passMax < packet_pts_offset + Start(file) + (IF sample_index = 1 THEN 0 ELSE Total(file))
      <4>1. 1 \in 1 .. Len(file.samples)
        BY <1>4, <3>2
      <4>2. Start(file) \in Nat /\ Total(file) \in Nat \ {0}
        BY <1>3, <1>5, <3>2, <4>1, ShownShifted
      <4>3. ~AtSample
        <5>1. SUFFICES ASSUME AtSample PROVE FALSE
          OBVIOUS
        <5>2. sample_index \in DOMAIN file.samples
          BY <1>3, <1>4, <5>1 DEF AtSample
        <5>3. file.samples[sample_index] \in Sample
          BY <1>4, <5>2
        <5>4. file.samples[sample_index].sizes \intersect {1, 2, 4} # {}
          BY <3>2, <5>2 DEF Shifted
        <5>5. ParseLengthPrefixedNalUnitsAuto(file.samples[sample_index], nal_length_size) # 0
          BY <1>3, <5>3, <5>4, Parsed
        <5>6. file.timescale # 0
          BY <1>5, WellTimedIs
        <5> QED
          BY <1>1, <5>1, <5>5, <5>6 DEF Readable
      <4>4. sample_index = Len(file.samples) + 1
        BY <1>3, <1>4, <4>3 DEF AtSample
      <4>5. sample_index - 1 = Len(file.samples) /\ sample_index # 1
        BY <1>4, <3>2, <4>4
      <4>6. emitted_pts_cursor >= Total(file)
        BY <2>1, <4>5 DEF Total
      <4>7. passMax < packet_pts_offset' + Start(file)
        BY <1>2, <1>3, <2>3, <3>2, <4>2, <4>5, <4>6
      <4>8. passMax < packet_pts_offset' + Start(file) + 0
        BY <1>2, <4>2, <4>7
      <4> QED
        BY <1>2, <3>2, <4>7, <4>8 DEF EndsBefore
    <3> QED
      BY <2>1, <3>1, <3>2 DEF EndsBefore
  <2>5. emitted_pts_cursor' = 0 /\ packet' = NoPacket
    BY <1>2, <1>3
  <2> QED
    BY <2>2, <2>4, <2>5 DEF Passes
<1> QED
  BY <1>2, <1>5 DEF PassInv

(* A step that leaves the file and the clock alone.                        *)
LEMMA PassesAside ==
  ASSUME PassInv,
         UNCHANGED <<type, file, sample_index, packet_pts_offset, current_loop_span, emitted_pts_cursor,
                     passEnd, passMax>>,
         packet' \in {packet, NoPacket} \/ type # "kMp4File",
         pc' = "mp4" => pc = "mp4" \/ ~(packet_pts_offset > MaxOffset)
  PROVE  PassInv'
<1>1. EndsBefore => EndsBefore'
  BY DEF EndsBefore
<1>2. ASSUME WellTimed(file)
      PROVE  Passes'
  <2>1. Passes
    BY <1>2 DEF PassInv
  <2> QED
    BY <1>1, <2>1 DEF Passes
<1> QED
  BY <1>2 DEF PassInv

LEMMA PassesStep ==
  ASSUME Types, PassInv, [DemuxerNext]_demuxerVars
  PROVE  PassInv'
<1>1. CASE ReadSample
  BY <1>1, PassesSample
<1>2. CASE ReadLoops
  BY <1>2, PassesLoop
<1>3. CASE Opening
  <2>1. \E f \in Mp4Files \cup {NoFile} : Opened(f)
    BY <1>3 DEF Opening, Types, FileTypes
  <2> QED
    BY <2>1, PassesOpened
<1>4. CASE ReadEnds
  BY <1>4, PassesAside DEF ReadEnds
<1>5. CASE SessionStep /\ UNCHANGED mp4Vars
  <2>1. pc \in {"rtsp", "connect", "prime", "keepalive", "receive"} /\ type' = type /\ pc' # "mp4"
    BY <1>5 DEF SessionStep, RtspTurn, ConnectFails, Connect, Prime, Keepalive, KeepaliveFails,
                ReceiveFrame, ReceiveNothing, ReceiveGivesUp
  <2>2. type # "kMp4File"
    BY <2>1 DEF Types, Places
  <2> QED
    BY <1>5, <2>1, <2>2, PassesAside DEF mp4Vars
<1>6. CASE ReadPacket /\ UNCHANGED mp4Vars
  <2>1. ~(packet_pts_offset > MaxOffset)
    <3>1. packet_pts_offset \in Nat /\ MaxOffset \in Nat
      BY Numbers DEF Types, FileTypes
    <3> QED
      BY <1>6, <3>1 DEF ReadPacket
  <2>2. packet' = NoPacket /\ type' = type
    BY <1>6 DEF ReadPacket
  <2> QED
    BY <1>6, <2>1, <2>2, PassesAside DEF mp4Vars
<1>7. CASE (Interrupt \/ ResetRtsp \/ ConnectionLost \/ Tick) /\ UNCHANGED mp4Vars
  <2>1. type' = type /\ pc' = pc /\ packet' \in {packet, NoPacket}
    BY <1>7 DEF Interrupt, ResetRtsp, ConnectionLost, Tick
  <2> QED
    BY <1>7, <2>1, PassesAside DEF mp4Vars
<1>8. CASE UNCHANGED demuxerVars
  BY <1>8, PassesAside DEF demuxerVars, mp4Vars
<1> QED
  BY <1>1, <1>2, <1>3, <1>4, <1>5, <1>6, <1>7, <1>8, FileCases DEF FileAside

-----------------------------------------------------------------------------
(* Parameter sets.                                                         *)

LEMMA ConfigAside ==
  ASSUME ConfigInv, UNCHANGED <<type, first, decoder_config_sent, config_sent, prefix, known>>,
         packet' \in {packet, NoPacket}
  PROVE  ConfigInv'
BY DEF ConfigInv, ConfiguredFirst

(* A session that is closed has neither sent nor learnt anything.          *)
LEMMA ConfigClosed ==
  ASSUME ConfigInv, CloseRtspSession, UNCHANGED <<type, first, decoder_config_sent>>,
         packet' \in {packet, NoPacket}
  PROVE  ConfigInv'
BY DEF ConfigInv, ConfiguredFirst, CloseRtspSession

LEMMA ConfigStarted ==
  ASSUME ConfigInv, StartRtspPlayback, type = "kRtspPull", UNCHANGED type, packet' \in {packet, NoPacket}
  PROVE  ConfigInv'
BY DEF ConfigInv, ConfiguredFirst, StartRtspPlayback

LEMMA ConfigFile ==
  ASSUME Types, ConfigInv, ReadSample \/ ReadEnds \/ ReadLoops
  PROVE  ConfigInv'
<1>1. type = "kMp4File"
  BY DEF ReadSample, ReadEnds, ReadLoops, Types, Places
<1>2. CASE ReadSample
  <2>1. packet' = [pts |-> Stamp, key |-> Present.key, config |-> IF Injected THEN 1 ELSE 0,
                   known |-> 1, first |-> first]
    BY <1>2, SampleSteps
  <2>2. type' = type /\ first' = FALSE /\ prefix' = prefix /\ known' = known
    BY <1>2 DEF ReadSample, rtspVars
  <2>3. first => ~decoder_config_sent
    BY <1>1 DEF ConfigInv
  <2>4. first \/ Present.key => Injected
    BY <2>3 DEF Injected
  <2>5. ConfiguredFirst'
    <3>1. packet'.first = first /\ packet'.key = Present.key /\ packet'.known = 1
      BY <2>1
    <3>2. Injected => packet'.config = 1
      BY <2>1
    <3> QED
      BY <2>4, <3>1, <3>2 DEF ConfiguredFirst
  <2> QED
    BY <1>1, <2>2, <2>5 DEF ConfigInv
<1>3. CASE ReadEnds
  BY <1>3, ConfigAside DEF ReadEnds, rtspVars
<1>4. CASE ReadLoops
  BY <1>1, <1>4 DEF ReadLoops, ResetReader, rtspVars, ConfigInv, ConfiguredFirst
<1> QED
  BY <1>2, <1>3, <1>4

LEMMA ConfigFrame ==
  ASSUME Types, ConfigInv, NEW key \in BOOLEAN, NEW empty \in BOOLEAN, ReceiveFrame(key, empty)
  PROVE  ConfigInv'
<1>1. type = "kRtspPull"
  BY DEF ReceiveFrame, Types, Places
<1>2. first => ~config_sent
  BY <1>1 DEF ConfigInv
<1>3. /\ type' = type /\ first' = FALSE /\ prefix' = prefix /\ known' = known /\ prefix = known
  BY DEF ReceiveFrame, ConfigInv
<1>4. ConfiguredFirst'
  <2> DEFINE inject == ~config_sent \/ key
             config == IF inject THEN prefix ELSE 0
  <2>1. packet' = NoPacket
        \/ packet' = [pts |-> 0, key |-> key, config |-> config, known |-> known, first |-> first]
    BY DEF ReceiveFrame
  <2>2. CASE packet' = NoPacket
    BY <2>2 DEF ConfiguredFirst
  <2>3. CASE packet' = [pts |-> 0, key |-> key, config |-> config, known |-> known, first |-> first]
    <3>1. packet'.first = first /\ packet'.key = key /\ packet'.known = known /\ packet'.config = config
      BY <2>3
    <3>2. first \/ key => config = prefix
      BY <1>2
    <3> HIDE DEF config
    <3> QED
      BY <1>3, <3>1, <3>2 DEF ConfiguredFirst
  <2> QED
    BY <2>1, <2>2, <2>3
<1> QED
  BY <1>1, <1>3, <1>4 DEF ConfigInv

LEMMA ConfigOwner ==
  ASSUME \/ \E uri \in Uris : OpenFails(uri) \/ OpenRtsp(uri)
         \/ \E uri \in Uris, f \in Mp4Files, loop \in BOOLEAN : OpenMp4(uri, f, loop)
         \/ CloseDemuxer
  PROVE  ConfigInv'
<1>1. packet' = NoPacket /\ prefix' = known' /\ decoder_config_sent' = FALSE /\ config_sent' = FALSE
  BY DEF OpenFails, OpenRtsp, OpenMp4, CloseDemuxer, CloseState, CloseRtspSession, ResetReader
<1>2. ~decoder_config_sent' /\ ~config_sent'
  BY <1>1, Zenon
<1> QED
  BY <1>1, <1>2 DEF ConfigInv, ConfiguredFirst

LEMMA ConfigStep ==
  ASSUME Types, ConfigInv, [DemuxerNext]_demuxerVars
  PROVE  ConfigInv'
<1>1. CASE ReadSample \/ ReadEnds \/ ReadLoops
  BY <1>1, ConfigFile
<1>2. CASE \E key, empty \in BOOLEAN : ReceiveFrame(key, empty)
  BY <1>2, ConfigFrame
<1>3. CASE \/ \E uri \in Uris : OpenFails(uri) \/ OpenRtsp(uri)
           \/ \E uri \in Uris, f \in Mp4Files, loop \in BOOLEAN : OpenMp4(uri, f, loop)
           \/ CloseDemuxer
  BY <1>3, ConfigOwner
<1>4. CASE ConnectFails \/ KeepaliveFails \/ ReceiveGivesUp
  BY <1>4, ConfigClosed DEF ConnectFails, KeepaliveFails, ReceiveGivesUp, ScheduleRtspReconnect, mp4Vars
<1>5. CASE Connect
  <2>1. type = "kRtspPull" /\ UNCHANGED <<type, packet>> /\ StartRtspPlayback
    BY <1>5 DEF Connect, Types, Places
  <2> QED
    BY <2>1, ConfigStarted
<1>6. CASE Prime
  <2>1. UNCHANGED <<type, first, decoder_config_sent, packet>>
    BY <1>6 DEF Prime, mp4Vars
  <2>2. CASE UNCHANGED <<prefix, known, config_sent>>
    BY <2>1, <2>2, ConfigAside
  <2>3. CASE prefix' = session /\ known' = session /\ config_sent' = FALSE
    BY <2>1, <2>3 DEF ConfigInv, ConfiguredFirst
  <2> QED
    BY <1>6, <2>2, <2>3 DEF Prime, PrimeRtspStreamInfo
<1>7. CASE ResetRtsp
  <2>1. type = "kRtspPull" /\ UNCHANGED <<type, decoder_config_sent>> /\ packet' = NoPacket
    BY <1>7 DEF ResetRtsp, mp4Vars
  <2>2. CASE UNCHANGED <<playing, session, prefix, config_sent, known, first>>
    BY <2>1, <2>2, ConfigAside
  <2>3. CASE StartRtspPlayback
    BY <2>1, <2>3, ConfigStarted
  <2>4. CASE CloseRtspSession /\ UNCHANGED <<session, first, silence>>
    BY <2>1, <2>4, ConfigClosed
  <2> QED
    BY <1>7, <2>2, <2>3, <2>4 DEF ResetRtsp
<1>8. CASE ResetMp4
  <2>1. type = "kMp4File" /\ packet' = NoPacket /\ decoder_config_sent' = FALSE
        /\ UNCHANGED <<type, prefix, known>>
    BY <1>8 DEF ResetMp4, ResetReader, rtspVars
  <2> QED
    BY <2>1 DEF ConfigInv, ConfiguredFirst
<1>9. CASE RtspTurn \/ Keepalive \/ ReceiveNothing \/ Interrupt \/ ReadPacket \/ ConnectionLost \/ Tick
  <2>1. UNCHANGED <<type, first, decoder_config_sent, config_sent, prefix, known>> /\ packet' \in {packet, NoPacket}
    BY <1>9 DEF RtspTurn, Keepalive, ReceiveNothing, Interrupt, ReadPacket, ConnectionLost, Tick,
                mp4Vars, rtspVars
  <2> QED
    BY <2>1, ConfigAside
<1>10. CASE UNCHANGED demuxerVars
  BY <1>10, ConfigAside DEF demuxerVars, mp4Vars, rtspVars
<1> QED
  BY <1>1, <1>2, <1>3, <1>4, <1>5, <1>6, <1>7, <1>8, <1>9, <1>10, Cases

-----------------------------------------------------------------------------
(* Silence.                                                                *)

LEMMA SilenceStep ==
  ASSUME Types, SilenceInv, [DemuxerNext]_demuxerVars
  PROVE  SilenceInv'
<1>1. /\ nowAge \in Nat /\ nowAge <= CallTime /\ frameAge \in Nat /\ silence \in Nat
      /\ CallTime \in Nat /\ AgeLimit \in Nat
  <2>1. nowAge \in 0 .. CallTime /\ frameAge \in Nat /\ silence \in Nat
    BY DEF Types, AgeTypes
  <2> QED
    BY <2>1, Numbers
<1>2. CASE UNCHANGED <<frameAge, silence, resumed>>
  BY <1>2 DEF SilenceInv
<1>3. CASE \/ ReadSample \/ ReadEnds \/ ReadLoops
           \/ RtspTurn \/ ConnectFails \/ Prime \/ Keepalive \/ ReceiveNothing
           \/ \E uri \in Uris : OpenFails(uri)
           \/ \E uri \in Uris, f \in Mp4Files, loop \in BOOLEAN : OpenMp4(uri, f, loop)
           \/ CloseDemuxer \/ Interrupt \/ ResetMp4 \/ ReadPacket \/ ConnectionLost
  <2>1. UNCHANGED <<frameAge, silence, resumed>>
    BY <1>3 DEF ReadSample, ReadEnds, ReadLoops, RtspTurn, ConnectFails, Prime, Keepalive, ReceiveNothing,
                OpenFails, CloseState, OpenMp4, CloseDemuxer, Interrupt, ResetMp4, ReadPacket, ConnectionLost,
                rtspVars, timeVars
  <2> QED
    BY <1>2, <2>1
<1>4. CASE Connect \/ \E uri \in Uris : OpenRtsp(uri)
  <2>1. frameAge' = 0 /\ silence' = 0
    BY <1>4 DEF Connect, OpenRtsp, StartRtspPlayback, MarkRtspActivity
  <2> QED
    BY <1>1, <2>1 DEF SilenceInv
<1>5. CASE KeepaliveFails \/ ReceiveGivesUp
  <2>1. frameAge' = nowAge /\ silence' = silence
    BY <1>5 DEF KeepaliveFails, ReceiveGivesUp, ScheduleRtspReconnect
  <2> QED
    BY <1>1, <2>1 DEF SilenceInv
<1>6. CASE \E key, empty \in BOOLEAN : ReceiveFrame(key, empty)
  <2>1. frameAge' = nowAge /\ silence' = 0
    BY <1>6 DEF ReceiveFrame, MarkFrame
  <2> QED
    BY <1>1, <2>1 DEF SilenceInv
<1>7. CASE ResetRtsp
  <2>1. resumed' = TRUE
    BY <1>7 DEF ResetRtsp
  <2> QED
    BY <2>1 DEF SilenceInv
<1>8. CASE Tick
  <2>1. frameAge' = Older(frameAge) /\ silence' = Older(silence) /\ resumed' = resumed
    BY <1>8 DEF Tick
  <2>2. ASSUME frameAge <= silence + CallTime
        PROVE  Older(frameAge) <= Older(silence) + CallTime
    BY <1>1, <2>2, OlderFits
  <2> QED
    BY <2>1, <2>2 DEF SilenceInv
<1>9. CASE UNCHANGED demuxerVars
  BY <1>2, <1>9 DEF demuxerVars, rtspVars, timeVars
<1> QED
  BY <1>3, <1>4, <1>5, <1>6, <1>7, <1>8, <1>9, Cases

(* It gives up when more than the time without a frame has passed for it.  *)
LEMMA GivenUpLate ==
  ASSUME Types, SilenceInv, ReceiveGivesUp
  PROVE  silence + CallTime >= NoFrameTimeout \/ resumed
<1>1. nowAge \in Nat /\ frameAge \in Nat /\ silence \in Nat /\ CallTime \in Nat /\ NoFrameTimeout \in Nat
  <2>1. nowAge \in 0 .. CallTime /\ frameAge \in Nat /\ silence \in Nat
    BY DEF Types, AgeTypes
  <2> QED
    BY <2>1, Numbers
<1>2. frameAge - nowAge >= NoFrameTimeout
  BY DEF ReceiveGivesUp, NoFrameTooLong
<1> QED
  BY <1>1, <1>2 DEF SilenceInv

-----------------------------------------------------------------------------
(* The theorems.                                                           *)

(* The inductive invariant holds in every reachable state.                 *)
THEOREM DemuxerInvariant == DemuxerSpec => []DemuxerInv
<1>1. ASSUME DemuxerInit
      PROVE  PassInv /\ ConfigInv /\ SilenceInv
  <2>1. ~WellTimed(NoFile)
    BY WellTimedIs DEF NoFile
  <2>2. PassInv
    BY <1>1, <2>1 DEF DemuxerInit, PassInv
  <2>3. ConfigInv
    BY <1>1 DEF DemuxerInit, ConfigInv, ConfiguredFirst
  <2>4. SilenceInv
    BY <1>1, Numbers DEF DemuxerInit, SilenceInv
  <2> QED
    BY <2>2, <2>3, <2>4
<1>2. ASSUME DemuxerInv, [DemuxerNext]_demuxerVars
      PROVE  PassInv' /\ ConfigInv' /\ SilenceInv'
  BY <1>2, PassesStep, ConfigStep, SilenceStep DEF DemuxerInv
<1>3. ASSUME DemuxerInv, [DemuxerNext]_demuxerVars
      PROVE  Types'
  BY <1>3, CallTypesStep, FileTypesStep, SessionTypesStep, AgeTypesStep, PlacesStep DEF DemuxerInv, Types
<1>4. DemuxerInit => DemuxerInv
  BY <1>1, TypesInit DEF DemuxerInv
<1>5. DemuxerInv /\ [DemuxerNext]_demuxerVars => DemuxerInv'
  BY <1>2, <1>3 DEF DemuxerInv
<1> QED
  BY <1>4, <1>5, PTL DEF DemuxerSpec

(* What is read in one pass over a well-timed file that is played again and*)
(* again (ReadPacket, AdvanceLoopPlaybackState) is later than all that was *)
(* read in the passes before, for any file and number of passes.           *)
THEOREM PassesStayApart == DemuxerSpec => []PassesApart
<1>1. DemuxerInv => PassesApart
  BY DEF DemuxerInv, PassInv, Passes, PassesApart
<1> QED
  BY <1>1, DemuxerInvariant, PTL

(* The first packet of a file, of a pass over it and of an RTSP session,   *)
(* and every key frame, carries the parameter sets the demuxer knows, those*)
(* of this session (ReadNextPacket, ReadPacket, CloseRtspSession).         *)
THEOREM ConfiguredAlwaysFirst == DemuxerSpec => []ConfiguredFirst
<1>1. DemuxerInv => ConfiguredFirst
  BY DEF DemuxerInv, ConfigInv
<1> QED
  BY <1>1, DemuxerInvariant, PTL

(* ReadPacket gives up a session only when no frame has come for as long as*)
(* the no-frame time out says, up to the length of one call, unless Reset  *)
(* was called and no frame has come since.                                 *)
THEOREM GivenUpOnlyWhenSilent == DemuxerSpec => GivenUpWhenSilent
<1>1. DemuxerInv /\ [DemuxerNext]_demuxerVars =>
        [ReceiveGivesUp => silence + CallTime >= NoFrameTimeout \/ resumed]_demuxerVars
  BY GivenUpLate DEF DemuxerInv
<1> QED
  BY <1>1, DemuxerInvariant, PTL DEF DemuxerSpec, GivenUpWhenSilent
=============================================================================
